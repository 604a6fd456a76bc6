--------------------------- MODULE ManifestProofs ---------------------------
EXTENDS Manifest, FiniteSetTheorems, WellFoundedInduction, TLAPS

-------------------------------------------------------------------------------
(* Induction *)

\* Every set of naturals that is not empty has a least one.
LEMMA Least ==
    ASSUME NEW T, T \subseteq Nat, T # {}
    PROVE  \E n \in T : \A m \in T : n <= m
<1> DEFINE R == OpToRel(<, Nat)
<1>1. IsWellFoundedOn(R, Nat)
  BY NatLessThanWellFounded
<1> HIDE DEF R
<1>2. PICK x \in T : \A y \in T : ~(<<y, x>> \in R)
  BY <1>1, WFMin
<1>3. ASSUME NEW y \in T PROVE x <= y
  <2>1. <<y, x>> \notin R
    BY <1>2
  <2> USE DEF R
  <2>2. ~(y < x)
    BY <2>1 DEF OpToRel
  <2> QED
    BY <2>2
<1> QED
  BY <1>3

\* A set with 0 in it, and with n the successor of n, has every natural.
LEMMA SetInduction ==
    ASSUME NEW T, 0 \in T, \A n \in Nat : n \in T => n + 1 \in T
    PROVE  Nat \subseteq T
<1> SUFFICES ASSUME Nat \ T # {} PROVE FALSE
  OBVIOUS
<1>1. PICK n \in Nat \ T : \A m \in Nat \ T : n <= m
  BY Least
<1>2. n - 1 \in Nat /\ n - 1 \notin Nat \ T
  BY <1>1
<1> QED
  BY <1>1, <1>2

\* A recursion over 0 .. L that stays within a set has a solution.
LEMMA Recursion ==
    ASSUME NEW D, NEW a \in D, NEW L \in Nat, NEW G \in [1 .. L -> [D -> D]]
    PROVE  \E f \in [0 .. L -> D] :
              f = [i \in 0 .. L |-> IF i = 0 THEN a ELSE G[i][f[i - 1]]]
<1> DEFINE E(n) == n <= L => \E f \in [0 .. n -> D] :
                      /\ f[0] = a
                      /\ \A i \in 1 .. n : f[i] = G[i][f[i - 1]]
           T == {n \in Nat : E(n)}
<1>1. 0 \in T
  <2> DEFINE z == [i \in 0 .. 0 |-> a]
  <2>1. z \in [0 .. 0 -> D] /\ z[0] = a
    OBVIOUS
  <2> HIDE DEF z
  <2>2. \A i \in 1 .. 0 : z[i] = G[i][z[i - 1]]
    OBVIOUS
  <2>3. E(0)
    BY <2>1, <2>2
  <2> QED
    BY <2>3
<1>2. ASSUME NEW n \in Nat, n \in T PROVE n + 1 \in T
  <2>1. ASSUME n + 1 <= L
        PROVE  \E f \in [0 .. n + 1 -> D] : /\ f[0] = a
                                            /\ \A i \in 1 .. n + 1 : f[i] = G[i][f[i - 1]]
    <3>1. PICK f \in [0 .. n -> D] : /\ f[0] = a
                                     /\ \A i \in 1 .. n : f[i] = G[i][f[i - 1]]
      BY <1>2, <2>1
    <3>2. f[n] \in D /\ G[n + 1] \in [D -> D]
      BY <2>1
    <3> DEFINE next == G[n + 1][f[n]]
    <3>3. next \in D
      BY <3>2
    <3> HIDE DEF next
    <3> DEFINE g == [i \in 0 .. n + 1 |-> IF i \in 0 .. n THEN f[i] ELSE next]
    <3>4. g \in [0 .. n + 1 -> D] /\ g[0] = a
      BY <3>1, <3>3
    <3>5. ASSUME NEW i \in 1 .. n + 1 PROVE g[i] = G[i][g[i - 1]]
      <4>1. CASE i \in 1 .. n
        <5>1. g[i] = f[i] /\ g[i - 1] = f[i - 1]
          BY <4>1
        <5> QED
          BY <3>1, <4>1, <5>1
      <4>2. CASE i = n + 1
        <5>1. g[i] = next /\ g[i - 1] = f[n]
          BY <4>2
        <5> QED
          BY <4>2, <5>1 DEF next
      <4> QED
        BY <4>1, <4>2
    <3> HIDE DEF g
    <3> QED
      BY <3>4, <3>5
  <2>2. E(n + 1)
    BY <2>1
  <2> HIDE DEF E
  <2> QED
    BY <2>2
<1>3. L \in T
  <2> HIDE DEF T
  <2> QED
    BY <1>1, <1>2, SetInduction
<1>4. PICK f \in [0 .. L -> D] : /\ f[0] = a
                                 /\ \A i \in 1 .. L : f[i] = G[i][f[i - 1]]
  BY <1>3
<1>5. \A i \in 0 .. L : f[i] = IF i = 0 THEN a ELSE G[i][f[i - 1]]
  BY <1>4
<1>6. f = [i \in 0 .. L |-> f[i]]
  BY <1>4
<1> QED
  BY <1>5, <1>6

-------------------------------------------------------------------------------
(* The sequences the items are made of *)

\* FlattenSeq adds one row after the other.
LEMMA FlattenExists ==
    ASSUME NEW seqs, NEW L \in Nat
    PROVE  \E f : f = [i \in 1 .. L |-> IF i = 1 THEN seqs[i] ELSE f[i - 1] \o seqs[i]]
<1> DEFINE E(n) == \E f : f = [i \in 1 .. n |-> IF i = 1 THEN seqs[i] ELSE f[i - 1] \o seqs[i]]
           T == {n \in Nat : E(n)}
<1>1. 0 \in T
  <2>1. [i \in 1 .. 0 |-> seqs[i]] = [i \in 1 .. 0 |-> IF i = 1 THEN seqs[i]
                ELSE [j \in 1 .. 0 |-> seqs[j]][i - 1] \o seqs[i]]
    OBVIOUS
  <2> QED
    BY <2>1
<1>2. ASSUME NEW n \in Nat, n \in T PROVE n + 1 \in T
  <2>1. PICK f : f = [i \in 1 .. n |-> IF i = 1 THEN seqs[i] ELSE f[i - 1] \o seqs[i]]
    BY <1>2
  <2> DEFINE next == f[n] \o seqs[n + 1]
  <2> HIDE DEF next
  <2> DEFINE g == [i \in 1 .. n + 1 |-> IF i \in 1 .. n THEN f[i]
                                        ELSE IF i = 1 THEN seqs[i] ELSE next]
  <2>2. ASSUME NEW i \in 1 .. n + 1
        PROVE  g[i] = IF i = 1 THEN seqs[i] ELSE g[i - 1] \o seqs[i]
    <3>1. CASE i \in 1 .. n
      <4>1. f[i] = IF i = 1 THEN seqs[i] ELSE f[i - 1] \o seqs[i]
        BY <2>1, <3>1
      <4>2. i # 1 => g[i - 1] = f[i - 1]
        BY <3>1
      <4> QED
        BY <3>1, <4>1, <4>2
    <3>2. CASE i = n + 1 /\ i # 1
      <4>1. g[i - 1] = f[n] /\ g[i] = next
        BY <3>2
      <4> QED
        BY <3>2, <4>1 DEF next
    <3>3. CASE i = n + 1 /\ i = 1
      BY <3>3
    <3> QED
      BY <3>1, <3>2, <3>3
  <2>3. g = [i \in 1 .. n + 1 |-> IF i = 1 THEN seqs[i] ELSE g[i - 1] \o seqs[i]]
    <3> HIDE DEF g
    <3>1. g = [i \in 1 .. n + 1 |-> g[i]]
      BY DEF g
    <3> QED
      BY <2>2, <3>1
  <2>4. E(n + 1)
    <3> HIDE DEF g
    <3> QED
      BY <2>3
  <2> HIDE DEF E
  <2> QED
    BY <2>4
<1>3. L \in T
  <2> HIDE DEF T
  <2> QED
    BY <1>1, <1>2, SetInduction
<1> QED
  BY <1>3

\* F is the first n rows, one after the other: each element is that of a row and a
\* column, in order.
Laid(seqs, n, F, row, col) ==
    /\ row \in [1 .. Len(F) -> 1 .. n] /\ col \in [1 .. Len(F) -> Nat]
    /\ \A k \in 1 .. Len(F) : col[k] \in 1 .. Len(seqs[row[k]]) /\ F[k] = seqs[row[k]][col[k]]
    /\ \A k, l \in 1 .. Len(F) :
         k < l => row[k] < row[l] \/ (row[k] = row[l] /\ col[k] < col[l])
    /\ \A i \in 1 .. n : \A j \in 1 .. Len(seqs[i]) :
         \E k \in 1 .. Len(F) : row[k] = i /\ col[k] = j

LEMMA LaidStep ==
    ASSUME NEW S, NEW seqs, NEW n \in Nat, seqs[n + 1] \in Seq(S), NEW F \in Seq(S),
           NEW row, NEW col, Laid(seqs, n, F, row, col)
    PROVE  \E r, c : Laid(seqs, n + 1, F \o seqs[n + 1], r, c)
<1> DEFINE s == seqs[n + 1]
           G == F \o s
           M == Len(F)
           r == [k \in 1 .. Len(G) |-> IF k <= M THEN row[k] ELSE n + 1]
           c == [k \in 1 .. Len(G) |-> IF k <= M THEN col[k] ELSE k - M]
<1>1. /\ M \in Nat /\ Len(s) \in Nat /\ Len(G) = M + Len(s)
      /\ \A k \in 1 .. M : G[k] = F[k]
      /\ \A k \in M + 1 .. M + Len(s) : G[k] = s[k - M]
  OBVIOUS
<1>2. /\ row \in [1 .. M -> 1 .. n] /\ col \in [1 .. M -> Nat]
      /\ \A k \in 1 .. M : col[k] \in 1 .. Len(seqs[row[k]]) /\ F[k] = seqs[row[k]][col[k]]
      /\ \A k, l \in 1 .. M :
           k < l => row[k] < row[l] \/ (row[k] = row[l] /\ col[k] < col[l])
      /\ \A i \in 1 .. n : \A j \in 1 .. Len(seqs[i]) :
           \E k \in 1 .. M : row[k] = i /\ col[k] = j
  BY DEF Laid
<1> HIDE DEF G, M
<1>3. /\ \A k \in 1 .. M : k \in 1 .. Len(G) /\ r[k] = row[k] /\ c[k] = col[k]
      /\ \A k \in M + 1 .. Len(G) : k \in 1 .. Len(G) /\ r[k] = n + 1 /\ c[k] = k - M
  BY <1>1
<1>4. r \in [1 .. Len(G) -> 1 .. n + 1] /\ c \in [1 .. Len(G) -> Nat]
  BY <1>1, <1>2
<1> HIDE DEF r, c
<1>5. ASSUME NEW k \in 1 .. Len(G)
      PROVE  c[k] \in 1 .. Len(seqs[r[k]]) /\ G[k] = seqs[r[k]][c[k]]
  <2>1. CASE k <= M
    <3>1. k \in 1 .. M
      BY <2>1, <1>1
    <3>2. r[k] = row[k] /\ c[k] = col[k] /\ G[k] = F[k]
      BY <3>1, <1>1, <1>3
    <3>3. col[k] \in 1 .. Len(seqs[row[k]]) /\ F[k] = seqs[row[k]][col[k]]
      BY <3>1, <1>2
    <3> QED
      BY <3>2, <3>3
  <2>2. CASE k > M
    <3>1. k \in M + 1 .. M + Len(s) /\ k - M \in 1 .. Len(s)
      BY <2>2, <1>1
    <3>2. r[k] = n + 1 /\ c[k] = k - M /\ G[k] = s[k - M]
      BY <3>1, <1>1, <1>3
    <3> QED
      BY <3>1, <3>2
  <2> QED
    BY <2>1, <2>2, <1>1
<1>6. ASSUME NEW k \in 1 .. Len(G), NEW l \in 1 .. Len(G), k < l
      PROVE  r[k] < r[l] \/ (r[k] = r[l] /\ c[k] < c[l])
  <2>1. CASE l <= M
    <3>1. k \in 1 .. M /\ l \in 1 .. M
      BY <2>1, <1>6, <1>1
    <3>2. row[k] < row[l] \/ (row[k] = row[l] /\ col[k] < col[l])
      BY <3>1, <1>2, <1>6
    <3>3. r[k] = row[k] /\ r[l] = row[l] /\ c[k] = col[k] /\ c[l] = col[l]
      BY <3>1, <1>3
    <3> QED
      BY <3>2, <3>3
  <2>2. CASE k <= M /\ l > M
    <3>1. k \in 1 .. M /\ l \in M + 1 .. Len(G)
      BY <2>2, <1>1
    <3>2. r[k] = row[k] /\ r[l] = n + 1
      BY <3>1, <1>3
    <3>3. row[k] \in 1 .. n
      BY <3>1, <1>2
    <3>4. r[k] < r[l]
      BY <3>2, <3>3
    <3> QED
      BY <3>4
  <2>3. CASE k > M
    <3>1. k \in M + 1 .. Len(G) /\ l \in M + 1 .. Len(G)
      BY <2>3, <1>1, <1>6
    <3>2. r[k] = n + 1 /\ r[l] = n + 1 /\ c[k] = k - M /\ c[l] = l - M
      BY <3>1, <1>3
    <3> QED
      BY <3>2, <1>1, <1>6
  <2> QED
    BY <2>1, <2>2, <2>3, <1>1
<1>7. ASSUME NEW i \in 1 .. n + 1, NEW j \in 1 .. Len(seqs[i])
      PROVE  \E k \in 1 .. Len(G) : r[k] = i /\ c[k] = j
  <2>1. CASE i <= n
    <3>1. PICK k \in 1 .. M : row[k] = i /\ col[k] = j
      BY <2>1, <1>2
    <3> QED
      BY <3>1, <1>3
  <2>2. CASE i = n + 1
    <3>1. j \in 1 .. Len(s)
      BY <2>2
    <3>2. M + j \in M + 1 .. Len(G) /\ (M + j) - M = j
      BY <3>1, <1>1
    <3> QED
      BY <2>2, <3>2, <1>3
  <2> QED
    BY <2>1, <2>2
<1>8. Laid(seqs, n + 1, G, r, c)
  BY <1>4, <1>5, <1>6, <1>7 DEF Laid
<1> QED
  BY <1>8 DEF G

\* FlattenSeq lays all rows.
LEMMA Flattened ==
    ASSUME NEW S, NEW seqs \in Seq(Seq(S))
    PROVE  /\ FlattenSeq(seqs) \in Seq(S)
           /\ \E r, c : Laid(seqs, Len(seqs), FlattenSeq(seqs), r, c)
<1> DEFINE L == Len(seqs)
<1>1. L \in Nat /\ \A i \in 1 .. L : seqs[i] \in Seq(S)
  OBVIOUS
<1>2. CASE L = 0
  <2>1. seqs = <<>> /\ FlattenSeq(seqs) = <<>>
    BY <1>2 DEF FlattenSeq
  <2>2. Laid(seqs, 0, <<>>, <<>>, <<>>)
    BY DEF Laid
  <2>3. <<>> \in Seq(S)
    OBVIOUS
  <2>4. \E r, c : Laid(seqs, 0, <<>>, r, c)
    BY <2>2
  <2> QED
    BY <1>2, <2>1, <2>3, <2>4
<1>3. CASE L # 0
  <2> DEFINE f == CHOOSE f : f = [i \in 1 .. L |-> IF i = 1 THEN seqs[i] ELSE f[i - 1] \o seqs[i]]
  <2>1. f = [i \in 1 .. L |-> IF i = 1 THEN seqs[i] ELSE f[i - 1] \o seqs[i]]
    BY <1>1, FlattenExists
  <2>2. FlattenSeq(seqs) = f[L]
    BY <1>3 DEF FlattenSeq
  <2> HIDE DEF f
  <2> DEFINE E(n) == n + 1 <= L =>
                       f[n + 1] \in Seq(S) /\ \E r, c : Laid(seqs, n + 1, f[n + 1], r, c)
             T == {n \in Nat : E(n)}
  <2>3. E(0)
    <3>1. f[1] = seqs[1] /\ seqs[1] \in Seq(S)
      BY <1>1, <1>3, <2>1
    <3>2. Laid(seqs, 0, <<>>, <<>>, <<>>)
      BY DEF Laid
    <3>3. seqs[0 + 1] \in Seq(S) /\ <<>> \in Seq(S) /\ 0 \in Nat
      BY <3>1
    <3>5. \E r, c : Laid(seqs, 0 + 1, <<>> \o seqs[0 + 1], r, c)
      <4> HIDE DEF L, f, E, T
      <4> QED
        BY <3>2, <3>3, LaidStep
    <3>4. <<>> \o seqs[0 + 1] = f[0 + 1]
      BY <3>1
    <3> QED
      BY <3>1, <3>5, <3>4
  <2>4. ASSUME NEW n \in Nat, E(n) PROVE E(n + 1)
    <3> SUFFICES ASSUME (n + 1) + 1 <= L
                 PROVE  /\ f[(n + 1) + 1] \in Seq(S)
                        /\ \E r, c : Laid(seqs, (n + 1) + 1, f[(n + 1) + 1], r, c)
      OBVIOUS
    <3>1. f[n + 1] \in Seq(S) /\ \E r, c : Laid(seqs, n + 1, f[n + 1], r, c)
      <4>1. n + 1 <= L
        BY <1>1
      <4> QED
        BY <2>4, <4>1
    <3>2. f[(n + 1) + 1] = f[n + 1] \o seqs[(n + 1) + 1]
      <4>1. \A i \in 1 .. L : i # 1 => f[i] = f[i - 1] \o seqs[i]
        BY <2>1
      <4>2. (n + 1) + 1 \in 1 .. L /\ (n + 1) + 1 # 1 /\ ((n + 1) + 1) - 1 = n + 1
        BY <1>1
      <4> HIDE DEF L
      <4> QED
        BY <4>1, <4>2
    <3>3. seqs[(n + 1) + 1] \in Seq(S)
      BY <1>1
    <3>4. \E r, c : Laid(seqs, (n + 1) + 1, f[n + 1] \o seqs[(n + 1) + 1], r, c)
      <4>1. PICK r, c : Laid(seqs, n + 1, f[n + 1], r, c)
        BY <3>1
      <4> QED
        BY <4>1, <3>1, <3>3, LaidStep
    <3>5. f[n + 1] \o seqs[(n + 1) + 1] \in Seq(S)
      BY <3>1, <3>3
    <3> QED
      BY <3>2, <3>4, <3>5
  <2> HIDE DEF E
  <2>5. Nat \subseteq T
    <3>1. 0 \in T /\ \A n \in Nat : n \in T => n + 1 \in T
      BY <2>3, <2>4
    <3> HIDE DEF T
    <3> QED
      BY <3>1, SetInduction
  <2>6. E(L - 1)
    BY <2>5, <1>1, <1>3
  <2>7. f[L] \in Seq(S) /\ \E r, c : Laid(seqs, L, f[L], r, c)
    BY <2>6, <1>1 DEF E
  <2> QED
    BY <2>2, <2>7
<1> QED
  BY <1>2, <1>3

Valid(m) == IsManifest(m) /\ validate(m)

\* Resources, and no resource.
Up(m) == Keys(m.resources) \cup {None}

LEMMA ParentIs ==
    ASSUME NEW m, Valid(m)
    PROVE  /\ Len(m.resources) \in Nat /\ None \notin Keys(m.resources)
           /\ Parent(m) \in [Up(m) -> Up(m)] /\ Parent(m)[None] = None
<1>1. m.resources \in Seq(ToSet(m.resources)) /\ None \notin Keys(m.resources)
  BY DEF Valid, IsManifest
<1>2. \A i \in DOMAIN m.resources : m.resources[i].parent \in Up(m)
  BY DEF Valid, validate, Up
<1>3. \A k \in Keys(m.resources) : \E i \in DOMAIN m.resources : m.resources[i].key = k
  BY DEF Keys
<1>4. ASSUME NEW k \in Keys(m.resources) PROVE Parent(m)[k] \in Up(m)
  <2>1. (CHOOSE i \in DOMAIN m.resources : m.resources[i].key = k) \in DOMAIN m.resources
    BY <1>3
  <2>2. k # None
    BY <1>1
  <2> QED
    BY <1>2, <2>1, <2>2 DEF Parent
<1>5. Parent(m)[None] = None /\ None \in Up(m)
  BY DEF Parent, Up
<1>6. Parent(m) = [k \in Up(m) |-> Parent(m)[k]]
  BY DEF Parent, Up
<1>7. \A k \in Up(m) : Parent(m)[k] \in Up(m)
  BY <1>4, <1>5 DEF Up
<1>8. Parent(m) \in [Up(m) -> Up(m)]
  BY <1>6, <1>7
<1> QED
  BY <1>1, <1>5, <1>8

LEMMA AncestorsAre ==
    ASSUME NEW m, Valid(m), NEW k \in Up(m)
    PROVE  /\ Ancestors(m, k) \in [0 .. Len(m.resources) -> Up(m)]
           /\ Ancestors(m, k)[0] = k
           /\ \A n \in 1 .. Len(m.resources) :
                Ancestors(m, k)[n] = Parent(m)[Ancestors(m, k)[n - 1]]
<1> DEFINE L == Len(m.resources)
           P == Parent(m)
           G == [i \in 1 .. L |-> P]
<1>1. L \in Nat /\ P \in [Up(m) -> Up(m)]
  BY ParentIs
<1>2. Ancestors(m, k) = CHOOSE up : up = [n \in 0 .. L |-> IF n = 0 THEN k ELSE P[up[n - 1]]]
  BY DEF Ancestors
<1> HIDE DEF L, P
<1>3. G \in [1 .. L -> [Up(m) -> Up(m)]]
  BY <1>1
<1>4. PICK f \in [0 .. L -> Up(m)] : f = [i \in 0 .. L |-> IF i = 0 THEN k ELSE G[i][f[i - 1]]]
  <2> HIDE DEF G
  <2> QED
    BY <1>1, <1>3, Recursion
<1>5. f = [i \in 0 .. L |-> IF i = 0 THEN k ELSE P[f[i - 1]]]
  <2>1. \A i \in 0 .. L : f[i] = IF i = 0 THEN k ELSE P[f[i - 1]]
    <3>1. \A i \in 0 .. L : f[i] = IF i = 0 THEN k ELSE G[i][f[i - 1]]
      BY <1>4
    <3>2. \A i \in 0 .. L : i # 0 => G[i] = P
      BY <1>1
    <3> QED
      BY <3>1, <3>2
  <2> QED
    BY <2>1
<1>6. Ancestors(m, k) = [n \in 0 .. L |-> IF n = 0 THEN k ELSE P[Ancestors(m, k)[n - 1]]]
  BY <1>2, <1>5
<1> DEFINE up == Ancestors(m, k)
<1> HIDE DEF up
<1>7. up = [n \in 0 .. L |-> IF n = 0 THEN k ELSE P[up[n - 1]]]
  BY <1>6 DEF up
<1>8. up[0] = k /\ \A n \in 1 .. L : up[n] = P[up[n - 1]]
  BY <1>1, <1>7
<1>9. \A n \in 0 .. L : up[n] \in Up(m)
  <2> DEFINE T == {n \in Nat : n <= L => up[n] \in Up(m)}
  <2>1. 0 \in T
    BY <1>8
  <2>2. ASSUME NEW n \in Nat, n \in T PROVE n + 1 \in T
    <3>1. ASSUME n + 1 <= L PROVE up[n + 1] \in Up(m)
      <4>1. n + 1 \in 1 .. L /\ (n + 1) - 1 = n
        BY <3>1, <1>1
      <4>2. up[n + 1] = P[up[n]] /\ up[n] \in Up(m)
        BY <4>1, <1>8, <2>2, <1>1
      <4> QED
        BY <4>2, <1>1
    <3> QED
      BY <3>1
  <2> HIDE DEF T
  <2>3. Nat \subseteq T
    BY <2>1, <2>2, SetInduction
  <2> QED
    BY <2>3, <1>1 DEF T
<1>10. up \in [0 .. L -> Up(m)]
  BY <1>7, <1>9
<1> QED
  BY <1>8, <1>10 DEF up, L, P

\* Resources that have an ancestor in common have those above it in common.
LEMMA PathsJoin ==
    ASSUME NEW m, Valid(m), NEW k \in Up(m), NEW l \in Up(m),
           NEW a \in Nat, NEW b \in Nat, a <= b, b <= Len(m.resources),
           Ancestors(m, k)[a] = Ancestors(m, l)[b]
    PROVE  \A n \in Nat : b + n <= Len(m.resources) =>
               Ancestors(m, k)[a + n] = Ancestors(m, l)[b + n]
<1> DEFINE L == Len(m.resources)
           T == {n \in Nat : b + n <= L => Ancestors(m, k)[a + n] = Ancestors(m, l)[b + n]}
<1>1. L \in Nat
  BY ParentIs
<1>2. 0 \in T
  OBVIOUS
<1>3. ASSUME NEW n \in Nat, n \in T PROVE n + 1 \in T
  <2>1. ASSUME b + (n + 1) <= L
        PROVE  Ancestors(m, k)[a + (n + 1)] = Ancestors(m, l)[b + (n + 1)]
    <3>1. /\ a + (n + 1) \in 1 .. L /\ b + (n + 1) \in 1 .. L
          /\ (a + (n + 1)) - 1 = a + n /\ (b + (n + 1)) - 1 = b + n /\ b + n <= L
      BY <2>1, <1>1
    <3>2. Ancestors(m, k)[a + n] = Ancestors(m, l)[b + n]
      BY <1>3, <3>1
    <3>3. /\ Ancestors(m, k)[a + (n + 1)] = Parent(m)[Ancestors(m, k)[a + n]]
          /\ Ancestors(m, l)[b + (n + 1)] = Parent(m)[Ancestors(m, l)[b + n]]
      <4> HIDE DEF L
      <4>1. \A j \in 1 .. L : /\ Ancestors(m, k)[j] = Parent(m)[Ancestors(m, k)[j - 1]]
                              /\ Ancestors(m, l)[j] = Parent(m)[Ancestors(m, l)[j - 1]]
        BY AncestorsAre DEF L
      <4> QED
        BY <3>1, <4>1
    <3> QED
      BY <3>2, <3>3
  <2> QED
    BY <2>1
<1> HIDE DEF T
<1>4. Nat \subseteq T
  BY <1>2, <1>3, SetInduction
<1> QED
  BY <1>4 DEF T

\* A resource is not above itself: up to the first that has no parent, its ancestors
\* are all different.
LEMMA AncestorsDiffer ==
    ASSUME NEW m, Valid(m), NEW k \in Keys(m.resources),
           NEW n \in 0 .. Len(m.resources), \A i \in 0 .. n - 1 : Ancestors(m, k)[i] # None,
           NEW a \in 0 .. n - 1, NEW b \in 0 .. n - 1, a < b
    PROVE  Ancestors(m, k)[a] # Ancestors(m, k)[b]
<1> DEFINE L == Len(m.resources)
           up == Ancestors(m, k)
           C == {i \in 0 .. L : up[i] = None}
<1>1. L \in Nat /\ k \in Up(m)
  BY ParentIs DEF Up
<1>2. up[L] = None
  BY DEF Valid, validate, Acyclic
<1> HIDE DEF L, up
<1>3. PICK c \in C : \A i \in C : c <= i
  <2>1. L \in C
    BY <1>1, <1>2
  <2>2. C \subseteq Nat /\ C # {}
    BY <2>1
  <2> HIDE DEF C
  <2> QED
    BY <2>2, Least
<1>4. c \in Nat /\ c <= L /\ up[c] = None /\ n <= L
  BY <1>1 DEF L
<1>10. a \in Nat /\ b \in Nat /\ a < b /\ b < n /\ n \in Nat
  BY <1>1 DEF L
<1>5. ~(c < n)
  BY <1>4 DEF up
<1>6. SUFFICES ASSUME up[a] = up[b] PROVE FALSE
  BY DEF up
<1>7. c - b \in Nat /\ b + (c - b) = c /\ a + (c - b) < c /\ a + (c - b) \in 0 .. L
  BY <1>1, <1>4, <1>5, <1>10
<1>8. up[a + (c - b)] = up[b + (c - b)]
  <2>1. a <= b /\ b <= Len(m.resources) /\ Ancestors(m, k)[a] = Ancestors(m, k)[b]
    BY <1>1, <1>4, <1>6, <1>10 DEF up, L
  <2>2. \A i \in Nat : b + i <= Len(m.resources) =>
               Ancestors(m, k)[a + i] = Ancestors(m, k)[b + i]
    BY <1>1, <1>10, <2>1, PathsJoin
  <2> QED
    BY <1>4, <1>7, <2>2 DEF up, L
<1>9. a + (c - b) \in C
  BY <1>4, <1>7, <1>8
<1> QED
  BY <1>3, <1>7, <1>9, <1>4

\* A sequence of different resources, each after its parent.
InOrder(m, s) ==
    /\ s \in Seq(Keys(m.resources))
    /\ \A i, j \in 1 .. Len(s) : s[i] = s[j] => i = j
    /\ \A i \in 1 .. Len(s) :
         Parent(m)[s[i]] = None \/ \E j \in 1 .. i - 1 : s[j] = Parent(m)[s[i]]

LEMMA PlaceKeepsOrder ==
    ASSUME NEW m, Valid(m), NEW s, InOrder(m, s), NEW k \in Keys(m.resources)
    PROVE  /\ InOrder(m, Place(m, s, k))
           /\ Len(s) <= Len(Place(m, s, k))
           /\ \A i \in 1 .. Len(s) : Place(m, s, k)[i] = s[i]
           /\ \E i \in 1 .. Len(Place(m, s, k)) : Place(m, s, k)[i] = k
<1> DEFINE L == Len(m.resources)
           K == Keys(m.resources)
           up == Ancestors(m, k)
           M == Len(s)
           placed == ToSet(s) \cup {None}
           n == CHOOSE i \in DOMAIN up : up[i] \in placed /\ \A j \in 0 .. i - 1 : up[j] \notin placed
           new == [i \in 1 .. n |-> up[n - i]]
           t == s \o new
<1>1. Place(m, s, k) = t
  BY DEF Place
<1>2. /\ L \in Nat /\ k \in Up(m) /\ None \notin K
      /\ up \in [0 .. L -> Up(m)] /\ up[0] = k
      /\ \A i \in 1 .. L : up[i] = Parent(m)[up[i - 1]]
  <2>1. k \in Up(m)
    BY DEF Up
  <2> QED
    BY <2>1, ParentIs, AncestorsAre
<1>3. up[L] = None
  BY DEF Valid, validate, Acyclic
<1>4. M \in Nat /\ s \in Seq(K) /\ \A i \in 1 .. M : s[i] \in K
  BY DEF InOrder
<1>5. placed = {s[i] : i \in 1 .. M} \cup {None}
  BY <1>4 DEF ToSet
<1>6. /\ n \in 0 .. L /\ up[n] \in placed
      /\ \A j \in 0 .. n - 1 : up[j] \notin placed
  <2> DEFINE C == {i \in 0 .. L : up[i] \in placed}
  <2>1. L \in C
    BY <1>2, <1>3
  <2>2. PICK c \in C : \A i \in C : c <= i
    <3>1. C \subseteq Nat /\ C # {}
      BY <2>1
    <3> HIDE DEF C
    <3> QED
      BY <3>1, Least
  <2>3. c \in 0 .. L /\ up[c] \in placed /\ DOMAIN up = 0 .. L
    BY <1>2
  <2>4. ASSUME NEW j \in 0 .. c - 1 PROVE up[j] \notin placed
    <3>1. j \in 0 .. L /\ ~(c <= j)
      BY <2>3, <1>2
    <3>2. j \notin C
      BY <2>2, <3>1
    <3> QED
      BY <3>1, <3>2
  <2> HIDE DEF up, placed
  <2> QED
    BY <2>3, <2>4
<1> HIDE DEF n, placed, up
<1>7. \A i \in 0 .. n - 1 : up[i] \in K /\ up[i] # None
  <2>1. ASSUME NEW i \in 0 .. n - 1 PROVE up[i] \in K /\ up[i] # None
    <3>1. i \in 0 .. L /\ up[i] \notin placed
      BY <1>2, <1>6
    <3> QED
      BY <1>2, <3>1 DEF placed, Up
  <2> QED
    BY <2>1
<1>8. new \in Seq(K) /\ Len(new) = n /\ \A i \in 1 .. n : new[i] = up[n - i] /\ n - i \in 0 .. n - 1
  <2>1. \A i \in 1 .. n : n - i \in 0 .. n - 1 /\ up[n - i] \in K
    BY <1>6, <1>7, <1>2
  <2>2. n \in Nat
    BY <1>6, <1>2
  <2>3. new \in [1 .. n -> K]
    BY <2>1
  <2>4. new \in Seq(K) /\ Len(new) = n
    <3> HIDE DEF new, K
    <3> QED
      BY <2>2, <2>3
  <2> QED
    BY <2>1, <2>4
<1> HIDE DEF new
<1>9. /\ t \in Seq(K) /\ Len(t) = M + n
      /\ \A i \in 1 .. M : t[i] = s[i]
      /\ \A i \in M + 1 .. M + n : t[i] = new[i - M]
  <2>1. Len(s) \in Nat /\ n \in Nat /\ s \in Seq(K) /\ new \in Seq(K) /\ Len(new) = n
    BY <1>4, <1>6, <1>8, <1>2
  <2> HIDE DEF K
  <2> QED
    BY <2>1
<1> HIDE DEF t, M
<1>10. \A i \in 1 .. n : new[i] \notin placed
  BY <1>6, <1>8
<1>11. ASSUME NEW i \in 1 .. n, NEW j \in 1 .. n, new[i] = new[j] PROVE i = j
  <2>1. \A a, b \in 0 .. n - 1 : a < b => up[a] # up[b]
    <3>1. \A a \in 0 .. n - 1 : Ancestors(m, k)[a] # None
      BY <1>7 DEF up
    <3>2. n \in 0 .. Len(m.resources)
      BY <1>6
    <3> QED
      BY <3>1, <3>2, AncestorsDiffer DEF up
  <2>2. n - i \in 0 .. n - 1 /\ n - j \in 0 .. n - 1 /\ up[n - i] = up[n - j] /\ n \in Nat
    BY <1>6, <1>8, <1>11, <1>2
  <2> QED
    BY <2>1, <2>2
<1>12. ASSUME NEW i \in 1 .. M + n, NEW j \in 1 .. M + n, t[i] = t[j] PROVE i = j
  <2>1. CASE i <= M /\ j <= M
    <3>1. i \in 1 .. M /\ j \in 1 .. M /\ s[i] = s[j]
      BY <2>1, <1>12, <1>9, <1>4
    <3> QED
      BY <3>1 DEF InOrder, M
  <2>2. CASE i > M /\ j > M
    <3>1. i - M \in 1 .. n /\ j - M \in 1 .. n /\ i \in M + 1 .. M + n /\ j \in M + 1 .. M + n
      BY <2>2, <1>4, <1>6, <1>2
    <3>2. new[i - M] = new[j - M]
      BY <3>1, <1>12, <1>9
    <3>3. i - M = j - M
      BY <3>1, <3>2, <1>11
    <3> QED
      BY <3>3, <1>4
  <2>3. ASSUME NEW a \in 1 .. M, NEW b \in M + 1 .. M + n PROVE t[a] # t[b]
    <3>1. t[a] \in placed
      BY <1>5, <1>9
    <3>2. b - M \in 1 .. n
      BY <1>4, <1>6, <1>2
    <3>3. t[b] = new[b - M]
      BY <1>9
    <3> QED
      BY <3>1, <3>2, <3>3, <1>10
  <2>4. (i <= M /\ j <= M) \/ (i > M /\ j > M) \/ (i \in 1 .. M /\ j \in M + 1 .. M + n)
        \/ (j \in 1 .. M /\ i \in M + 1 .. M + n)
    BY <1>4, <1>6, <1>2
  <2> QED
    BY <2>1, <2>2, <2>3, <2>4, <1>12
<1>13. ASSUME NEW i \in 1 .. M + n
       PROVE  Parent(m)[t[i]] = None \/ \E j \in 1 .. i - 1 : t[j] = Parent(m)[t[i]]
  <2>1. CASE i <= M
    <3>1. i \in 1 .. M /\ t[i] = s[i]
      BY <2>1, <1>9, <1>4
    <3>2. CASE Parent(m)[s[i]] = None
      BY <3>1, <3>2
    <3>3. CASE \E j \in 1 .. i - 1 : s[j] = Parent(m)[s[i]]
      <4>1. PICK j \in 1 .. i - 1 : s[j] = Parent(m)[s[i]]
        BY <3>3
      <4>2. j \in 1 .. M
        BY <3>1, <1>4
      <4> QED
        BY <3>1, <4>1, <4>2, <1>9
    <3> QED
      BY <3>1, <3>2, <3>3 DEF InOrder, M
  <2>2. CASE i > M
    <3> DEFINE a == n - (i - M)
    <3>1. i - M \in 1 .. n /\ i \in M + 1 .. M + n /\ a \in 0 .. n - 1 /\ t[i] = up[a]
      BY <2>2, <1>4, <1>6, <1>8, <1>9, <1>2
    <3>2. Parent(m)[t[i]] = up[a + 1]
      <4>1. a + 1 \in 1 .. L /\ (a + 1) - 1 = a
        BY <3>1, <1>6, <1>2
      <4> HIDE DEF a
      <4> QED
        BY <3>1, <4>1, <1>2
    <3>3. CASE a + 1 = n
      <4>1. up[a + 1] \in placed
        BY <3>3, <1>6
      <4>2. CASE up[a + 1] # None
        <5>1. PICK j \in 1 .. M : s[j] = up[a + 1]
          BY <4>1, <4>2, <1>5
        <5>2. j \in 1 .. i - 1 /\ t[j] = s[j]
          BY <2>2, <1>4, <1>9
        <5> QED
          BY <5>1, <5>2, <3>2
      <4> QED
        BY <4>2, <3>2
    <3>4. CASE a + 1 # n
      <4>1. /\ (i - M) - 1 \in 1 .. n /\ i - 1 \in M + 1 .. M + n /\ i - 1 \in 1 .. i - 1
            /\ (i - 1) - M = (i - M) - 1 /\ n - ((i - M) - 1) = a + 1
        BY <3>1, <3>4, <1>4, <1>6, <1>2
      <4>2. t[i - 1] = new[(i - M) - 1]
        BY <4>1, <1>9
      <4>3. new[(i - M) - 1] = up[n - ((i - M) - 1)]
        BY <4>1, <1>8
      <4> QED
        BY <4>1, <4>2, <4>3, <3>2
    <3> QED
      BY <3>3, <3>4
  <2> QED
    BY <2>1, <2>2, <1>4, <1>6, <1>2
<1>14. \E i \in 1 .. M + n : t[i] = k
  <2>1. CASE n = 0
    <3>1. k \in placed /\ k # None
      BY <2>1, <1>2, <1>6
    <3>2. PICK i \in 1 .. M : s[i] = k
      BY <3>1, <1>5
    <3> QED
      BY <3>2, <2>1, <1>4, <1>9
  <2>2. CASE n # 0
    <3>1. n \in 1 .. n /\ n - n = 0 /\ M + n \in M + 1 .. M + n /\ (M + n) - M = n /\ M + n \in 1 .. M + n
      BY <2>2, <1>4, <1>6, <1>2
    <3>2. t[M + n] = new[n] /\ new[n] = up[n - n]
      BY <3>1, <1>8, <1>9
    <3> QED
      BY <3>1, <3>2, <1>2
  <2> QED
    BY <2>1, <2>2
<1>15. InOrder(m, t)
  BY <1>9, <1>12, <1>13 DEF InOrder
<1>16. M <= Len(t)
  BY <1>4, <1>6, <1>9, <1>2
<1> QED
  BY <1>1, <1>9, <1>14, <1>15, <1>16 DEF M

\* Every resource is created in its turn, after its parent (plan.ts:topologicalOrder).
LEMMA TopologicalOrder ==
    ASSUME NEW m, Valid(m)
    PROVE  /\ InOrder(m, topologicalOrder(m))
           /\ \A k \in Keys(m.resources) :
                \E i \in 1 .. Len(topologicalOrder(m)) : topologicalOrder(m)[i] = k
<1> DEFINE L == Len(m.resources)
           K == Keys(m.resources)
           D == {s \in Seq(K) : InOrder(m, s)}
           G == [i \in 1 .. L |-> [s \in D |-> Place(m, s, m.resources[i].key)]]
<1>1. L \in Nat
  BY ParentIs
<1>2. \A i \in 1 .. L : m.resources[i].key \in K
  <2>1. DOMAIN m.resources = 1 .. L
    BY DEF Valid, IsManifest
  <2> QED
    BY <2>1 DEF Keys
<1>3. G \in [1 .. L -> [D -> D]]
  <2>1. ASSUME NEW i \in 1 .. L, NEW s \in D PROVE Place(m, s, m.resources[i].key) \in D
    <3>1. InOrder(m, s) /\ m.resources[i].key \in K
      BY <1>2
    <3>2. InOrder(m, Place(m, s, m.resources[i].key))
      BY <3>1, PlaceKeepsOrder
    <3> QED
      BY <3>2 DEF InOrder
  <2> HIDE DEF D
  <2> QED
    BY <2>1
<1>4. <<>> \in D
  BY DEF InOrder
<1>5. PICK f \in [0 .. L -> D] : f = [i \in 0 .. L |-> IF i = 0 THEN <<>> ELSE G[i][f[i - 1]]]
  <2> HIDE DEF G, D, L
  <2> QED
    BY <1>1, <1>3, <1>4, Recursion
<1>6. f = [n \in 0 .. L |-> IF n = 0 THEN <<>> ELSE Place(m, f[n - 1], m.resources[n].key)]
  <2> HIDE DEF D
  <2>1. \A n \in 0 .. L : f[n] = IF n = 0 THEN <<>> ELSE G[n][f[n - 1]]
    <3> HIDE DEF G
    <3> QED
      BY <1>5
  <2>2. ASSUME NEW n \in 0 .. L, n # 0 PROVE G[n][f[n - 1]] = Place(m, f[n - 1], m.resources[n].key)
    <3>1. n \in 1 .. L /\ n - 1 \in 0 .. L
      BY <2>2, <1>1
    <3>2. f[n - 1] \in D
      BY <3>1, <1>5
    <3> QED
      BY <3>1, <3>2
  <2>3. \A n \in 0 .. L : f[n] = IF n = 0 THEN <<>> ELSE Place(m, f[n - 1], m.resources[n].key)
    BY <2>1, <2>2
  <2>4. f = [n \in 0 .. L |-> f[n]]
    BY <1>5
  <2> HIDE DEF L
  <2> QED
    BY <2>3, <2>4
<1> DEFINE u == CHOOSE u : u = [n \in 0 .. L |-> IF n = 0 THEN <<>>
                                               ELSE Place(m, u[n - 1], m.resources[n].key)]
<1>7. topologicalOrder(m) = u[L]
  BY DEF topologicalOrder
<1>8. u = [n \in 0 .. L |-> IF n = 0 THEN <<>> ELSE Place(m, u[n - 1], m.resources[n].key)]
  BY <1>6
<1> HIDE DEF u, L, D, G
<1>9. u[0] = <<>> /\ \A n \in 1 .. L : u[n] = Place(m, u[n - 1], m.resources[n].key)
  BY <1>1, <1>8
<1> DEFINE E(n) == n <= L => /\ InOrder(m, u[n])
                             /\ \A i \in 1 .. n : \E j \in 1 .. Len(u[n]) :
                                    u[n][j] = m.resources[i].key
           T == {n \in Nat : E(n)}
<1>10. E(0)
  BY <1>9 DEF InOrder
<1>11. ASSUME NEW n \in Nat, E(n) PROVE E(n + 1)
  <2> SUFFICES ASSUME n + 1 <= L
               PROVE  /\ InOrder(m, u[n + 1])
                      /\ \A i \in 1 .. n + 1 : \E j \in 1 .. Len(u[n + 1]) :
                             u[n + 1][j] = m.resources[i].key
    OBVIOUS
  <2>1. n + 1 \in 1 .. L /\ (n + 1) - 1 = n /\ n <= L
    BY <1>1
  <2> DEFINE s == u[n]
             k == m.resources[n + 1].key
  <2>2. u[n + 1] = Place(m, s, k) /\ k \in K
    BY <2>1, <1>2, <1>9
  <2>3. InOrder(m, s) /\ \A i \in 1 .. n : \E j \in 1 .. Len(s) : s[j] = m.resources[i].key
    BY <1>11, <2>1
  <2> HIDE DEF s
  <2>4. /\ InOrder(m, Place(m, s, k))
        /\ Len(s) <= Len(Place(m, s, k))
        /\ \A i \in 1 .. Len(s) : Place(m, s, k)[i] = s[i]
        /\ \E i \in 1 .. Len(Place(m, s, k)) : Place(m, s, k)[i] = k
    <3> HIDE DEF k
    <3> QED
      BY <2>2, <2>3, PlaceKeepsOrder
  <2>5. ASSUME NEW i \in 1 .. n + 1
        PROVE  \E j \in 1 .. Len(u[n + 1]) : u[n + 1][j] = m.resources[i].key
    <3>1. CASE i = n + 1
      BY <3>1, <2>2, <2>4
    <3>2. CASE i <= n
      <4>1. PICK j \in 1 .. Len(s) : s[j] = m.resources[i].key
        BY <3>2, <2>3
      <4>2. Len(s) \in Nat /\ Len(Place(m, s, k)) \in Nat
        BY <2>3, <2>4 DEF InOrder
      <4>3. j \in 1 .. Len(Place(m, s, k))
        BY <4>2, <2>4
      <4> QED
        BY <4>1, <4>3, <2>2, <2>4
    <3> QED
      BY <3>1, <3>2
  <2> QED
    BY <2>2, <2>4, <2>5
<1>12. E(L)
  <2> HIDE DEF E
  <2>1. 0 \in T /\ \A n \in Nat : n \in T => n + 1 \in T
    BY <1>10, <1>11
  <2> HIDE DEF T
  <2>2. Nat \subseteq T
    BY <2>1, SetInduction
  <2> QED
    BY <1>1, <2>2 DEF T
<1>13. \A k \in K : \E i \in 1 .. L : m.resources[i].key = k
  <2>1. DOMAIN m.resources = 1 .. L
    BY DEF Valid, IsManifest, L
  <2> QED
    BY <2>1 DEF Keys
<1> QED
  BY <1>1, <1>7, <1>12, <1>13

Of(s) == {s[i] : i \in 1 .. Len(s)}

\* Items that are of the same object, or of the same binding.
Alike(x, y) ==
    /\ IsObject(x) \/ x.is = "binding"
    /\ x.is = y.is /\ x.key = y.key
    /\ x.is = "binding" => x.on = y.on

Unlike(s) == \A i, j \in 1 .. Len(s) : i # j => ~Alike(s[i], s[j])

\* The key whose id is known once the item's step is over.
Gives(it) == IF it.is \in Shape \cup {"segment"} THEN {<<it.is, it.key>>} ELSE {}

LEMMA FlattenedOf ==
    ASSUME NEW S, NEW seqs \in Seq(Seq(S))
    PROVE  /\ FlattenSeq(seqs) \in Seq(S)
           /\ Of(FlattenSeq(seqs)) = UNION {Of(seqs[i]) : i \in 1 .. Len(seqs)}
<1> DEFINE F == FlattenSeq(seqs)
<1>1. F \in Seq(S)
  BY Flattened
<1>2. PICK r, c : Laid(seqs, Len(seqs), F, r, c)
  BY Flattened
<1> HIDE DEF F
<1> DEFINE U == UNION {Of(seqs[i]) : i \in 1 .. Len(seqs)}
<1>3. ASSUME NEW k \in 1 .. Len(F) PROVE F[k] \in U
  <2>1. r[k] \in 1 .. Len(seqs) /\ c[k] \in 1 .. Len(seqs[r[k]]) /\ F[k] = seqs[r[k]][c[k]]
    BY <1>2 DEF Laid
  <2>2. F[k] \in Of(seqs[r[k]])
    BY <2>1 DEF Of
  <2> QED
    BY <2>1, <2>2
<1>4. ASSUME NEW i \in 1 .. Len(seqs), NEW j \in 1 .. Len(seqs[i]) PROVE seqs[i][j] \in Of(F)
  <2>1. PICK k \in 1 .. Len(F) : r[k] = i /\ c[k] = j
    BY <1>2 DEF Laid
  <2>2. F[k] = seqs[i][j]
    BY <1>2, <2>1 DEF Laid
  <2> QED
    BY <2>2 DEF Of
<1>5. Of(F) \subseteq U
  <2> HIDE DEF U
  <2> QED
    BY <1>3 DEF Of
<1>6. U \subseteq Of(F)
  <2> SUFFICES ASSUME NEW i \in 1 .. Len(seqs), NEW x \in Of(seqs[i]) PROVE x \in Of(F)
    OBVIOUS
  <2>1. PICK j \in 1 .. Len(seqs[i]) : x = seqs[i][j]
    BY DEF Of
  <2> QED
    BY <2>1, <1>4
<1> QED
  BY <1>1, <1>5, <1>6 DEF F

LEMMA FlattenedUnlike ==
    ASSUME NEW S, NEW seqs \in Seq(Seq(S)),
           \A i \in 1 .. Len(seqs) : Unlike(seqs[i]),
           \A i, j \in 1 .. Len(seqs) : i # j =>
               \A x \in Of(seqs[i]), y \in Of(seqs[j]) : ~Alike(x, y)
    PROVE  Unlike(FlattenSeq(seqs))
<1> DEFINE F == FlattenSeq(seqs)
<1>1. PICK r, c : Laid(seqs, Len(seqs), F, r, c)
  BY Flattened
<1>2. Len(F) \in Nat /\ Len(seqs) \in Nat
  BY Flattened
<1> HIDE DEF F
<1>5. c \in [1 .. Len(F) -> Nat] /\ r \in [1 .. Len(F) -> 1 .. Len(seqs)]
  BY <1>1 DEF Laid
<1>3. ASSUME NEW k \in 1 .. Len(F), NEW l \in 1 .. Len(F), k # l PROVE ~Alike(F[k], F[l])
  <2>1. /\ r[k] \in 1 .. Len(seqs) /\ c[k] \in 1 .. Len(seqs[r[k]]) /\ F[k] = seqs[r[k]][c[k]]
        /\ r[l] \in 1 .. Len(seqs) /\ c[l] \in 1 .. Len(seqs[r[l]]) /\ F[l] = seqs[r[l]][c[l]]
    BY <1>1 DEF Laid
  <2>2. CASE r[k] # r[l]
    BY <2>1, <2>2 DEF Of
  <2>3. CASE r[k] = r[l]
    <3>1. c[k] # c[l]
      <4>1. c[k] \in Nat /\ c[l] \in Nat /\ r[k] \in Nat
        <5>1. c[k] \in Nat /\ c[l] \in Nat
          BY <1>5
        <5>2. r[k] \in Nat
          BY <2>1, <1>2
        <5> QED
          BY <5>1, <5>2
      <4>2. k < l \/ l < k
        BY <1>2, <1>3
      <4>3. CASE k < l
        <5>1. r[k] < r[l] \/ (r[k] = r[l] /\ c[k] < c[l])
          BY <4>3, <1>1 DEF Laid
        <5> QED
          BY <5>1, <4>1, <2>3
      <4>4. CASE l < k
        <5>1. r[l] < r[k] \/ (r[l] = r[k] /\ c[l] < c[k])
          BY <4>4, <1>1 DEF Laid
        <5> QED
          BY <5>1, <4>1, <2>3
      <4> QED
        BY <4>2, <4>3, <4>4
    <3>2. Unlike(seqs[r[k]])
      BY <2>1
    <3> QED
      BY <2>1, <2>3, <3>1, <3>2 DEF Unlike
  <2> QED
    BY <2>2, <2>3
<1> QED
  BY <1>3 DEF F, Unlike

\* What each item needs is given before it.
Ordered(m, s) ==
    \A k \in 1 .. Len(s) : \A p \in Needs(m, s[k]) : \E l \in 1 .. k - 1 : p \in Gives(s[l])

LEMMA FlattenedOrdered ==
    ASSUME NEW S, NEW seqs \in Seq(Seq(S)), NEW m,
           \A i \in 1 .. Len(seqs) : \A j \in 1 .. Len(seqs[i]) : \A p \in Needs(m, seqs[i][j]) :
               \/ \E a \in 1 .. i - 1 : \E x \in Of(seqs[a]) : p \in Gives(x)
               \/ \E b \in 1 .. j - 1 : p \in Gives(seqs[i][b])
    PROVE  Ordered(m, FlattenSeq(seqs))
<1> DEFINE F == FlattenSeq(seqs)
<1>1. PICK r, c : Laid(seqs, Len(seqs), F, r, c)
  BY Flattened
<1>2. Len(F) \in Nat /\ Len(seqs) \in Nat /\ \A i \in 1 .. Len(seqs) : Len(seqs[i]) \in Nat
  BY Flattened
<1> HIDE DEF F
<1>3. ASSUME NEW k \in 1 .. Len(F), NEW p \in Needs(m, F[k])
      PROVE  \E l \in 1 .. k - 1 : p \in Gives(F[l])
  <2>1. r[k] \in 1 .. Len(seqs) /\ c[k] \in 1 .. Len(seqs[r[k]]) /\ F[k] = seqs[r[k]][c[k]]
    BY <1>1 DEF Laid
  <2>2. PICK a, b : /\ a \in 1 .. Len(seqs) /\ b \in 1 .. Len(seqs[a]) /\ p \in Gives(seqs[a][b])
                    /\ a < r[k] \/ (a = r[k] /\ b < c[k])
    <3>1. CASE \E a \in 1 .. r[k] - 1 : \E x \in Of(seqs[a]) : p \in Gives(x)
      <4>1. PICK a \in 1 .. r[k] - 1 : \E x \in Of(seqs[a]) : p \in Gives(x)
        BY <3>1
      <4>2. PICK b \in 1 .. Len(seqs[a]) : p \in Gives(seqs[a][b])
        BY <4>1 DEF Of
      <4>3. a \in 1 .. Len(seqs) /\ a < r[k]
        <5>1. a \in 1 .. r[k] - 1 /\ r[k] \in 1 .. Len(seqs) /\ Len(seqs) \in Nat
          BY <2>1, <1>2
        <5> QED
          BY ONLY <5>1
      <4> QED
        BY <4>2, <4>3
    <3>2. CASE \E b \in 1 .. c[k] - 1 : p \in Gives(seqs[r[k]][b])
      <4>1. PICK b \in 1 .. c[k] - 1 : p \in Gives(seqs[r[k]][b])
        BY <3>2
      <4>2. b \in 1 .. Len(seqs[r[k]]) /\ b < c[k]
        BY <2>1, <1>2
      <4> QED
        BY <2>1, <4>1, <4>2
    <3> QED
      BY <2>1, <3>1, <3>2
  <2>3. PICK l \in 1 .. Len(F) : r[l] = a /\ c[l] = b
    BY <1>1, <2>2 DEF Laid
  <2>4. F[l] = seqs[a][b]
    BY <1>1, <2>3 DEF Laid
  <2>5. ~(k <= l)
    <3>1. SUFFICES ASSUME k <= l PROVE FALSE
      OBVIOUS
    <3>2. k # l
      BY <2>2, <2>3, <2>1, <1>2
    <3>3. k < l
      BY <3>1, <3>2, <1>2
    <3>4. r[k] < r[l] \/ (r[k] = r[l] /\ c[k] < c[l])
      BY <3>3, <1>1 DEF Laid
    <3>5. a \in Int /\ b \in Int /\ r[k] \in Int /\ c[k] \in Int
      BY <2>1, <2>2, <1>2
    <3> QED
      BY <3>4, <3>5, <2>2, <2>3
  <2>6. l \in 1 .. k - 1
    BY <2>5, <1>2
  <2> QED
    BY <2>2, <2>4, <2>6
<1> QED
  BY <1>3 DEF F, Ordered

\* validate()'s check for duplicates (plan.ts:duplicates).
LEMMA KeysDiffer ==
    ASSUME NEW s, s \in Seq(ToSet(s)), Distinct(s)
    PROVE  \A i, j \in 1 .. Len(s) : s[i].key = s[j].key => i = j
<1> DEFINE n == Len(s)
           K == Keys(s)
           f == [i \in 1 .. n |-> s[i].key]
<1>1. n \in Nat /\ DOMAIN s = 1 .. n
  OBVIOUS
<1>2. f \in [1 .. n -> K]
  BY <1>1 DEF Keys
<1>3. \A k \in K : \E i \in 1 .. n : f[i] = k
  BY <1>1 DEF Keys
<1>4. f \in Surjection(1 .. n, K)
  <2> HIDE DEF f, K
  <2> QED
    BY <1>2, <1>3 DEF Surjection
<1>5. IsFiniteSet(1 .. n) /\ Cardinality(1 .. n) = n
  BY <1>1, FS_Interval
<1>6. Cardinality(K) = n
  BY DEF Distinct
<1>7. f \in Injection(1 .. n, K)
  <2> HIDE DEF f, K, n
  <2> QED
    BY <1>4, <1>5, <1>6, FS_SurjSameCardinalityImpliesInj
<1>8. \A i, j \in 1 .. n : f[i] = f[j] => i = j
  <2> HIDE DEF f, K, n
  <2> QED
    BY <1>2, <1>7 DEF Injection, IsInjective
<1> QED
  BY <1>8

Kinds == Shape \cup Network \cup {"grant", "member", "binding"}

AllKeys(m) ==
    {None} \cup Keys(m.resources) \cup Keys(m.scopes) \cup Keys(m.permissions) \cup Keys(m.roles)
    \cup Keys(m.groups) \cup Keys(m.users) \cup Keys(m.accounts) \cup Keys(m.segments)

ItemType(m) ==
    [is : Kinds, key : AllKeys(m), on : AllKeys(m), at : AllKeys(m), inherit : BOOLEAN,
     scopes : SUBSET Keys(m.scopes)]

LEMMA ItemTyped ==
    ASSUME NEW m, NEW is \in Kinds, NEW k \in AllKeys(m), NEW o \in AllKeys(m)
    PROVE  /\ Item(is, k, o) \in ItemType(m)
           /\ Item(is, k, o).is = is /\ Item(is, k, o).key = k /\ Item(is, k, o).on = o
           /\ Item(is, k, o).at = None
           /\ Item(is, k, o).scopes = {}
  BY DEF Item, ItemType, AllKeys

LEMMA WhenIs ==
    ASSUME NEW S, NEW b \in BOOLEAN, NEW x, b => x \in S
    PROVE  /\ When(b, x) \in Seq(S) /\ Len(When(b, x)) \in 0 .. 1
           /\ Of(When(b, x)) = IF b THEN {x} ELSE {}
           /\ Unlike(When(b, x))
<1>1. CASE b
  <2>1. When(b, x) = <<x>>
    BY <1>1 DEF When
  <2>2. <<x>> \in Seq(S) /\ Len(<<x>>) = 1 /\ <<x>>[1] = x
    BY <1>1
  <2>3. Of(<<x>>) = {x} /\ Unlike(<<x>>)
    BY <2>2 DEF Of, Unlike
  <2>4. Len(<<x>>) \in 0 .. 1
    BY <2>2
  <2>5. (IF b THEN {x} ELSE {}) = {x}
    BY <1>1
  <2> QED
    BY ONLY <2>1, <2>2, <2>3, <2>4, <2>5
<1>2. CASE ~b
  <2>1. When(b, x) = <<>> /\ <<>> \in Seq(S) /\ Len(<<>>) = 0
    BY <1>2 DEF When
  <2> QED
    BY <1>2, <2>1 DEF Of, Unlike
<1> QED
  BY <1>1, <1>2

LEMMA ObjectItemsAre ==
    ASSUME NEW m, NEW is \in Shape \cup Network, NEW s, s \in Seq(ToSet(s)), Distinct(s),
           Keys(s) \subseteq AllKeys(m)
    PROVE  /\ ObjectItems(is, s) \in Seq(ItemType(m))
           /\ Of(ObjectItems(is, s)) = {Item(is, k, None) : k \in Keys(s)}
           /\ Unlike(ObjectItems(is, s))
<1> DEFINE F == ObjectItems(is, s)
<1>1. Len(s) \in Nat /\ DOMAIN s = 1 .. Len(s)
  OBVIOUS
<1>2. F = [i \in 1 .. Len(s) |-> Item(is, s[i].key, None)]
  BY <1>1 DEF ObjectItems
<1>3. \A i \in 1 .. Len(s) : s[i].key \in Keys(s)
  BY <1>1 DEF Keys
<1>4. \A k \in Keys(s) : /\ Item(is, k, None) \in ItemType(m) /\ Item(is, k, None).key = k
                         /\ Item(is, k, None).is = is
  <2> SUFFICES ASSUME NEW k \in Keys(s)
               PROVE  /\ Item(is, k, None) \in ItemType(m) /\ Item(is, k, None).key = k
                      /\ Item(is, k, None).is = is
    OBVIOUS
  <2>1. k \in AllKeys(m) /\ None \in AllKeys(m) /\ is \in Kinds
    BY DEF Kinds, AllKeys
  <2> QED
    BY <2>1, ItemTyped
<1>5. F \in Seq(ItemType(m)) /\ Len(F) = Len(s)
  <2>1. F \in [1 .. Len(s) -> ItemType(m)]
    BY <1>2, <1>3, <1>4
  <2> HIDE DEF F
  <2> QED
    BY <1>1, <2>1
<1>6. \A i \in 1 .. Len(s) : F[i] = Item(is, s[i].key, None)
  BY <1>2
<1>7. Keys(s) = {s[i].key : i \in 1 .. Len(s)}
  BY <1>1 DEF Keys
<1>8. Of(F) = {Item(is, k, None) : k \in Keys(s)}
  <2> HIDE DEF F
  <2> QED
    BY <1>5, <1>6, <1>7 DEF Of
<1>9. Unlike(F)
  <2>1. \A i, j \in 1 .. Len(s) : s[i].key = s[j].key => i = j
    BY KeysDiffer
  <2>2. \A i \in 1 .. Len(s) : F[i].key = s[i].key
    BY <1>3, <1>4, <1>6
  <2> HIDE DEF F
  <2> QED
    BY <1>5, <2>1, <2>2 DEF Unlike, Alike
<1> QED
  BY <1>5, <1>8, <1>9

LEMMA ResourceItemsAre ==
    ASSUME NEW m, Valid(m)
    PROVE  /\ ResourceItems(m) \in Seq(ItemType(m))
           /\ Of(ResourceItems(m)) = {Item("resource", k, Parent(m)[k]) : k \in Keys(m.resources)}
           /\ Unlike(ResourceItems(m))
           /\ \A i \in 1 .. Len(ResourceItems(m)) :
                \/ ResourceItems(m)[i].on = None
                \/ \E j \in 1 .. i - 1 : /\ ResourceItems(m)[j].is = "resource"
                                         /\ ResourceItems(m)[j].key = ResourceItems(m)[i].on
<1> DEFINE F == ResourceItems(m)
           s == topologicalOrder(m)
           K == Keys(m.resources)
<1>1. /\ s \in Seq(K)
      /\ \A i, j \in 1 .. Len(s) : s[i] = s[j] => i = j
      /\ \A i \in 1 .. Len(s) :
           Parent(m)[s[i]] = None \/ \E j \in 1 .. i - 1 : s[j] = Parent(m)[s[i]]
      /\ \A k \in K : \E i \in 1 .. Len(s) : s[i] = k
  BY TopologicalOrder DEF InOrder
<1>2. Len(s) \in Nat /\ DOMAIN s = 1 .. Len(s) /\ \A i \in 1 .. Len(s) : s[i] \in K
  <2> HIDE DEF s, K
  <2> QED
    BY <1>1
<1>3. F = [i \in 1 .. Len(s) |-> Item("resource", s[i], Parent(m)[s[i]])]
  BY <1>2 DEF ResourceItems
<1>4. \A k \in K : /\ Item("resource", k, Parent(m)[k]) \in ItemType(m)
                   /\ Item("resource", k, Parent(m)[k]).is = "resource"
                   /\ Item("resource", k, Parent(m)[k]).key = k
                   /\ Item("resource", k, Parent(m)[k]).on = Parent(m)[k]
  <2> SUFFICES ASSUME NEW k \in K
               PROVE  /\ Item("resource", k, Parent(m)[k]) \in ItemType(m)
                      /\ Item("resource", k, Parent(m)[k]).is = "resource"
                      /\ Item("resource", k, Parent(m)[k]).key = k
                      /\ Item("resource", k, Parent(m)[k]).on = Parent(m)[k]
    OBVIOUS
  <2>1. Parent(m)[k] \in AllKeys(m) /\ k \in AllKeys(m) /\ "resource" \in Kinds
    BY ParentIs DEF Up, AllKeys, Kinds, Shape
  <2> QED
    BY <2>1, ItemTyped
<1> HIDE DEF s, K
<1>5. F \in Seq(ItemType(m)) /\ Len(F) = Len(s)
  <2>1. F \in [1 .. Len(s) -> ItemType(m)]
    BY <1>2, <1>3, <1>4
  <2> HIDE DEF F
  <2> QED
    BY <1>2, <2>1
<1>6. \A i \in 1 .. Len(s) : /\ F[i] = Item("resource", s[i], Parent(m)[s[i]])
                             /\ F[i].is = "resource" /\ F[i].key = s[i]
                             /\ F[i].on = Parent(m)[s[i]]
  BY <1>2, <1>3, <1>4
<1> HIDE DEF F
<1>7. Of(F) = {Item("resource", k, Parent(m)[k]) : k \in K}
  BY <1>1, <1>2, <1>5, <1>6 DEF Of
<1>8. Unlike(F)
  BY <1>1, <1>5, <1>6 DEF Unlike, Alike
<1>9. \A i \in 1 .. Len(F) : \/ F[i].on = None
                             \/ \E j \in 1 .. i - 1 : F[j].is = "resource" /\ F[j].key = F[i].on
  <2> SUFFICES ASSUME NEW i \in 1 .. Len(F), F[i].on # None
               PROVE  \E j \in 1 .. i - 1 : F[j].is = "resource" /\ F[j].key = F[i].on
    OBVIOUS
  <2>1. PICK j \in 1 .. i - 1 : s[j] = Parent(m)[s[i]]
    BY <1>1, <1>5, <1>6
  <2>2. j \in 1 .. Len(s)
    BY <1>2, <1>5
  <2> QED
    BY <1>5, <1>6, <2>1, <2>2
<1> QED
  BY <1>5, <1>7, <1>8, <1>9 DEF F, K

\* What is picked of a sequence, in its order.
LEMMA PickedAre ==
    ASSUME NEW S, NEW n \in Nat, NEW rows, DOMAIN rows = 1 .. n, rows \in [1 .. n -> Seq(S)],
           \A i \in 1 .. n : Unlike(rows[i]),
           \A i, j \in 1 .. n : i # j => \A x \in Of(rows[i]), y \in Of(rows[j]) : ~Alike(x, y)
    PROVE  /\ FlattenSeq(rows) \in Seq(S) /\ Unlike(FlattenSeq(rows))
           /\ Of(FlattenSeq(rows)) = UNION {Of(rows[i]) : i \in 1 .. n}
<1>1. rows \in Seq(Seq(S)) /\ Len(rows) = n
  <2> DEFINE T == Seq(S)
  <2> HIDE DEF T
  <2>1. rows \in [1 .. n -> T]
    BY DEF T
  <2>2. rows \in Seq(T) /\ Len(rows) = n
    BY <2>1
  <2> QED
    BY <2>2 DEF T
<1>2. FlattenSeq(rows) \in Seq(S) /\ Of(FlattenSeq(rows)) = UNION {Of(rows[i]) : i \in 1 .. Len(rows)}
  BY <1>1, FlattenedOf
<1>3. /\ \A i \in 1 .. Len(rows) : Unlike(rows[i])
      /\ \A i, j \in 1 .. Len(rows) : i # j => \A x \in Of(rows[i]), y \in Of(rows[j]) : ~Alike(x, y)
  BY <1>1
<1>4. Unlike(FlattenSeq(rows))
  BY <1>1, <1>3, FlattenedUnlike
<1> QED
  BY <1>1, <1>2, <1>4

LEMMA ScopesOfAre ==
    ASSUME NEW m, Valid(m), NEW k \in Keys(m.resources)
    PROVE  /\ ScopesOf(m, k) \in Seq(ItemType(m)) /\ Unlike(ScopesOf(m, k))
           /\ Of(ScopesOf(m, k)) = {Item("scope", m.scopes[i].key, k) :
                                       i \in {j \in 1 .. Len(m.scopes) : m.scopes[j].on = k}}
<1> DEFINE n == Len(m.scopes)
           it(i) == Item("scope", m.scopes[i].key, k)
           rows == [i \in 1 .. n |-> When(m.scopes[i].on = k, it(i))]
<1>1. n \in Nat /\ DOMAIN m.scopes = 1 .. n
  BY DEF Valid, IsManifest
<1>2. ScopesOf(m, k) = FlattenSeq(rows)
  BY <1>1 DEF ScopesOf
<1>3. ASSUME NEW i \in 1 .. n
      PROVE  it(i) \in ItemType(m) /\ it(i).is = "scope" /\ it(i).key = m.scopes[i].key
  <2>1. m.scopes[i].key \in AllKeys(m) /\ k \in AllKeys(m) /\ "scope" \in Kinds
    BY <1>1 DEF AllKeys, Keys, Kinds, Shape
  <2> QED
    BY <2>1, ItemTyped
<1>4. ASSUME NEW i \in 1 .. n
      PROVE  /\ rows[i] \in Seq(ItemType(m)) /\ Unlike(rows[i])
             /\ Of(rows[i]) = IF m.scopes[i].on = k THEN {it(i)} ELSE {}
  <2> DEFINE b == m.scopes[i].on = k
  <2>1. b \in BOOLEAN
    OBVIOUS
  <2>2. rows[i] = When(b, it(i))
    OBVIOUS
  <2>3. b => it(i) \in ItemType(m)
    BY <1>3
  <2>4. /\ When(b, it(i)) \in Seq(ItemType(m)) /\ Unlike(When(b, it(i)))
        /\ Of(When(b, it(i))) = IF b THEN {it(i)} ELSE {}
    <3> HIDE DEF it, b, rows
    <3> QED
      BY <2>1, <2>3, WhenIs
  <2> HIDE DEF it, rows
  <2> QED
    BY <2>2, <2>4
<1>5. \A i, j \in 1 .. n : m.scopes[i].key = m.scopes[j].key => i = j
  BY KeysDiffer DEF Valid, validate, IsManifest
<1>6. rows \in [1 .. n -> Seq(ItemType(m))] /\ DOMAIN rows = 1 .. n
  <2>1. rows = [i \in 1 .. n |-> rows[i]] /\ DOMAIN rows = 1 .. n
    OBVIOUS
  <2> HIDE DEF rows
  <2> QED
    BY <1>4, <2>1
<1> HIDE DEF rows, it, n
<1>7. \A i, j \in 1 .. n : i # j => \A x \in Of(rows[i]), y \in Of(rows[j]) : ~Alike(x, y)
  <2> SUFFICES ASSUME NEW i \in 1 .. n, NEW j \in 1 .. n, i # j, NEW x \in Of(rows[i]),
                      NEW y \in Of(rows[j])
               PROVE  ~Alike(x, y)
    OBVIOUS
  <2>1. x = it(i) /\ y = it(j)
    BY <1>4
  <2> QED
    BY <1>3, <1>5, <2>1 DEF Alike
<1>8. /\ FlattenSeq(rows) \in Seq(ItemType(m)) /\ Unlike(FlattenSeq(rows))
      /\ Of(FlattenSeq(rows)) = UNION {Of(rows[i]) : i \in 1 .. n}
  BY <1>1, <1>4, <1>6, <1>7, PickedAre
<1>9. UNION {Of(rows[i]) : i \in 1 .. n} = {it(i) : i \in {j \in 1 .. n : m.scopes[j].on = k}}
  BY <1>4
<1> QED
  BY <1>2, <1>8, <1>9 DEF it, n

LEMMA ScopeItemsAre ==
    ASSUME NEW m, Valid(m)
    PROVE  /\ ScopeItems(m) \in Seq(ItemType(m)) /\ Unlike(ScopeItems(m))
           /\ Of(ScopeItems(m)) = {Item("scope", m.scopes[i].key, m.scopes[i].on) :
                                       i \in 1 .. Len(m.scopes)}
<1> DEFINE s == topologicalOrder(m)
           K == Keys(m.resources)
           n == Len(s)
           rows == [i \in 1 .. n |-> ScopesOf(m, s[i])]
           it(j) == Item("scope", m.scopes[j].key, m.scopes[j].on)
<1>1. /\ s \in Seq(K)
      /\ \A i, j \in 1 .. n : s[i] = s[j] => i = j
      /\ \A k \in K : \E i \in 1 .. n : s[i] = k
  BY TopologicalOrder DEF InOrder
<1>2. n \in Nat /\ DOMAIN s = 1 .. n /\ \A i \in 1 .. n : s[i] \in K
  <2> HIDE DEF s, K
  <2> QED
    BY <1>1
<1>3. ScopeItems(m) = FlattenSeq(rows)
  BY <1>2 DEF ScopeItems
<1>4. /\ DOMAIN m.scopes = 1 .. Len(m.scopes)
      /\ \A j \in 1 .. Len(m.scopes) : m.scopes[j].on \in K
  BY DEF Valid, IsManifest
<1>5. ASSUME NEW i \in 1 .. n
      PROVE  /\ rows[i] \in Seq(ItemType(m)) /\ Unlike(rows[i])
             /\ Of(rows[i]) = {it(j) : j \in {l \in 1 .. Len(m.scopes) : m.scopes[l].on = s[i]}}
  <2>1. s[i] \in K
    BY <1>2
  <2>2. /\ ScopesOf(m, s[i]) \in Seq(ItemType(m)) /\ Unlike(ScopesOf(m, s[i]))
        /\ Of(ScopesOf(m, s[i])) = {Item("scope", m.scopes[j].key, s[i]) :
                                       j \in {l \in 1 .. Len(m.scopes) : m.scopes[l].on = s[i]}}
    BY <2>1, ScopesOfAre
  <2>3. {Item("scope", m.scopes[j].key, s[i]) : j \in {l \in 1 .. Len(m.scopes) : m.scopes[l].on = s[i]}}
        = {it(j) : j \in {l \in 1 .. Len(m.scopes) : m.scopes[l].on = s[i]}}
    OBVIOUS
  <2>4. rows[i] = ScopesOf(m, s[i])
    OBVIOUS
  <2> HIDE DEF rows, it, s
  <2> QED
    BY <2>2, <2>3, <2>4
<1>6. \A j \in 1 .. Len(m.scopes) : it(j).is = "scope" /\ it(j).key = m.scopes[j].key /\ it(j).on = m.scopes[j].on
  BY DEF Item
<1>7. \A i, j \in 1 .. Len(m.scopes) : m.scopes[i].key = m.scopes[j].key => i = j
  BY KeysDiffer DEF Valid, validate, IsManifest
<1>8. rows \in [1 .. n -> Seq(ItemType(m))] /\ DOMAIN rows = 1 .. n
  <2>1. rows = [i \in 1 .. n |-> rows[i]] /\ DOMAIN rows = 1 .. n
    OBVIOUS
  <2> HIDE DEF rows
  <2> QED
    BY <1>5, <2>1
<1> HIDE DEF rows, it, n, s, K
<1>9. \A i, j \in 1 .. n : i # j => \A x \in Of(rows[i]), y \in Of(rows[j]) : ~Alike(x, y)
  <2> SUFFICES ASSUME NEW i \in 1 .. n, NEW j \in 1 .. n, i # j, NEW x \in Of(rows[i]),
                      NEW y \in Of(rows[j]), Alike(x, y)
               PROVE  FALSE
    OBVIOUS
  <2>1. PICK a \in 1 .. Len(m.scopes) : m.scopes[a].on = s[i] /\ x = it(a)
    BY <1>5
  <2>2. PICK b \in 1 .. Len(m.scopes) : m.scopes[b].on = s[j] /\ y = it(b)
    BY <1>5
  <2>3. a = b
    BY <2>1, <2>2, <1>6, <1>7 DEF Alike
  <2> QED
    BY <2>1, <2>2, <2>3, <1>1
<1>10. /\ FlattenSeq(rows) \in Seq(ItemType(m)) /\ Unlike(FlattenSeq(rows))
       /\ Of(FlattenSeq(rows)) = UNION {Of(rows[i]) : i \in 1 .. n}
  BY <1>2, <1>5, <1>8, <1>9, PickedAre
<1>11. UNION {Of(rows[i]) : i \in 1 .. n} = {it(j) : j \in 1 .. Len(m.scopes)}
  <2>1. ASSUME NEW j \in 1 .. Len(m.scopes) PROVE \E i \in 1 .. n : it(j) \in Of(rows[i])
    <3>1. PICK i \in 1 .. n : s[i] = m.scopes[j].on
      BY <1>1, <1>4
    <3> QED
      BY <3>1, <1>5
  <2>2. ASSUME NEW i \in 1 .. n, NEW x \in Of(rows[i])
        PROVE  x \in {it(j) : j \in 1 .. Len(m.scopes)}
    <3>1. PICK j \in 1 .. Len(m.scopes) : x = it(j)
      BY <1>5
    <3> QED
      BY <3>1
  <2> QED
    BY <2>1, <2>2
<1> QED
  BY <1>3, <1>10, <1>11 DEF it

LEMMA GrantItemsAre ==
    ASSUME NEW m, Valid(m)
    PROVE  /\ GrantItems(m) \in Seq(ItemType(m)) /\ Unlike(GrantItems(m))
           /\ \A x \in Of(GrantItems(m)) :
                /\ x.is = "grant" /\ x.key \in Keys(m.roles) /\ x.on \in Keys(m.permissions)
                /\ x.scopes \subseteq Keys(m.scopes)
<1> DEFINE n == Len(m.grants)
           F == GrantItems(m)
<1>1. n \in Nat /\ DOMAIN m.grants = 1 .. n
  BY DEF Valid, IsManifest
<1>2. \A i \in 1 .. n : /\ m.grants[i].role \in Keys(m.roles)
                        /\ m.grants[i].permission \in Keys(m.permissions)
                        /\ m.grants[i].scopes \subseteq Keys(m.scopes)
  BY <1>1 DEF Valid, IsManifest, validate
<1>3. F = [i \in 1 .. n |-> [Item("grant", m.grants[i].role, m.grants[i].permission)
                                EXCEPT !.scopes = m.grants[i].scopes]]
  BY <1>1 DEF GrantItems
<1>4. ASSUME NEW i \in 1 .. n
      PROVE  /\ F[i] \in ItemType(m) /\ F[i].is = "grant" /\ F[i].key \in Keys(m.roles)
             /\ F[i].on \in Keys(m.permissions) /\ F[i].scopes \subseteq Keys(m.scopes)
  <2> DEFINE g == m.grants[i]
  <2>1. F[i] = [is |-> "grant", key |-> g.role, on |-> g.permission, at |-> None,
                inherit |-> TRUE, scopes |-> g.scopes]
    BY <1>3 DEF Item
  <2>2. g.role \in AllKeys(m) /\ g.permission \in AllKeys(m) /\ None \in AllKeys(m)
    BY <1>2 DEF AllKeys
  <2>3. "grant" \in Kinds
    BY DEF Kinds
  <2> HIDE DEF F, g
  <2>4. g.role \in Keys(m.roles) /\ g.permission \in Keys(m.permissions) /\ g.scopes \subseteq Keys(m.scopes)
    BY <1>2 DEF g
  <2> QED
    BY <2>1, <2>2, <2>3, <2>4 DEF ItemType
<1>5. F \in Seq(ItemType(m)) /\ Len(F) = n
  <2>1. F = [i \in 1 .. n |-> F[i]]
    BY <1>3
  <2> HIDE DEF F
  <2>2. F \in [1 .. n -> ItemType(m)]
    BY <1>4, <2>1
  <2> QED
    BY <1>1, <2>2
<1> HIDE DEF F
<1>6. Unlike(F)
  BY <1>4, <1>5 DEF Unlike, Alike, IsObject, Shape, Network
<1> QED
  BY <1>4, <1>5, <1>6 DEF F, Of

LEMMA ConcatAre ==
    ASSUME NEW S, NEW s \in Seq(S), NEW t \in Seq(S), Unlike(s), Unlike(t),
           \A x \in Of(s), y \in Of(t) : ~Alike(x, y) /\ ~Alike(y, x)
    PROVE  s \o t \in Seq(S) /\ Unlike(s \o t) /\ Of(s \o t) = Of(s) \cup Of(t)
<1> DEFINE u == s \o t
           M == Len(s)
           N == Len(t)
<1>1. /\ M \in Nat /\ N \in Nat /\ u \in Seq(S) /\ Len(u) = M + N
      /\ \A i \in 1 .. M : u[i] = s[i]
      /\ \A i \in M + 1 .. M + N : u[i] = t[i - M]
  OBVIOUS
<1> HIDE DEF u, M, N
<1>2. \A i \in 1 .. M : u[i] \in Of(s)
  BY <1>1 DEF Of, M
<1>3. \A i \in M + 1 .. M + N : i - M \in 1 .. N /\ u[i] \in Of(t)
  <2> SUFFICES ASSUME NEW i \in M + 1 .. M + N PROVE i - M \in 1 .. N /\ u[i] \in Of(t)
    OBVIOUS
  <2>1. i - M \in 1 .. N /\ u[i] = t[i - M]
    BY <1>1
  <2> QED
    BY <2>1 DEF Of, N
<1>4. \A i \in 1 .. N : M + i \in M + 1 .. M + N /\ u[M + i] = t[i]
  <2> SUFFICES ASSUME NEW i \in 1 .. N PROVE M + i \in M + 1 .. M + N /\ u[M + i] = t[i]
    OBVIOUS
  <2>1. M + i \in M + 1 .. M + N /\ (M + i) - M = i
    BY <1>1
  <2> QED
    BY <2>1, <1>1
<1>5. Of(u) = Of(s) \cup Of(t)
  <2>1. Of(u) \subseteq Of(s) \cup Of(t)
    <3> SUFFICES ASSUME NEW i \in 1 .. M + N PROVE u[i] \in Of(s) \cup Of(t)
      BY <1>1 DEF Of
    <3>1. i \in 1 .. M \/ i \in M + 1 .. M + N
      BY <1>1
    <3> QED
      BY <3>1, <1>2, <1>3
  <2>2. ASSUME NEW i \in 1 .. M PROVE s[i] \in Of(u)
    <3>1. i \in 1 .. Len(u) /\ u[i] = s[i]
      BY <1>1
    <3> QED
      BY <3>1 DEF Of
  <2>3. ASSUME NEW i \in 1 .. N PROVE t[i] \in Of(u)
    <3>1. M + i \in 1 .. Len(u) /\ u[M + i] = t[i]
      BY <1>1, <1>4
    <3> QED
      BY <3>1 DEF Of
  <2>4. Of(s) \subseteq Of(u)
    BY <2>2 DEF Of, M
  <2>5. Of(t) \subseteq Of(u)
    BY <2>3 DEF Of, N
  <2> QED
    BY <2>1, <2>4, <2>5
<1>6. Unlike(u)
  <2> SUFFICES ASSUME NEW i \in 1 .. M + N, NEW j \in 1 .. M + N, i # j
               PROVE  ~Alike(u[i], u[j])
    BY <1>1 DEF Unlike
  <2>1. CASE i \in 1 .. M /\ j \in 1 .. M
    <3>1. u[i] = s[i] /\ u[j] = s[j]
      BY <1>1, <2>1
    <3> QED
      BY <3>1, <2>1 DEF Unlike, M
  <2>2. CASE i \in M + 1 .. M + N /\ j \in M + 1 .. M + N
    <3>1. u[i] = t[i - M] /\ u[j] = t[j - M] /\ i - M \in 1 .. N /\ j - M \in 1 .. N /\ i - M # j - M
      BY <1>1, <1>3, <2>2
    <3> QED
      BY <3>1 DEF Unlike, N
  <2>3. CASE i \in 1 .. M /\ j \in M + 1 .. M + N
    BY <2>3, <1>2, <1>3
  <2>4. CASE j \in 1 .. M /\ i \in M + 1 .. M + N
    BY <2>4, <1>2, <1>3
  <2>5. (i \in 1 .. M \/ i \in M + 1 .. M + N) /\ (j \in 1 .. M \/ j \in M + 1 .. M + N)
    BY <1>1
  <2> QED
    BY <2>1, <2>2, <2>3, <2>4, <2>5
<1> QED
  BY <1>1, <1>5, <1>6 DEF u

\* What a binding or a membership declared in a section says.
BindingOf(m, x, K) ==
    /\ x.is = "binding" /\ x.key \in K /\ x.on \in Keys(m.roles)
    /\ x.at \in Up(m) /\ x.inherit \in BOOLEAN

MemberOf(m, x, K) ==
    x.is = "member" /\ x.key \in K \cap Keys(m.users) /\ x.on \in Keys(m.groups)

LEMMA SubjectItemsAre ==
    ASSUME NEW m, Valid(m), NEW k \in Keys(m.groups) \cup Keys(m.users) \cup Keys(m.accounts)
    PROVE  /\ SubjectItems(m, k) \in Seq(ItemType(m)) /\ Unlike(SubjectItems(m, k))
           /\ \A x \in Of(SubjectItems(m, k)) : BindingOf(m, x, {k}) \/ MemberOf(m, x, {k})
<1> DEFINE n == Len(m.bindings)
           it(i) == BindingItem(m.bindings[i])
           rows == [i \in 1 .. n |-> When(m.bindings[i].subject = k, it(i))]
           p == Len(m.members)
           me(i) == Item("member", k, m.members[i].group)
           cols == [i \in 1 .. p |-> When(m.members[i].user = k, me(i))]
<1>1. /\ n \in Nat /\ DOMAIN m.bindings = 1 .. n
      /\ p \in Nat /\ DOMAIN m.members = 1 .. p
  BY DEF Valid, IsManifest
<1>2. SubjectItems(m, k) = FlattenSeq(rows) \o FlattenSeq(cols)
  BY <1>1 DEF SubjectItems
<1>3. k \in AllKeys(m)
  BY DEF AllKeys
<1>4. ASSUME NEW i \in 1 .. n, m.bindings[i].subject = k
      PROVE  /\ it(i) \in ItemType(m) /\ BindingOf(m, it(i), {k})
             /\ it(i).is = "binding" /\ it(i).on = m.bindings[i].role
  <2> DEFINE b == m.bindings[i]
  <2>1. b.role \in Keys(m.roles) /\ b.resource \in Up(m) /\ b.inherit \in BOOLEAN
    BY <1>1 DEF Valid, IsManifest, validate, BindingRefused, Up
  <2>2. it(i) = [is |-> "binding", key |-> k, on |-> b.role, at |-> b.resource,
                 inherit |-> b.inherit, scopes |-> {}]
    <3>1. it(i) = [Item("binding", k, b.role) EXCEPT !.at = b.resource, !.inherit = b.inherit]
      BY <1>4 DEF BindingItem
    <3> HIDE DEF it, b
    <3> QED
      BY <3>1 DEF Item
  <2>3. b.role \in AllKeys(m) /\ b.resource \in AllKeys(m) /\ "binding" \in Kinds
    BY <2>1 DEF AllKeys, Up, Kinds
  <2> HIDE DEF it, b
  <2> QED
    BY <2>1, <2>2, <2>3, <1>3 DEF ItemType, BindingOf, b
<1>5. ASSUME NEW i \in 1 .. p, m.members[i].user = k
      PROVE  me(i) \in ItemType(m) /\ MemberOf(m, me(i), {k}) /\ me(i).is = "member"
  <2>1. m.members[i].group \in Keys(m.groups) /\ k \in Keys(m.users)
    BY <1>1, <1>5 DEF Valid, IsManifest, validate
  <2>2. m.members[i].group \in AllKeys(m) /\ "member" \in Kinds
    BY <2>1 DEF AllKeys, Kinds
  <2>3. /\ me(i) \in ItemType(m) /\ me(i).is = "member" /\ me(i).key = k
        /\ me(i).on = m.members[i].group
    <3> HIDE DEF p
    <3> QED
      BY <1>3, <2>2, ItemTyped
  <2> HIDE DEF me
  <2> QED
    BY <2>1, <2>3 DEF MemberOf
<1>6. ASSUME NEW i \in 1 .. n
      PROVE  /\ rows[i] \in Seq(ItemType(m)) /\ Unlike(rows[i])
             /\ Of(rows[i]) = IF m.bindings[i].subject = k THEN {it(i)} ELSE {}
  <2> DEFINE b == m.bindings[i].subject = k
  <2>1. b \in BOOLEAN
    OBVIOUS
  <2>2. rows[i] = When(b, it(i))
    OBVIOUS
  <2>3. b => it(i) \in ItemType(m)
    BY <1>4
  <2>4. /\ When(b, it(i)) \in Seq(ItemType(m)) /\ Unlike(When(b, it(i)))
        /\ Of(When(b, it(i))) = IF b THEN {it(i)} ELSE {}
    <3> HIDE DEF it, b, rows
    <3> QED
      BY <2>1, <2>3, WhenIs
  <2> HIDE DEF it, rows
  <2> QED
    BY <2>2, <2>4
<1>7. ASSUME NEW i \in 1 .. p
      PROVE  /\ cols[i] \in Seq(ItemType(m)) /\ Unlike(cols[i])
             /\ Of(cols[i]) = IF m.members[i].user = k THEN {me(i)} ELSE {}
  <2> DEFINE b == m.members[i].user = k
  <2>1. b \in BOOLEAN
    OBVIOUS
  <2>2. cols[i] = When(b, me(i))
    OBVIOUS
  <2>3. b => me(i) \in ItemType(m)
    BY <1>5
  <2>4. /\ When(b, me(i)) \in Seq(ItemType(m)) /\ Unlike(When(b, me(i)))
        /\ Of(When(b, me(i))) = IF b THEN {me(i)} ELSE {}
    <3> HIDE DEF me, b, cols
    <3> QED
      BY <2>1, <2>3, WhenIs
  <2> HIDE DEF me, cols
  <2> QED
    BY <2>2, <2>4
<1>8. rows \in [1 .. n -> Seq(ItemType(m))] /\ DOMAIN rows = 1 .. n
  <2>1. rows = [i \in 1 .. n |-> rows[i]] /\ DOMAIN rows = 1 .. n
    OBVIOUS
  <2> HIDE DEF rows
  <2> QED
    BY <1>6, <2>1
<1>9. cols \in [1 .. p -> Seq(ItemType(m))] /\ DOMAIN cols = 1 .. p
  <2>1. cols = [i \in 1 .. p |-> cols[i]] /\ DOMAIN cols = 1 .. p
    OBVIOUS
  <2> HIDE DEF cols
  <2> QED
    BY <1>7, <2>1
<1>10. \A i, j \in 1 .. n : m.bindings[i].subject = k /\ m.bindings[j].subject = k
                           /\ m.bindings[i].role = m.bindings[j].role => i = j
  BY <1>1 DEF Valid, validate
<1> HIDE DEF rows, cols, it, me, n, p
<1>11. \A i, j \in 1 .. n : i # j => \A x \in Of(rows[i]), y \in Of(rows[j]) : ~Alike(x, y)
  <2> SUFFICES ASSUME NEW i \in 1 .. n, NEW j \in 1 .. n, i # j, NEW x \in Of(rows[i]),
                      NEW y \in Of(rows[j])
               PROVE  ~Alike(x, y)
    OBVIOUS
  <2>1. x = it(i) /\ m.bindings[i].subject = k
    BY <1>6
  <2>2. y = it(j) /\ m.bindings[j].subject = k
    BY <1>6
  <2> QED
    BY <1>4, <1>10, <2>1, <2>2 DEF Alike
<1>12. \A i, j \in 1 .. p : i # j => \A x \in Of(cols[i]), y \in Of(cols[j]) : ~Alike(x, y)
  <2> SUFFICES ASSUME NEW i \in 1 .. p, NEW x \in Of(cols[i]), NEW y PROVE ~Alike(x, y)
    OBVIOUS
  <2>1. x.is = "member"
    BY <1>5, <1>7
  <2> QED
    BY <2>1 DEF Alike, IsObject, Shape, Network
<1>13. /\ FlattenSeq(rows) \in Seq(ItemType(m)) /\ Unlike(FlattenSeq(rows))
       /\ Of(FlattenSeq(rows)) = UNION {Of(rows[i]) : i \in 1 .. n}
  <2>1. n \in Nat /\ \A i \in 1 .. n : Unlike(rows[i])
    BY <1>1, <1>6
  <2> QED
    BY <1>8, <1>11, <2>1, PickedAre, SMTT(20)
<1>14. /\ FlattenSeq(cols) \in Seq(ItemType(m)) /\ Unlike(FlattenSeq(cols))
       /\ Of(FlattenSeq(cols)) = UNION {Of(cols[i]) : i \in 1 .. p}
  <2>1. p \in Nat /\ \A i \in 1 .. p : Unlike(cols[i])
    BY <1>1, <1>7
  <2> QED
    BY <1>9, <1>12, <2>1, PickedAre, SMTT(20)
<1>15. ASSUME NEW x \in Of(FlattenSeq(rows)) PROVE x.is = "binding" /\ BindingOf(m, x, {k})
  <2>1. PICK i \in 1 .. n : x \in Of(rows[i])
    BY <1>13
  <2>3. Of(rows[i]) = IF m.bindings[i].subject = k THEN {it(i)} ELSE {}
    BY <1>6
  <2>2. x = it(i) /\ m.bindings[i].subject = k
    BY <2>1, <2>3
  <2> QED
    BY <2>2, <1>4
<1>16. ASSUME NEW x \in Of(FlattenSeq(cols)) PROVE x.is = "member" /\ MemberOf(m, x, {k})
  <2>1. PICK i \in 1 .. p : x \in Of(cols[i])
    BY <1>14
  <2>3. Of(cols[i]) = IF m.members[i].user = k THEN {me(i)} ELSE {}
    BY <1>7
  <2>2. x = me(i) /\ m.members[i].user = k
    BY <2>1, <2>3
  <2> QED
    BY <2>2, <1>5
<1>17. \A x \in Of(FlattenSeq(rows)), y \in Of(FlattenSeq(cols)) : ~Alike(x, y) /\ ~Alike(y, x)
  BY <1>15, <1>16 DEF Alike
<1> DEFINE A == FlattenSeq(rows)
           B == FlattenSeq(cols)
<1> HIDE DEF A, B
<1>18. A \o B \in Seq(ItemType(m)) /\ Unlike(A \o B) /\ Of(A \o B) = Of(A) \cup Of(B)
  BY <1>13, <1>14, <1>17, ConcatAre DEF A, B
<1> QED
  BY <1>2, <1>15, <1>16, <1>18 DEF A, B

LEMMA BindingItemsAre ==
    ASSUME NEW m, Valid(m), NEW s \in {m.groups, m.users, m.accounts}
    PROVE  /\ BindingItems(m, s) \in Seq(ItemType(m)) /\ Unlike(BindingItems(m, s))
           /\ \A x \in Of(BindingItems(m, s)) : BindingOf(m, x, Keys(s)) \/ MemberOf(m, x, Keys(s))
<1> DEFINE n == Len(s)
           rows == [i \in 1 .. n |-> SubjectItems(m, s[i].key)]
<1>1. s \in Seq(ToSet(s)) /\ Distinct(s)
  BY DEF Valid, IsManifest, validate
<1>2. n \in Nat /\ DOMAIN s = 1 .. n
  BY <1>1
<1>3. BindingItems(m, s) = FlattenSeq(rows)
  BY <1>2 DEF BindingItems
<1>4. \A i \in 1 .. n : s[i].key \in Keys(s)
  BY <1>2 DEF Keys
<1>5. Keys(s) \subseteq Keys(m.groups) \cup Keys(m.users) \cup Keys(m.accounts)
  OBVIOUS
<1>6. ASSUME NEW i \in 1 .. n
      PROVE  /\ rows[i] \in Seq(ItemType(m)) /\ Unlike(rows[i])
             /\ \A x \in Of(rows[i]) : BindingOf(m, x, {s[i].key}) \/ MemberOf(m, x, {s[i].key})
  <2>1. rows[i] = SubjectItems(m, s[i].key)
    OBVIOUS
  <2>2. s[i].key \in Keys(m.groups) \cup Keys(m.users) \cup Keys(m.accounts)
    BY <1>4, <1>5
  <2> HIDE DEF rows
  <2> QED
    BY <2>1, <2>2, SubjectItemsAre
<1>7. rows \in [1 .. n -> Seq(ItemType(m))] /\ DOMAIN rows = 1 .. n
  <2>1. rows = [i \in 1 .. n |-> rows[i]] /\ DOMAIN rows = 1 .. n
    OBVIOUS
  <2> HIDE DEF rows
  <2> QED
    BY <1>6, <2>1
<1>8. \A i, j \in 1 .. n : s[i].key = s[j].key => i = j
  BY <1>1, KeysDiffer
<1> HIDE DEF rows, n
<1>9. \A i, j \in 1 .. n : i # j => \A x \in Of(rows[i]), y \in Of(rows[j]) : ~Alike(x, y)
  <2> SUFFICES ASSUME NEW i \in 1 .. n, NEW j \in 1 .. n, i # j, NEW x \in Of(rows[i]),
                      NEW y \in Of(rows[j])
               PROVE  ~Alike(x, y)
    OBVIOUS
  <2>1. x.key = s[i].key /\ y.key = s[j].key
    BY <1>6 DEF BindingOf, MemberOf
  <2> QED
    BY <2>1, <1>8 DEF Alike
<1>10. /\ FlattenSeq(rows) \in Seq(ItemType(m)) /\ Unlike(FlattenSeq(rows))
       /\ Of(FlattenSeq(rows)) = UNION {Of(rows[i]) : i \in 1 .. n}
  BY <1>2, <1>6, <1>7, <1>9, PickedAre
<1>11. ASSUME NEW i \in 1 .. n, NEW x \in Of(rows[i])
       PROVE  BindingOf(m, x, Keys(s)) \/ MemberOf(m, x, Keys(s))
  BY <1>4, <1>6 DEF BindingOf, MemberOf
<1> QED
  BY <1>3, <1>10, <1>11

LEMMA ProfileItemsAre ==
    ASSUME NEW m, Valid(m)
    PROVE  /\ ProfileItems(m) \in Seq(ItemType(m)) /\ Unlike(ProfileItems(m))
           /\ \A x \in Of(ProfileItems(m)) :
                x.is = "profile" /\ x.key \in Keys(m.segments) /\ x.on = x.key /\ m.profiles # {}
<1> DEFINE n == Len(m.segments)
           it(i) == Item("profile", m.segments[i].key, m.segments[i].key)
           rows == [i \in 1 .. n |-> When(m.segments[i].key \in m.profiles, it(i))]
<1>1. n \in Nat /\ DOMAIN m.segments = 1 .. n
  BY DEF Valid, IsManifest
<1>2. ProfileItems(m) = FlattenSeq(rows)
  BY <1>1 DEF ProfileItems
<1>3. ASSUME NEW i \in 1 .. n
      PROVE  /\ it(i) \in ItemType(m) /\ it(i).is = "profile" /\ it(i).key = m.segments[i].key
             /\ it(i).on = m.segments[i].key /\ m.segments[i].key \in Keys(m.segments)
  <2>1. m.segments[i].key \in AllKeys(m) /\ "profile" \in Kinds /\ m.segments[i].key \in Keys(m.segments)
    BY <1>1 DEF AllKeys, Keys, Kinds, Network
  <2> QED
    BY <2>1, ItemTyped
<1>4. ASSUME NEW i \in 1 .. n
      PROVE  /\ rows[i] \in Seq(ItemType(m)) /\ Unlike(rows[i])
             /\ Of(rows[i]) = IF m.segments[i].key \in m.profiles THEN {it(i)} ELSE {}
  <2> DEFINE b == m.segments[i].key \in m.profiles
  <2>1. b \in BOOLEAN
    OBVIOUS
  <2>2. rows[i] = When(b, it(i))
    OBVIOUS
  <2>3. b => it(i) \in ItemType(m)
    BY <1>3
  <2>4. /\ When(b, it(i)) \in Seq(ItemType(m)) /\ Unlike(When(b, it(i)))
        /\ Of(When(b, it(i))) = IF b THEN {it(i)} ELSE {}
    <3> HIDE DEF it, b, rows
    <3> QED
      BY <2>1, <2>3, WhenIs
  <2> HIDE DEF it, rows
  <2> QED
    BY <2>2, <2>4
<1>5. \A i, j \in 1 .. n : m.segments[i].key = m.segments[j].key => i = j
  BY KeysDiffer DEF Valid, validate, IsManifest
<1>6. rows \in [1 .. n -> Seq(ItemType(m))] /\ DOMAIN rows = 1 .. n
  <2>1. rows = [i \in 1 .. n |-> rows[i]] /\ DOMAIN rows = 1 .. n
    OBVIOUS
  <2> HIDE DEF rows
  <2> QED
    BY <1>4, <2>1
<1> HIDE DEF rows, it, n
<1>7. \A i, j \in 1 .. n : i # j => \A x \in Of(rows[i]), y \in Of(rows[j]) : ~Alike(x, y)
  <2> SUFFICES ASSUME NEW i \in 1 .. n, NEW j \in 1 .. n, i # j, NEW x \in Of(rows[i]),
                      NEW y \in Of(rows[j])
               PROVE  ~Alike(x, y)
    OBVIOUS
  <2>1. x = it(i) /\ y = it(j)
    BY <1>4
  <2> QED
    BY <1>3, <1>5, <2>1 DEF Alike
<1>8. /\ FlattenSeq(rows) \in Seq(ItemType(m)) /\ Unlike(FlattenSeq(rows))
      /\ Of(FlattenSeq(rows)) = UNION {Of(rows[i]) : i \in 1 .. n}
  BY <1>1, <1>4, <1>6, <1>7, PickedAre
<1>9. ASSUME NEW i \in 1 .. n, NEW x \in Of(rows[i])
      PROVE  x.is = "profile" /\ x.key \in Keys(m.segments) /\ x.on = x.key /\ m.profiles # {}
  BY <1>3, <1>4
<1> QED
  BY <1>2, <1>8, <1>9

Rows(m) ==
    <<ResourceItems(m), ScopeItems(m), ObjectItems("permission", m.permissions),
      ObjectItems("role", m.roles), GrantItems(m),
      ObjectItems("group", m.groups), BindingItems(m, m.groups),
      ObjectItems("user", m.users), BindingItems(m, m.users),
      ObjectItems("service-account", m.accounts), BindingItems(m, m.accounts),
      When(m.policy, Item("policy", None, None)),
      ObjectItems("segment", m.segments), ProfileItems(m)>>

\* What each item says, by its kind.
ItemOf(m, x) ==
    /\ x \in ItemType(m)
    /\ x.is = "resource" => x.key \in Keys(m.resources) /\ x.on = Parent(m)[x.key]
    /\ x.is = "scope" =>
         \E i \in 1 .. Len(m.scopes) : x.key = m.scopes[i].key /\ x.on = m.scopes[i].on
    /\ x.is = "permission" => x.key \in Keys(m.permissions) /\ x.on = None
    /\ x.is = "role" => x.key \in Keys(m.roles) /\ x.on = None
    /\ x.is = "grant" => /\ x.key \in Keys(m.roles) /\ x.on \in Keys(m.permissions)
                         /\ x.scopes \subseteq Keys(m.scopes)
    /\ x.is = "group" => x.key \in Keys(m.groups) /\ x.on = None
    /\ x.is = "user" => x.key \in Keys(m.users) /\ x.on = None
    /\ x.is = "service-account" => x.key \in Keys(m.accounts) /\ x.on = None
    /\ x.is = "member" => x.key \in Keys(m.users) /\ x.on \in Keys(m.groups)
    /\ x.is = "binding" => /\ x.key \in Keys(m.groups) \cup Keys(m.users) \cup Keys(m.accounts)
                           /\ x.on \in Keys(m.roles) /\ x.at \in Up(m) /\ x.inherit \in BOOLEAN
    /\ x.is = "policy" => x.key = None /\ x.on = None
    /\ x.is = "segment" => x.key \in Keys(m.segments) /\ x.on = None
    /\ x.is = "profile" => x.key \in Keys(m.segments) /\ x.on = x.key

LEMMA SectionsAre ==
    ASSUME NEW m, Valid(m)
    PROVE  \A s \in {m.resources, m.scopes, m.permissions, m.roles, m.groups, m.users,
                     m.accounts, m.segments} :
               s \in Seq(ToSet(s)) /\ Distinct(s) /\ None \notin Keys(s)
  BY DEF Valid, IsManifest, validate

ObjectSections(m) ==
    {<<"permission", m.permissions>>, <<"role", m.roles>>, <<"group", m.groups>>,
     <<"user", m.users>>, <<"service-account", m.accounts>>, <<"segment", m.segments>>}

LEMMA ObjectRow ==
    ASSUME NEW m, Valid(m),
           NEW is, NEW s,
           <<is, s>> \in ObjectSections(m)
    PROVE  /\ ObjectItems(is, s) \in Seq(ItemType(m)) /\ Unlike(ObjectItems(is, s))
           /\ \A x \in Of(ObjectItems(is, s)) : /\ x.is = is /\ x.key \in Keys(s) /\ x.on = None
                                                /\ ItemOf(m, x)
           /\ \A k \in Keys(s) : \E x \in Of(ObjectItems(is, s)) : <<is, k>> \in Gives(x)
<1>1. s \in Seq(ToSet(s)) /\ Distinct(s)
  BY SectionsAre DEF ObjectSections
<1>2. Keys(s) \subseteq AllKeys(m) /\ is \in Shape \cup Network
  BY DEF AllKeys, Shape, Network, ObjectSections
<1>3. /\ ObjectItems(is, s) \in Seq(ItemType(m)) /\ Unlike(ObjectItems(is, s))
      /\ Of(ObjectItems(is, s)) = {Item(is, k, None) : k \in Keys(s)}
  BY <1>1, <1>2, ObjectItemsAre
<1>4. ASSUME NEW k \in Keys(s)
      PROVE  /\ Item(is, k, None) \in ItemType(m) /\ Item(is, k, None).is = is
             /\ Item(is, k, None).key = k /\ Item(is, k, None).on = None
  <2>1. is \in Kinds /\ k \in AllKeys(m) /\ None \in AllKeys(m)
    BY <1>2 DEF Kinds, AllKeys
  <2> QED
    BY ONLY <2>1, ItemTyped
<1>5. ASSUME NEW x \in Of(ObjectItems(is, s))
      PROVE  x.is = is /\ x.key \in Keys(s) /\ x.on = None /\ x \in ItemType(m)
  <2>1. PICK k \in Keys(s) : x = Item(is, k, None)
    BY <1>3
  <2> QED
    BY <1>4, <2>1
<1>6. ASSUME NEW x \in Of(ObjectItems(is, s)) PROVE ItemOf(m, x)
  <2>1. \/ is = "permission" /\ s = m.permissions
        \/ is = "role" /\ s = m.roles
        \/ is = "group" /\ s = m.groups
        \/ is = "user" /\ s = m.users
        \/ is = "service-account" /\ s = m.accounts
        \/ is = "segment" /\ s = m.segments
    BY DEF ObjectSections
  <2> QED
    BY ONLY <1>5, <2>1 DEF ItemOf
<1>7. ASSUME NEW k \in Keys(s)
      PROVE  \E x \in Of(ObjectItems(is, s)) : <<is, k>> \in Gives(x)
  <2>1. Item(is, k, None) \in Of(ObjectItems(is, s))
    BY <1>3
  <2>2. <<is, k>> \in Gives(Item(is, k, None))
    <3>1. is \in Shape \cup {"segment"}
      BY DEF ObjectSections, Shape
    <3> QED
      BY <1>4, <3>1 DEF Gives
  <2> QED
    BY <2>1, <2>2
<1> QED
  BY <1>3, <1>5, <1>6, <1>7

LEMMA ResourceRow ==
    ASSUME NEW m, Valid(m)
    PROVE  /\ \A x \in Of(ResourceItems(m)) :
                x.is = "resource" /\ ItemOf(m, x) /\ x.on \in Up(m)
           /\ \A k \in Keys(m.resources) : \E x \in Of(ResourceItems(m)) :
                x = Item("resource", k, Parent(m)[k]) /\ <<"resource", k>> \in Gives(x)
<1>1. ASSUME NEW k \in Keys(m.resources)
      PROVE  LET x == Item("resource", k, Parent(m)[k]) IN
             /\ x \in ItemType(m) /\ x.is = "resource" /\ x.key = k /\ x.on = Parent(m)[k]
             /\ x.on \in Up(m)
  <2>1. Parent(m)[k] \in AllKeys(m) /\ k \in AllKeys(m) /\ "resource" \in Kinds /\ Parent(m)[k] \in Up(m)
    BY ParentIs DEF Up, AllKeys, Kinds, Shape
  <2> QED
    BY <2>1, ItemTyped
<1>2. Of(ResourceItems(m)) = {Item("resource", k, Parent(m)[k]) : k \in Keys(m.resources)}
  BY ResourceItemsAre
<1>3. ASSUME NEW x \in Of(ResourceItems(m))
      PROVE  x.is = "resource" /\ ItemOf(m, x) /\ x.on \in Up(m)
  <2>1. PICK k \in Keys(m.resources) : x = Item("resource", k, Parent(m)[k])
    BY <1>2
  <2>2. /\ x \in ItemType(m) /\ x.is = "resource" /\ x.key = k /\ x.on = Parent(m)[k]
        /\ x.on \in Up(m)
    BY <1>1, <2>1
  <2> QED
    BY <2>2 DEF ItemOf
<1>4. ASSUME NEW k \in Keys(m.resources)
      PROVE  \E x \in Of(ResourceItems(m)) :
                x = Item("resource", k, Parent(m)[k]) /\ <<"resource", k>> \in Gives(x)
  <2>1. <<"resource", k>> \in Gives(Item("resource", k, Parent(m)[k]))
    BY <1>1 DEF Gives, Shape
  <2> QED
    BY <1>2, <2>1
<1> QED
  BY <1>3, <1>4

LEMMA ScopeRow ==
    ASSUME NEW m, Valid(m)
    PROVE  /\ \A x \in Of(ScopeItems(m)) :
                x.is = "scope" /\ ItemOf(m, x) /\ x.on \in Keys(m.resources)
           /\ \A k \in Keys(m.scopes) : \E x \in Of(ScopeItems(m)) : <<"scope", k>> \in Gives(x)
<1> DEFINE it(i) == Item("scope", m.scopes[i].key, m.scopes[i].on)
<1>1. ASSUME NEW i \in 1 .. Len(m.scopes)
      PROVE  /\ it(i) \in ItemType(m) /\ it(i).is = "scope" /\ it(i).key = m.scopes[i].key
             /\ it(i).on = m.scopes[i].on /\ m.scopes[i].on \in Keys(m.resources)
  <2>1. DOMAIN m.scopes = 1 .. Len(m.scopes)
    BY DEF Valid, IsManifest
  <2>2. m.scopes[i].on \in Keys(m.resources)
    BY <2>1 DEF Valid, IsManifest
  <2>3. m.scopes[i].key \in AllKeys(m) /\ m.scopes[i].on \in AllKeys(m) /\ "scope" \in Kinds
    BY <2>1, <2>2 DEF AllKeys, Keys, Kinds, Shape
  <2> QED
    BY <2>2, <2>3, ItemTyped
<1>2. Of(ScopeItems(m)) = {it(i) : i \in 1 .. Len(m.scopes)}
  BY ScopeItemsAre
<1> HIDE DEF it
<1>3. ASSUME NEW x \in Of(ScopeItems(m))
      PROVE  x.is = "scope" /\ ItemOf(m, x) /\ x.on \in Keys(m.resources)
  <2>1. PICK i \in 1 .. Len(m.scopes) : x = it(i)
    BY <1>2
  <2>2. /\ x \in ItemType(m) /\ x.is = "scope" /\ x.key = m.scopes[i].key
        /\ x.on = m.scopes[i].on /\ x.on \in Keys(m.resources)
    BY <1>1, <2>1
  <2> QED
    BY <2>2 DEF ItemOf
<1>4. ASSUME NEW k \in Keys(m.scopes) PROVE \E x \in Of(ScopeItems(m)) : <<"scope", k>> \in Gives(x)
  <2>1. PICK i \in 1 .. Len(m.scopes) : m.scopes[i].key = k
    <3>1. DOMAIN m.scopes = 1 .. Len(m.scopes)
      BY DEF Valid, IsManifest
    <3> QED
      BY <3>1 DEF Keys
  <2>2. it(i) \in Of(ScopeItems(m)) /\ it(i).is = "scope" /\ it(i).key = k
    BY <1>1, <1>2, <2>1
  <2>3. <<"scope", k>> \in Gives(it(i))
    BY <2>2 DEF Gives, Shape
  <2> QED
    BY <2>2, <2>3
<1> QED
  BY <1>3, <1>4

\* A binding or a membership of a section of subjects.
LEMMA BindingRow ==
    ASSUME NEW m, Valid(m), NEW s \in {m.groups, m.users, m.accounts}
    PROVE  \A x \in Of(BindingItems(m, s)) :
               x.is \in {"binding", "member"} /\ x.key \in Keys(s) /\ ItemOf(m, x)
<1> SUFFICES ASSUME NEW x \in Of(BindingItems(m, s))
             PROVE  x.is \in {"binding", "member"} /\ x.key \in Keys(s) /\ ItemOf(m, x)
  OBVIOUS
<1>1. x \in ItemType(m)
  <2>1. BindingItems(m, s) \in Seq(ItemType(m))
    BY BindingItemsAre
  <2> QED
    BY <2>1 DEF Of
<1>2. BindingOf(m, x, Keys(s)) \/ MemberOf(m, x, Keys(s))
  BY BindingItemsAre
<1>3. CASE BindingOf(m, x, Keys(s))
  BY <1>1, <1>3 DEF BindingOf, ItemOf
<1>4. CASE MemberOf(m, x, Keys(s))
  BY <1>1, <1>4 DEF MemberOf, ItemOf
<1> QED
  BY <1>2, <1>3, <1>4

LEMMA OtherRows ==
    ASSUME NEW m, Valid(m)
    PROVE  /\ \A x \in Of(GrantItems(m)) : x.is = "grant" /\ ItemOf(m, x)
           /\ \A x \in Of(ProfileItems(m)) : x.is = "profile" /\ ItemOf(m, x)
           /\ LET P == When(m.policy, Item("policy", None, None)) IN
              /\ P \in Seq(ItemType(m)) /\ Unlike(P)
              /\ \A x \in Of(P) : x.is = "policy" /\ ItemOf(m, x)
<1>1. ASSUME NEW x \in Of(GrantItems(m)) PROVE x.is = "grant" /\ ItemOf(m, x)
  <2>1. x \in ItemType(m)
    <3>1. GrantItems(m) \in Seq(ItemType(m))
      BY GrantItemsAre
    <3> QED
      BY <3>1 DEF Of
  <2>2. /\ x.is = "grant" /\ x.key \in Keys(m.roles) /\ x.on \in Keys(m.permissions)
        /\ x.scopes \subseteq Keys(m.scopes)
    BY GrantItemsAre
  <2> QED
    BY <2>1, <2>2 DEF ItemOf
<1>2. ASSUME NEW x \in Of(ProfileItems(m)) PROVE x.is = "profile" /\ ItemOf(m, x)
  <2>1. x \in ItemType(m)
    <3>1. ProfileItems(m) \in Seq(ItemType(m))
      BY ProfileItemsAre
    <3> QED
      BY <3>1 DEF Of
  <2>2. x.is = "profile" /\ x.key \in Keys(m.segments) /\ x.on = x.key
    BY ProfileItemsAre
  <2> QED
    BY <2>1, <2>2 DEF ItemOf
<1> DEFINE it == Item("policy", None, None)
           P == When(m.policy, it)
<1>3. it \in ItemType(m) /\ it.is = "policy" /\ it.key = None /\ it.on = None
  <2>1. "policy" \in Kinds /\ None \in AllKeys(m)
    BY DEF Kinds, Network, AllKeys
  <2> QED
    BY <2>1, ItemTyped
<1>4. m.policy \in BOOLEAN
  BY DEF Valid, IsManifest
<1>5. P \in Seq(ItemType(m)) /\ Unlike(P) /\ Of(P) = IF m.policy THEN {it} ELSE {}
  <2> HIDE DEF it
  <2> QED
    BY <1>3, <1>4, WhenIs
<1> HIDE DEF it, P
<1>6. \A x \in Of(P) : x.is = "policy" /\ ItemOf(m, x)
  BY <1>3, <1>5 DEF ItemOf
<1> QED
  BY <1>1, <1>2, <1>5, <1>6 DEF it, P

\* The row an item is in.
RowOf(m, x) ==
    IF x.is = "resource" THEN 1
    ELSE IF x.is = "scope" THEN 2
    ELSE IF x.is = "permission" THEN 3
    ELSE IF x.is = "role" THEN 4
    ELSE IF x.is = "grant" THEN 5
    ELSE IF x.is = "group" THEN 6
    ELSE IF x.is = "user" THEN 8
    ELSE IF x.is = "service-account" THEN 10
    ELSE IF x.is = "policy" THEN 12
    ELSE IF x.is = "segment" THEN 13
    ELSE IF x.is = "profile" THEN 14
    ELSE IF x.key \in Keys(m.groups) THEN 7
    ELSE IF x.key \in Keys(m.users) THEN 9
    ELSE 11

LEMMA KindOfRow ==
    ASSUME NEW m, Valid(m), NEW x
    PROVE  /\ x.is = "resource" => RowOf(m, x) = 1
           /\ x.is = "scope" => RowOf(m, x) = 2
           /\ x.is = "permission" => RowOf(m, x) = 3
           /\ x.is = "role" => RowOf(m, x) = 4
           /\ x.is = "grant" => RowOf(m, x) = 5
           /\ x.is = "group" => RowOf(m, x) = 6
           /\ x.is = "user" => RowOf(m, x) = 8
           /\ x.is = "service-account" => RowOf(m, x) = 10
           /\ x.is = "policy" => RowOf(m, x) = 12
           /\ x.is = "segment" => RowOf(m, x) = 13
           /\ x.is = "profile" => RowOf(m, x) = 14
           /\ x.is \in {"binding", "member"} /\ x.key \in Keys(m.groups) => RowOf(m, x) = 7
           /\ x.is \in {"binding", "member"} /\ x.key \in Keys(m.users) => RowOf(m, x) = 9
           /\ x.is \in {"binding", "member"} /\ x.key \in Keys(m.accounts) => RowOf(m, x) = 11
<1>0. /\ Keys(m.users) \cap Keys(m.groups) = {}
      /\ Keys(m.accounts) \cap (Keys(m.groups) \cup Keys(m.users)) = {}
  BY DEF Valid, IsManifest
<1>1. ASSUME x.is = "resource" PROVE RowOf(m, x) = 1
  BY ONLY <1>1 DEF RowOf
<1>2. ASSUME x.is = "scope" PROVE RowOf(m, x) = 2
  BY ONLY <1>2 DEF RowOf
<1>3. ASSUME x.is = "permission" PROVE RowOf(m, x) = 3
  BY ONLY <1>3 DEF RowOf
<1>4. ASSUME x.is = "role" PROVE RowOf(m, x) = 4
  BY ONLY <1>4 DEF RowOf
<1>5. ASSUME x.is = "grant" PROVE RowOf(m, x) = 5
  BY ONLY <1>5 DEF RowOf
<1>6. ASSUME x.is = "group" PROVE RowOf(m, x) = 6
  BY ONLY <1>6 DEF RowOf
<1>7. ASSUME x.is = "user" PROVE RowOf(m, x) = 8
  BY ONLY <1>7 DEF RowOf
<1>8. ASSUME x.is = "service-account" PROVE RowOf(m, x) = 10
  BY ONLY <1>8 DEF RowOf
<1>9. ASSUME x.is = "policy" PROVE RowOf(m, x) = 12
  BY ONLY <1>9 DEF RowOf
<1>10. ASSUME x.is = "segment" PROVE RowOf(m, x) = 13
  BY ONLY <1>10 DEF RowOf
<1>11. ASSUME x.is = "profile" PROVE RowOf(m, x) = 14
  BY ONLY <1>11 DEF RowOf
<1>12. ASSUME x.is \in {"binding", "member"} /\ x.key \in Keys(m.groups) PROVE RowOf(m, x) = 7
  BY ONLY <1>0, <1>12 DEF RowOf
<1>13. ASSUME x.is \in {"binding", "member"} /\ x.key \in Keys(m.users) PROVE RowOf(m, x) = 9
  BY ONLY <1>0, <1>13 DEF RowOf
<1>14. ASSUME x.is \in {"binding", "member"} /\ x.key \in Keys(m.accounts) PROVE RowOf(m, x) = 11
  BY ONLY <1>0, <1>14 DEF RowOf
<1> QED
  BY <1>1, <1>2, <1>3, <1>4, <1>5, <1>6, <1>7, <1>8, <1>9, <1>10, <1>11, <1>12, <1>13, <1>14

\* A row and its items.
GoodRow(m, i, s) ==
    /\ s \in Seq(ItemType(m)) /\ Unlike(s)
    /\ \A x \in Of(s) : ItemOf(m, x) /\ RowOf(m, x) = i

LEMMA Sequence ==
    ASSUME NEW T, NEW n \in Nat, NEW f \in [1 .. n -> T]
    PROVE  f \in Seq(T)
  OBVIOUS

\* The rows, in the order apply() works in.
LEMMA RowsAre ==
    ASSUME NEW m, Valid(m)
    PROVE  /\ Rows(m) \in Seq(Seq(ItemType(m))) /\ Len(Rows(m)) = 14
           /\ \A i \in 1 .. 14 : GoodRow(m, i, Rows(m)[i])
<1>0. Valid(m)
  OBVIOUS
<1>1. GoodRow(m, 1, ResourceItems(m))
  <2>2. /\ ResourceItems(m) \in Seq(ItemType(m)) /\ Unlike(ResourceItems(m))
        /\ \A x \in Of(ResourceItems(m)) : ItemOf(m, x) /\ x.is = "resource"
    BY ResourceItemsAre, ResourceRow
  <2> QED
    BY ONLY <1>0, <2>2, KindOfRow DEF GoodRow
<1>2. GoodRow(m, 2, ScopeItems(m))
  <2>2. /\ ScopeItems(m) \in Seq(ItemType(m)) /\ Unlike(ScopeItems(m))
        /\ \A x \in Of(ScopeItems(m)) : ItemOf(m, x) /\ x.is = "scope"
    BY ScopeItemsAre, ScopeRow
  <2> QED
    BY ONLY <1>0, <2>2, KindOfRow DEF GoodRow
<1>3. GoodRow(m, 3, ObjectItems("permission", m.permissions))
  <2> DEFINE is == "permission" s == m.permissions
  <2>1. <<is, s>> \in ObjectSections(m)
    BY DEF ObjectSections
  <2> HIDE DEF is, s
  <2>2. /\ ObjectItems(is, s) \in Seq(ItemType(m)) /\ Unlike(ObjectItems(is, s))
        /\ \A x \in Of(ObjectItems(is, s)) : ItemOf(m, x) /\ x.is = is
    BY <2>1, ObjectRow
  <2> QED
    BY ONLY <1>0, <2>2, KindOfRow DEF GoodRow, is, s
<1>4. GoodRow(m, 4, ObjectItems("role", m.roles))
  <2> DEFINE is == "role" s == m.roles
  <2>1. <<is, s>> \in ObjectSections(m)
    BY DEF ObjectSections
  <2> HIDE DEF is, s
  <2>2. /\ ObjectItems(is, s) \in Seq(ItemType(m)) /\ Unlike(ObjectItems(is, s))
        /\ \A x \in Of(ObjectItems(is, s)) : ItemOf(m, x) /\ x.is = is
    BY <2>1, ObjectRow
  <2> QED
    BY ONLY <1>0, <2>2, KindOfRow DEF GoodRow, is, s
<1>5. GoodRow(m, 5, GrantItems(m))
  <2>2. /\ GrantItems(m) \in Seq(ItemType(m)) /\ Unlike(GrantItems(m))
        /\ \A x \in Of(GrantItems(m)) : ItemOf(m, x) /\ x.is = "grant"
    BY GrantItemsAre, OtherRows
  <2> QED
    BY ONLY <1>0, <2>2, KindOfRow DEF GoodRow
<1>6. GoodRow(m, 6, ObjectItems("group", m.groups))
  <2> DEFINE is == "group" s == m.groups
  <2>1. <<is, s>> \in ObjectSections(m)
    BY DEF ObjectSections
  <2> HIDE DEF is, s
  <2>2. /\ ObjectItems(is, s) \in Seq(ItemType(m)) /\ Unlike(ObjectItems(is, s))
        /\ \A x \in Of(ObjectItems(is, s)) : ItemOf(m, x) /\ x.is = is
    BY <2>1, ObjectRow
  <2> QED
    BY ONLY <1>0, <2>2, KindOfRow DEF GoodRow, is, s
<1>7. GoodRow(m, 7, BindingItems(m, m.groups))
  <2> DEFINE s == m.groups
  <2>1. s \in {m.groups, m.users, m.accounts}
    OBVIOUS
  <2> HIDE DEF s
  <2>2. /\ BindingItems(m, s) \in Seq(ItemType(m)) /\ Unlike(BindingItems(m, s))
        /\ \A x \in Of(BindingItems(m, s)) : /\ ItemOf(m, x)
             /\ x.is \in {"binding", "member"} /\ x.key \in Keys(s)
    BY <2>1, BindingItemsAre, BindingRow
  <2> QED
    BY ONLY <1>0, <2>2, KindOfRow DEF GoodRow, s
<1>8. GoodRow(m, 8, ObjectItems("user", m.users))
  <2> DEFINE is == "user" s == m.users
  <2>1. <<is, s>> \in ObjectSections(m)
    BY DEF ObjectSections
  <2> HIDE DEF is, s
  <2>2. /\ ObjectItems(is, s) \in Seq(ItemType(m)) /\ Unlike(ObjectItems(is, s))
        /\ \A x \in Of(ObjectItems(is, s)) : ItemOf(m, x) /\ x.is = is
    BY <2>1, ObjectRow
  <2> QED
    BY ONLY <1>0, <2>2, KindOfRow DEF GoodRow, is, s
<1>9. GoodRow(m, 9, BindingItems(m, m.users))
  <2> DEFINE s == m.users
  <2>1. s \in {m.groups, m.users, m.accounts}
    OBVIOUS
  <2> HIDE DEF s
  <2>2. /\ BindingItems(m, s) \in Seq(ItemType(m)) /\ Unlike(BindingItems(m, s))
        /\ \A x \in Of(BindingItems(m, s)) : /\ ItemOf(m, x)
             /\ x.is \in {"binding", "member"} /\ x.key \in Keys(s)
    BY <2>1, BindingItemsAre, BindingRow
  <2> QED
    BY ONLY <1>0, <2>2, KindOfRow DEF GoodRow, s
<1>10. GoodRow(m, 10, ObjectItems("service-account", m.accounts))
  <2> DEFINE is == "service-account" s == m.accounts
  <2>1. <<is, s>> \in ObjectSections(m)
    BY DEF ObjectSections
  <2> HIDE DEF is, s
  <2>2. /\ ObjectItems(is, s) \in Seq(ItemType(m)) /\ Unlike(ObjectItems(is, s))
        /\ \A x \in Of(ObjectItems(is, s)) : ItemOf(m, x) /\ x.is = is
    BY <2>1, ObjectRow
  <2> QED
    BY ONLY <1>0, <2>2, KindOfRow DEF GoodRow, is, s
<1>11. GoodRow(m, 11, BindingItems(m, m.accounts))
  <2> DEFINE s == m.accounts
  <2>1. s \in {m.groups, m.users, m.accounts}
    OBVIOUS
  <2> HIDE DEF s
  <2>2. /\ BindingItems(m, s) \in Seq(ItemType(m)) /\ Unlike(BindingItems(m, s))
        /\ \A x \in Of(BindingItems(m, s)) : /\ ItemOf(m, x)
             /\ x.is \in {"binding", "member"} /\ x.key \in Keys(s)
    BY <2>1, BindingItemsAre, BindingRow
  <2> QED
    BY ONLY <1>0, <2>2, KindOfRow DEF GoodRow, s
<1>12. GoodRow(m, 12, When(m.policy, Item("policy", None, None)))
  <2>2. /\ When(m.policy, Item("policy", None, None)) \in Seq(ItemType(m)) /\ Unlike(When(m.policy, Item("policy", None, None)))
        /\ \A x \in Of(When(m.policy, Item("policy", None, None))) : ItemOf(m, x) /\ x.is = "policy"
    BY OtherRows
  <2> QED
    BY ONLY <1>0, <2>2, KindOfRow DEF GoodRow
<1>13. GoodRow(m, 13, ObjectItems("segment", m.segments))
  <2> DEFINE is == "segment" s == m.segments
  <2>1. <<is, s>> \in ObjectSections(m)
    BY DEF ObjectSections
  <2> HIDE DEF is, s
  <2>2. /\ ObjectItems(is, s) \in Seq(ItemType(m)) /\ Unlike(ObjectItems(is, s))
        /\ \A x \in Of(ObjectItems(is, s)) : ItemOf(m, x) /\ x.is = is
    BY <2>1, ObjectRow
  <2> QED
    BY ONLY <1>0, <2>2, KindOfRow DEF GoodRow, is, s
<1>14. GoodRow(m, 14, ProfileItems(m))
  <2>2. /\ ProfileItems(m) \in Seq(ItemType(m)) /\ Unlike(ProfileItems(m))
        /\ \A x \in Of(ProfileItems(m)) : ItemOf(m, x) /\ x.is = "profile"
    BY ProfileItemsAre, OtherRows
  <2> QED
    BY ONLY <1>0, <2>2, KindOfRow DEF GoodRow
<1> DEFINE T == Seq(ItemType(m))
<1>17. ASSUME NEW i \in 1 .. 14 PROVE GoodRow(m, i, Rows(m)[i])
  <2>1. i = 1 \/ i = 2 \/ i = 3 \/ i = 4 \/ i = 5 \/ i = 6 \/ i = 7
        \/ i = 8 \/ i = 9 \/ i = 10 \/ i = 11 \/ i = 12 \/ i = 13 \/ i = 14
    OBVIOUS
  <2>2. Rows(m)[1] = ResourceItems(m)
    BY DEF Rows
  <2>3. Rows(m)[2] = ScopeItems(m)
    BY DEF Rows
  <2>4. Rows(m)[3] = ObjectItems("permission", m.permissions)
    BY DEF Rows
  <2>5. Rows(m)[4] = ObjectItems("role", m.roles)
    BY DEF Rows
  <2>6. Rows(m)[5] = GrantItems(m)
    BY DEF Rows
  <2>7. Rows(m)[6] = ObjectItems("group", m.groups)
    BY DEF Rows
  <2>8. Rows(m)[7] = BindingItems(m, m.groups)
    BY DEF Rows
  <2>9. Rows(m)[8] = ObjectItems("user", m.users)
    BY DEF Rows
  <2>10. Rows(m)[9] = BindingItems(m, m.users)
    BY DEF Rows
  <2>11. Rows(m)[10] = ObjectItems("service-account", m.accounts)
    BY DEF Rows
  <2>12. Rows(m)[11] = BindingItems(m, m.accounts)
    BY DEF Rows
  <2>13. Rows(m)[12] = When(m.policy, Item("policy", None, None))
    BY DEF Rows
  <2>14. Rows(m)[13] = ObjectItems("segment", m.segments)
    BY DEF Rows
  <2>15. Rows(m)[14] = ProfileItems(m)
    BY DEF Rows
  <2> QED
    BY ONLY <2>1, <1>1, <2>2, <1>2, <2>3, <1>3, <2>4, <1>4, <2>5, <1>5, <2>6, <1>6, <2>7, <1>7, <2>8, <1>8, <2>9, <1>9, <2>10, <1>10, <2>11, <1>11, <2>12, <1>12, <2>13, <1>13, <2>14, <1>14, <2>15
<1>15. Rows(m) = [i \in 1 .. 14 |-> Rows(m)[i]] /\ Len(Rows(m)) = 14
  BY DEF Rows
<1>18. \A i \in 1 .. 14 : Rows(m)[i] \in T
  BY <1>17 DEF GoodRow
<1>16. Rows(m) \in Seq(T)
  <2> HIDE DEF T
  <2>1. Rows(m) \in [1 .. 14 -> T] /\ 14 \in Nat
    BY ONLY <1>15, <1>18
  <2> QED
    BY ONLY <2>1, Sequence
<1> QED
  BY <1>15, <1>16, <1>17

\* Which row gives the id of a key.
GivenIn(m, a, p) == \E y \in Of(Rows(m)[a]) : p \in Gives(y)

LEMMA Giver ==
    ASSUME NEW m, Valid(m)
    PROVE  /\ \A k \in Keys(m.resources) : GivenIn(m, 1, <<"resource", k>>)
           /\ \A k \in Keys(m.scopes) : GivenIn(m, 2, <<"scope", k>>)
           /\ \A k \in Keys(m.permissions) : GivenIn(m, 3, <<"permission", k>>)
           /\ \A k \in Keys(m.roles) : GivenIn(m, 4, <<"role", k>>)
           /\ \A k \in Keys(m.groups) : GivenIn(m, 6, <<"group", k>>)
           /\ \A k \in Keys(m.users) : GivenIn(m, 8, <<"user", k>>)
           /\ \A k \in Keys(m.accounts) :
                GivenIn(m, 10, <<"service-account", k>>)
           /\ \A k \in Keys(m.segments) : GivenIn(m, 13, <<"segment", k>>)
<1>1. ASSUME NEW is, NEW s, <<is, s>> \in ObjectSections(m)
      PROVE  \A k \in Keys(s) : \E x \in Of(ObjectItems(is, s)) : <<is, k>> \in Gives(x)
  BY <1>1, ObjectRow
<1>2. /\ Rows(m)[1] = ResourceItems(m) /\ Rows(m)[2] = ScopeItems(m)
      /\ Rows(m)[3] = ObjectItems("permission", m.permissions)
      /\ Rows(m)[4] = ObjectItems("role", m.roles)
      /\ Rows(m)[6] = ObjectItems("group", m.groups)
      /\ Rows(m)[8] = ObjectItems("user", m.users)
      /\ Rows(m)[10] = ObjectItems("service-account", m.accounts)
      /\ Rows(m)[13] = ObjectItems("segment", m.segments)
  BY DEF Rows
<1>3. /\ <<"permission", m.permissions>> \in ObjectSections(m)
      /\ <<"role", m.roles>> \in ObjectSections(m)
      /\ <<"group", m.groups>> \in ObjectSections(m)
      /\ <<"user", m.users>> \in ObjectSections(m)
      /\ <<"service-account", m.accounts>> \in ObjectSections(m)
      /\ <<"segment", m.segments>> \in ObjectSections(m)
  BY DEF ObjectSections
<1>4. \A k \in Keys(m.resources) : \E x \in Of(ResourceItems(m)) : <<"resource", k>> \in Gives(x)
  BY ResourceRow
<1>5. \A k \in Keys(m.scopes) : \E x \in Of(ScopeItems(m)) : <<"scope", k>> \in Gives(x)
  BY ScopeRow
<1> QED
  BY ONLY <1>1, <1>2, <1>3, <1>4, <1>5 DEF GivenIn

\* Rows are of different things.
LEMMA RowsApart ==
    ASSUME NEW m, Valid(m)
    PROVE  \A i, j \in 1 .. 14 : i # j =>
               \A x \in Of(Rows(m)[i]), y \in Of(Rows(m)[j]) : ~Alike(x, y)
<1> SUFFICES ASSUME NEW i \in 1 .. 14, NEW j \in 1 .. 14, i # j,
                    NEW x \in Of(Rows(m)[i]), NEW y \in Of(Rows(m)[j]), Alike(x, y)
             PROVE  FALSE
  OBVIOUS
<1>1. RowOf(m, x) = i /\ RowOf(m, y) = j
  BY RowsAre DEF GoodRow
<1>2. x.is = y.is /\ x.key = y.key
  BY DEF Alike
<1>3. RowOf(m, x) = RowOf(m, y)
  BY ONLY <1>2 DEF RowOf
<1> QED
  BY <1>1, <1>3

\* Each item of a row needs what an earlier row gives, or an earlier item of the row.
LEMMA NeedsAre ==
    ASSUME NEW m, Valid(m), NEW i \in 1 .. 14, NEW j \in 1 .. Len(Rows(m)[i]),
           NEW p \in Needs(m, Rows(m)[i][j])
    PROVE  \/ \E a \in 1 .. i - 1 : \E x \in Of(Rows(m)[a]) : p \in Gives(x)
           \/ \E b \in 1 .. j - 1 : p \in Gives(Rows(m)[i][b])
<1> DEFINE x == Rows(m)[i][j]
<1>1. x \in Of(Rows(m)[i])
  BY DEF Of
<1>2. ItemOf(m, x) /\ RowOf(m, x) = i /\ x.is \in Kinds
  <2>1. ItemOf(m, x) /\ RowOf(m, x) = i
    BY <1>1, RowsAre DEF GoodRow
  <2> QED
    BY <2>1 DEF ItemOf, ItemType
<1>3. p \in Needs(m, x)
  OBVIOUS
<1> SUFFICES ASSUME ~ \E b \in 1 .. j - 1 : p \in Gives(Rows(m)[i][b])
             PROVE  \E a \in 1 .. i - 1 : GivenIn(m, a, p)
  BY DEF GivenIn
<1>4. CASE x.is = "resource"
  <2>1. i = 1
    BY <1>2, <1>4, KindOfRow
  <2>2. Rows(m)[1] = ResourceItems(m)
    BY DEF Rows
  <2>3. x.on # None /\ p = <<"resource", x.on>>
    BY <1>3, <1>4 DEF Needs, OnKind
  <2>4. PICK b \in 1 .. j - 1 : ResourceItems(m)[b].is = "resource" /\ ResourceItems(m)[b].key = x.on
    BY <2>1, <2>2, <2>3, ResourceItemsAre
  <2>5. p \in Gives(ResourceItems(m)[b])
    BY <2>3, <2>4 DEF Gives, Shape
  <2> QED
    BY <2>1, <2>2, <2>4, <2>5
<1> HIDE DEF x
<1>5. CASE x.is = "scope"
  <2>1. i = 2 /\ x.on \in Keys(m.resources)
    <3>1. i = 2 /\ x \in Of(ScopeItems(m))
      <4>1. i = 2
        BY <1>2, <1>5, KindOfRow
      <4> QED
        BY <1>1, <4>1 DEF Rows
    <3> QED
      BY <3>1, ScopeRow
  <2>2. p = <<"resource", x.on>>
    BY <1>3, <1>5 DEF Needs, OnKind
  <2>3. GivenIn(m, 1, p)
    BY <2>1, <2>2, Giver
  <2> QED
    BY <2>1, <2>3
<1>6. CASE x.is = "profile"
  <2>1. i = 14 /\ x.on \in Keys(m.segments)
    BY <1>2, <1>6, KindOfRow DEF ItemOf
  <2>2. p = <<"segment", x.on>>
    BY <1>3, <1>6 DEF Needs, OnKind
  <2>3. GivenIn(m, 13, p)
    BY <2>1, <2>2, Giver
  <2> QED
    BY <2>1, <2>3
<1>7. CASE x.is = "grant"
  <2>1. /\ i = 5 /\ x.key \in Keys(m.roles) /\ x.on \in Keys(m.permissions)
        /\ x.scopes \subseteq Keys(m.scopes)
    BY <1>2, <1>7, KindOfRow DEF ItemOf
  <2>2. \/ p = <<"role", x.key>>
        \/ p = <<"permission", x.on>>
        \/ \E s \in x.scopes : p = <<"scope", s>>
    BY <1>3, <1>7 DEF Needs
  <2>3. GivenIn(m, 4, p) \/ GivenIn(m, 3, p) \/ GivenIn(m, 2, p)
    <3>1. CASE p = <<"role", x.key>>
      BY <2>1, <3>1, Giver
    <3>2. CASE p = <<"permission", x.on>>
      BY <2>1, <3>2, Giver
    <3>3. CASE \E s \in x.scopes : p = <<"scope", s>>
      BY <2>1, <3>3, Giver
    <3> QED
      BY <2>2, <3>1, <3>2, <3>3
  <2> QED
    BY <2>1, <2>3
<1>8. CASE x.is = "member"
  <2>1. x.key \in Keys(m.users) /\ x.on \in Keys(m.groups)
    BY <1>2, <1>8 DEF ItemOf
  <2>2. i = 9
    BY <1>2, <1>8, <2>1, KindOfRow
  <2>3. p = <<"user", x.key>> \/ p = <<"group", x.on>>
    BY <1>3, <1>8 DEF Needs
  <2>4. GivenIn(m, 8, p) \/ GivenIn(m, 6, p)
    <3>1. CASE p = <<"user", x.key>>
      BY <2>1, <3>1, Giver
    <3>2. CASE p = <<"group", x.on>>
      BY <2>1, <3>2, Giver
    <3> QED
      BY <2>3, <3>1, <3>2
  <2> QED
    BY <2>2, <2>4
<1>9. CASE x.is = "binding"
  <2>1. /\ x.key \in Keys(m.groups) \cup Keys(m.users) \cup Keys(m.accounts)
        /\ x.on \in Keys(m.roles) /\ x.at \in Up(m)
    BY <1>2, <1>9 DEF ItemOf
  <2>2. \/ p = <<"role", x.on>>
        \/ p = <<SubjectKind(m, x.key), x.key>>
        \/ x.at # None /\ p = <<"resource", x.at>>
    BY <1>3, <1>9 DEF Needs
  <2>3. CASE p = <<"role", x.on>> \/ (x.at # None /\ p = <<"resource", x.at>>)
    <3>1. GivenIn(m, 4, p) \/ GivenIn(m, 1, p)
      <4>1. CASE p = <<"role", x.on>>
        BY <2>1, <4>1, Giver
      <4>2. CASE x.at # None /\ p = <<"resource", x.at>>
        BY <2>1, <4>2, Giver DEF Up
      <4> QED
        BY <2>3, <4>1, <4>2
    <3>2. i \in {7, 9, 11}
      BY <1>2, <1>9, <2>1, KindOfRow
    <3> QED
      BY <3>1, <3>2
  <2>4. CASE p = <<SubjectKind(m, x.key), x.key>>
    <3>0. /\ Keys(m.users) \cap Keys(m.groups) = {}
          /\ Keys(m.accounts) \cap (Keys(m.groups) \cup Keys(m.users)) = {}
      BY DEF Valid, IsManifest
    <3>1. CASE x.key \in Keys(m.users)
      <4>1. p = <<"user", x.key>> /\ i = 9
        BY <1>2, <1>9, <2>4, <3>0, <3>1, KindOfRow DEF SubjectKind
      <4>2. GivenIn(m, 8, p)
        BY <3>1, <4>1, Giver
      <4> QED
        BY <4>1, <4>2
    <3>2. CASE x.key \in Keys(m.groups)
      <4>1. p = <<"group", x.key>> /\ i = 7
        BY <1>2, <1>9, <2>4, <3>0, <3>2, KindOfRow DEF SubjectKind
      <4>2. GivenIn(m, 6, p)
        BY <3>2, <4>1, Giver
      <4> QED
        BY <4>1, <4>2
    <3>3. CASE x.key \in Keys(m.accounts)
      <4>1. p = <<"service-account", x.key>> /\ i = 11
        BY <1>2, <1>9, <2>4, <3>0, <3>3, KindOfRow DEF SubjectKind
      <4>2. GivenIn(m, 10, p)
        BY <3>3, <4>1, Giver
      <4>3. 10 \in 1 .. i - 1
        <5>1. i = 11
          BY <4>1
        <5> QED
          BY ONLY <5>1
      <4> QED
        BY <4>2, <4>3
    <3> QED
      BY <2>1, <3>1, <3>2, <3>3
  <2> QED
    BY <2>2, <2>3, <2>4
<1>10. CASE x.is \notin {"resource", "scope", "profile", "grant", "member", "binding"}
  <2>1. Needs(m, x) = {}
    BY <1>10 DEF Needs
  <2> QED
    BY <1>3, <2>1
<1> QED
  BY <1>4, <1>5, <1>6, <1>7, <1>8, <1>9, <1>10

\* What the manifest asks for: each thing once, after what it needs.
LEMMA ItemsAre ==
    ASSUME NEW m, Valid(m)
    PROVE  /\ Items(m) \in Seq(ItemType(m)) /\ Unlike(Items(m)) /\ Ordered(m, Items(m))
           /\ \A x \in Of(Items(m)) : ItemOf(m, x)
           /\ \A k \in Keys(m.resources) : \E x \in Of(Items(m)) :
                x.is = "resource" /\ x.key = k /\ x.on = Parent(m)[k]
<1> DEFINE S == ItemType(m)  R == Rows(m)
<1>1. Items(m) = FlattenSeq(R)
  BY DEF Items, Rows
<1>2. R \in Seq(Seq(S)) /\ Len(R) = 14 /\ \A i \in 1 .. 14 : GoodRow(m, i, R[i])
  BY RowsAre
<1>3. \A i, j \in 1 .. 14 : i # j => \A x \in Of(R[i]), y \in Of(R[j]) : ~Alike(x, y)
  BY RowsApart
<1>4. \A i \in 1 .. 14 : \A j \in 1 .. Len(R[i]) : \A p \in Needs(m, R[i][j]) :
               \/ \E a \in 1 .. i - 1 : \E x \in Of(R[a]) : p \in Gives(x)
               \/ \E b \in 1 .. j - 1 : p \in Gives(R[i][b])
  BY NeedsAre
<1>5. \A k \in Keys(m.resources) : \E x \in Of(R[1]) :
                x.is = "resource" /\ x.key = k /\ x.on = Parent(m)[k]
  <2> SUFFICES ASSUME NEW k \in Keys(m.resources)
               PROVE  \E x \in Of(R[1]) : x.is = "resource" /\ x.key = k /\ x.on = Parent(m)[k]
    OBVIOUS
  <2>1. R[1] = ResourceItems(m)
    BY DEF Rows
  <2>2. PICK x \in Of(ResourceItems(m)) : x = Item("resource", k, Parent(m)[k])
    BY ResourceRow
  <2>3. x.is = "resource" /\ x.key = k /\ x.on = Parent(m)[k]
    BY <2>2 DEF Item
  <2> QED
    BY <2>1, <2>3
<1> HIDE DEF S, R
<1>6. FlattenSeq(R) \in Seq(S) /\ Of(FlattenSeq(R)) = UNION {Of(R[i]) : i \in 1 .. 14}
  BY <1>2, FlattenedOf
<1>7. Unlike(FlattenSeq(R))
  <2>1. \A i \in 1 .. Len(R) : Unlike(R[i])
    BY <1>2 DEF GoodRow
  <2> QED
    BY <1>2, <1>3, <2>1, FlattenedUnlike
<1>8. Ordered(m, FlattenSeq(R))
  BY <1>2, <1>4, FlattenedOrdered
<1>9. \A x \in Of(FlattenSeq(R)) : ItemOf(m, x)
  BY <1>2, <1>6 DEF GoodRow
<1>10. Of(R[1]) \subseteq Of(FlattenSeq(R))
  BY <1>6
<1> QED
  BY <1>1, <1>5, <1>6, <1>7, <1>8, <1>9, <1>10 DEF S

LEMMA PassesExist ==
    ASSUME NEW m, NEW sn, NEW I, NEW a, NEW L \in Nat
    PROVE  \E f : f = [n \in 0 .. L |-> IF n = 0 THEN a ELSE Pass(m, sn, f[n - 1], I[n])]
<1> DEFINE E(n) == \E f : f = [i \in 0 .. n |-> IF i = 0 THEN a ELSE Pass(m, sn, f[i - 1], I[i])]
           T == {n \in Nat : E(n)}
<1>1. 0 \in T
  <2> DEFINE f == [i \in 0 .. 0 |-> a]
  <2>1. f = [i \in 0 .. 0 |-> IF i = 0 THEN a ELSE Pass(m, sn, f[i - 1], I[i])]
    OBVIOUS
  <2> HIDE DEF f
  <2> QED
    BY <2>1
<1>2. ASSUME NEW n \in Nat, n \in T PROVE n + 1 \in T
  <2>1. PICK f : f = [i \in 0 .. n |-> IF i = 0 THEN a ELSE Pass(m, sn, f[i - 1], I[i])]
    BY <1>2
  <2> DEFINE next == Pass(m, sn, f[n], I[n + 1])
  <2> HIDE DEF next
  <2> DEFINE g == [i \in 0 .. n + 1 |-> IF i \in 0 .. n THEN f[i] ELSE next]
  <2>2. ASSUME NEW i \in 0 .. n + 1
        PROVE  g[i] = IF i = 0 THEN a ELSE Pass(m, sn, g[i - 1], I[i])
    <3>1. CASE i \in 0 .. n
      <4>1. f[i] = IF i = 0 THEN a ELSE Pass(m, sn, f[i - 1], I[i])
        BY <2>1, <3>1
      <4>2. i # 0 => g[i - 1] = f[i - 1]
        BY <3>1
      <4> QED
        BY <3>1, <4>1, <4>2
    <3>2. CASE i = n + 1
      <4>1. g[i - 1] = f[n] /\ g[i] = next /\ i # 0
        BY <3>2
      <4> QED
        BY <3>2, <4>1 DEF next
    <3> QED
      BY <3>1, <3>2
  <2>3. g = [i \in 0 .. n + 1 |-> IF i = 0 THEN a ELSE Pass(m, sn, g[i - 1], I[i])]
    <3>1. g = [i \in 0 .. n + 1 |-> g[i]]
      OBVIOUS
    <3> HIDE DEF g
    <3> QED
      BY <2>2, <3>1
  <2>4. E(n + 1)
    <3> HIDE DEF g
    <3> QED
      BY <2>3
  <2> HIDE DEF E
  <2> QED
    BY <2>4
<1>3. L \in T
  <2> HIDE DEF T
  <2> QED
    BY <1>1, <1>2, SetInduction
<1> QED
  BY <1>3

\* One pass over the items.
LEMMA ComputedIs ==
    ASSUME NEW m, NEW sn, Len(Items(m)) \in Nat
    PROVE  /\ Computed(m, sn)[0] = [steps |-> <<>>, res |-> Nobody]
           /\ \A n \in 1 .. Len(Items(m)) :
                Computed(m, sn)[n] = Pass(m, sn, Computed(m, sn)[n - 1], Items(m)[n])
<1> DEFINE a == [steps |-> <<>>, res |-> Nobody]
           L == Len(Items(m))
           I == Items(m)
           f == CHOOSE f : f = [n \in 0 .. L |-> IF n = 0 THEN a ELSE Pass(m, sn, f[n - 1], I[n])]
<1>1. Computed(m, sn) = f
  BY DEF Computed
<1> HIDE DEF a, L, I
<1>2. L \in Nat
  BY DEF L
<1>3. f = [n \in 0 .. L |-> IF n = 0 THEN a ELSE Pass(m, sn, f[n - 1], I[n])]
  BY <1>2, PassesExist, SMTT(20)
<1> HIDE DEF f
<1>4. f[0] = a /\ \A n \in 1 .. L : f[n] = Pass(m, sn, f[n - 1], I[n])
  <2>1. 0 \in 0 .. L /\ \A n \in 1 .. L : n \in 0 .. L /\ n # 0
    BY <1>2
  <2> QED
    BY <1>3, <2>1
<1> QED
  BY <1>1, <1>4 DEF a, L, I

-----------------------------------------------------------------------------

\* Two states of what is resolved that agree on some keys.
Agree(r1, r2, keys) ==
    \A p \in keys : /\ p \in DOMAIN r1.ids <=> p \in DOMAIN r2.ids
                    /\ p \in DOMAIN r1.ids => r1.ids[p] = r2.ids[p]

LEMMA FoundAgrees ==
    ASSUME NEW m, NEW sn, NEW it, ItemOf(m, it), IsObject(it), NEW r1, NEW r2,
           Agree(r1, r2, Needs(m, it))
    PROVE  Found(r1, sn, it) = Found(r2, sn, it)
<1>1. CASE it.on = None
  BY <1>1 DEF Found, IdOf
<1>2. CASE it.on # None
  <2>1. it.is \in {"resource", "scope", "profile"}
    BY <1>2 DEF ItemOf, IsObject, Shape, Network
  <2>2. Needs(m, it) = {<<OnKind(it.is), it.on>>}
    BY <1>2, <2>1 DEF Needs
  <2>3. /\ Knows(r1, OnKind(it.is), it.on) <=> Knows(r2, OnKind(it.is), it.on)
        /\ Knows(r1, OnKind(it.is), it.on) =>
              IdOf(r1, OnKind(it.is), it.on) = IdOf(r2, OnKind(it.is), it.on)
    BY <1>2, <2>2 DEF Agree, Knows, IdOf
  <2> DEFINE u1 == IdOf(r1, OnKind(it.is), it.on)  u2 == IdOf(r2, OnKind(it.is), it.on)
             k1 == Knows(r1, OnKind(it.is), it.on)  k2 == Knows(r2, OnKind(it.is), it.on)
             F(u) == {o \in sn.objects : o.is = it.is /\ o.name = it.key /\ o.under = u}
  <2>4. /\ Found(r1, sn, it) = IF it.on # None /\ ~k1 THEN {} ELSE F(u1)
        /\ Found(r2, sn, it) = IF it.on # None /\ ~k2 THEN {} ELSE F(u2)
    BY DEF Found
  <2>5. (k1 <=> k2) /\ (k1 => u1 = u2)
    BY <2>3
  <2> HIDE DEF u1, u2, k1, k2, F
  <2> QED
    BY <1>2, <2>4, <2>5
<1> QED
  BY <1>1, <1>2

LEMMA HeldAgrees ==
    ASSUME NEW m, NEW sn, NEW it, it.is = "binding", NEW r1, NEW r2,
           Agree(r1, r2, Needs(m, it))
    PROVE  /\ Held(r1, sn, m, it) = Held(r2, sn, m, it)
           /\ \A b : bindingDrifted(r1, it, b) <=> bindingDrifted(r2, it, b)
<1> DEFINE sk == <<SubjectKind(m, it.key), it.key>>
           rk == <<"role", it.on>>
           at == IF it.at = None THEN {} ELSE {<<"resource", it.at>>}
<1>1. Needs(m, it) = {rk, sk} \cup at
  BY DEF Needs
<1>2. /\ Resolves(r1, {rk, sk}) <=> Resolves(r2, {rk, sk})
      /\ Resolves(r1, {rk, sk}) => r1.ids[rk] = r2.ids[rk] /\ r1.ids[sk] = r2.ids[sk]
  <2> HIDE DEF rk, sk, at
  <2> QED
    BY <1>1 DEF Agree, Resolves
<1>3. Held(r1, sn, m, it) = Held(r2, sn, m, it)
  BY <1>2 DEF Held
<1>4. it.at # None => /\ Knows(r1, "resource", it.at) <=> Knows(r2, "resource", it.at)
                      /\ Knows(r1, "resource", it.at) =>
                           r1.ids[<<"resource", it.at>>] = r2.ids[<<"resource", it.at>>]
  BY <1>1 DEF Agree, Knows
<1> QED
  BY <1>3, <1>4 DEF bindingDrifted

LEMMA PlannedAgrees ==
    ASSUME NEW m, NEW sn, NEW it, ItemOf(m, it), NEW r1, NEW r2, Agree(r1, r2, Needs(m, it))
    PROVE  Planned(r1, sn, m, it) = Planned(r2, sn, m, it)
<1>0. it.is \in Kinds
  BY DEF ItemOf, ItemType
<1>1. CASE it.is = "grant"
  <2> DEFINE rk == <<"role", it.key>>  pk == <<"permission", it.on>>
  <2>1. {rk, pk} \subseteq Needs(m, it)
    BY <1>1 DEF Needs
  <2>2. /\ Resolves(r1, {rk, pk}) <=> Resolves(r2, {rk, pk})
        /\ Resolves(r1, {rk, pk}) => Pair(r1, m, it) = Pair(r2, m, it)
    BY <1>1, <2>1 DEF Agree, Resolves, Pair
  <2> QED
    BY <1>1, <2>2 DEF Planned, PlannedLink
<1>2. CASE it.is = "member"
  <2>1. Needs(m, it) = {<<"user", it.key>>, <<"group", it.on>>}
    BY <1>2 DEF Needs
  <2>2. /\ Resolves(r1, Needs(m, it)) <=> Resolves(r2, Needs(m, it))
        /\ Resolves(r1, Needs(m, it)) => Pair(r1, m, it) = Pair(r2, m, it)
    BY <1>2, <2>1 DEF Agree, Resolves, Pair
  <2> QED
    BY <1>2, <2>2 DEF Planned, PlannedLink
<1>3. CASE it.is = "binding"
  <2>1. /\ Held(r1, sn, m, it) = Held(r2, sn, m, it)
        /\ \A b : bindingDrifted(r1, it, b) <=> bindingDrifted(r2, it, b)
    BY <1>3, HeldAgrees
  <2> QED
    BY <1>3, <2>1 DEF Planned, PlannedBinding
<1>4. CASE IsObject(it)
  <2>1. Found(r1, sn, it) = Found(r2, sn, it)
    BY <1>4, FoundAgrees
  <2>2. it.is \notin {"grant", "member", "binding"}
    BY <1>4 DEF IsObject, Shape, Network
  <2>3. it.is # "grant" /\ it.is # "member" /\ it.is # "binding"
    BY <2>2
  <2> HIDE DEF Found
  <2> QED
    BY ONLY <2>1, <2>3 DEF Planned
<1> QED
  BY <1>0, <1>1, <1>2, <1>3, <1>4 DEF Kinds, IsObject

\* What a planned step says.
ObjectPlanned(it, found, s) ==
    /\ found = {} => s.read = Absent /\ s.change \in {"create", "refused"}
    /\ found # {} => /\ s.read \in found /\ s.change \in {"update", "no-change", "refused"}
                     /\ s.change = "no-change" => ~drifted(s.read)
                     /\ it.is = "service-account" /\ s.change # "refused" => ~(Cardinality(found) > 1)

BindingPlanned(res, it, held, s) ==
    /\ held = {} => s.read = Absent /\ s.change = "create"
    /\ held # {} => /\ s.read \in held /\ s.change \in {"update", "no-change"}
                    /\ s.change = "no-change" => ~bindingDrifted(res, it, s.read)

LinkPlanned(there, s) ==
    s.read = Absent /\ s.change = IF there THEN "no-change" ELSE "create"

LEMMA StepIs ==
    ASSUME NEW it, NEW c, NEW r
    PROVE  Step(it, c, r).item = it /\ Step(it, c, r).change = c /\ Step(it, c, r).read = r
  BY DEF Step

LEMMA PlannedObjectIs ==
    ASSUME NEW m, NEW it, NEW found
    PROVE  /\ PlannedObject(m, it, found).item = it
           /\ ObjectPlanned(it, found, PlannedObject(m, it, found))
<1> DEFINE s == PlannedObject(m, it, found)
<1>1. CASE found = {}
  <2> DEFINE c == IF it.is = "user" /\ it.key \notin m.passworded THEN "refused" ELSE "create"
  <2>1. s = Step(it, c, Absent)
    BY <1>1 DEF PlannedObject
  <2>2. c \in {"create", "refused"}
    OBVIOUS
  <2> HIDE DEF s, c
  <2>3. s.item = it /\ s.change = c /\ s.read = Absent
    BY <2>1, StepIs
  <2> QED
    BY <1>1, <2>2, <2>3 DEF ObjectPlanned, s
<1>2. CASE found # {}
  <2> DEFINE o == CHOOSE o \in found : TRUE
             bad == \/ it.is = "service-account" /\ Cardinality(found) > 1
                    \/ it.is = "profile" /\ drifted(o) /\ o.rest = "unknown"
             c == IF bad THEN "refused" ELSE IF drifted(o) THEN "update" ELSE "no-change"
  <2>1. s = Step(it, c, o)
    BY <1>2 DEF PlannedObject
  <2>2. o \in found
    BY <1>2
  <2>3. /\ c \in {"update", "no-change", "refused"} /\ (c = "no-change" => ~drifted(o))
        /\ it.is = "service-account" /\ c # "refused" => ~(Cardinality(found) > 1)
    OBVIOUS
  <2> HIDE DEF s, o, c, bad
  <2>4. s.item = it /\ s.change = c /\ s.read = o
    BY <2>1, StepIs
  <2> QED
    BY <1>2, <2>2, <2>3, <2>4 DEF ObjectPlanned, s
<1> QED
  BY <1>1, <1>2

LEMMA PlannedBindingIs ==
    ASSUME NEW res, NEW it, NEW held
    PROVE  /\ PlannedBinding(res, it, held).item = it
           /\ BindingPlanned(res, it, held, PlannedBinding(res, it, held))
<1> DEFINE s == PlannedBinding(res, it, held)
<1>1. CASE held = {}
  <2>1. s = Step(it, "create", Absent)
    BY <1>1 DEF PlannedBinding
  <2> HIDE DEF s
  <2>2. s.item = it /\ s.change = "create" /\ s.read = Absent
    BY <2>1, StepIs
  <2> QED
    BY <1>1, <2>2 DEF BindingPlanned, s
<1>2. CASE held # {}
  <2> DEFINE b == CHOOSE b \in held : TRUE
             c == IF bindingDrifted(res, it, b) THEN "update" ELSE "no-change"
  <2>1. s = Step(it, c, b)
    BY <1>2 DEF PlannedBinding
  <2>2. b \in held /\ c \in {"update", "no-change"} /\ (c = "no-change" => ~bindingDrifted(res, it, b))
    BY <1>2
  <2> HIDE DEF s, b, c
  <2>3. s.item = it /\ s.change = c /\ s.read = b
    BY <2>1, StepIs
  <2> QED
    BY <1>2, <2>2, <2>3 DEF BindingPlanned, s
<1> QED
  BY <1>1, <1>2

LEMMA PlannedLinkIs ==
    ASSUME NEW it, NEW there \in BOOLEAN
    PROVE  PlannedLink(it, there).item = it /\ LinkPlanned(there, PlannedLink(it, there))
  BY DEF PlannedLink, LinkPlanned, Step

LEMMA PlannedIs ==
    ASSUME NEW m, NEW sn, NEW it, ItemOf(m, it), NEW res
    PROVE  LET s == Planned(res, sn, m, it) IN
           /\ s.item = it
           /\ IsObject(it) => ObjectPlanned(it, Found(res, sn, it), s)
           /\ it.is = "binding" => BindingPlanned(res, it, Held(res, sn, m, it), s)
           /\ it.is \in {"grant", "member"} => LinkPlanned(LinkThere(res, sn, m, it), s)
           /\ s.change \in {"create", "update", "no-change", "refused"}
<1> DEFINE s == Planned(res, sn, m, it)
<1>0. it.is \in Kinds
  BY DEF ItemOf, ItemType
<1>1. CASE it.is \in {"grant", "member"}
  <2>1. s = PlannedLink(it, LinkThere(res, sn, m, it))
    BY <1>1 DEF Planned, LinkThere
  <2>2. LinkThere(res, sn, m, it) \in BOOLEAN
    BY DEF LinkThere, Resolves
  <2>3. s.item = it /\ LinkPlanned(LinkThere(res, sn, m, it), s)
    BY <2>1, <2>2, PlannedLinkIs
  <2>4. ~IsObject(it) /\ it.is # "binding"
    BY <1>1 DEF IsObject, Shape, Network
  <2> HIDE DEF s
  <2>5. s.change \in {"create", "update", "no-change", "refused"}
    BY <2>3 DEF LinkPlanned
  <2> QED
    BY <1>1, <2>3, <2>4, <2>5 DEF s
<1>2. CASE it.is = "binding"
  <2>1. s = PlannedBinding(res, it, Held(res, sn, m, it))
    BY <1>2 DEF Planned
  <2>2. s.item = it /\ BindingPlanned(res, it, Held(res, sn, m, it), s)
    BY <2>1, PlannedBindingIs
  <2>3. ~IsObject(it) /\ it.is \notin {"grant", "member"}
    BY <1>2 DEF IsObject, Shape, Network
  <2> HIDE DEF s
  <2>4. s.change \in {"create", "update", "no-change", "refused"}
    BY <2>2 DEF BindingPlanned
  <2> QED
    BY <1>2, <2>2, <2>3, <2>4 DEF s
<1>3. CASE IsObject(it)
  <2>1. it.is # "grant" /\ it.is # "member" /\ it.is # "binding"
    BY <1>3 DEF IsObject, Shape, Network
  <2>2. s = PlannedObject(m, it, Found(res, sn, it))
    BY ONLY <2>1 DEF Planned
  <2>3. s.item = it /\ ObjectPlanned(it, Found(res, sn, it), s)
    BY <2>2, PlannedObjectIs
  <2> HIDE DEF s
  <2>4. s.change \in {"create", "update", "no-change", "refused"}
    BY <2>3 DEF ObjectPlanned
  <2> QED
    BY <1>3, <2>1, <2>3, <2>4 DEF s
<1> QED
  BY <1>0, <1>1, <1>2, <1>3 DEF Kinds, IsObject

-----------------------------------------------------------------------------
(* The plan *)

IdKey(it) == <<it.is, it.key>>

\* The step planned for item l, by what the items before it resolved.
StepAt(m, sn, l) == Planned(Computed(m, sn)[l - 1].res, sn, m, Items(m)[l])

\* What is resolved of an item, once its step s is planned.
ResolvedBy(res, it, s) ==
    /\ IdKey(it) \in DOMAIN res.ids <=> s.read # Absent
    /\ s.read # Absent => res.ids[IdKey(it)] = s.read.id

Passed(m, sn, n) ==
    /\ Computed(m, sn)[n].steps = [l \in 1 .. n |-> StepAt(m, sn, l)]
    /\ \A p \in DOMAIN Computed(m, sn)[n].res.ids :
         \E l \in 1 .. n : IsObject(Items(m)[l]) /\ p = IdKey(Items(m)[l])
    /\ \A l \in 1 .. n : IsObject(Items(m)[l]) =>
         ResolvedBy(Computed(m, sn)[n].res, Items(m)[l], StepAt(m, sn, l))

\* One key more is known, the others as before.
Learnt(old, new, it, o) ==
    /\ \A p : p \in DOMAIN new.ids <=> p \in DOMAIN old.ids \/ p = IdKey(it)
    /\ new.ids[IdKey(it)] = o.id
    /\ \A p \in DOMAIN old.ids : p # IdKey(it) => new.ids[p] = old.ids[p]

LEMMA ItemLearned ==
    ASSUME NEW res, NEW it, NEW o
    PROVE  Learnt(res, Learn(res, it.is, it.key, o), it, o)
<1> DEFINE new == Learn(res, it.is, it.key, o)
<1> DEFINE q == <<it.is, it.key>>
<1>1. new.ids = [k \in DOMAIN res.ids \cup {q} |-> IF k = q THEN o.id ELSE res.ids[k]]
  BY DEF Learn
<1> HIDE DEF q, new
<1>2. /\ \A p : p \in DOMAIN new.ids <=> p \in DOMAIN res.ids \/ p = q
      /\ new.ids[q] = o.id
      /\ \A p \in DOMAIN res.ids : p # q => new.ids[p] = res.ids[p]
  BY ONLY <1>1
<1> QED
  BY <1>2 DEF IdKey, q, new, Learnt

LEMMA PassStep ==
    ASSUME NEW m, Valid(m), NEW sn, Absent \notin sn.objects,
           NEW n \in Nat, n + 1 <= Len(Items(m)), Passed(m, sn, n)
    PROVE  Passed(m, sn, n + 1)
<1> DEFINE I == Items(m)
           C == Computed(m, sn)
           k == n + 1
           s == StepAt(m, sn, k)
<1>0. /\ Len(I) \in Nat /\ Unlike(I) /\ k \in 1 .. Len(I) /\ ItemOf(m, I[k])
      /\ \A l \in 1 .. n : l \in 1 .. Len(I) /\ l # k
  <2>1. I \in Seq(ItemType(m)) /\ Unlike(I) /\ \A x \in Of(I) : ItemOf(m, x)
    BY ItemsAre
  <2> HIDE DEF I
  <2> QED
    BY <2>1 DEF Of, I
<1>1. C[k] = Pass(m, sn, C[n], I[k])
  <2>1. \A j \in 1 .. Len(I) : C[j] = Pass(m, sn, C[j - 1], I[j])
    BY <1>0, ComputedIs
  <2>2. k - 1 = n
    OBVIOUS
  <2> HIDE DEF C, I
  <2> QED
    BY <1>0, <2>1, <2>2
<1>2. s = Planned(C[n].res, sn, m, I[k])
  <2>1. k - 1 = n
    OBVIOUS
  <2> QED
    BY <2>1 DEF StepAt
<1>3. /\ C[k].steps = Append(C[n].steps, s)
      /\ C[k].res = IF s.read = Absent \/ I[k].is = "binding" THEN C[n].res
                    ELSE Learn(C[n].res, I[k].is, I[k].key, s.read)
  BY <1>1, <1>2 DEF Pass
<1>4. /\ C[n].steps = [l \in 1 .. n |-> StepAt(m, sn, l)]
      /\ \A p \in DOMAIN C[n].res.ids : \E l \in 1 .. n : IsObject(I[l]) /\ p = IdKey(I[l])
      /\ \A l \in 1 .. n : IsObject(I[l]) => ResolvedBy(C[n].res, I[l], StepAt(m, sn, l))
  BY DEF Passed
<1>5. I[k].is \in {"grant", "member"} => s.read = Absent
  BY <1>0, <1>2, PlannedIs DEF LinkPlanned
<1> HIDE DEF I, C, s
<1>6. C[k].steps = [l \in 1 .. k |-> StepAt(m, sn, l)]
  BY <1>3, <1>4 DEF s
<1>8. ASSUME NEW i \in 1 .. n, IsObject(I[i]), IsObject(I[k]) PROVE IdKey(I[i]) # IdKey(I[k])
  <2>1. ~Alike(I[i], I[k])
    BY <1>0 DEF Unlike
  <2>2. I[k].is # "binding"
    BY <1>8 DEF IsObject, Shape, Network
  <2> QED
    BY <1>8, <2>1, <2>2 DEF Alike, IdKey
<1>10. ASSUME s.read # Absent, I[k].is # "binding"
       PROVE  /\ \A p : p \in DOMAIN C[k].res.ids <=> p \in DOMAIN C[n].res.ids \/ p = IdKey(I[k])
              /\ C[k].res.ids[IdKey(I[k])] = s.read.id
              /\ \A p \in DOMAIN C[n].res.ids :
                   p # IdKey(I[k]) => C[k].res.ids[p] = C[n].res.ids[p]
  <2>1. Learnt(C[n].res, C[k].res, I[k], s.read)
    BY <1>3, <1>10, ItemLearned
  <2> QED
    BY <2>1 DEF Learnt
<1>7. ASSUME NEW l \in 1 .. k, IsObject(I[l])
      PROVE  ResolvedBy(C[k].res, I[l], StepAt(m, sn, l))
  <2>1. CASE IsObject(I[k]) /\ s.read # Absent
    <3>1. I[k].is # "binding"
      BY <2>1 DEF IsObject, Shape, Network
    <3>2. C[k].res = Learn(C[n].res, I[k].is, I[k].key, s.read)
      BY <1>3, <2>1, <3>1
    <3>3. CASE l = k
      <4>1. ResolvedBy(C[k].res, I[k], s)
        BY <1>10, <2>1, <3>1 DEF ResolvedBy
      <4> QED
        BY <3>3, <4>1 DEF s
    <3>4. CASE l \in 1 .. n
      <4>1. IdKey(I[l]) # IdKey(I[k])
        BY <1>7, <1>8, <2>1, <3>4
      <4>2. ResolvedBy(C[n].res, I[l], StepAt(m, sn, l))
        BY <1>4, <1>7, <3>4
      <4>3. /\ IdKey(I[l]) \in DOMAIN C[k].res.ids <=> IdKey(I[l]) \in DOMAIN C[n].res.ids
            /\ IdKey(I[l]) \in DOMAIN C[n].res.ids =>
                  C[k].res.ids[IdKey(I[l])] = C[n].res.ids[IdKey(I[l])]
        BY <1>10, <2>1, <3>1, <4>1
      <4> QED
        BY <4>2, <4>3 DEF ResolvedBy
    <3> QED
      BY <1>7, <3>3, <3>4
  <2>2. CASE IsObject(I[k]) /\ s.read = Absent
    <3>1. C[k].res = C[n].res
      BY <1>3, <2>2
    <3>2. CASE l \in 1 .. n
      BY <1>4, <1>7, <3>1, <3>2
    <3>3. CASE l = k
      <4>1. IdKey(I[k]) \notin DOMAIN C[n].res.ids
        <5>1. ASSUME NEW i \in 1 .. n, IsObject(I[i]) PROVE IdKey(I[i]) # IdKey(I[k])
          BY <1>8, <2>2, <5>1
        <5> QED
          BY <1>4, <5>1
      <4> QED
        BY <2>2, <3>1, <3>3, <4>1 DEF ResolvedBy, s
    <3> QED
      BY <1>7, <3>2, <3>3
  <2>3. CASE ~IsObject(I[k])
    <3>1. l \in 1 .. n
      BY <1>7, <2>3
    <3>2. C[k].res = C[n].res
      <4>1. I[k].is \in {"grant", "member", "binding"}
        BY <1>0, <2>3 DEF ItemOf, ItemType, Kinds, IsObject
      <4> QED
        BY <1>3, <1>5, <4>1
    <3> QED
      BY <1>4, <1>7, <3>1, <3>2
  <2> QED
    BY <2>1, <2>2, <2>3
<1>9. ASSUME NEW p \in DOMAIN C[k].res.ids
      PROVE  \E l \in 1 .. k : IsObject(I[l]) /\ p = IdKey(I[l])
  <2>1. CASE p \in DOMAIN C[n].res.ids
    BY <1>4, <2>1
  <2>2. CASE p \notin DOMAIN C[n].res.ids
    <3>1. s.read # Absent /\ I[k].is # "binding" /\ p = IdKey(I[k])
      BY <1>3, <1>10, <2>2
    <3>2. IsObject(I[k])
      BY <1>0, <1>5, <3>1 DEF ItemOf, ItemType, Kinds, IsObject
    <3> QED
      BY <3>1, <3>2
  <2> QED
    BY <2>1, <2>2
<1> QED
  BY <1>6, <1>7, <1>9 DEF Passed, I, C

LEMMA AllPassed ==
    ASSUME NEW m, Valid(m), NEW sn, Absent \notin sn.objects
    PROVE  \A n \in 0 .. Len(Items(m)) : Passed(m, sn, n)
<1> DEFINE L == Len(Items(m))
           T == {n \in Nat : n <= L => Passed(m, sn, n)}
<1>0. L \in Nat
  BY ItemsAre
<1>1. 0 \in T
  <2>1. Computed(m, sn)[0] = [steps |-> <<>>, res |-> Nobody]
    BY <1>0, ComputedIs
  <2>2. Computed(m, sn)[0].steps = <<>> /\ DOMAIN Computed(m, sn)[0].res.ids = {}
    BY <2>1 DEF Nobody
  <2>3. <<>> = [l \in 1 .. 0 |-> StepAt(m, sn, l)]
    OBVIOUS
  <2>4. Passed(m, sn, 0)
    BY <2>2, <2>3 DEF Passed
  <2> QED
    BY <2>4
<1>2. \A n \in Nat : n \in T => n + 1 \in T
  BY <1>0, PassStep
<1>3. Nat \subseteq T
  <2> HIDE DEF T
  <2> QED
    BY <1>1, <1>2, SetInduction
<1> QED
  BY <1>0, <1>3

\* The plan: each step is planned by what the whole plan resolves, since what an item
\* needs is resolved before it, and once.
LEMMA PlanIs ==
    ASSUME NEW m, Valid(m), NEW sn, Absent \notin sn.objects
    PROVE  LET plan == Compute(m, sn) IN
           /\ plan.steps = [l \in 1 .. Len(Items(m)) |-> Planned(plan.res, sn, m, Items(m)[l])]
           /\ \A l \in 1 .. Len(Items(m)) : IsObject(Items(m)[l]) =>
                ResolvedBy(plan.res, Items(m)[l], plan.steps[l])
<1> DEFINE I == Items(m)
           N == Len(I)
           C == Computed(m, sn)
           res == C[N].res
<1>0. /\ N \in Nat /\ Ordered(m, I) /\ \A l \in 1 .. N : ItemOf(m, I[l])
  BY ItemsAre DEF Of
<1>1. \A n \in 0 .. N : Passed(m, sn, n)
  BY AllPassed
<1>2. ASSUME NEW j \in 1 .. N
      PROVE  StepAt(m, sn, j) = Planned(res, sn, m, I[j])
  <2>1. Agree(C[j - 1].res, res, Needs(m, I[j]))
    <3> SUFFICES ASSUME NEW p \in Needs(m, I[j])
                 PROVE  /\ p \in DOMAIN C[j - 1].res.ids <=> p \in DOMAIN res.ids
                        /\ p \in DOMAIN C[j - 1].res.ids => C[j - 1].res.ids[p] = res.ids[p]
      BY DEF Agree
    <3>1. PICK l \in 1 .. j - 1 : p \in Gives(I[l])
      BY <1>0 DEF Ordered
    <3>2. p = IdKey(I[l]) /\ IsObject(I[l])
      BY <3>1 DEF Gives, IdKey, IsObject, Network
    <3>3. Passed(m, sn, j - 1) /\ Passed(m, sn, N) /\ l \in 1 .. N
      BY <1>0, <1>1
    <3>4. ResolvedBy(C[j - 1].res, I[l], StepAt(m, sn, l)) /\ ResolvedBy(res, I[l], StepAt(m, sn, l))
      BY <3>2, <3>3 DEF Passed
    <3> HIDE DEF C, res, I
    <3> QED
      BY <3>2, <3>4 DEF ResolvedBy
  <2> HIDE DEF res
  <2>2. ItemOf(m, I[j])
    BY <1>0
  <2> QED
    BY <2>1, <2>2, PlannedAgrees DEF StepAt
<1>3. Compute(m, sn) = C[N]
  BY DEF Compute
<1>4. Passed(m, sn, N)
  BY <1>0, <1>1
<1>5. C[N].steps = [l \in 1 .. N |-> Planned(res, sn, m, I[l])]
  <2>1. C[N].steps = [l \in 1 .. N |-> StepAt(m, sn, l)]
    BY <1>4 DEF Passed
  <2> HIDE DEF C, res, I, N
  <2> QED
    BY <1>2, <2>1
<1>6. \A l \in 1 .. N : IsObject(I[l]) => ResolvedBy(res, I[l], C[N].steps[l])
  <2>1. \A l \in 1 .. N : IsObject(I[l]) => ResolvedBy(res, I[l], StepAt(m, sn, l))
    BY <1>4 DEF Passed
  <2>2. \A l \in 1 .. N : C[N].steps[l] = StepAt(m, sn, l)
    BY <1>4 DEF Passed
  <2> HIDE DEF C, res, I, N
  <2> QED
    BY <2>1, <2>2
<1> QED
  BY <1>3, <1>5, <1>6

Rests == {"own", "edited", "unknown"}

\* An object of a server that has given the ids below next.
Typed(o, next) ==
    o \in [is : Shape \cup Network, name : {o.name}, under : 0 .. next - 1,
           id : 1 .. next - 1, value : {"stated", "drifted"}, rest : Rests, version : Nat]

Separate(o, p) ==
    /\ o.id = p.id => o = p
    /\ o.is = p.is /\ o.name = p.name /\ o.under = p.under => o = p \/ o.is = "service-account"

Objects(objects, next) ==
    /\ next \in Nat \ {0} /\ IsFiniteSet(objects)
    /\ \A o \in objects : Typed(o, next) /\ \A p \in objects : Separate(o, p)

IsBinding(b) == b = [role |-> b.role, subject |-> b.subject, resource |-> b.resource,
                     inherit |-> b.inherit, reach |-> b.reach]

Bindings(bindings) ==
    \A b \in bindings :
        /\ IsBinding(b)
        /\ \A c \in bindings : b.role = c.role /\ b.subject = c.subject => b = c

IsTenant(t) == t = [objects |-> t.objects, grants |-> t.grants, altered |-> t.altered,
                    members |-> t.members, bindings |-> t.bindings, next |-> t.next]

LEMMA ConsistentIs ==
    ASSUME NEW t
    PROVE  Consistent(t) <=> IsTenant(t) /\ Objects(t.objects, t.next) /\ Bindings(t.bindings)
  BY DEF Consistent, IsTenant, Objects, Bindings, Typed, Separate, IsBinding, Rests

LEMMA TypedIs ==
    ASSUME NEW o, NEW next, Typed(o, next)
    PROVE  /\ o.is \in Shape \cup Network /\ o.under \in 0 .. next - 1 /\ o.id \in 1 .. next - 1
           /\ o.value \in {"stated", "drifted"} /\ o.rest \in Rests /\ o.version \in Nat
  BY DEF Typed

LEMMA TypedFrom ==
    ASSUME NEW next, NEW is \in Shape \cup Network, NEW name, NEW under \in 0 .. next - 1,
           NEW id \in 1 .. next - 1, NEW value \in {"stated", "drifted"}, NEW rest \in Rests,
           NEW version \in Nat, NEW o,
           o = [is |-> is, name |-> name, under |-> under, id |-> id, value |-> value,
                rest |-> rest, version |-> version]
    PROVE  Typed(o, next)
<1> DEFINE S == Shape \cup Network  U == 0 .. next - 1  I == 1 .. next - 1
           V == {"stated", "drifted"}
<1>1. is \in S /\ under \in U /\ id \in I /\ value \in V
  OBVIOUS
<1>2. o.name = name
  OBVIOUS
<1> HIDE DEF S, U, I, V
<1>3. o \in [is : S, name : {name}, under : U, id : I, value : V, rest : Rests, version : Nat]
  BY <1>1
<1> QED
  BY <1>2, <1>3 DEF Typed, S, U, I, V

LEMMA TypedRecord ==
    ASSUME NEW o, NEW next, Typed(o, next)
    PROVE  o = [is |-> o.is, name |-> o.name, under |-> o.under, id |-> o.id, value |-> o.value,
                rest |-> o.rest, version |-> o.version]
<1> DEFINE S == Shape \cup Network  U == 0 .. next - 1  I == 1 .. next - 1
           V == {"stated", "drifted"}  N == {o.name}
<1>1. o \in [is : S, name : N, under : U, id : I, value : V, rest : Rests, version : Nat]
  BY DEF Typed
<1> HIDE DEF S, U, I, V, N
<1> QED
  BY <1>1

\* Of the objects none is lost, and another one is added.
LEMMA ObjectAdded ==
    ASSUME NEW objects, NEW next, Objects(objects, next),
           NEW is \in Shape \cup Network, NEW name, NEW under \in 0 .. next - 1,
           is = "service-account" \/ ~ \E o \in objects : o.is = is /\ o.name = name /\ o.under = under
    PROVE  LET new == [is |-> is, name |-> name, under |-> under, id |-> next,
                       value |-> "stated", rest |-> "own", version |-> 1] IN
           Objects(objects \cup {new}, next + 1)
<1> DEFINE new == [is |-> is, name |-> name, under |-> under, id |-> next,
                   value |-> "stated", rest |-> "own", version |-> 1]
<1>1. next \in Nat /\ next >= 1
  <2>1. next \in Nat /\ next # 0
    BY DEF Objects
  <2> QED
    BY ONLY <2>1
<1>0. ASSUME NEW x, x \in 0 .. next - 1 PROVE x \in 0 .. (next + 1) - 1
  BY ONLY <1>0, <1>1
<1>12. next \in 1 .. (next + 1) - 1 /\ next + 1 \in Nat \ {0}
  BY ONLY <1>1
<1>13. ASSUME NEW x, x \in 1 .. next - 1 PROVE x \in 1 .. (next + 1) - 1
  BY ONLY <1>13, <1>1
<1>2. Typed(new, next + 1)
  <2>1. "own" \in Rests /\ "stated" \in {"stated", "drifted"} /\ 1 \in Nat
    BY DEF Rests
  <2>2. under \in 0 .. (next + 1) - 1
    BY <1>0
  <2>3. is \in Shape \cup Network
    OBVIOUS
  <2> QED
    BY ONLY <2>1, <2>2, <2>3, <1>12, TypedFrom
<1>3. new.id = next /\ new.is = is /\ new.name = name /\ new.under = under
  OBVIOUS
<1> HIDE DEF new
<1>4. ASSUME NEW o \in objects PROVE Typed(o, next + 1) /\ o.id \in 1 .. next - 1
  <2>1. Typed(o, next)
    BY DEF Objects
  <2>2. /\ o.is \in Shape \cup Network /\ o.under \in 0 .. next - 1 /\ o.id \in 1 .. next - 1
        /\ o.value \in {"stated", "drifted"} /\ o.rest \in Rests /\ o.version \in Nat
    BY <2>1, TypedIs
  <2>3. o.under \in 0 .. (next + 1) - 1 /\ o.id \in 1 .. (next + 1) - 1
    BY ONLY <1>0, <1>13, <2>2
  <2>4. o = [is |-> o.is, name |-> o.name, under |-> o.under, id |-> o.id, value |-> o.value,
             rest |-> o.rest, version |-> o.version]
    BY <2>1, TypedRecord
  <2>5. Typed(o, next + 1)
    BY ONLY <2>2, <2>3, <2>4, TypedFrom
  <2> QED
    BY <2>2, <2>5
<1>5. IsFiniteSet(objects \cup {new})
  <2>1. IsFiniteSet(objects)
    BY DEF Objects
  <2> QED
    BY ONLY <2>1, FS_AddElement
<1>6. ASSUME NEW o \in objects PROVE Separate(o, new) /\ Separate(new, o)
  <2>1. o.id # new.id
    <3>1. o.id \in 1 .. next - 1
      BY <1>4
    <3> QED
      BY ONLY <1>1, <1>3, <3>1
  <2>2. o.is = new.is /\ o.name = new.name /\ o.under = new.under => o.is = "service-account"
    BY <1>3
  <2> QED
    BY <2>1, <2>2 DEF Separate
<1>7. Separate(new, new)
  BY DEF Separate
<1>8. \A o \in objects : Typed(o, next + 1) /\ \A p \in objects : Separate(o, p)
  BY <1>4 DEF Objects
<1> QED
  BY ONLY <1>12, <1>2, <1>5, <1>6, <1>7, <1>8 DEF Objects, new

LEMMA ObjectReplaced ==
    ASSUME NEW objects, NEW next, Objects(objects, next), NEW o \in objects,
           NEW new, Typed(new, next),
           new.id = o.id, new.is = o.is, new.name = o.name, new.under = o.under
    PROVE  Objects((objects \ {o}) \cup {new}, next)
<1>1. \A p \in objects : Separate(o, p) /\ Separate(p, o) /\ Typed(p, next)
  BY DEF Objects
<1>2. ASSUME NEW p \in objects, p # o PROVE Separate(new, p) /\ Separate(p, new)
  <2>1. p.id # o.id
    BY <1>1, <1>2 DEF Separate
  <2>2. o.is = p.is /\ o.name = p.name /\ o.under = p.under => o.is = "service-account"
    BY <1>1, <1>2 DEF Separate
  <2> QED
    BY <2>1, <2>2 DEF Separate
<1>3. IsFiniteSet((objects \ {o}) \cup {new}) /\ next \in Nat \ {0}
  <2>1. IsFiniteSet(objects) /\ next \in Nat \ {0}
    BY DEF Objects
  <2>2. IsFiniteSet(objects \ {o})
    BY <2>1, FS_RemoveElement
  <2> QED
    BY <2>1, <2>2, FS_AddElement
<1>4. Separate(new, new)
  BY DEF Separate
<1> QED
  BY <1>1, <1>2, <1>3, <1>4 DEF Objects

LEMMA ObjectsLost ==
    ASSUME NEW objects, NEW next, Objects(objects, next), NEW left \in SUBSET objects
    PROVE  Objects(left, next)
<1>1. IsFiniteSet(left)
  BY FS_Subset DEF Objects
<1> QED
  BY <1>1 DEF Objects

LEMMA BindingAdded ==
    ASSUME NEW bindings, Bindings(bindings), NEW b, IsBinding(b),
           ~ \E c \in bindings : c.role = b.role /\ c.subject = b.subject
    PROVE  Bindings(bindings \cup {b})
  BY DEF Bindings

LEMMA BindingsLost ==
    ASSUME NEW bindings, Bindings(bindings), NEW left \in SUBSET bindings
    PROVE  Bindings(left)
  BY DEF Bindings

LEMMA BindingNarrowed ==
    ASSUME NEW bindings, Bindings(bindings), NEW b \in bindings
    PROVE  Bindings((bindings \ {b}) \cup {[b EXCEPT !.reach = "narrow"]})
<1> DEFINE n == [b EXCEPT !.reach = "narrow"]
<1>1. IsBinding(b)
  BY DEF Bindings
<1>2. IsBinding(n) /\ n.role = b.role /\ n.subject = b.subject
  BY <1>1 DEF IsBinding
<1> HIDE DEF n
<1>3. Bindings(bindings \ {b})
  BY BindingsLost
<1>4. ~ \E c \in bindings \ {b} : c.role = n.role /\ c.subject = n.subject
  BY <1>2 DEF Bindings
<1>5. Bindings((bindings \ {b}) \cup {n})
  BY <1>2, <1>3, <1>4, BindingAdded
<1> QED
  BY <1>5 DEF n

-----------------------------------------------------------------------------
(* What the administrator does *)

\* Each object left is one there was, with a later version when it was changed.
Aged(t, u) ==
    \A o \in u.objects : \E p \in t.objects :
        /\ p.id = o.id /\ p.version <= o.version
        /\ p.version = o.version => p.rest = o.rest

LEMMA EditIs ==
    ASSUME NEW t, Consistent(t), NEW u \in Edited(t)
    PROVE  Consistent(u) /\ u.next = t.next /\ Aged(t, u)
<1>1. IsTenant(t) /\ Objects(t.objects, t.next) /\ Bindings(t.bindings)
  BY ConsistentIs
<1>2. \A o \in t.objects : Typed(o, t.next)
  BY <1>1 DEF Objects
<1>3. ASSUME NEW o \in t.objects, NEW new, Typed(new, t.next), u = Replace(t, o, new),
             new.id = o.id, new.is = o.is, new.name = o.name, new.under = o.under,
             new.version = o.version + 1
      PROVE  Consistent(u) /\ u.next = t.next /\ Aged(t, u)
  <2>1. /\ u.objects = (t.objects \ {o}) \cup {new} /\ u.next = t.next /\ u.bindings = t.bindings
        /\ IsTenant(u)
    BY <1>1, <1>3 DEF Replace, IsTenant
  <2>2. Objects(u.objects, u.next)
    BY <1>1, <1>3, <2>1, ObjectReplaced
  <2>3. \A p \in t.objects : p.version \in Nat
    BY <1>2, TypedIs
  <2>4. Aged(t, u)
    BY <1>3, <2>1, <2>3 DEF Aged
  <2>5. Consistent(u)
    BY <1>1, <2>1, <2>2, ConsistentIs
  <2> QED
    BY <2>1, <2>4, <2>5
<1>4. ASSUME NEW left \in SUBSET t.objects, u.objects = left, u.next = t.next,
             NEW bs, u.bindings = bs, Bindings(bs), IsTenant(u)
      PROVE  Consistent(u) /\ u.next = t.next /\ Aged(t, u)
  <2>1. Objects(left, t.next)
    BY <1>1, ObjectsLost
  <2>2. \A p \in t.objects : p.version \in Nat
    BY <1>2, TypedIs
  <2> QED
    BY <1>4, <2>1, <2>2, ConsistentIs DEF Aged
<1>5. CASE \E o \in t.objects : u = Replace(t, o, [o EXCEPT !.value = "drifted", !.version = @ + 1])
  <2>1. PICK o \in t.objects : u = Replace(t, o, [o EXCEPT !.value = "drifted", !.version = @ + 1])
    BY <1>5
  <2> DEFINE new == [o EXCEPT !.value = "drifted", !.version = @ + 1]
  <2>2. Typed(o, t.next)
    BY <1>2
  <2>5. o = [is |-> o.is, name |-> o.name, under |-> o.under, id |-> o.id, value |-> o.value,
                rest |-> o.rest, version |-> o.version]
    BY <2>2, TypedRecord
  <2>6. new = [o EXCEPT !.value = "drifted", !.version = o.version + 1]
    OBVIOUS
  <2> HIDE DEF new
  <2>7. new = [is |-> o.is, name |-> o.name, under |-> o.under, id |-> o.id,
               value |-> "drifted",
               rest |-> o.rest, version |-> o.version + 1]
    BY ONLY <2>5, <2>6
  <2>8. new.id = o.id /\ new.is = o.is /\ new.name = o.name
        /\ new.under = o.under /\ new.version = o.version + 1
    BY ONLY <2>7
  <2>9. /\ o.is \in Shape \cup Network /\ o.under \in 0 .. t.next - 1 /\ o.id \in 1 .. t.next - 1
        /\ o.value \in {"stated", "drifted"} /\ o.rest \in Rests /\ o.version + 1 \in Nat
        /\ "drifted" \in {"stated", "drifted"} /\ "edited" \in Rests
    BY <2>2, TypedIs DEF Rests
  <2>10. Typed(new, t.next)
    BY ONLY <2>7, <2>9, TypedFrom
  <2>3. /\ Typed(new, t.next) /\ new.id = o.id /\ new.is = o.is /\ new.name = o.name
        /\ new.under = o.under /\ new.version = o.version + 1
    BY ONLY <2>8, <2>10
  <2>4. u = Replace(t, o, new)
    BY <2>1 DEF new
  <2> QED
    BY <1>3, <2>3, <2>4
<1>6. CASE \E o \in t.objects : u = Replace(t, o, [o EXCEPT !.rest = "edited", !.version = @ + 1])
  <2>1. PICK o \in t.objects : u = Replace(t, o, [o EXCEPT !.rest = "edited", !.version = @ + 1])
    BY <1>6
  <2> DEFINE new == [o EXCEPT !.rest = "edited", !.version = @ + 1]
  <2>2. Typed(o, t.next)
    BY <1>2
  <2>5. o = [is |-> o.is, name |-> o.name, under |-> o.under, id |-> o.id, value |-> o.value,
                rest |-> o.rest, version |-> o.version]
    BY <2>2, TypedRecord
  <2>6. new = [o EXCEPT !.rest = "edited", !.version = o.version + 1]
    OBVIOUS
  <2> HIDE DEF new
  <2>7. new = [is |-> o.is, name |-> o.name, under |-> o.under, id |-> o.id,
               value |-> o.value,
               rest |-> "edited", version |-> o.version + 1]
    BY ONLY <2>5, <2>6
  <2>8. new.id = o.id /\ new.is = o.is /\ new.name = o.name
        /\ new.under = o.under /\ new.version = o.version + 1
    BY ONLY <2>7
  <2>9. /\ o.is \in Shape \cup Network /\ o.under \in 0 .. t.next - 1 /\ o.id \in 1 .. t.next - 1
        /\ o.value \in {"stated", "drifted"} /\ o.rest \in Rests /\ o.version + 1 \in Nat
        /\ "drifted" \in {"stated", "drifted"} /\ "edited" \in Rests
    BY <2>2, TypedIs DEF Rests
  <2>10. Typed(new, t.next)
    BY ONLY <2>7, <2>9, TypedFrom
  <2>3. /\ Typed(new, t.next) /\ new.id = o.id /\ new.is = o.is /\ new.name = o.name
        /\ new.under = o.under /\ new.version = o.version + 1
    BY ONLY <2>8, <2>10
  <2>4. u = Replace(t, o, new)
    BY <2>1 DEF new
  <2> QED
    BY <1>3, <2>3, <2>4
<1>7. CASE \E o \in t.objects : u = Delete(t, o.id)
  <2>1. PICK o \in t.objects : u = Delete(t, o.id)
    BY <1>7
  <2> DEFINE gone == Below(t, o.id)
             left == {p \in t.objects : p.id \notin gone}
             bs == {b \in t.bindings : {b.role, b.subject, b.resource} \cap gone = {}}
  <2> HIDE DEF gone
  <2>2. u.objects = left /\ u.bindings = bs /\ u.next = t.next /\ IsTenant(u)
    BY <1>1, <2>1 DEF Delete, IsTenant, gone
  <2>3. left \in SUBSET t.objects /\ bs \in SUBSET t.bindings
    OBVIOUS
  <2> HIDE DEF left, bs
  <2>4. Bindings(bs)
    BY <1>1, <2>3, BindingsLost
  <2> QED
    BY <1>4, <2>2, <2>3, <2>4
<1>8. CASE \E b \in t.bindings : u = [t EXCEPT !.bindings = @ \ {b}]
  <2>1. PICK b \in t.bindings : u = [t EXCEPT !.bindings = @ \ {b}]
    BY <1>8
  <2>2. u.objects = t.objects /\ u.bindings = t.bindings \ {b} /\ u.next = t.next /\ IsTenant(u)
    BY <1>1, <2>1 DEF IsTenant
  <2>3. Bindings(t.bindings \ {b}) /\ t.objects \in SUBSET t.objects
    BY <1>1, BindingsLost
  <2> QED
    BY <1>4, <2>2, <2>3
<1>9. CASE \E b \in t.bindings :
             u = [t EXCEPT !.bindings = (@ \ {b}) \cup {[b EXCEPT !.reach = "narrow"]}]
  <2>1. PICK b \in t.bindings :
             u = [t EXCEPT !.bindings = (@ \ {b}) \cup {[b EXCEPT !.reach = "narrow"]}]
    BY <1>9
  <2> DEFINE bs == (t.bindings \ {b}) \cup {[b EXCEPT !.reach = "narrow"]}
  <2>2. u.objects = t.objects /\ u.bindings = bs /\ u.next = t.next /\ IsTenant(u)
    BY <1>1, <2>1 DEF IsTenant
  <2>3. Bindings(bs) /\ t.objects \in SUBSET t.objects
    BY <1>1, BindingNarrowed
  <2> HIDE DEF bs
  <2> QED
    BY <1>4, <2>2, <2>3
<1>11. CASE \E g \in t.grants : u = [t EXCEPT !.altered = @ \cup {g}]
  <2>1. PICK g \in t.grants : u = [t EXCEPT !.altered = @ \cup {g}]
    BY <1>11
  <2>2. /\ u.objects = t.objects /\ u.bindings = t.bindings /\ u.next = t.next
        /\ IsTenant(u) /\ Bindings(t.bindings) /\ t.objects \in SUBSET t.objects
    BY <1>1, <2>1 DEF IsTenant
  <2> QED
    BY <1>4, <2>2
<1>10. \/ \E o \in t.objects : u = Replace(t, o, [o EXCEPT !.value = "drifted", !.version = @ + 1])
       \/ \E g \in t.grants : u = [t EXCEPT !.altered = @ \cup {g}]
       \/ \E o \in t.objects : u = Replace(t, o, [o EXCEPT !.rest = "edited", !.version = @ + 1])
       \/ \E o \in t.objects : u = Delete(t, o.id)
       \/ \E b \in t.bindings : u = [t EXCEPT !.bindings = @ \ {b}]
       \/ \E b \in t.bindings :
             u = [t EXCEPT !.bindings = (@ \ {b}) \cup {[b EXCEPT !.reach = "narrow"]}]
  BY DEF Edited
<1> QED
  BY <1>5, <1>6, <1>7, <1>8, <1>9, <1>10, <1>11

LEMMA TailIs ==
    ASSUME NEW s, s \in Seq(ToSet(s)), s # <<>>
    PROVE  /\ Tail(s) \in Seq(ToSet(Tail(s))) /\ Len(s) \in Nat \ {0} /\ Len(Tail(s)) = Len(s) - 1
           /\ \A i \in 1 .. Len(s) - 1 : Tail(s)[i] = s[i + 1]
           /\ Head(s) = s[1] /\ DOMAIN s = 1 .. Len(s) /\ DOMAIN Tail(s) = 1 .. Len(s) - 1
<1> DEFINE S == ToSet(s)  t == Tail(s)
<1>1. s \in Seq(S)
  OBVIOUS
<1> HIDE DEF S
<1>2. /\ t \in Seq(S) /\ Len(s) \in Nat \ {0} /\ Len(t) = Len(s) - 1
      /\ \A i \in 1 .. Len(s) - 1 : t[i] = s[i + 1]
      /\ Head(s) = s[1] /\ DOMAIN s = 1 .. Len(s) /\ DOMAIN t = 1 .. Len(s) - 1
  BY <1>1
<1> HIDE DEF t
<1>3. t \in [1 .. Len(t) -> ToSet(t)] /\ Len(t) \in Nat
  <2>1. t = [i \in 1 .. Len(t) |-> t[i]] /\ Len(t) \in Nat
    BY <1>2
  <2> QED
    BY <1>2, <2>1 DEF ToSet
<1>4. t \in Seq(ToSet(t))
  BY ONLY <1>3, Sequence
<1> QED
  BY <1>2, <1>4 DEF t

LEMMA ConcatIs ==
    ASSUME NEW s, s \in Seq(ToSet(s)), NEW n \in Nat, NEW g, g = [i \in 1 .. n |-> g[i]]
    PROVE  /\ s \o g \in Seq(ToSet(s \o g)) /\ DOMAIN s = 1 .. Len(s) /\ Len(s) \in Nat
           /\ DOMAIN (s \o g) = 1 .. Len(s) + n
           /\ \A i \in 1 .. Len(s) : (s \o g)[i] = s[i]
           /\ \A i \in 1 .. n : (s \o g)[Len(s) + i] = g[i]
<1> DEFINE S == ToSet(s) \cup {g[i] : i \in 1 .. n}  t == s \o g
<1>1. s \in Seq(S) /\ g \in Seq(S) /\ Len(g) = n
  <2>1. Len(s) \in Nat /\ DOMAIN s = 1 .. Len(s) /\ s = [i \in 1 .. Len(s) |-> s[i]]
    OBVIOUS
  <2>2. s \in [1 .. Len(s) -> S]
    BY <2>1 DEF ToSet
  <2>3. g \in [1 .. n -> S]
    OBVIOUS
  <2> HIDE DEF S
  <2>4. s \in Seq(S) /\ g \in Seq(S)
    BY ONLY <2>1, <2>2, <2>3, Sequence, n \in Nat
  <2> QED
    BY <2>3, <2>4
<1> HIDE DEF S
<1>2. /\ t \in Seq(S) /\ Len(s) \in Nat /\ DOMAIN s = 1 .. Len(s) /\ Len(t) = Len(s) + n
      /\ DOMAIN t = 1 .. Len(s) + n
      /\ \A i \in 1 .. Len(s) : t[i] = s[i]
      /\ \A i \in 1 .. n : t[Len(s) + i] = g[i]
  BY <1>1
<1> HIDE DEF t
<1>3. t \in [1 .. Len(t) -> ToSet(t)] /\ Len(t) \in Nat
  <2>1. t = [i \in 1 .. Len(t) |-> t[i]] /\ Len(t) \in Nat
    BY <1>2
  <2> QED
    BY <1>2, <2>1 DEF ToSet
<1>4. t \in Seq(ToSet(t))
  BY ONLY <1>3, Sequence
<1> QED
  BY <1>2, <1>4 DEF t

LEMMA AppendIs ==
    ASSUME NEW s, s \in Seq(ToSet(s)), NEW x
    PROVE  /\ Append(s, x) \in Seq(ToSet(Append(s, x))) /\ DOMAIN s = 1 .. Len(s) /\ Len(s) \in Nat
           /\ DOMAIN Append(s, x) = 1 .. Len(s) + 1
           /\ \A i \in 1 .. Len(s) : Append(s, x)[i] = s[i]
           /\ Append(s, x)[Len(s) + 1] = x
<1> DEFINE S == ToSet(s) \cup {x}  t == Append(s, x)
<1>1. s \in Seq(S) /\ x \in S
  <2>1. Len(s) \in Nat /\ DOMAIN s = 1 .. Len(s) /\ s = [i \in 1 .. Len(s) |-> s[i]]
    OBVIOUS
  <2>2. s \in [1 .. Len(s) -> S]
    BY <2>1 DEF ToSet
  <2>3. x \in S
    OBVIOUS
  <2> HIDE DEF S
  <2>4. s \in Seq(S)
    BY ONLY <2>1, <2>2, Sequence
  <2> QED
    BY <2>3, <2>4
<1> HIDE DEF S
<1>2. /\ t \in Seq(S) /\ Len(s) \in Nat /\ DOMAIN s = 1 .. Len(s) /\ Len(t) = Len(s) + 1
      /\ DOMAIN t = 1 .. Len(s) + 1
      /\ \A i \in 1 .. Len(s) : t[i] = s[i]
      /\ t[Len(s) + 1] = x
  BY <1>1
<1> HIDE DEF t
<1>3. t \in [1 .. Len(t) -> ToSet(t)] /\ Len(t) \in Nat
  <2>1. t = [i \in 1 .. Len(t) |-> t[i]] /\ Len(t) \in Nat
    BY <1>2
  <2> QED
    BY <1>2, <2>1 DEF ToSet
<1>4. t \in Seq(ToSet(t))
  BY ONLY <1>3, Sequence
<1> QED
  BY <1>2, <1>4 DEF t

\* What the end of a step does, by its status.
Ended(status) ==
    /\ report' \in Seq(ToSet(report'))
    /\ \A i \in DOMAIN report : i \in DOMAIN report' /\ report'[i] = report[i]
    /\ \E i \in DOMAIN report' : report'[i] = Outcome(This, status)
    /\ \A i \in DOMAIN report' :
         \/ i \in DOMAIN report /\ report'[i] = report[i]
         \/ report'[i] = Outcome(This, status)
         \/ status \notin Done /\ report'[i].status = "not-attempted"

LEMMA OverIs ==
    ASSUME report \in Seq(ToSet(report)), steps \in Seq(ToSet(steps)), steps # <<>>,
           NEW status, Over(status)
    PROVE  /\ stage' = "unassign" /\ Ended(status)
           /\ status \in Done =>
                /\ steps' = Tail(steps)
                /\ phase' = IF Len(steps) = 1 THEN "done" ELSE phase
           /\ status \notin Done => steps' = <<>> /\ phase' = "done"
<1> DEFINE x == Outcome(This, status)
<1>1. CASE status \in Done
  <2>1. /\ stage' = "unassign" /\ report' = Append(report, x) /\ steps' = Tail(steps)
        /\ phase' = IF Len(steps) = 1 THEN "done" ELSE phase
    BY <1>1 DEF Over
  <2> HIDE DEF x
  <2>2. Ended(status)
    <3> DEFINE a == Append(report, x)
    <3>1. /\ a \in Seq(ToSet(a)) /\ DOMAIN report = 1 .. Len(report) /\ Len(report) \in Nat
          /\ DOMAIN a = 1 .. Len(report) + 1
          /\ \A i \in 1 .. Len(report) : a[i] = report[i]
          /\ a[Len(report) + 1] = x
      BY AppendIs
    <3> HIDE DEF a
    <3>2. report' = a
      BY <2>1 DEF a
    <3> QED
      BY <3>1, <3>2 DEF Ended, x
  <2> QED
    BY <1>1, <2>1, <2>2
<1>2. CASE status \notin Done
  <2> DEFINE a == Append(report, x)
             n == Len(steps) - 1
             g == [i \in 1 .. n |-> Outcome(steps[i + 1].item, "not-attempted")]
  <2>1. stage' = "unassign" /\ report' = a \o g /\ steps' = <<>> /\ phase' = "done"
    BY <1>2 DEF Over
  <2>2. n \in Nat
    BY TailIs
  <2>3. \A i \in 1 .. n : g[i].status = "not-attempted"
    BY DEF Outcome
  <2>4. g = [i \in 1 .. n |-> g[i]]
    OBVIOUS
  <2> HIDE DEF x, g, n
  <2>5. /\ a \in Seq(ToSet(a)) /\ DOMAIN report = 1 .. Len(report) /\ Len(report) \in Nat
        /\ DOMAIN a = 1 .. Len(report) + 1
        /\ \A i \in 1 .. Len(report) : a[i] = report[i]
        /\ a[Len(report) + 1] = x
    BY AppendIs
  <2> HIDE DEF a
  <2>6. /\ a \o g \in Seq(ToSet(a \o g)) /\ Len(a) \in Nat /\ DOMAIN a = 1 .. Len(a)
        /\ DOMAIN (a \o g) = 1 .. Len(a) + n
        /\ \A i \in 1 .. Len(a) : (a \o g)[i] = a[i]
        /\ \A i \in 1 .. n : (a \o g)[Len(a) + i] = g[i]
    BY <2>2, <2>4, <2>5, ConcatIs
  <2>7. Len(a) = Len(report) + 1
    BY <2>5, <2>6
  <2> DEFINE b == a \o g
  <2> HIDE DEF b
  <2>8. /\ b \in Seq(ToSet(b)) /\ DOMAIN b = 1 .. Len(a) + n
        /\ \A i \in 1 .. Len(a) : b[i] = a[i]
        /\ \A i \in 1 .. n : b[Len(a) + i] = g[i]
    BY <2>6 DEF b
  <2>9. \A i \in 1 .. Len(report) : i \in DOMAIN b /\ b[i] = report[i]
    BY <2>2, <2>5, <2>7, <2>8
  <2>10. Len(a) \in DOMAIN b /\ b[Len(a)] = x
    BY <2>2, <2>5, <2>7, <2>8
  <2>11. ASSUME NEW i \in DOMAIN b
         PROVE  \/ i \in 1 .. Len(report) /\ b[i] = report[i]
                \/ b[i] = x
                \/ b[i].status = "not-attempted"
    <3>1. CASE i \in 1 .. Len(report)
      BY <2>9, <3>1
    <3>2. CASE i = Len(a)
      BY <2>10, <3>2
    <3>3. CASE i > Len(a)
      <4>1. i - Len(a) \in 1 .. n /\ Len(a) + (i - Len(a)) = i
        BY <2>2, <2>6, <2>8, <3>3
      <4>2. b[i] = g[i - Len(a)]
        BY <2>8, <4>1
      <4> QED
        BY <2>3, <4>1, <4>2
    <3> QED
      BY <2>2, <2>5, <2>7, <2>8, <2>11, <3>1, <3>2, <3>3
  <2>12. report' = b
    BY <2>1 DEF b
  <2>13. Ended(status)
    BY <1>2, <2>5, <2>8, <2>9, <2>10, <2>11, <2>12 DEF Ended, x
  <2> QED
    BY <1>2, <2>1, <2>13
<1> QED
  BY <1>1, <1>2

-----------------------------------------------------------------------------
(* What is read *)

IsSnapshot(sn) ==
    sn = [objects |-> sn.objects, grants |-> sn.grants, members |-> sn.members,
          bindings |-> sn.bindings]

LEMMA GatheredIs ==
    ASSUME IsSnapshot(snapshot), NEW r
    PROVE  LET sn == Gathered(r) IN
           /\ IsSnapshot(sn)
           /\ snapshot.objects \subseteq sn.objects
           /\ sn.objects \subseteq snapshot.objects \cup tenant.objects
           /\ sn.grants \subseteq snapshot.grants \cup tenant.grants
           /\ sn.members \subseteq snapshot.members \cup tenant.members
           /\ sn.bindings \subseteq snapshot.bindings \cup tenant.bindings
           /\ r.what \notin {"scope", "role_details", "members"} =>
                sn.objects = snapshot.objects \cup Page(r.what, r)
<1> DEFINE sn == Gathered(r)
<1>1. CASE r.what = "scope"
  <2> DEFINE new == {o \in tenant.objects : o.is = "scope" /\ o.under = r.of}
  <2>1. sn = [snapshot EXCEPT !.objects = @ \cup new]
    BY <1>1 DEF Gathered
  <2>2. new \subseteq tenant.objects
    OBVIOUS
  <2> HIDE DEF sn, new
  <2>3. /\ sn.objects = snapshot.objects \cup new /\ sn.grants = snapshot.grants
        /\ sn.members = snapshot.members /\ sn.bindings = snapshot.bindings /\ IsSnapshot(sn)
    BY <2>1 DEF IsSnapshot
  <2> QED
    BY <1>1, <2>2, <2>3 DEF sn
<1>2. CASE r.what = "role_details"
  <2> DEFINE gs == {g \in tenant.grants : g[1] = r.of}
             bs == {b \in tenant.bindings : b.role = r.of}
  <2>1. sn = [snapshot EXCEPT !.grants = @ \cup gs, !.bindings = @ \cup bs]
    BY <1>2 DEF Gathered
  <2>2. gs \subseteq tenant.grants /\ bs \subseteq tenant.bindings
    OBVIOUS
  <2> HIDE DEF sn, gs, bs
  <2>3. /\ sn.objects = snapshot.objects /\ sn.grants = snapshot.grants \cup gs
        /\ sn.members = snapshot.members /\ sn.bindings = snapshot.bindings \cup bs
        /\ IsSnapshot(sn)
    BY <2>1 DEF IsSnapshot
  <2> QED
    BY <1>2, <2>2, <2>3 DEF sn
<1>3. CASE r.what = "members"
  <2> DEFINE gs == {g \in tenant.members : g[1] = r.of}
  <2>1. sn = [snapshot EXCEPT !.members = @ \cup gs]
    BY <1>3 DEF Gathered
  <2>2. gs \subseteq tenant.members
    OBVIOUS
  <2> HIDE DEF sn, gs
  <2>3. /\ sn.objects = snapshot.objects /\ sn.grants = snapshot.grants
        /\ sn.members = snapshot.members \cup gs /\ sn.bindings = snapshot.bindings
        /\ IsSnapshot(sn)
    BY <2>1 DEF IsSnapshot
  <2> QED
    BY <1>3, <2>2, <2>3 DEF sn
<1>4. CASE r.what \notin {"scope", "role_details", "members"}
  <2> DEFINE new == Page(r.what, r)
  <2>1. sn = [snapshot EXCEPT !.objects = @ \cup new]
    BY <1>4 DEF Gathered
  <2>2. new \subseteq tenant.objects
    BY DEF Page, Listed
  <2> HIDE DEF sn, new
  <2>3. /\ sn.objects = snapshot.objects \cup new /\ sn.grants = snapshot.grants
        /\ sn.members = snapshot.members /\ sn.bindings = snapshot.bindings /\ IsSnapshot(sn)
    BY <2>1 DEF IsSnapshot
  <2> QED
    BY <1>4, <2>2, <2>3 DEF sn, new
<1> QED
  BY <1>1, <1>2, <1>3, <1>4

\* The later server u keeps to what it promises, and has given no object back an
\* older version.
Served(t, u) ==
    /\ Consistent(u) /\ t.next <= u.next
    /\ \A o \in u.objects :
         \/ o.id >= t.next
         \/ \E p \in t.objects : /\ p.id = o.id /\ p.version <= o.version
                                 /\ p.version = o.version => p.rest = o.rest

IsRead(r) == r.id \in Nat /\ r.version \in Nat /\ r.rest \in Rests

StepTyped(m, s) ==
    /\ ItemOf(m, s.item)
    /\ IsObject(s.item) => IsRead(s.read)
    /\ s.item.is = "binding" /\ s.change = "update" => IsBinding(s.read)

StepsTyped ==
    /\ phase \in Phases /\ stage \in {"unassign", "assign", "restore"}
    /\ report \in Seq(ToSet(report)) /\ \A i \in DOMAIN report : report[i].status \in Statuses
    /\ steps \in Seq(ToSet(steps)) /\ \A i \in DOMAIN steps : StepTyped(manifest, steps[i])
    /\ phase # "executing" => steps = <<>>

ReadsTyped ==
    /\ IsSnapshot(snapshot)
    /\ \A r \in snapshot.objects : r.is \in Shape \cup Network /\ IsRead(r)
    /\ \A b \in snapshot.bindings : IsBinding(b)

CountsTyped ==
    manifest \in Manifests /\ runs \in 0 .. MaxRuns /\ edits \in 0 .. MaxEdits /\ meddled \in BOOLEAN

TypeInv ==
    /\ StepsTyped /\ ReadsTyped /\ CountsTyped /\ ValidWorked
    /\ Consistent(tenant) /\ Consistent(before)

LEMMA VersionsAre ==
    ASSUME NEW t, Consistent(t)
    PROVE  /\ t.next \in Nat /\ t.next >= 1 /\ IsTenant(t)
           /\ Objects(t.objects, t.next) /\ Bindings(t.bindings)
           /\ \A o \in t.objects : /\ Typed(o, t.next) /\ o.version \in Nat
                                  /\ o.id \in 1 .. t.next - 1 /\ o.rest \in Rests
                                  /\ o.is \in Shape \cup Network
<1>1. IsTenant(t) /\ Objects(t.objects, t.next) /\ Bindings(t.bindings)
  BY ConsistentIs
<1>2. t.next \in Nat /\ t.next # 0 /\ \A o \in t.objects : Typed(o, t.next)
  BY <1>1 DEF Objects
<1>3. t.next >= 1
  BY ONLY <1>2
<1>4. \A o \in t.objects : /\ o.version \in Nat /\ o.id \in 1 .. t.next - 1 /\ o.rest \in Rests
                          /\ o.is \in Shape \cup Network
  BY <1>2, TypedIs
<1> QED
  BY <1>1, <1>2, <1>3, <1>4

LEMMA SameServed ==
    ASSUME NEW t, Consistent(t)
    PROVE  Served(t, t)
<1>1. t.next \in Nat /\ \A o \in t.objects : o.version \in Nat
  BY VersionsAre
<1> QED
  BY <1>1 DEF Served

LEMMA BindingsServed ==
    ASSUME NEW t, Consistent(t), NEW bs, Bindings(bs), NEW u, u = [t EXCEPT !.bindings = bs]
    PROVE  Served(t, u) /\ u.objects = t.objects /\ u.bindings = bs /\ u.next = t.next
           /\ u.grants = t.grants /\ u.members = t.members /\ u.altered = t.altered
<1>1. /\ t.next \in Nat /\ \A o \in t.objects : o.version \in Nat
      /\ IsTenant(t) /\ Objects(t.objects, t.next)
  BY VersionsAre
<1>2. u.objects = t.objects /\ u.bindings = bs /\ u.next = t.next /\ IsTenant(u)
      /\ u.grants = t.grants /\ u.members = t.members /\ u.altered = t.altered
  BY <1>1 DEF IsTenant
<1>3. Consistent(u)
  BY <1>1, <1>2, ConsistentIs
<1> QED
  BY <1>1, <1>2, <1>3 DEF Served

LEMMA AssignServed ==
    ASSUME Consistent(tenant), NEW b, IsBinding(b), Assigns(b)
    PROVE  /\ Served(tenant, tenant') /\ tenant'.objects = tenant.objects
           /\ tenant'.bindings = tenant.bindings \cup {b}
           /\ tenant'.grants = tenant.grants /\ tenant'.members = tenant.members
           /\ tenant'.altered = tenant.altered
<1>1. Bindings(tenant.bindings)
  BY VersionsAre
<1>2. tenant' = [tenant EXCEPT !.bindings = tenant.bindings \cup {b}]
  BY DEF Assigns
<1>3. ~ \E c \in tenant.bindings : c.role = b.role /\ c.subject = b.subject
  BY DEF Assigns, Bound
<1>4. Bindings(tenant.bindings \cup {b})
  BY <1>1, <1>3, BindingAdded
<1> QED
  BY <1>2, <1>4, BindingsServed

LEMMA LinkServed ==
    ASSUME Consistent(tenant), Links
    PROVE  /\ Served(tenant, tenant') /\ tenant'.objects = tenant.objects
           /\ tenant'.bindings = tenant.bindings
           /\ tenant'.altered \subseteq tenant.altered
           /\ tenant.grants \subseteq tenant'.grants /\ tenant.members \subseteq tenant'.members
           /\ This.is = "grant" => Pair(resolved, manifest, This) \in tenant'.grants
           /\ This.is # "grant" => Pair(resolved, manifest, This) \in tenant'.members
<1> DEFINE p == Pair(resolved, manifest, This)
<1>1. /\ tenant.next \in Nat /\ \A o \in tenant.objects : o.version \in Nat
      /\ IsTenant(tenant) /\ Objects(tenant.objects, tenant.next) /\ Bindings(tenant.bindings)
  BY VersionsAre
<1>2. \/ This.is = "grant" /\ tenant' = [tenant EXCEPT !.grants = @ \cup {p}, !.altered = @ \ {p}]
      \/ This.is # "grant" /\ tenant' = [tenant EXCEPT !.members = @ \cup {p}]
  BY DEF Links
<1> HIDE DEF p
<1>3. /\ IsTenant(tenant') /\ tenant'.objects = tenant.objects /\ tenant'.next = tenant.next
      /\ tenant'.bindings = tenant.bindings
      /\ tenant'.altered \subseteq tenant.altered
      /\ tenant.grants \subseteq tenant'.grants /\ tenant.members \subseteq tenant'.members
      /\ This.is = "grant" => p \in tenant'.grants
      /\ This.is # "grant" => p \in tenant'.members
  <2>1. CASE This.is = "grant" /\ tenant' = [tenant EXCEPT !.grants = @ \cup {p}, !.altered = @ \ {p}]
    BY <1>1, <2>1 DEF IsTenant
  <2>2. CASE This.is # "grant" /\ tenant' = [tenant EXCEPT !.members = @ \cup {p}]
    BY <1>1, <2>2 DEF IsTenant
  <2> QED
    BY <1>2, <2>1, <2>2
<1>4. Consistent(tenant')
  BY <1>1, <1>3, ConsistentIs
<1>5. Served(tenant, tenant')
  BY <1>1, <1>3, <1>4 DEF Served
<1> QED
  BY <1>3, <1>5 DEF p

\* The object that a step creates.
Fresh == [is |-> This.is, name |-> This.key, under |-> UnderId, id |-> tenant.next,
          value |-> "stated", rest |-> "own", version |-> 1]

LEMMA CreateServed ==
    ASSUME Consistent(tenant), CreatesObject, This.is \in Shape \cup Network
    PROVE  /\ Served(tenant, tenant') /\ tenant'.objects = tenant.objects \cup {Fresh}
           /\ tenant'.bindings = tenant.bindings
           /\ tenant'.grants = tenant.grants /\ tenant'.members = tenant.members
           /\ tenant'.altered = tenant.altered
           /\ Fresh.id = tenant.next /\ Fresh.is = This.is /\ Fresh.name = This.key
           /\ Fresh.under = UnderId /\ Fresh.value = "stated" /\ Fresh.rest = "own"
           /\ \A o \in tenant.objects : o.id # tenant.next
<1>1. /\ tenant.next \in Nat /\ tenant.next >= 1
      /\ \A o \in tenant.objects : o.version \in Nat /\ o.id \in 1 .. tenant.next - 1
      /\ IsTenant(tenant) /\ Objects(tenant.objects, tenant.next) /\ Bindings(tenant.bindings)
  BY VersionsAre
<1>2. UnderId \in 0 .. tenant.next - 1
  <2>1. UnderId = Root \/ \E o \in tenant.objects : o.id = UnderId
    BY DEF CreatesObject, Exists
  <2>2. Root = 0
    BY DEF Root
  <2> QED
    BY ONLY <1>1, <2>1, <2>2
<1>3. /\ This.is = "service-account"
         \/ ~ \E o \in tenant.objects : o.is = This.is /\ o.name = This.key /\ o.under = UnderId
      /\ tenant' = [tenant EXCEPT !.objects = @ \cup {Fresh}, !.next = @ + 1]
  BY DEF CreatesObject, Taken, Fresh
<1>4. Objects(tenant.objects \cup {Fresh}, tenant.next + 1)
  BY <1>1, <1>2, <1>3, ObjectAdded DEF Fresh
<1>5. /\ Fresh.id = tenant.next /\ Fresh.is = This.is /\ Fresh.name = This.key
      /\ Fresh.under = UnderId /\ Fresh.value = "stated" /\ Fresh.rest = "own"
  BY DEF Fresh
<1>6. /\ IsTenant(tenant') /\ tenant'.objects = tenant.objects \cup {Fresh}
      /\ tenant'.next = tenant.next + 1 /\ tenant'.bindings = tenant.bindings
      /\ tenant'.grants = tenant.grants /\ tenant'.members = tenant.members
      /\ tenant'.altered = tenant.altered
  BY <1>1, <1>3 DEF IsTenant
<1>7. Consistent(tenant')
  BY <1>1, <1>4, <1>6, ConsistentIs
<1>8. Served(tenant, tenant')
  BY <1>1, <1>5, <1>6, <1>7 DEF Served
<1>9. \A o \in tenant.objects : o.id # tenant.next
  BY <1>1
<1> QED
  BY <1>5, <1>6, <1>8, <1>9

\* An object of the same identity.
Same4(o, p) == o.id = p.id /\ o.is = p.is /\ o.name = p.name /\ o.under = p.under

LEMMA UpdateServed ==
    ASSUME Consistent(tenant), UpdatesObject, Now.read.rest \in Rests
    PROVE  /\ Served(tenant, tenant')
           /\ tenant'.bindings = tenant.bindings
           /\ tenant'.grants = tenant.grants /\ tenant'.members = tenant.members
           /\ tenant'.altered = tenant.altered
           /\ \E o \in tenant.objects : \E new :
                /\ o.id = Now.read.id /\ Same4(new, o) /\ new.value = "stated"
                /\ tenant'.objects = (tenant.objects \ {o}) \cup {new}
                /\ o.is \in Network => o.version = Now.read.version /\ new.rest = Now.read.rest
                /\ o.is = "role" => new.rest = "own"
                /\ o.is \notin Network \cup {"role"} => new.rest = o.rest
<1>1. /\ tenant.next \in Nat /\ tenant.next >= 1
      /\ \A o \in tenant.objects : o.version \in Nat /\ Typed(o, tenant.next)
      /\ IsTenant(tenant) /\ Objects(tenant.objects, tenant.next) /\ Bindings(tenant.bindings)
  BY VersionsAre
<1>2. PICK o \in tenant.objects :
        /\ o.id = Now.read.id
        /\ o.is \in Network => Now.read.version = o.version
        /\ tenant' = Replace(tenant, o,
                        [o EXCEPT !.value = "stated", !.version = @ + 1,
                                  !.rest = RestOf(o, Now.read)])
  BY DEF UpdatesObject, SentVersion
<1> DEFINE rest == RestOf(o, Now.read)
           new == [o EXCEPT !.value = "stated", !.version = @ + 1, !.rest = rest]
<1>3. tenant' = Replace(tenant, o, new)
  BY <1>2
<1>4. o = [is |-> o.is, name |-> o.name, under |-> o.under, id |-> o.id, value |-> o.value,
           rest |-> o.rest, version |-> o.version]
  BY <1>1, TypedRecord
<1>5. /\ o.is \in Shape \cup Network /\ o.under \in 0 .. tenant.next - 1
      /\ o.id \in 1 .. tenant.next - 1 /\ rest \in Rests /\ o.version + 1 \in Nat
      /\ "stated" \in {"stated", "drifted"}
  <2>1. /\ o.is \in Shape \cup Network /\ o.under \in 0 .. tenant.next - 1
        /\ o.id \in 1 .. tenant.next - 1 /\ o.rest \in Rests /\ o.version \in Nat
    BY <1>1, TypedIs
  <2>2. rest = Now.read.rest \/ rest = "own" \/ rest = o.rest
    BY DEF RestOf, carried
  <2>3. "own" \in Rests
    BY DEF Rests
  <2> HIDE DEF rest
  <2> QED
    BY <2>1, <2>2, <2>3
<1>6. new = [o EXCEPT !.value = "stated", !.version = o.version + 1, !.rest = rest]
  OBVIOUS
<1>7. /\ o.is \in Network => o.version = Now.read.version /\ rest = Now.read.rest
      /\ o.is = "role" => rest = "own"
      /\ o.is \notin Network \cup {"role"} => rest = o.rest
  BY <1>2 DEF RestOf, carried, Network
<1> HIDE DEF rest, new
<1>8. new = [is |-> o.is, name |-> o.name, under |-> o.under, id |-> o.id, value |-> "stated",
             rest |-> rest, version |-> o.version + 1]
  BY ONLY <1>4, <1>6
<1>9. Typed(new, tenant.next)
  BY ONLY <1>5, <1>8, TypedFrom
<1>10. Same4(new, o) /\ new.value = "stated" /\ new.version = o.version + 1 /\ new.rest = rest
  BY <1>8 DEF Same4
<1>11. Objects((tenant.objects \ {o}) \cup {new}, tenant.next)
  BY <1>1, <1>9, <1>10, ObjectReplaced DEF Same4
<1>12. /\ IsTenant(tenant') /\ tenant'.objects = (tenant.objects \ {o}) \cup {new}
       /\ tenant'.next = tenant.next /\ tenant'.bindings = tenant.bindings
       /\ tenant'.grants = tenant.grants /\ tenant'.members = tenant.members
       /\ tenant'.altered = tenant.altered
  BY <1>1, <1>3 DEF IsTenant, Replace
<1>13. Consistent(tenant')
  BY <1>1, <1>11, <1>12, ConsistentIs
<1>14. Served(tenant, tenant')
  <2>1. o.version <= new.version /\ o.version # new.version /\ o.id = new.id
    BY <1>1, <1>10 DEF Same4
  <2> QED
    BY <1>1, <1>12, <1>13, <2>1 DEF Served
<1> QED
  BY <1>2, <1>7, <1>10, <1>12, <1>14

LEMMA NowTyped ==
    ASSUME TypeInv, Executing
    PROVE  /\ Now = steps[1] /\ StepTyped(manifest, Now) /\ 1 \in DOMAIN steps
           /\ DOMAIN steps = 1 .. Len(steps) /\ Len(steps) \in Nat \ {0}
<1>1. steps \in Seq(ToSet(steps)) /\ steps # <<>> /\ \A i \in DOMAIN steps : StepTyped(manifest, steps[i])
  BY DEF TypeInv, StepsTyped, Executing
<1>2. Head(steps) = steps[1] /\ DOMAIN steps = 1 .. Len(steps) /\ Len(steps) \in Nat \ {0}
  BY <1>1, TailIs
<1>3. 1 \in DOMAIN steps
  BY <1>2
<1> QED
  BY <1>1, <1>2, <1>3 DEF Now

LEMMA WantedIs ==
    ASSUME NEW reach
    PROVE  /\ IsBinding(Wanted(reach)) /\ Wanted(reach).reach = reach
           /\ Wanted(reach).role = resolved.ids[<<"role", This.on>>]
           /\ Wanted(reach).subject = resolved.ids[<<SubjectKind(manifest, This.key), This.key>>]
           /\ Wanted(reach).resource = IdOf(resolved, "resource", This.at)
           /\ Wanted(reach).inherit = This.inherit
  BY DEF Wanted, IsBinding

LEMMA DoesServed ==
    ASSUME TypeInv, Changes, Does
    PROVE  Served(tenant, tenant')
<1>1. Consistent(tenant) /\ StepTyped(manifest, Now)
  BY NowTyped DEF TypeInv, Changes
<1>2. CASE Now.change = "create" /\ This.is \in Shape \cup Network /\ CreatesObject
  BY <1>1, <1>2, CreateServed
<1>3. CASE Now.change = "update" /\ This.is \in Shape \cup Network /\ UpdatesObject
  <2>1. Now.read.rest \in Rests
    BY <1>1, <1>3 DEF StepTyped, IsObject, This, IsRead
  <2> QED
    BY <1>1, <1>3, <2>1, UpdateServed
<1>4. CASE Now.change = "create" /\ This.is \in {"grant", "member"} /\ Links
  BY <1>1, <1>4, LinkServed
<1>5. CASE Now.change = "create" /\ This.is = "binding" /\ Assigns(Wanted("all"))
  BY <1>1, <1>5, WantedIs, AssignServed
<1> QED
  BY <1>2, <1>3, <1>4, <1>5 DEF Does

Executes == Unchanged \/ Runs \/ Fails \/ Unassigns \/ Reassigns \/ Restores

\* What each step of the execution does: how it leaves the tenant and the steps.
LEMMA ExecutesIs ==
    ASSUME TypeInv, Executes
    PROVE  /\ Executing /\ Same
           /\ Served(tenant, tenant')
           /\ \/ \E status \in Statuses : Over(status)
              \/ /\ UNCHANGED <<phase, steps, report>> /\ Rebinds
                 /\ stage' \in {"assign", "restore"}
<1>1. Consistent(tenant) /\ Served(tenant, tenant)
  BY SameServed DEF TypeInv
<1>2. Failed \in Statuses
  BY DEF Failed, Statuses
<1>3. CASE Unchanged
  BY <1>1, <1>3 DEF Unchanged, Statuses, Done
<1>4. CASE Runs
  <2>1. Served(tenant, tenant') /\ Executing
    BY <1>4, DoesServed DEF Runs, Changes
  <2>2. (IF Now.change = "create" THEN "created" ELSE "updated") \in Statuses
    BY DEF Statuses, Done
  <2> QED
    BY <1>4, <2>1, <2>2 DEF Runs
<1>5. CASE Fails
  <2>1. Served(tenant, tenant') /\ Executing
    BY <1>1, <1>5, DoesServed DEF Fails, Changes
  <2> QED
    BY <1>2, <1>5, <2>1 DEF Fails
<1>6. CASE Unassigns
  <2> DEFINE previous == {b \in tenant.bindings :
                        b.role = Now.read.role /\ b.subject = Now.read.subject
                        /\ b.resource = Now.read.resource}
             left == tenant.bindings \ previous
  <2>1. Bindings(left)
    BY <1>1, VersionsAre, BindingsLost
  <2> HIDE DEF previous
  <2>2. tenant' = tenant \/ tenant' = [tenant EXCEPT !.bindings = left]
    BY <1>6 DEF Unassigns, previous
  <2> HIDE DEF left
  <2>3. Served(tenant, tenant')
    BY <1>1, <2>1, <2>2, BindingsServed
  <2> QED
    BY <1>2, <1>6, <2>3 DEF Unassigns, Changes
<1>7. CASE Reassigns
  <2>1. Served(tenant, tenant')
    <3>1. tenant' = tenant \/ Assigns(Wanted(tenantScope(Now.read)))
      BY <1>7 DEF Reassigns
    <3> QED
      BY <1>1, <3>1, WantedIs, AssignServed
  <2>2. "updated" \in Statuses
    BY DEF Statuses, Done
  <2> QED
    BY <1>7, <2>1, <2>2 DEF Reassigns, Changes
<1>8. CASE Restores
  <2>1. Executing /\ Rebinds
    BY <1>8 DEF Restores, Changes
  <2>2. IsBinding(Now.read)
    BY <2>1, NowTyped DEF StepTyped, Rebinds, This
  <2>3. tenant' = tenant \/ Assigns(Now.read)
    BY <1>8 DEF Restores, Restored
  <2>4. Served(tenant, tenant')
    BY <1>1, <2>2, <2>3, AssignServed
  <2>5. "restored" \in Statuses /\ "rebind-failed" \in Statuses
    BY DEF Statuses, Done
  <2> QED
    BY <1>8, <2>1, <2>4, <2>5 DEF Restores
<1> QED
  BY <1>3, <1>4, <1>5, <1>6, <1>7, <1>8 DEF Executes

LEMMA ExecutesTyped ==
    ASSUME TypeInv, Executes
    PROVE  StepsTyped'
<1>1. /\ Executing /\ manifest' = manifest
      /\ \/ \E status \in Statuses : Over(status)
         \/ UNCHANGED <<phase, steps, report>> /\ stage' \in {"assign", "restore"}
  BY ExecutesIs DEF Same
<1>2. /\ phase = "executing" /\ steps # <<>> /\ StepsTyped
  BY <1>1 DEF Executing, TypeInv
<1>3. CASE UNCHANGED <<phase, steps, report>> /\ stage' \in {"assign", "restore"}
  BY <1>1, <1>2, <1>3 DEF StepsTyped
<1>4. CASE \E status \in Statuses : Over(status)
  <2>1. PICK status \in Statuses : Over(status)
    BY <1>4
  <2>2. /\ stage' = "unassign" /\ Ended(status)
        /\ status \in Done => /\ steps' = Tail(steps)
                              /\ phase' = IF Len(steps) = 1 THEN "done" ELSE phase
        /\ status \notin Done => steps' = <<>> /\ phase' = "done"
    BY <1>2, <2>1, OverIs DEF StepsTyped
  <2>3. report' \in Seq(ToSet(report')) /\ \A i \in DOMAIN report' : report'[i].status \in Statuses
    <3>1. Outcome(This, status).status = status
      BY DEF Outcome
    <3>2. "not-attempted" \in Statuses
      BY DEF Statuses
    <3> QED
      BY <1>2, <2>1, <2>2, <3>1, <3>2 DEF Ended, StepsTyped
  <2>4. CASE status \in Done
    <3>1. /\ steps' \in Seq(ToSet(steps')) /\ Len(steps) \in Nat \ {0}
          /\ DOMAIN steps' = 1 .. Len(steps) - 1 /\ DOMAIN steps = 1 .. Len(steps)
          /\ \A i \in 1 .. Len(steps) - 1 : steps'[i] = steps[i + 1]
          /\ Len(steps') = Len(steps) - 1
      BY <1>2, <2>2, <2>4, TailIs DEF StepsTyped
    <3>2. \A i \in DOMAIN steps' : StepTyped(manifest', steps'[i])
      <4> SUFFICES ASSUME NEW i \in 1 .. Len(steps) - 1 PROVE StepTyped(manifest, steps[i + 1])
        BY <1>1, <3>1
      <4>1. i + 1 \in DOMAIN steps
        BY <3>1
      <4> QED
        BY <1>2, <4>1 DEF StepsTyped
    <3>3. phase' \in Phases /\ (phase' # "executing" => steps' = <<>>)
      <4>1. CASE Len(steps) = 1
        <5>1. Len(steps') = 0 /\ phase' = "done"
          BY <2>2, <2>4, <3>1, <4>1
        <5> QED
          BY <3>1, <5>1 DEF Phases
      <4>2. CASE Len(steps) # 1
        BY <1>2, <2>2, <2>4, <4>2 DEF Phases
      <4> QED
        BY <4>1, <4>2
    <3> QED
      BY <2>2, <2>3, <3>1, <3>2, <3>3 DEF StepsTyped
  <2>5. CASE status \notin Done
    <3>1. steps' = <<>> /\ phase' = "done" /\ <<>> \in Seq(ToSet(<<>>)) /\ DOMAIN <<>> = {}
      BY <2>2, <2>5
    <3> QED
      BY <2>2, <2>3, <3>1 DEF StepsTyped, Phases
  <2> QED
    BY <2>4, <2>5
<1> QED
  BY <1>1, <1>3, <1>4

LEMMA AbsentIs ==
    IsRead(Absent) /\ Absent.is \notin Shape \cup Network /\ Absent.id = 0
  BY DEF Absent, Rests, Shape, Network, Root, IsRead

\* What the plan is, in a state where it may be computed.
PlanOf(plan) ==
    LET I == Items(manifest)  N == Len(I) IN
    /\ N \in Nat /\ plan.steps \in Seq(ToSet(plan.steps)) /\ Len(plan.steps) = N
    /\ DOMAIN plan.steps = 1 .. N
    /\ \A l \in 1 .. N :
         LET s == plan.steps[l]  it == I[l] IN
         /\ ItemOf(manifest, it) /\ s.item = it
         /\ IsObject(it) => /\ ObjectPlanned(it, Found(plan.res, snapshot, it), s)
                            /\ ResolvedBy(plan.res, it, s)
         /\ it.is = "binding" =>
              BindingPlanned(plan.res, it, Held(plan.res, snapshot, manifest, it), s)
         /\ it.is \in {"grant", "member"} =>
              LinkPlanned(LinkThere(plan.res, snapshot, manifest, it), s)
         /\ s.change \in {"create", "update", "no-change", "refused"}

LEMMA ManifestValid ==
    ASSUME TypeInv, phase \in {"reading", "executing", "done"}
    PROVE  Valid(manifest)
  BY ManifestsAssumption DEF TypeInv, CountsTyped, ValidWorked, Valid

LEMMA PlannedFirst ==
    ASSUME TypeInv, phase = "reading"
    PROVE  PlanOf(Compute(manifest, snapshot))
<1> DEFINE plan == Compute(manifest, snapshot)
           I == Items(manifest)
           N == Len(I)
<1>1. Valid(manifest)
  BY ManifestValid
<1>2. Absent \notin snapshot.objects
  BY AbsentIs DEF TypeInv, ReadsTyped
<1>3. /\ plan.steps = [l \in 1 .. N |-> Planned(plan.res, snapshot, manifest, I[l])]
      /\ \A l \in 1 .. N : IsObject(I[l]) => ResolvedBy(plan.res, I[l], plan.steps[l])
  BY <1>1, <1>2, PlanIs
<1>4. /\ N \in Nat /\ \A l \in 1 .. N : ItemOf(manifest, I[l])
  BY <1>1, ItemsAre DEF Of
<1> HIDE DEF plan, I
<1>5. plan.steps \in Seq(ToSet(plan.steps)) /\ Len(plan.steps) = N /\ DOMAIN plan.steps = 1 .. N
  <2> DEFINE s == plan.steps
  <2>1. s = [l \in 1 .. N |-> s[l]]
    BY <1>3
  <2> HIDE DEF s
  <2>2. s \in [1 .. N -> ToSet(s)]
    BY <2>1 DEF ToSet
  <2>3. s \in Seq(ToSet(s))
    BY ONLY <1>4, <2>2, Sequence
  <2> QED
    BY <1>4, <2>1, <2>3 DEF s
<1>6. ASSUME NEW l \in 1 .. N
      PROVE  /\ plan.steps[l].item = I[l]
             /\ IsObject(I[l]) => ObjectPlanned(I[l], Found(plan.res, snapshot, I[l]), plan.steps[l])
             /\ I[l].is = "binding" =>
                  BindingPlanned(plan.res, I[l], Held(plan.res, snapshot, manifest, I[l]), plan.steps[l])
             /\ I[l].is \in {"grant", "member"} =>
                  LinkPlanned(LinkThere(plan.res, snapshot, manifest, I[l]), plan.steps[l])
             /\ plan.steps[l].change \in {"create", "update", "no-change", "refused"}
  <2>1. plan.steps[l] = Planned(plan.res, snapshot, manifest, I[l]) /\ ItemOf(manifest, I[l])
    BY <1>3, <1>4
  <2> QED
    BY <2>1, PlannedIs
<1>7. PlanOf(plan)
  BY <1>3, <1>4, <1>5, <1>6 DEF PlanOf, I
<1> QED
  BY <1>7 DEF plan

\* The objects and bindings of the steps are those that were read.
LEMMA PlanReads ==
    ASSUME TypeInv, phase = "reading", NEW l \in 1 .. Len(Items(manifest))
    PROVE  LET s == Compute(manifest, snapshot).steps[l] IN
           /\ IsObject(s.item) => s.read = Absent \/ s.read \in snapshot.objects
           /\ s.item.is = "binding" => s.read = Absent \/ s.read \in snapshot.bindings
           /\ s.item.is = "binding" /\ s.change = "update" => s.read \in snapshot.bindings
<1> DEFINE plan == Compute(manifest, snapshot)
           s == plan.steps[l]
           it == Items(manifest)[l]
<1>1. /\ s.item = it
      /\ IsObject(it) => ObjectPlanned(it, Found(plan.res, snapshot, it), s)
      /\ it.is = "binding" => BindingPlanned(plan.res, it, Held(plan.res, snapshot, manifest, it), s)
  BY PlannedFirst DEF PlanOf
<1> HIDE DEF plan, s
<1>2. Found(plan.res, snapshot, it) \subseteq snapshot.objects
  BY DEF Found
<1>3. Held(plan.res, snapshot, manifest, it) \subseteq snapshot.bindings
  BY DEF Held
<1> HIDE DEF it
<1> QED
  BY <1>1, <1>2, <1>3 DEF ObjectPlanned, BindingPlanned, s, plan

LEMMA PlanTyped ==
    ASSUME TypeInv, Plan
    PROVE  StepsTyped'
<1> DEFINE plan == Compute(manifest, snapshot)
<1>1. phase = "reading" /\ steps = <<>> /\ StepsTyped /\ ReadsTyped
  BY DEF Plan, TypeInv, StepsTyped
<1>2. PlanOf(plan)
  BY <1>1, PlannedFirst
<1>3. UNCHANGED <<manifest, stage, report>>
  BY DEF Plan
<1>4. CASE Refused(plan)
  <2>1. phase' = "threw" /\ steps' = steps
    BY <1>4 DEF Plan
  <2> QED
    BY <1>1, <1>3, <2>1 DEF StepsTyped, Phases
<1>5. CASE ~Refused(plan)
  <2>1. phase' = (IF plan.steps = <<>> THEN "done" ELSE "executing") /\ steps' = plan.steps
    BY <1>5 DEF Plan
  <2>2. plan.steps \in Seq(ToSet(plan.steps)) /\ DOMAIN plan.steps = 1 .. Len(Items(manifest))
    BY <1>2 DEF PlanOf
  <2>3. ASSUME NEW l \in 1 .. Len(Items(manifest)) PROVE StepTyped(manifest, plan.steps[l])
    <3>1. ItemOf(manifest, plan.steps[l].item)
      BY <1>2 DEF PlanOf
    <3>2. /\ IsObject(plan.steps[l].item) =>
               plan.steps[l].read = Absent \/ plan.steps[l].read \in snapshot.objects
          /\ plan.steps[l].item.is = "binding" /\ plan.steps[l].change = "update" =>
               plan.steps[l].read \in snapshot.bindings
      BY <1>1, PlanReads
    <3> HIDE DEF plan
    <3> QED
      BY <1>1, <3>1, <3>2, AbsentIs DEF StepTyped, ReadsTyped
  <2> HIDE DEF plan
  <2> QED
    BY <1>1, <1>3, <2>1, <2>2, <2>3 DEF StepsTyped, Phases
<1> QED
  BY <1>4, <1>5

LEMMA NextServed ==
    ASSUME TypeInv, [Next]_vars
    PROVE  Served(tenant, tenant')
<1>1. Consistent(tenant) /\ Served(tenant, tenant)
  BY SameServed DEF TypeInv
<1>2. CASE Executes
  BY <1>2, ExecutesIs
<1>3. CASE Administrates
  <2>1. tenant' \in Edited(tenant)
    BY <1>3 DEF Administrates
  <2>2. Consistent(tenant') /\ tenant'.next = tenant.next /\ Aged(tenant, tenant')
    BY <1>1, <2>1, EditIs
  <2>3. tenant.next \in Nat
    BY <1>1, VersionsAre
  <2> QED
    BY <2>2, <2>3 DEF Served, Aged
<1>4. CASE UNCHANGED tenant
  BY <1>1, <1>4
<1> QED
  BY <1>2, <1>3, <1>4 DEF Next, Executes, Apply, ReadNext, ReadFails, Plan, vars

LEMMA TypeInit == Init => TypeInv
<1> SUFFICES ASSUME Init PROVE TypeInv
  OBVIOUS
<1>1. Consistent(tenant) /\ Consistent(before)
  BY TenantsAssumption DEF Init
<1>2. <<>> \in Seq(ToSet(<<>>)) /\ DOMAIN <<>> = {}
  OBVIOUS
<1>3. StepsTyped
  BY <1>2 DEF Init, StepsTyped, Phases
<1>4. ReadsTyped
  BY DEF Init, ReadsTyped, Nothing, IsSnapshot
<1>5. CountsTyped
  <2>1. MaxRuns \in Nat /\ MaxEdits \in Nat
    BY PageAssumption
  <2>2. 0 \in 0 .. MaxRuns /\ 0 \in 0 .. MaxEdits
    BY ONLY <2>1
  <2> QED
    BY <2>2 DEF Init, CountsTyped
<1> QED
  BY <1>1, <1>3, <1>4, <1>5 DEF TypeInv, ValidWorked, Init

LEMMA TypeNext == TypeInv /\ [Next]_vars => TypeInv'
<1> SUFFICES ASSUME TypeInv, [Next]_vars PROVE TypeInv'
  OBVIOUS
<1>1. Consistent(tenant') /\ Consistent(tenant)
  BY NextServed DEF Served, TypeInv
<1>2. StepsTyped /\ ReadsTyped /\ CountsTyped /\ ValidWorked /\ Consistent(before)
  BY DEF TypeInv
<1>3. ASSUME NEW m \in Manifests, Apply(m) PROVE TypeInv'
  <2>1. phase' \in {"reading", "threw"} /\ (phase' = "reading" => validate(m)) /\ manifest' = m
    BY <1>3 DEF Apply
  <2>2. /\ steps' = <<>> /\ report' = <<>> /\ stage' = "unassign" /\ snapshot' = Nothing
        /\ before' = tenant /\ meddled' = FALSE /\ edits' = edits /\ runs' = runs + 1
        /\ runs < MaxRuns
    BY <1>3 DEF Apply
  <2>3. <<>> \in Seq(ToSet(<<>>)) /\ DOMAIN <<>> = {}
    OBVIOUS
  <2>4. StepsTyped'
    BY <2>1, <2>2, <2>3 DEF StepsTyped, Phases
  <2>5. ReadsTyped'
    BY <2>2 DEF ReadsTyped, Nothing, IsSnapshot
  <2>6. CountsTyped'
    <3>1. runs + 1 \in 0 .. MaxRuns
      <4>1. MaxRuns \in Nat /\ runs \in 0 .. MaxRuns
        BY <1>2, PageAssumption DEF CountsTyped
      <4> QED
        BY ONLY <2>2, <4>1
    <3> QED
      BY <1>2, <2>1, <2>2, <3>1 DEF CountsTyped
  <2>7. ValidWorked'
    BY <2>1 DEF ValidWorked
  <2> QED
    BY <1>1, <2>2, <2>4, <2>5, <2>6, <2>7 DEF TypeInv
<1>4. CASE ReadNext
  <2>1. /\ phase = "reading"
        /\ UNCHANGED <<manifest, tenant, phase, steps, stage, report, runs, edits, before, meddled>>
        /\ snapshot' = snapshot \/ snapshot' = Gathered(Head(todo))
    BY <1>4 DEF ReadNext
  <2>2. StepsTyped' /\ CountsTyped' /\ ValidWorked'
    BY <1>2, <2>1 DEF StepsTyped, CountsTyped, ValidWorked
  <2>3. ReadsTyped'
    <3>1. CASE snapshot' = snapshot
      BY <1>2, <3>1 DEF ReadsTyped
    <3>2. CASE snapshot' = Gathered(Head(todo))
      <4>1. /\ IsSnapshot(snapshot')
            /\ snapshot'.objects \subseteq snapshot.objects \cup tenant.objects
            /\ snapshot'.bindings \subseteq snapshot.bindings \cup tenant.bindings
        BY <1>2, <3>2, GatheredIs DEF ReadsTyped
      <4>2. /\ \A o \in tenant.objects : o.is \in Shape \cup Network /\ IsRead(o)
            /\ \A b \in tenant.bindings : IsBinding(b)
        BY <1>1, VersionsAre DEF Bindings, IsRead
      <4> QED
        BY <1>2, <4>1, <4>2 DEF ReadsTyped
    <3> QED
      BY <2>1, <3>1, <3>2
  <2> QED
    BY <1>1, <1>2, <2>1, <2>2, <2>3 DEF TypeInv
<1>5. CASE ReadFails
  <2>1. /\ phase = "reading" /\ phase' = "threw"
        /\ UNCHANGED <<manifest, tenant, snapshot, steps, stage, report, runs, edits, before, meddled>>
    BY <1>5 DEF ReadFails
  <2> QED
    BY <1>1, <1>2, <2>1 DEF TypeInv, StepsTyped, Phases, ReadsTyped, CountsTyped, ValidWorked
<1>6. CASE Plan
  <2>1. StepsTyped'
    BY <1>6, PlanTyped
  <2>2. /\ phase = "reading" /\ snapshot' = Nothing
        /\ UNCHANGED <<manifest, runs, edits, before, meddled>>
    BY <1>6 DEF Plan
  <2> QED
    BY <1>1, <1>2, <2>1, <2>2
       DEF TypeInv, ReadsTyped, Nothing, IsSnapshot, CountsTyped, ValidWorked
<1>7. CASE Executes
  <2>1. StepsTyped' /\ Executing /\ Same
    BY <1>7, ExecutesTyped, ExecutesIs
  <2> QED
    BY <1>1, <1>2, <2>1 DEF TypeInv, ReadsTyped, CountsTyped, ValidWorked, Executing, Same
<1>8. CASE Administrates
  <2>1. /\ edits < MaxEdits /\ edits' = edits + 1 /\ meddled' = TRUE
        /\ UNCHANGED <<manifest, phase, snapshot, steps, stage, report, runs, before>>
    BY <1>8 DEF Administrates
  <2>2. CountsTyped'
    BY <1>2, <2>1, PageAssumption DEF CountsTyped
  <2> QED
    BY <1>1, <1>2, <2>1, <2>2 DEF TypeInv, StepsTyped, ReadsTyped, ValidWorked
<1>9. CASE UNCHANGED vars
  BY <1>1, <1>2, <1>9 DEF vars, TypeInv, StepsTyped, ReadsTyped, CountsTyped, ValidWorked
<1> QED
  BY <1>3, <1>4, <1>5, <1>6, <1>7, <1>8, <1>9 DEF Next, Executes

\* The state has the shape its declarations give it, and what was read and planned has
\* that of what the server holds; only a valid manifest is worked on (apply()).
THEOREM TypeInvariant == Spec => []TypeInv
<1>1. Init => TypeInv
  BY TypeInit
<1>2. TypeInv /\ [Next]_vars => TypeInv'
  BY TypeNext
<1> QED
  BY <1>1, <1>2, PTL DEF Spec

THEOREM TypeCorrect == Spec => []TypeOK
<1>1. TypeInv => TypeOK
  BY DEF TypeInv, TypeOK, StepsTyped, CountsTyped
<1> QED
  BY <1>1, TypeInvariant, PTL

-----------------------------------------------------------------------------
(* Updates keep what they do not state *)

LEMMA StillPrecedes ==
    ASSUME NEW t, NEW u, Consistent(t), Served(t, u), NEW r, r.id < t.next, Precedes(t, r),
           r.id \in Nat, r.version \in Nat
    PROVE  Precedes(u, r)
<1>1. t.next \in Nat /\ \A p \in t.objects : p.version \in Nat
  BY VersionsAre
<1>2. u.next \in Nat /\ \A o \in u.objects : o.version \in Nat
  BY VersionsAre DEF Served
<1>3. ASSUME NEW o \in u.objects, o.id = r.id
      PROVE  r.version <= o.version /\ (r.version = o.version => r.rest = o.rest)
  <2>1. ~(o.id >= t.next)
    BY <1>1, <1>3
  <2>2. PICK p \in t.objects : /\ p.id = o.id /\ p.version <= o.version
                               /\ p.version = o.version => p.rest = o.rest
    BY <2>1 DEF Served
  <2>3. r.version <= p.version /\ (r.version = p.version => r.rest = p.rest)
    BY <1>3, <2>2 DEF Precedes
  <2> QED
    BY <1>1, <1>2, <2>2, <2>3
<1> QED
  BY <1>1, <1>2, <1>3 DEF Precedes, Served

LEMMA Itself ==
    ASSUME NEW t, Consistent(t), NEW o \in t.objects
    PROVE  Precedes(t, o)
<1>1. /\ t.next \in Nat /\ Objects(t.objects, t.next)
      /\ \A p \in t.objects : p.version \in Nat /\ p.id \in 1 .. t.next - 1
  BY VersionsAre
<1>2. o.id < t.next
  BY <1>1
<1>3. ASSUME NEW p \in t.objects, p.id = o.id PROVE p = o
  BY <1>1, <1>3 DEF Objects, Separate
<1> QED
  BY <1>1, <1>2, <1>3 DEF Precedes

LEMMA AbsentPrecedes ==
    ASSUME NEW t, Consistent(t)
    PROVE  Precedes(t, Absent)
<1>1. /\ t.next \in Nat /\ t.next >= 1 /\ \A p \in t.objects : p.id \in 1 .. t.next - 1
  BY VersionsAre
<1>2. Absent.id = 0
  BY AbsentIs
<1> QED
  BY <1>1, <1>2 DEF Precedes

LEMMA ReadsStillPrecede ==
    ASSUME TypeInv, ReadsPrecede, [Next]_vars
    PROVE  /\ \A r \in snapshot.objects : Precedes(tenant', r)
           /\ \A i \in DOMAIN steps : IsObject(steps[i].item) => Precedes(tenant', steps[i].read)
<1>1. Served(tenant, tenant') /\ Consistent(tenant)
  BY NextServed DEF TypeInv
<1>2. ASSUME NEW r, Precedes(tenant, r), IsRead(r) PROVE Precedes(tenant', r)
  <2>1. r.id < tenant.next /\ r.id \in Nat /\ r.version \in Nat
    BY <1>2 DEF Precedes, IsRead
  <2> QED
    BY <1>1, <1>2, <2>1, StillPrecedes
<1>3. /\ \A r \in snapshot.objects : Precedes(tenant, r) /\ IsRead(r)
      /\ \A i \in DOMAIN steps : IsObject(steps[i].item) =>
            Precedes(tenant, steps[i].read) /\ IsRead(steps[i].read)
  BY DEF ReadsPrecede, TypeInv, ReadsTyped, StepsTyped, StepTyped
<1> QED
  BY <1>2, <1>3

LEMMA StepsLeft ==
    ASSUME TypeInv, Executes
    PROVE  \A i \in DOMAIN steps' : \E j \in DOMAIN steps : steps'[i] = steps[j]
<1>1. \/ \E status \in Statuses : Over(status)
      \/ UNCHANGED <<phase, steps, report>>
  BY ExecutesIs
<1>2. Executing /\ StepsTyped /\ steps # <<>>
  BY ExecutesIs DEF TypeInv, Executing
<1>3. CASE \E status \in Statuses : Over(status)
  <2>1. steps' = Tail(steps) \/ steps' = <<>>
    BY <1>2, <1>3, OverIs DEF StepsTyped
  <2>2. CASE steps' = <<>>
    <3>1. DOMAIN <<>> = {}
      OBVIOUS
    <3> QED
      BY <2>2, <3>1
  <2>3. CASE steps' = Tail(steps)
    <3>1. /\ Len(steps) \in Nat \ {0} /\ DOMAIN steps = 1 .. Len(steps)
          /\ DOMAIN steps' = 1 .. Len(steps) - 1
          /\ \A i \in 1 .. Len(steps) - 1 : steps'[i] = steps[i + 1]
      BY <1>2, <2>3, TailIs DEF StepsTyped
    <3>2. ASSUME NEW i \in 1 .. Len(steps) - 1 PROVE i + 1 \in DOMAIN steps
      BY <3>1
    <3> QED
      BY <3>1, <3>2
  <2> QED
    BY <2>1, <2>2, <2>3
<1> QED
  BY <1>1, <1>3

LEMMA ReadsPrecedeNext ==
    ASSUME TypeInv, ReadsPrecede, [Next]_vars
    PROVE  ReadsPrecede'
<1>1. Served(tenant, tenant') /\ Consistent(tenant)
  BY NextServed DEF TypeInv
<1>2. /\ \A r \in snapshot.objects : Precedes(tenant', r)
      /\ \A i \in DOMAIN steps : IsObject(steps[i].item) => Precedes(tenant', steps[i].read)
  BY ReadsStillPrecede
<1>3. ASSUME UNCHANGED snapshot \/ snapshot' = Nothing,
             \A i \in DOMAIN steps' : \E j \in DOMAIN steps : steps'[i] = steps[j]
      PROVE  ReadsPrecede'
  BY <1>2, <1>3 DEF ReadsPrecede, Nothing
<1>4. CASE \E m \in Manifests : Apply(m)
  <2>1. snapshot' = Nothing /\ steps' = <<>> /\ DOMAIN <<>> = {}
    BY <1>4 DEF Apply
  <2> QED
    BY <1>3, <2>1
<1>5. CASE ReadNext
  <2>1. UNCHANGED <<tenant, steps>> /\ (snapshot' = snapshot \/ snapshot' = Gathered(Head(todo)))
    BY <1>5 DEF ReadNext
  <2>2. snapshot'.objects \subseteq snapshot.objects \cup tenant.objects
    BY <2>1, GatheredIs DEF TypeInv, ReadsTyped
  <2> QED
    BY <1>1, <1>2, <2>1, <2>2, Itself DEF ReadsPrecede
<1>6. CASE ReadFails
  BY <1>3, <1>6 DEF ReadFails
<1>7. CASE Plan
  <2> DEFINE plan == Compute(manifest, snapshot)
  <2>1. phase = "reading" /\ UNCHANGED tenant /\ snapshot' = Nothing
    BY <1>7 DEF Plan
  <2>2. steps' = steps \/ steps' = plan.steps
    BY <1>7 DEF Plan
  <2>3. CASE steps' = steps
    BY <1>3, <2>1, <2>3
  <2>4. CASE steps' = plan.steps
    <3>1. DOMAIN plan.steps = 1 .. Len(Items(manifest))
      BY <2>1, PlannedFirst DEF PlanOf
    <3>2. ASSUME NEW l \in 1 .. Len(Items(manifest)), IsObject(plan.steps[l].item)
          PROVE  Precedes(tenant', plan.steps[l].read)
      <4>1. plan.steps[l].read = Absent \/ plan.steps[l].read \in snapshot.objects
        BY <2>1, <3>2, PlanReads
      <4>2. Precedes(tenant', Absent)
        BY <1>1, AbsentPrecedes DEF Served
      <4> QED
        BY <1>2, <4>1, <4>2
    <3> HIDE DEF plan
    <3> QED
      BY <2>1, <2>4, <3>1, <3>2 DEF ReadsPrecede, Nothing
  <2> QED
    BY <2>2, <2>3, <2>4
<1>8. CASE Executes
  <2>1. UNCHANGED snapshot
    BY <1>8, ExecutesIs DEF Same
  <2> QED
    BY <1>3, <1>8, <2>1, StepsLeft
<1>9. CASE Administrates
  BY <1>3, <1>9 DEF Administrates
<1>10. CASE UNCHANGED vars
  BY <1>3, <1>10 DEF vars
<1> QED
  BY <1>4, <1>5, <1>6, <1>7, <1>8, <1>9, <1>10 DEF Next, Executes

\* No step but the administrator's loses an object, or changes what it was not told, a
\* role's isGlobal apart.
Spared(t, u) ==
    \A o \in t.objects : \E p \in u.objects :
        /\ p.id = o.id
        /\ p.rest = o.rest \/ (o.is = "role" /\ p.rest = "own")

LEMMA SparedByObjects ==
    ASSUME NEW t, NEW u, t.objects \subseteq u.objects
    PROVE  Spared(t, u)
  BY DEF Spared

LEMMA UpdateSpares ==
    ASSUME TypeInv, ReadsPrecede, Executing, IsObject(This), UpdatesObject
    PROVE  Spared(tenant, tenant')
<1>1. /\ Consistent(tenant) /\ StepTyped(manifest, Now) /\ Now = steps[1] /\ 1 \in DOMAIN steps
  BY NowTyped DEF TypeInv
<1>2. IsRead(Now.read) /\ Precedes(tenant, Now.read)
  BY <1>1 DEF StepTyped, This, ReadsPrecede
<1>3. PICK o, new :
        /\ o \in tenant.objects /\ o.id = Now.read.id /\ Same4(new, o) /\ new.value = "stated"
        /\ tenant'.objects = (tenant.objects \ {o}) \cup {new}
        /\ o.is \in Network => o.version = Now.read.version /\ new.rest = Now.read.rest
        /\ o.is = "role" => new.rest = "own"
        /\ o.is \notin Network \cup {"role"} => new.rest = o.rest
  BY <1>1, <1>2, UpdateServed DEF IsRead
<1>4. (new.rest = o.rest \/ (o.is = "role" /\ new.rest = "own")) /\ new.id = o.id
  BY <1>2, <1>3 DEF Precedes, Same4
<1> QED
  BY <1>3, <1>4 DEF Spared

LEMMA DoesSpares ==
    ASSUME TypeInv, ReadsPrecede, Changes, Does
    PROVE  Spared(tenant, tenant')
<1>1. Consistent(tenant) /\ Executing
  BY DEF TypeInv, Changes
<1>2. CASE Now.change = "create" /\ This.is \in Shape \cup Network /\ CreatesObject
  BY <1>1, <1>2, CreateServed, SparedByObjects
<1>3. CASE Now.change = "update" /\ This.is \in Shape \cup Network /\ UpdatesObject
  BY <1>1, <1>3, UpdateSpares DEF IsObject
<1>4. CASE Now.change = "create" /\ This.is \in {"grant", "member"} /\ Links
  BY <1>1, <1>4, LinkServed, SparedByObjects
<1>5. CASE Now.change = "create" /\ This.is = "binding" /\ Assigns(Wanted("all"))
  <2>1. tenant'.objects = tenant.objects
    BY <1>1, <1>5, WantedIs, AssignServed
  <2> QED
    BY <2>1, SparedByObjects
<1> QED
  BY <1>2, <1>3, <1>4, <1>5 DEF Does

LEMMA BindingStepsSpare ==
    ASSUME TypeInv, Unassigns \/ Reassigns \/ Restores
    PROVE  tenant'.objects = tenant.objects /\ tenant'.altered = tenant.altered
<1>1. Consistent(tenant)
  BY DEF TypeInv
<1>2. CASE Unassigns
  <2>1. tenant' = tenant \/ \E bs : tenant' = [tenant EXCEPT !.bindings = bs]
    BY <1>2 DEF Unassigns
  <2>2. IsTenant(tenant)
    BY <1>1, VersionsAre
  <2> QED
    BY <2>1, <2>2 DEF IsTenant
<1>3. CASE Reassigns
  <2>1. tenant' = tenant \/ Assigns(Wanted(tenantScope(Now.read)))
    BY <1>3 DEF Reassigns
  <2> QED
    BY <1>1, <2>1, WantedIs, AssignServed
<1>4. CASE Restores
  <2>1. IsBinding(Now.read)
    BY <1>4, NowTyped DEF StepTyped, Rebinds, This, Restores, Changes
  <2>2. tenant' = tenant \/ Assigns(Now.read)
    BY <1>4 DEF Restores, Restored
  <2> QED
    BY <1>1, <2>1, <2>2, AssignServed
<1> QED
  BY <1>2, <1>3, <1>4

LEMMA NextSpares ==
    ASSUME TypeInv, ReadsPrecede, [Next]_vars, edits' = edits
    PROVE  Spared(tenant, tenant')
<1>1. CASE Runs \/ Fails
  <2>1. Changes /\ (UNCHANGED tenant \/ Does)
    BY <1>1 DEF Runs, Fails
  <2> QED
    BY <2>1, DoesSpares, SparedByObjects
<1>2. CASE Unassigns \/ Reassigns \/ Restores
  BY <1>2, BindingStepsSpare, SparedByObjects
<1>3. CASE UNCHANGED tenant
  BY <1>3, SparedByObjects
<1>4. ~Administrates
  <2>1. edits \in Int
    BY DEF TypeInv, CountsTyped
  <2> QED
    BY <2>1 DEF Administrates
<1> QED
  BY <1>1, <1>2, <1>3, <1>4
     DEF Next, Apply, ReadNext, ReadFails, Plan, Unchanged, vars

LEMMA PrecedeInvariant == Spec => [](TypeInv /\ ReadsPrecede)
<1>1. Init => ReadsPrecede
  <2>1. DOMAIN <<>> = {}
    OBVIOUS
  <2> QED
    BY <2>1 DEF Init, ReadsPrecede, Nothing
<1>2. TypeInv /\ ReadsPrecede /\ [Next]_vars => (TypeInv /\ ReadsPrecede)'
  BY TypeNext, ReadsPrecedeNext
<1> QED
  BY <1>1, <1>2, TypeInit, PTL DEF Spec

\* apply() deletes nothing, and what the manifest leaves out of an object keeps the value
\* the administrator last gave it, a role's isGlobal apart: a replace is sent with the
\* version it was read at, and that version still stands for what was read.
THEOREM UnstatedIsKept == Spec => UnstatedKept
<1>1. TypeInv /\ ReadsPrecede /\ [Next]_vars =>
        [edits' = edits => \A o \in tenant.objects :
            \E p \in tenant'.objects :
                /\ p.id = o.id
                /\ p.rest = o.rest \/ (o.is = "role" /\ p.rest = "own")]_vars
  BY NextSpares DEF Spared
<1> QED
  BY <1>1, PrecedeInvariant, PTL DEF Spec, UnstatedKept

\* The item of the next step, and what is before it and after it.
LEMMA Follows ==
    ASSUME TypeInv, StepsFollow, phase = "executing"
    PROVE  /\ Len(Asked) \in Nat /\ Len(steps) \in 1 .. Len(Asked) /\ DOMAIN steps = 1 .. Len(steps)
           /\ Worked \in 0 .. Len(Asked) - 1 /\ Worked + Len(steps) = Len(Asked)
           /\ This = Asked[Worked + 1] /\ Now = steps[1]
           /\ Now.change \in {"create", "update", "no-change"} /\ Executing
           /\ Valid(manifest) /\ Unlike(Asked) /\ Ordered(manifest, Asked)
           /\ \A j \in 1 .. Len(Asked) : ItemOf(manifest, Asked[j])
           /\ \A j \in 1 .. Len(Asked) :
                /\ j <= Worked => Change(j) = "over"
                /\ j > Worked => /\ j - Worked \in DOMAIN steps
                                 /\ Change(j) = steps[j - Worked].change
                                 /\ Change(j) \in {"create", "update", "no-change"}
                                 /\ steps[j - Worked].item = Asked[j]
           /\ Change(Worked + 1) = Now.change
<1>1. Valid(manifest)
  BY ManifestValid
<1>2. /\ Len(Asked) \in Nat /\ Unlike(Asked) /\ Ordered(manifest, Asked)
      /\ \A j \in 1 .. Len(Asked) : ItemOf(manifest, Asked[j])
  BY <1>1, ItemsAre DEF Asked, Of
<1>3. Len(steps) \in 1 .. Len(Asked)
  BY DEF StepsFollow
<1>4. steps # <<>> /\ steps \in Seq(ToSet(steps))
  <2>1. Len(<<>>) = 0
    OBVIOUS
  <2>2. Len(steps) # 0
    BY ONLY <1>2, <1>3
  <2> QED
    BY <2>1, <2>2 DEF TypeInv, StepsTyped
<1>5. Now = steps[1] /\ DOMAIN steps = 1 .. Len(steps)
  BY <1>4, TailIs DEF Now
<1>6. Worked \in 0 .. Len(Asked) - 1 /\ Worked + Len(steps) = Len(Asked)
  BY ONLY <1>2, <1>3 DEF Worked
<1>7. \A i \in DOMAIN steps : /\ steps[i].item = Asked[Worked + i]
                             /\ steps[i].change \in {"create", "update", "no-change"}
  BY DEF StepsFollow
<1>8. 1 \in DOMAIN steps
  BY ONLY <1>3, <1>5, <1>2
<1>9. ASSUME NEW j \in 1 .. Len(Asked), j > Worked
      PROVE  j - Worked \in DOMAIN steps /\ Worked + (j - Worked) = j
  BY ONLY <1>2, <1>3, <1>5, <1>6, <1>9
<1>10. ASSUME NEW j \in 1 .. Len(Asked), j > Worked
       PROVE  ~(j <= Worked)
  BY ONLY <1>2, <1>6, <1>10
<1>11. \A j \in 1 .. Len(Asked) :
                /\ j <= Worked => Change(j) = "over"
                /\ j > Worked => /\ j - Worked \in DOMAIN steps
                                 /\ Change(j) = steps[j - Worked].change
                                 /\ Change(j) \in {"create", "update", "no-change"}
                                 /\ steps[j - Worked].item = Asked[j]
  BY <1>7, <1>9, <1>10 DEF Change
<1>12. Change(Worked + 1) = Now.change
  <2>1. ~(Worked + 1 <= Worked) /\ (Worked + 1) - Worked = 1
    BY ONLY <1>2, <1>6
  <2> QED
    BY <1>5, <2>1 DEF Change
<1> QED
  BY <1>1, <1>2, <1>3, <1>4, <1>5, <1>6, <1>7, <1>8, <1>11, <1>12 DEF This, Executing

\* What a step needs is known by then.
LEMMA SendableIs ==
    ASSUME TypeInv, StepsFollow, KeysKnown, phase = "executing"
    PROVE  Sendable /\ Failed = "failed"
<1> SUFFICES ASSUME NEW p \in Needs(manifest, This) PROVE p \in DOMAIN resolved.ids
  BY DEF Sendable, Resolves, Failed
<1>1. /\ Len(Asked) \in Nat /\ Worked \in 0 .. Len(Asked) - 1 /\ This = Asked[Worked + 1]
      /\ Ordered(manifest, Asked)
      /\ \A j \in 1 .. Len(Asked) : j <= Worked => Change(j) = "over"
  BY Follows
<1>2. Worked + 1 \in 1 .. Len(Asked) /\ (Worked + 1) - 1 = Worked
  BY ONLY <1>1
<1>3. PICK l \in 1 .. Worked : p \in Gives(Asked[l])
  BY <1>1, <1>2 DEF Ordered
<1>4. l \in 1 .. Len(Asked) /\ l <= Worked
  BY ONLY <1>1, <1>3
<1>5. Asked[l].is \in Shape \cup {"segment"} /\ p = <<Asked[l].is, Asked[l].key>>
  BY <1>3 DEF Gives
<1>6. Change(l) # "create"
  BY <1>1, <1>4
<1> QED
  BY <1>4, <1>5, <1>6 DEF KeysKnown, Knows

\* A step that is over leaves the others as they were.
LEMMA WorkedOn ==
    ASSUME TypeInv, StepsFollow, phase = "executing", steps' = Tail(steps), manifest' = manifest
    PROVE  /\ Asked' = Asked /\ Worked' = Worked + 1 /\ Len(steps') = Len(steps) - 1
           /\ DOMAIN steps' = 1 .. Len(steps) - 1
           /\ \A i \in DOMAIN steps' : i + 1 \in DOMAIN steps /\ steps'[i] = steps[i + 1]
           /\ \A j \in 1 .. Len(Asked) :
                /\ j <= Worked + 1 => Change(j)' = "over"
                /\ j > Worked + 1 => /\ Change(j)' = Change(j)
                                     /\ steps'[j - Worked'] = steps[j - Worked]
                                     /\ j - Worked' \in DOMAIN steps'
<1>1. /\ Len(Asked) \in Nat /\ Len(steps) \in 1 .. Len(Asked) /\ DOMAIN steps = 1 .. Len(steps)
      /\ Worked \in 0 .. Len(Asked) - 1 /\ Worked + Len(steps) = Len(Asked)
      /\ Executing
  BY Follows
<1>2. steps # <<>> /\ steps \in Seq(ToSet(steps))
  BY <1>1 DEF TypeInv, StepsTyped, Executing
<1>3. /\ Len(steps') = Len(steps) - 1 /\ DOMAIN steps' = 1 .. Len(steps) - 1
      /\ \A i \in 1 .. Len(steps) - 1 : steps'[i] = steps[i + 1]
  BY <1>2, TailIs
<1>4. Asked' = Asked
  BY DEF Asked
<1>5. Worked' = Len(Asked) - (Len(steps) - 1) /\ Worked = Len(Asked) - Len(steps)
  BY <1>3, <1>4 DEF Worked
<1>6. Worked' = Worked + 1
  BY ONLY <1>1, <1>5
<1>7. ASSUME NEW j \in 1 .. Len(Asked)
      PROVE  /\ j <= Worked + 1 => Change(j)' = "over"
             /\ j > Worked + 1 => /\ Change(j)' = Change(j)
                                  /\ steps'[j - Worked'] = steps[j - Worked]
                                  /\ j - Worked' \in DOMAIN steps'
  <2>1. CASE j <= Worked + 1
    <3>1. j <= Worked' /\ ~(j > Worked + 1)
      BY ONLY <1>1, <1>6, <2>1
    <3> QED
      BY <3>1 DEF Change
  <2>2. CASE j > Worked + 1
    <3>1. /\ ~(j <= Worked') /\ ~(j <= Worked) /\ ~(j <= Worked + 1)
          /\ j - Worked' \in 1 .. Len(steps) - 1 /\ (j - Worked') + 1 = j - Worked
      BY ONLY <1>1, <1>6, <2>2
    <3>2. steps'[j - Worked'] = steps[j - Worked]
      BY <1>3, <3>1
    <3> QED
      BY <1>3, <3>1, <3>2 DEF Change
  <2> QED
    BY ONLY <1>1, <2>1, <2>2
<1>8. \A i \in DOMAIN steps' : i + 1 \in DOMAIN steps /\ steps'[i] = steps[i + 1]
  BY <1>1, <1>3
<1> QED
  BY <1>3, <1>4, <1>6, <1>7, <1>8

\* How a step ends: it is over, or it failed, or it is a rebind that goes on.
Succeeds == (Unchanged \/ Runs \/ (Reassigns /\ Over("updated"))) /\ steps' = Tail(steps)
            /\ phase' = (IF Len(steps) = 1 THEN "done" ELSE phase) /\ stage' = "unassign"

GivesUp ==
    /\ resolved' = resolved /\ steps' = <<>> /\ phase' = "done" /\ stage' = "unassign"
    /\ \E status \in {"failed", "restored", "rebind-failed"} : Over(status)
    /\ Fails \/ Unassigns \/ Restores

GoesOn ==
    /\ UNCHANGED <<phase, steps, report, resolved>> /\ Rebinds /\ Changes
    /\ stage' \in {"assign", "restore"}
    /\ Unassigns \/ Reassigns

LEMMA Ways ==
    ASSUME TypeInv, StepsFollow, KeysKnown, Executes
    PROVE  Succeeds \/ GivesUp \/ GoesOn
<1>1. Executing /\ phase = "executing" /\ steps # <<>>
  BY ExecutesIs DEF Executing
<1>2. Failed = "failed"
  BY <1>1, SendableIs
<1>3. /\ report \in Seq(ToSet(report)) /\ steps \in Seq(ToSet(steps))
  BY DEF TypeInv, StepsTyped
<1>4. ASSUME NEW status, Over(status)
      PROVE  /\ stage' = "unassign"
             /\ status \in Done =>
                  steps' = Tail(steps) /\ phase' = IF Len(steps) = 1 THEN "done" ELSE phase
             /\ status \notin Done => steps' = <<>> /\ phase' = "done"
  BY <1>1, <1>3, <1>4, OverIs
<1>5. /\ {"created", "updated", "unchanged"} = Done
      /\ "failed" \notin Done /\ "restored" \notin Done /\ "rebind-failed" \notin Done
  BY DEF Done
<1>6. CASE Unchanged
  BY <1>4, <1>5, <1>6 DEF Unchanged, Succeeds
<1>7. CASE Runs
  <2>1. \E status \in Done : Over(status)
    BY <1>5, <1>7 DEF Runs
  <2> QED
    BY <1>4, <1>7, <2>1 DEF Succeeds
<1>8. CASE Fails
  <2>1. Over("failed") /\ resolved' = resolved
    BY <1>2, <1>8 DEF Fails
  <2> QED
    BY <1>4, <1>5, <1>8, <2>1 DEF GivesUp
<1>9. CASE Unassigns
  <2>1. Changes /\ Rebinds /\ resolved' = resolved
    BY <1>9 DEF Unassigns
  <2>2. \/ stage' = "assign" /\ UNCHANGED <<phase, steps, report>>
        \/ Over("failed")
    BY <1>2, <1>9 DEF Unassigns
  <2> QED
    BY <1>4, <1>5, <1>9, <2>1, <2>2 DEF GivesUp, GoesOn
<1>10. CASE Reassigns
  <2>1. Changes /\ Rebinds /\ resolved' = resolved
    BY <1>10 DEF Reassigns
  <2>2. \/ stage' = "restore" /\ UNCHANGED <<phase, steps, report>>
        \/ Over("updated")
    BY <1>10 DEF Reassigns
  <2> QED
    BY <1>4, <1>5, <1>10, <2>1, <2>2 DEF Succeeds, GoesOn
<1>11. CASE Restores
  <2>1. resolved' = resolved /\ (Over("restored") \/ Over("rebind-failed"))
    BY <1>11 DEF Restores
  <2> QED
    BY <1>4, <1>5, <1>11, <2>1 DEF GivesUp
<1> QED
  BY <1>6, <1>7, <1>8, <1>9, <1>10, <1>11 DEF Executes

\* What the answer to a step tells.
LEMMA RunsIs ==
    ASSUME TypeInv, Runs
    PROVE  \/ /\ resolved' = resolved
              /\ ~(Now.change = "create" /\ This.is \in Shape) /\ This.is # "segment"
           \/ /\ This.is \in Shape \cup {"segment"}
              /\ \E o \in tenant'.objects :
                   /\ Learnt(resolved, resolved', This, o)
                   /\ o.id = IF Now.change = "create" THEN tenant.next ELSE Now.read.id
<1> DEFINE id == IF Now.change = "create" THEN tenant.next ELSE Now.read.id
           o == CHOOSE o \in tenant'.objects : o.id = id
<1>1. CASE (Now.change = "create" /\ This.is \in Shape) \/ This.is = "segment"
  <2>1. resolved' = Learn(resolved, This.is, This.key, o)
    BY <1>1 DEF Runs, Learns
  <2>2. Consistent(tenant) /\ StepTyped(manifest, Now)
    BY NowTyped DEF TypeInv, Runs, Changes
  <2>3. \E x \in tenant'.objects : x.id = id
    <3>0. This.is \notin {"grant", "member"} /\ This.is # "binding" /\ IsObject(This)
      BY <1>1 DEF Shape, Network, IsObject
    <3>1. CASE Now.change = "create"
      <4>1. CreatesObject
        BY <3>0, <3>1 DEF Runs, Does
      <4>2. Fresh.id = tenant.next /\ Fresh \in tenant'.objects
        BY <2>2, <3>0, <4>1, CreateServed DEF IsObject
      <4> QED
        BY <3>1, <4>2
    <3>2. CASE Now.change # "create"
      <4>1. UpdatesObject
        BY <3>0, <3>2 DEF Runs, Does
      <4>2. Now.read.rest \in Rests
        BY <2>2, <3>0 DEF StepTyped, This, IsRead
      <4>3. PICK p, new : /\ p \in tenant.objects /\ p.id = Now.read.id /\ Same4(new, p)
                          /\ tenant'.objects = (tenant.objects \ {p}) \cup {new}
        BY <2>2, <4>1, <4>2, UpdateServed
      <4>4. new \in tenant'.objects /\ new.id = Now.read.id
        BY <4>3 DEF Same4
      <4> QED
        BY <3>2, <4>4
    <3> QED
      BY <3>1, <3>2
  <2>4. o \in tenant'.objects /\ o.id = id
    BY <2>3
  <2>5. This.is \in Shape \cup {"segment"}
    BY <1>1
  <2> HIDE DEF o
  <2>6. Learnt(resolved, resolved', This, o)
    BY <2>1, ItemLearned
  <2> QED
    BY <2>4, <2>5, <2>6
<1>2. CASE ~((Now.change = "create" /\ This.is \in Shape) \/ This.is = "segment")
  BY <1>2 DEF Runs, Learns
<1> QED
  BY <1>1, <1>2

LEMMA Apart ==
    ASSUME TypeInv, StepsFollow, phase = "executing", NEW j \in 1 .. Len(Asked), j # Worked + 1,
           IsObject(Asked[j])
    PROVE  IdKey(Asked[j]) # IdKey(This) /\ ~Alike(Asked[j], This)
<1>1. /\ Len(Asked) \in Nat /\ Worked \in 0 .. Len(Asked) - 1 /\ This = Asked[Worked + 1]
      /\ Unlike(Asked)
  BY Follows
<1>2. Worked + 1 \in 1 .. Len(Asked)
  BY ONLY <1>1
<1>3. ~Alike(Asked[j], This)
  BY <1>1, <1>2 DEF Unlike
<1>4. Asked[j].is # "binding"
  BY DEF IsObject, Shape, Network
<1> QED
  BY <1>3, <1>4 DEF Alike, IdKey

LEMMA StepsFollowNext ==
    ASSUME TypeInv, StepsFollow, KeysKnown, [Next]_vars
    PROVE  StepsFollow'
<1>1. CASE \E m \in Manifests : Apply(m)
  <2>1. phase' # "executing" /\ report' = <<>> /\ DOMAIN <<>> = {}
    BY <1>1 DEF Apply
  <2> QED
    BY <2>1 DEF StepsFollow
<1>2. CASE UNCHANGED <<manifest, phase, steps, report>>
  BY <1>2 DEF StepsFollow, Worked, Asked
<1>3. CASE ReadFails
  BY <1>3 DEF ReadFails, StepsFollow
<1>4. CASE Plan
  <2> DEFINE plan == Compute(manifest, snapshot)
  <2>1. phase = "reading" /\ UNCHANGED <<manifest, report>>
    BY <1>4 DEF Plan
  <2>2. PlanOf(plan)
    BY <2>1, PlannedFirst
  <2>3. \/ phase' \in {"threw", "done"}
        \/ ~Refused(plan) /\ steps' = plan.steps /\ steps' # <<>>
    BY <1>4 DEF Plan
  <2>4. CASE phase' \in {"threw", "done"}
    BY <2>1, <2>4 DEF StepsFollow
  <2>5. CASE ~Refused(plan) /\ steps' = plan.steps /\ steps' # <<>>
    <3> HIDE DEF plan
    <3>1. /\ Len(Asked) \in Nat /\ steps' \in Seq(ToSet(steps')) /\ Len(steps') = Len(Asked)
          /\ DOMAIN steps' = 1 .. Len(Asked)
          /\ \A i \in 1 .. Len(Asked) :
               /\ steps'[i].item = Asked[i]
               /\ steps'[i].change \in {"create", "update", "no-change", "refused"}
      BY <2>2, <2>5 DEF PlanOf, Asked
    <3>2. \A i \in 1 .. Len(Asked) : steps'[i].change # "refused"
      BY <2>5, <3>1 DEF Refused
    <3>3. Asked' = Asked /\ Worked' = 0
      <4>1. Asked' = Asked
        BY <2>1 DEF Asked
      <4>2. Worked' = Len(Asked) - Len(Asked)
        BY <3>1, <4>1 DEF Worked
      <4> QED
        BY <3>1, <4>1, <4>2
    <3>4. Len(steps') \in 1 .. Len(Asked)
      <4>1. Len(steps') \in Nat \ {0}
        BY <2>5, <3>1, TailIs
      <4> QED
        BY ONLY <3>1, <4>1
    <3>5. \A i \in 1 .. Len(Asked) : 0 + i = i
      OBVIOUS
    <3> QED
      BY <2>1, <3>1, <3>2, <3>3, <3>4, <3>5 DEF StepsFollow
  <2> QED
    BY <2>3, <2>4, <2>5
<1>5. CASE Executes
  <2>0. phase = "executing" /\ manifest' = manifest
    BY <1>5, ExecutesIs DEF Executing, Same
  <2>1. CASE Succeeds
    <3>1. phase' = (IF Len(steps) = 1 THEN "done" ELSE phase)
      BY <2>1 DEF Succeeds
    <3>2. CASE Len(steps) = 1
      BY <3>1, <3>2 DEF StepsFollow
    <3>3. CASE Len(steps) # 1
      <4>1. /\ Len(Asked) \in Nat /\ Len(steps) \in 1 .. Len(Asked) /\ Worked \in 0 .. Len(Asked) - 1
            /\ \A i \in DOMAIN steps : /\ steps[i].item = Asked[Worked + i]
                                       /\ steps[i].change \in {"create", "update", "no-change"}
        BY <2>0, Follows DEF StepsFollow
      <4>2. /\ Asked' = Asked /\ Worked' = Worked + 1 /\ Len(steps') = Len(steps) - 1
            /\ DOMAIN steps' = 1 .. Len(steps) - 1
            /\ \A i \in DOMAIN steps' : i + 1 \in DOMAIN steps /\ steps'[i] = steps[i + 1]
        BY <2>0, <2>1, WorkedOn DEF Succeeds
      <4>3. Len(steps') \in 1 .. Len(Asked)
        BY ONLY <3>3, <4>1, <4>2
      <4>4. \A i \in 1 .. Len(steps) - 1 : Worked + (i + 1) = (Worked + 1) + i
        BY ONLY <4>1
      <4>5. ASSUME NEW i \in DOMAIN steps'
            PROVE  /\ steps'[i].item = Asked'[Worked' + i]
                   /\ steps'[i].change \in {"create", "update", "no-change"}
        BY <4>1, <4>2, <4>4
      <4>6. \A i \in DOMAIN report' : report'[i].status \in Done
        <5>1. PICK status \in Done : Over(status)
          BY <2>1 DEF Succeeds, Unchanged, Runs, Done
        <5>2. Ended(status)
          <6>1. steps # <<>>
            BY <1>5, ExecutesIs DEF Executing
          <6> QED
            BY <5>1, <6>1, OverIs DEF TypeInv, StepsTyped
        <5>3. \A i \in DOMAIN report : report[i].status \in Done
          BY <2>0 DEF StepsFollow
        <5> QED
          BY <5>1, <5>2, <5>3 DEF Ended, Outcome
      <4> QED
        BY <4>2, <4>3, <4>5, <4>6 DEF StepsFollow
    <3> QED
      BY <3>2, <3>3
  <2>2. CASE GivesUp
    BY <2>2 DEF GivesUp, StepsFollow
  <2>3. CASE GoesOn
    BY <1>2, <2>0, <2>3 DEF GoesOn
  <2> QED
    BY <1>5, <2>1, <2>2, <2>3, Ways
<1> QED
  BY <1>1, <1>2, <1>3, <1>4, <1>5 DEF Next, Executes, ReadNext, Administrates, vars

LEMMA KeysKnownNext ==
    ASSUME TypeInv, StepsFollow, KeysKnown, [Next]_vars
    PROVE  KeysKnown'
<1>1. CASE \E m \in Manifests : Apply(m)
  BY <1>1 DEF Apply, KeysKnown
<1>2. CASE UNCHANGED <<manifest, phase, steps, resolved>>
  BY <1>2 DEF KeysKnown, Worked, Asked, Change, Knows
<1>3. CASE ReadFails
  BY <1>3 DEF ReadFails, KeysKnown
<1>4. CASE Plan
  <2> DEFINE plan == Compute(manifest, snapshot)
  <2>1. phase = "reading" /\ UNCHANGED manifest
    BY <1>4 DEF Plan
  <2>2. PlanOf(plan)
    BY <2>1, PlannedFirst
  <2>3. phase' # "executing" \/ (~Refused(plan) /\ steps' = plan.steps /\ resolved' = plan.res)
    BY <1>4 DEF Plan
  <2> HIDE DEF plan
  <2>4. CASE ~Refused(plan) /\ steps' = plan.steps /\ resolved' = plan.res
    <3>1. /\ Len(Asked) \in Nat /\ Len(steps') = Len(Asked)
          /\ \A i \in 1 .. Len(Asked) : IsObject(Asked[i]) =>
               /\ ObjectPlanned(Asked[i], Found(plan.res, snapshot, Asked[i]), steps'[i])
               /\ ResolvedBy(resolved', Asked[i], steps'[i])
      BY <2>2, <2>4 DEF PlanOf, Asked
    <3>2. Asked' = Asked /\ Worked' = 0
      <4>1. Asked' = Asked
        BY <2>1 DEF Asked
      <4>2. Worked' = Len(Asked) - Len(Asked)
        BY <3>1, <4>1 DEF Worked
      <4> QED
        BY <3>1, <4>1, <4>2
    <3>3. ASSUME NEW j \in 1 .. Len(Asked), Asked[j].is \in Shape \cup {"segment"}
          PROVE  <<Asked[j].is, Asked[j].key>> \in DOMAIN resolved'.ids <=> Change(j)' # "create"
      <4>1. Change(j)' = steps'[j].change
        <5>1. ~(j <= Worked') /\ j - Worked' = j
          BY <3>1, <3>2
        <5> QED
          BY <5>1 DEF Change
      <4>2. IsObject(Asked[j])
        BY <3>3 DEF IsObject, Network
      <4>3. <<Asked[j].is, Asked[j].key>> \in DOMAIN resolved'.ids <=> steps'[j].read # Absent
        BY <3>1, <4>2 DEF ResolvedBy, IdKey
      <4>4. \A o \in Found(plan.res, snapshot, Asked[j]) : o # Absent
        BY AbsentIs DEF Found, TypeInv, ReadsTyped
      <4>5. steps'[j].read # Absent <=> steps'[j].change # "create"
        <5>2. ObjectPlanned(Asked[j], Found(plan.res, snapshot, Asked[j]), steps'[j])
          BY <3>1, <4>2
        <5>5. steps'[j].change # "refused"
          <6>1. DOMAIN plan.steps = 1 .. Len(Asked)
            BY <2>2 DEF PlanOf, Asked
          <6> QED
            BY <2>4, <6>1 DEF Refused
        <5> QED
          BY <4>4, <5>2, <5>5 DEF ObjectPlanned
      <4> QED
        BY <4>1, <4>3, <4>5
    <3> QED
      BY <3>2, <3>3 DEF KeysKnown, Knows
  <2> QED
    BY <2>3, <2>4 DEF KeysKnown
<1>5. CASE Executes
  <2>0. phase = "executing" /\ manifest' = manifest
    BY <1>5, ExecutesIs DEF Executing, Same
  <2>1. CASE Succeeds
    <3>1. /\ Len(Asked) \in Nat /\ Worked \in 0 .. Len(Asked) - 1 /\ This = Asked[Worked + 1]
          /\ Change(Worked + 1) = Now.change
      BY <2>0, Follows
    <3>2. /\ Asked' = Asked
          /\ \A j \in 1 .. Len(Asked) :
                /\ j <= Worked + 1 => Change(j)' = "over"
                /\ j > Worked + 1 => Change(j)' = Change(j)
      BY <2>0, <2>1, WorkedOn DEF Succeeds
    <3>3. \A j \in 1 .. Len(Asked) : Asked[j].is \in Shape \cup {"segment"} =>
            (IdKey(Asked[j]) \in DOMAIN resolved.ids <=> Change(j) # "create")
      BY <2>0 DEF KeysKnown, Knows, IdKey
    <3>4. /\ \A j \in 1 .. Len(Asked) : j # Worked + 1 /\ Asked[j].is \in Shape \cup {"segment"} =>
               (IdKey(Asked[j]) \in DOMAIN resolved'.ids <=> IdKey(Asked[j]) \in DOMAIN resolved.ids)
          /\ This.is \in Shape \cup {"segment"} =>
               IdKey(This) \in DOMAIN resolved'.ids \/ (resolved' = resolved /\ Now.change # "create")
      <4>1. ASSUME NEW j \in 1 .. Len(Asked), j # Worked + 1, Asked[j].is \in Shape \cup {"segment"}
            PROVE  IdKey(Asked[j]) # IdKey(This)
        BY <2>0, <4>1, Apart DEF IsObject, Network
      <4>2. CASE Unchanged
        BY <4>2 DEF Unchanged
      <4>3. CASE Reassigns
        <5>1. resolved' = resolved /\ This.is = "binding"
          BY <4>3 DEF Reassigns, Rebinds
        <5> QED
          BY <5>1 DEF Shape
      <4>4. CASE Runs
        <5>1. CASE /\ resolved' = resolved
                   /\ ~(Now.change = "create" /\ This.is \in Shape) /\ This.is # "segment"
          BY <5>1
        <5>2. CASE \E o \in tenant'.objects : Learnt(resolved, resolved', This, o)
          BY <4>1, <5>2 DEF Learnt
        <5> QED
          BY <4>4, <5>1, <5>2, RunsIs
      <4> QED
        BY <2>1, <4>2, <4>3, <4>4 DEF Succeeds
    <3>5. ASSUME NEW j \in 1 .. Len(Asked), Asked[j].is \in Shape \cup {"segment"}
          PROVE  IdKey(Asked[j]) \in DOMAIN resolved'.ids <=> Change(j)' # "create"
      <4>1. CASE j = Worked + 1
        <5>1. j <= Worked + 1
          BY <3>1, <4>1
        <5> QED
          BY <3>1, <3>2, <3>3, <3>4, <3>5, <4>1, <5>1
      <4>2. CASE j <= Worked
        <5>1. j <= Worked + 1 /\ j # Worked + 1
          BY <3>1, <4>2
        <5>2. Change(j) = "over"
          BY <2>0, <4>2, Follows
        <5> QED
          BY <3>2, <3>3, <3>4, <3>5, <5>1, <5>2
      <4>3. CASE j > Worked + 1
        <5>1. j # Worked + 1
          BY <3>1, <4>3
        <5> QED
          BY <3>2, <3>3, <3>4, <3>5, <4>3, <5>1
      <4> QED
        BY <3>1, <4>1, <4>2, <4>3
    <3> QED
      BY <3>2, <3>5 DEF KeysKnown, Knows, IdKey
  <2>2. CASE GivesUp
    BY <2>2 DEF GivesUp, KeysKnown
  <2>3. CASE GoesOn
    BY <1>2, <2>0, <2>3 DEF GoesOn
  <2> QED
    BY <1>5, <2>1, <2>2, <2>3, Ways
<1> QED
  BY <1>1, <1>2, <1>3, <1>4, <1>5 DEF Next, Executes, ReadNext, Administrates, vars

LEMMA ResolvedNext ==
    ASSUME TypeInv, StepsFollow, KeysKnown, NothingUnresolved, [Next]_vars
    PROVE  NothingUnresolved'
<1>1. CASE UNCHANGED report
  BY <1>1 DEF NothingUnresolved
<1>2. CASE report' = <<>>
  <2>1. DOMAIN <<>> = {}
    OBVIOUS
  <2> QED
    BY <1>2, <2>1 DEF NothingUnresolved
<1>3. CASE Executes
  <2>1. UNCHANGED report \/ \E status : status # "unresolved" /\ Over(status)
    BY <1>3, Ways DEF Succeeds, Unchanged, Runs, GivesUp, GoesOn
  <2>2. ASSUME NEW status, status # "unresolved", Over(status)
        PROVE  NothingUnresolved'
    <3>1. steps # <<>>
      BY <1>3, ExecutesIs DEF Executing
    <3>2. Ended(status)
      BY <2>2, <3>1, OverIs DEF TypeInv, StepsTyped
    <3> QED
      BY <2>2, <3>2 DEF Ended, Outcome, NothingUnresolved
  <2> QED
    BY <1>1, <2>1, <2>2
<1> QED
  BY <1>1, <1>2, <1>3
     DEF Next, Executes, Apply, ReadNext, ReadFails, Plan, Administrates, vars

KnownInv == TypeInv /\ StepsFollow /\ KeysKnown

LEMMA KnownInvariant == Spec => []KnownInv
<1>1. Init => KnownInv
  <2>1. DOMAIN <<>> = {}
    OBVIOUS
  <2> QED
    BY <2>1, TypeInit DEF Init, KnownInv, StepsFollow, KeysKnown
<1>2. KnownInv /\ [Next]_vars => KnownInv'
  BY TypeNext, StepsFollowNext, KeysKnownNext DEF KnownInv
<1> QED
  BY <1>1, <1>2, PTL DEF Spec

\* Whatever the order the manifest declares its resources in, every step is sent with
\* ids that the read or an earlier step has given: the items are in an order in which
\* each is after what it needs, and what was planned earlier is known by then.
THEOREM ResolvedAlways == Spec => []NothingUnresolved
<1>1. Init => NothingUnresolved
  <2>1. DOMAIN <<>> = {}
    OBVIOUS
  <2> QED
    BY <2>1 DEF Init, NothingUnresolved
<1>2. NothingUnresolved /\ KnownInv /\ [Next]_vars => NothingUnresolved'
  BY ResolvedNext DEF KnownInv
<1> QED
  BY <1>1, <1>2, KnownInvariant, PTL DEF Spec

Named(t, is, name, under) ==
    {o \in t.objects : o.is = is /\ o.name = name /\ o.under = under}

LEMMA OneIs ==
    ASSUME NEW t, NEW is, NEW name, NEW under
    PROVE  /\ \A o : Named(t, is, name, under) = {o} => One(t, is, name, under) = o.id
           /\ Named(t, is, name, under) = {} => One(t, is, name, under) = Nowhere
<1> DEFINE found == Named(t, is, name, under)
<1>1. One(t, is, name, under) =
          IF Cardinality(found) = 1 THEN (CHOOSE o \in found : TRUE).id ELSE Nowhere
  BY DEF One, Named
<1> HIDE DEF found
<1>2. ASSUME NEW o, found = {o} PROVE One(t, is, name, under) = o.id
  <2>1. Cardinality(found) = 1
    BY <1>2, FS_Singleton
  <2>2. (CHOOSE x \in found : TRUE) = o
    BY <1>2
  <2> QED
    BY <1>1, <2>1, <2>2
<1>3. ASSUME found = {} PROVE One(t, is, name, under) = Nowhere
  <2>1. Cardinality(found) = 0
    BY <1>3, FS_EmptySet
  <2> QED
    BY <1>1, <2>1
<1> QED
  BY <1>2, <1>3 DEF found

\* The resources one level further down.
Level(t, m, n, above) ==
    [k \in Up(m) |-> IF k = None THEN Root
                     ELSE IF n = 0 THEN Nowhere
                     ELSE One(t, "resource", k, above[Parent(m)[k]])]

AreLevels(f, t, m, L) == f = [n \in 0 .. L |-> Level(t, m, n, f[n - 1])]

LEMMA LevelsExist ==
    ASSUME NEW t, NEW m, NEW L \in Nat
    PROVE  \E f : AreLevels(f, t, m, L)
<1> DEFINE E(n) == \E f : f = [i \in 0 .. n |-> Level(t, m, i, f[i - 1])]
           T == {n \in Nat : E(n)}
<1>0. \A a, b : Level(t, m, 0, a) = Level(t, m, 0, b)
  BY DEF Level
<1>1. 0 \in T
  <2> DEFINE f == [i \in 0 .. 0 |-> Level(t, m, 0, 0)]
  <2>1. f = [i \in 0 .. 0 |-> Level(t, m, i, f[i - 1])]
    <3>1. \A i \in 0 .. 0 : i = 0
      OBVIOUS
    <3> HIDE DEF f
    <3>2. f = [i \in 0 .. 0 |-> Level(t, m, 0, 0)]
      BY DEF f
    <3> QED
      BY <1>0, <3>1, <3>2
  <2> HIDE DEF f
  <2> QED
    BY <2>1
<1>2. ASSUME NEW n \in Nat, n \in T PROVE n + 1 \in T
  <2>1. PICK f : f = [i \in 0 .. n |-> Level(t, m, i, f[i - 1])]
    BY <1>2
  <2> DEFINE next == Level(t, m, n + 1, f[n])
  <2> HIDE DEF next
  <2> DEFINE g == [i \in 0 .. n + 1 |-> IF i \in 0 .. n THEN f[i] ELSE next]
  <2>2. ASSUME NEW i \in 0 .. n + 1
        PROVE  g[i] = Level(t, m, i, g[i - 1])
    <3>1. CASE i \in 0 .. n
      <4>1. f[i] = Level(t, m, i, f[i - 1])
        BY <2>1, <3>1
      <4>2. i # 0 => g[i - 1] = f[i - 1]
        BY <3>1
      <4>3. g[i] = f[i]
        BY <3>1
      <4> HIDE DEF g
      <4> QED
        BY <1>0, <4>1, <4>2, <4>3
    <3>2. CASE i = n + 1
      <4>1. g[i - 1] = f[n] /\ g[i] = next
        BY <3>2
      <4> HIDE DEF g
      <4> QED
        BY <3>2, <4>1 DEF next
    <3> QED
      BY <3>1, <3>2
  <2>3. g = [i \in 0 .. n + 1 |-> Level(t, m, i, g[i - 1])]
    <3>1. g = [i \in 0 .. n + 1 |-> g[i]]
      OBVIOUS
    <3> HIDE DEF g
    <3> QED
      BY <2>2, <3>1
  <2>4. E(n + 1)
    <3> HIDE DEF g
    <3> QED
      BY <2>3
  <2> HIDE DEF E
  <2> QED
    BY <2>4
<1>3. L \in T
  <2> HIDE DEF T
  <2> QED
    BY <1>1, <1>2, SetInduction
<1> HIDE DEF E
<1>4. E(L)
  BY <1>3
<1> QED
  BY <1>4 DEF E, AreLevels

LEMMA LevelsAre ==
    ASSUME NEW t, NEW m, Valid(m)
    PROVE  \A n \in 0 .. Len(m.resources) : \A k \in Up(m) :
               Levels(t, m)[n][k] =
                   IF k = None THEN Root
                   ELSE IF n = 0 THEN Nowhere
                   ELSE One(t, "resource", k, Levels(t, m)[n - 1][Parent(m)[k]])
<1> DEFINE L == Len(m.resources)
           f == CHOOSE f : f = [n \in 0 .. L |-> Level(t, m, n, f[n - 1])]
<1>1. Levels(t, m) = f
  BY DEF Levels, Level, Up
<1>2. L \in Nat
  BY ParentIs
<1> HIDE DEF L
<1>3. f = [n \in 0 .. L |-> Level(t, m, n, f[n - 1])]
  <2>1. \E g : AreLevels(g, t, m, L)
    BY <1>2, LevelsExist
  <2>2. \E g : g = [n \in 0 .. L |-> Level(t, m, n, g[n - 1])]
    BY <2>1 DEF AreLevels
  <2> QED
    BY <2>2
<1> HIDE DEF f
<1>4. \A n \in 0 .. L : f[n] = Level(t, m, n, f[n - 1])
  BY <1>3
<1>5. ASSUME NEW n \in 0 .. L, NEW k \in Up(m)
      PROVE  f[n][k] = IF k = None THEN Root
                       ELSE IF n = 0 THEN Nowhere
                       ELSE One(t, "resource", k, f[n - 1][Parent(m)[k]])
  <2>1. f[n] = Level(t, m, n, f[n - 1])
    BY <1>4
  <2> QED
    BY <2>1 DEF Level
<1> QED
  BY <1>1, <1>5 DEF L

\* The item of resource k, and what is known of it in tenant t.
Placed(res, t, is, k, under) ==
    /\ <<is, k>> \in DOMAIN res.ids => \E o : Named(t, is, k, under) = {o} /\ res.ids[<<is, k>>] = o.id
    /\ <<is, k>> \notin DOMAIN res.ids => Named(t, is, k, under) = {}

\* Where resource k is, by what is resolved.
Spot(res, k) ==
    IF k = None THEN Root
    ELSE IF <<"resource", k>> \in DOMAIN res.ids THEN res.ids[<<"resource", k>>] ELSE Nowhere

\* What is resolved of the resources is where they are.
LEMMA ResourcesAre ==
    ASSUME NEW t, NEW m, Valid(m), NEW res,
           \A k \in Keys(m.resources) : Placed(res, t, "resource", k, Spot(res, Parent(m)[k]))
    PROVE  \A k \in Up(m) : Declared(t, m, "resource", k) = Spot(res, k)
<1> DEFINE L == Len(m.resources)
           T == {n \in Nat : n <= L => \A k \in Up(m) :
                    Ancestors(m, k)[n] = None => Levels(t, m)[n][k] = Spot(res, k)}
<1>1. L \in Nat /\ None \in Up(m) /\ Parent(m) \in [Up(m) -> Up(m)]
  BY ParentIs DEF Up
<1>2. \A n \in 0 .. L : \A k \in Up(m) :
          Levels(t, m)[n][k] =
              IF k = None THEN Root
              ELSE IF n = 0 THEN Nowhere
              ELSE One(t, "resource", k, Levels(t, m)[n - 1][Parent(m)[k]])
  BY LevelsAre
<1>3. 0 \in T
  <2> SUFFICES ASSUME NEW k \in Up(m), Ancestors(m, k)[0] = None
               PROVE  Levels(t, m)[0][k] = Spot(res, k)
    OBVIOUS
  <2>1. k = None
    BY AncestorsAre
  <2>2. 0 \in 0 .. L
    BY <1>1
  <2> QED
    BY <1>2, <2>1, <2>2 DEF Spot
<1>4. ASSUME NEW n \in Nat, n \in T PROVE n + 1 \in T
  <2> SUFFICES ASSUME n + 1 <= L, NEW k \in Up(m), Ancestors(m, k)[n + 1] = None
               PROVE  Levels(t, m)[n + 1][k] = Spot(res, k)
    OBVIOUS
  <2>1. n + 1 \in 0 .. L /\ n + 1 # 0 /\ (n + 1) - 1 = n /\ n <= L
    BY <1>1
  <2>2. CASE k = None
    BY <1>2, <2>1, <2>2 DEF Spot
  <2>3. CASE k # None
    <3> DEFINE p == Parent(m)[k]
    <3>1. k \in Keys(m.resources) /\ p \in Up(m)
      BY <1>1, <2>3 DEF Up
    <3>2. Ancestors(m, p)[0] = p /\ Ancestors(m, k)[0] = k
      BY <3>1, AncestorsAre
    <3>3. Ancestors(m, k)[1] = p
      <4>1. 1 \in 1 .. L /\ 1 - 1 = 0
        BY <1>1, <2>1
      <4> QED
        BY <3>2, <4>1, AncestorsAre
    <3>4. Ancestors(m, p)[n] = None
      <4>1. 0 <= 1 /\ 1 <= L /\ 1 + n <= L /\ 0 + n = n /\ 1 + n = n + 1
        BY <1>1, <2>1
      <4>2. Ancestors(m, p)[0] = Ancestors(m, k)[1]
        BY <3>2, <3>3
      <4> HIDE DEF p
      <4>3. Ancestors(m, p)[0 + n] = Ancestors(m, k)[1 + n]
        BY <3>1, <4>1, <4>2, PathsJoin
      <4> QED
        BY <4>1, <4>3
    <3>5. Levels(t, m)[n][p] = Spot(res, p)
      BY <1>4, <2>1, <3>1, <3>4
    <3>6. Levels(t, m)[n + 1][k] = One(t, "resource", k, Spot(res, p))
      BY <1>2, <2>1, <2>3, <3>5
    <3>7. Placed(res, t, "resource", k, Spot(res, p))
      BY <3>1
    <3>8. One(t, "resource", k, Spot(res, p)) = Spot(res, k)
      <4> HIDE DEF p
      <4> QED
        BY <2>3, <3>7, OneIs DEF Placed, Spot
    <3> QED
      BY <3>6, <3>8
  <2> QED
    BY <2>2, <2>3
<1>5. L \in T
  <2> HIDE DEF T
  <2> QED
    BY <1>1, <1>3, <1>4, SetInduction
<1>6. ASSUME NEW k \in Up(m) PROVE Levels(t, m)[L][k] = Spot(res, k)
  <2>1. CASE k \in Keys(m.resources)
    <3>1. Ancestors(m, k)[L] = None
      BY <2>1 DEF Valid, validate, Acyclic
    <3> QED
      BY <1>1, <1>5, <1>6, <3>1
  <2>2. CASE k = None
    <3>1. L \in 0 .. L
      BY <1>1
    <3> QED
      BY <1>2, <1>6, <2>2, <3>1 DEF Spot
  <2> QED
    BY <1>6, <2>1, <2>2 DEF Up
<1> QED
  BY <1>6 DEF Declared

\* The id of what an item is under.
Under(res, it) == IdOf(res, OnKind(it.is), it.on)

Reached(res, it) == it.on = None \/ <<OnKind(it.is), it.on>> \in DOMAIN res.ids

LEMMA FoundIs ==
    ASSUME NEW res, NEW t, NEW it
    PROVE  /\ Reached(res, it) => Found(res, t, it) = Named(t, it.is, it.key, Under(res, it))
           /\ ~Reached(res, it) => Found(res, t, it) = {}
  BY DEF Found, Named, Under, Reached, Knows

LEMMA FoundHere ==
    ASSUME NEW res, NEW t, NEW it, NEW o, Sole(res, t, it, o)
    PROVE  /\ Reached(res, it) /\ Named(t, it.is, it.key, Under(res, it)) = {o}
           /\ o \in t.objects /\ o.is = it.is /\ o.name = it.key /\ o.under = Under(res, it)
<1>1. Reached(res, it) /\ Named(t, it.is, it.key, Under(res, it)) = {o}
  BY FoundIs DEF Sole
<1>2. o \in Named(t, it.is, it.key, Under(res, it))
  BY <1>1
<1> QED
  BY <1>1, <1>2 DEF Named

LEMMA DeclaredPlain ==
    ASSUME NEW m, NEW t, NEW res, NEW it, NEW o, Sole(res, t, it, o),
           it.is \notin {"resource", "scope", "profile"}, it.on = None
    PROVE  Declared(t, m, it.is, it.key) = o.id
<1>1. Under(res, it) = Root
  BY DEF Under, IdOf
<1>2. Named(t, it.is, it.key, Root) = {o}
  BY <1>1, FoundHere
<1>3. Declared(t, m, it.is, it.key) = One(t, it.is, it.key, Root)
  BY DEF Declared
<1> QED
  BY <1>2, <1>3, OneIs

LEMMA DeclaredScope ==
    ASSUME NEW m, Valid(m), NEW t, NEW res, NEW it, NEW o, Sole(res, t, it, o),
           ItemOf(m, it), it.is = "scope",
           \A k \in Up(m) : Declared(t, m, "resource", k) = Spot(res, k)
    PROVE  Declared(t, m, "scope", it.key) = o.id
<1> DEFINE j == CHOOSE i \in DOMAIN m.scopes : m.scopes[i].key = it.key
<1>1. PICK i \in 1 .. Len(m.scopes) : it.key = m.scopes[i].key /\ it.on = m.scopes[i].on
  BY DEF ItemOf
<1>2. /\ m.scopes \in Seq(ToSet(m.scopes)) /\ Distinct(m.scopes) /\ DOMAIN m.scopes = 1 .. Len(m.scopes)
      /\ \A n \in DOMAIN m.scopes : m.scopes[n].on \in Keys(m.resources)
  BY DEF Valid, IsManifest, validate
<1>3. j \in DOMAIN m.scopes /\ m.scopes[j].key = it.key
  BY <1>1, <1>2
<1> HIDE DEF j
<1>4. j = i
  BY <1>1, <1>2, <1>3, KeysDiffer
<1>5. m.scopes[j].on = it.on /\ it.on \in Keys(m.resources) /\ it.on \in Up(m) /\ it.on # None
  <2>1. it.on \in Keys(m.resources)
    BY <1>1, <1>2
  <2>2. None \notin Keys(m.resources)
    BY ParentIs
  <2> QED
    BY <1>1, <1>4, <2>1, <2>2 DEF Up
<1>6. Under(res, it) = Spot(res, it.on) /\ Named(t, "scope", it.key, Under(res, it)) = {o}
  <2>1. Reached(res, it) /\ Named(t, it.is, it.key, Under(res, it)) = {o}
    BY FoundHere
  <2> QED
    BY <1>5, <2>1 DEF Under, Reached, Spot, IdOf, OnKind
<1>7. Declared(t, m, "scope", it.key) = One(t, "scope", it.key, Declared(t, m, "resource", m.scopes[j].on))
  BY DEF Declared, j
<1>8. Declared(t, m, "resource", m.scopes[j].on) = Under(res, it)
  BY <1>5, <1>6
<1> QED
  BY <1>6, <1>7, <1>8, OneIs

LEMMA DeclaredProfile ==
    ASSUME NEW m, NEW t, NEW res, NEW it, NEW o, Sole(res, t, it, o),
           ItemOf(m, it), it.is = "profile", None \notin Keys(m.segments),
           res.ids[<<"segment", it.on>>] = Declared(t, m, "segment", it.on)
    PROVE  Declared(t, m, "profile", it.key) = o.id
<1>1. it.on = it.key /\ it.on # None
  BY DEF ItemOf
<1>2. Named(t, "profile", it.key, Under(res, it)) = {o}
  BY FoundHere
<1>3. Under(res, it) = Declared(t, m, "segment", it.key)
  BY <1>1 DEF Under, IdOf, OnKind
<1>4. Declared(t, m, "segment", it.key) = One(t, "segment", it.key, Root)
  BY DEF Declared
<1>5. Declared(t, m, "profile", it.key) = One(t, "profile", it.key, One(t, "segment", it.key, Root))
  BY DEF Declared
<1> QED
  BY <1>2, <1>3, <1>4, <1>5, OneIs

KindsOf(q) == {q[i].what : i \in DOMAIN q}

ReadType(kinds) == [what : kinds, of : {Root}, offset : Nat]

Tuple(S, a, b, c, d, e, f, five, six, one) ==
    /\ {a, b, c, d, e, f} \subseteq S
    /\ five = <<a, b, c, d, e>> /\ six = <<a, b, c, d, e, f>> /\ one = <<f>>

LEMMA Tuples ==
    ASSUME NEW S, NEW a, NEW b, NEW c, NEW d, NEW e, NEW f, NEW five, NEW six, NEW one,
           Tuple(S, a, b, c, d, e, f, five, six, one)
    PROVE  /\ five \in Seq(S) /\ six \in Seq(S)
           /\ five \o one = six /\ five \o <<>> = five
           /\ DOMAIN five = 1 .. 5 /\ DOMAIN six = 1 .. 6
           /\ five[1] = a /\ six[1] = a /\ six[6] = f
<1>0. /\ a \in S /\ b \in S /\ c \in S /\ d \in S /\ e \in S /\ f \in S
      /\ five = <<a, b, c, d, e>> /\ six = <<a, b, c, d, e, f>> /\ one = <<f>>
  BY DEF Tuple
<1>1. five \in Seq(S) /\ six \in Seq(S) /\ one \in Seq(S)
  BY <1>0
<1>2. five \o <<>> = five
  BY <1>0
<1>3. DOMAIN five = 1 .. 5 /\ DOMAIN six = 1 .. 6
  BY <1>0
<1>4. five[1] = a /\ six[1] = a /\ six[6] = f
  BY <1>0
<1>5. five \o one = six
  <2> DEFINE g == five \o one
  <2>1. Len(five) = 5 /\ Len(one) = 1 /\ one[1] = f
    BY <1>0
  <2>2. /\ g \in Seq(S) /\ Len(g) = 6 /\ DOMAIN g = 1 .. 6
        /\ g = [i \in 1 .. 6 |-> g[i]]
        /\ \A i \in 1 .. 5 : g[i] = five[i]
        /\ g[6] = one[1]
    <3>1. /\ g \in Seq(S) /\ Len(g) = Len(five) + Len(one)
          /\ \A i \in 1 .. Len(five) : g[i] = five[i]
          /\ \A i \in 1 .. Len(one) : g[Len(five) + i] = one[i]
      BY ONLY <1>1
    <3> HIDE DEF g
    <3>2. Len(g) = 6 /\ 1 \in 1 .. Len(one) /\ Len(five) + 1 = 6
      BY ONLY <2>1, <3>1
    <3>3. g[6] = one[1]
      BY ONLY <3>1, <3>2
    <3>4. DOMAIN g = 1 .. Len(g) /\ g = [i \in DOMAIN g |-> g[i]]
      BY ONLY <3>1
    <3> QED
      BY ONLY <2>1, <3>1, <3>2, <3>3, <3>4
  <2>3. six = [i \in 1 .. 6 |-> six[i]] /\ \A i \in 1 .. 5 : six[i] = five[i]
    BY <1>0
  <2> HIDE DEF g
  <2>4. \A i \in 1 .. 6 : i \in 1 .. 5 \/ i = 6
    OBVIOUS
  <2>5. \A i \in 1 .. 6 : g[i] = six[i]
    BY ONLY <1>4, <2>1, <2>2, <2>3, <2>4
  <2>6. g = six
    BY ONLY <2>2, <2>3, <2>5
  <2> QED
    BY <2>6 DEF g
<1> QED
  BY <1>1, <1>2, <1>3, <1>4, <1>5

\* The kinds that are listed, then what is read of their details.
LEMMA ListsIs ==
    ASSUME NEW m
    PROVE  LET q == Lists(m)  W == KindsOf(q) IN
           /\ q \in Seq(ReadType(W)) /\ q # <<>>
           /\ \A i \in DOMAIN q : (q[i].what = "details" <=> i = Len(q)) /\ q[i].offset = 0
           /\ W \subseteq (Shape \ {"scope"}) \cup {"details"}
           /\ hasShapeSections(m) =>
                "resource" \in W /\ (m.accounts # <<>> => "service-account" \in W)
<1> DEFINE five == <<"resource", "permission", "role", "group", "user">>
           six == <<"resource", "permission", "role", "group", "user", "service-account">>
           more == IF m.accounts = <<>> THEN <<>> ELSE <<"service-account">>
           kinds == IF ~hasShapeSections(m) THEN <<>> ELSE five \o more
           S == Shape \ {"scope"}
           a == [i \in DOMAIN kinds |-> Read(kinds[i], Root, 0)]
           d == Read("details", Root, 0)
           q == Lists(m)
           W == KindsOf(q)
<1>1. q = a \o <<d>>
  BY DEF Lists
<1>2. /\ kinds \in Seq(S)
      /\ hasShapeSections(m) => /\ \E i \in DOMAIN kinds : kinds[i] = "resource"
                                /\ m.accounts # <<>> => \E i \in DOMAIN kinds : kinds[i] = "service-account"
  <2>0. /\ "resource" \in S /\ "permission" \in S /\ "role" \in S /\ "group" \in S /\ "user" \in S
        /\ "service-account" \in S
    BY DEF Shape
  <2> HIDE DEF S
  <2>4. <<>> \in Seq(S)
    OBVIOUS
  <2> DEFINE one == <<"service-account">>
  <2>5. kinds = IF ~hasShapeSections(m) THEN <<>>
                ELSE IF m.accounts = <<>> THEN five \o <<>> ELSE five \o one
    OBVIOUS
  <2> HIDE DEF kinds
  <2>6. /\ five = <<"resource", "permission", "role", "group", "user">>
        /\ six = <<"resource", "permission", "role", "group", "user", "service-account">>
        /\ one = <<"service-account">>
    OBVIOUS
  <2>7. Tuple(S, "resource", "permission", "role", "group", "user", "service-account", five, six, one)
    BY <2>0, <2>6 DEF Tuple
  <2> HIDE DEF five, six, one
  <2>2. /\ five \in Seq(S) /\ six \in Seq(S) /\ DOMAIN five = 1 .. 5 /\ DOMAIN six = 1 .. 6
        /\ five[1] = "resource" /\ six[1] = "resource" /\ six[6] = "service-account"
        /\ five \o <<>> = five /\ five \o one = six
    BY ONLY <2>7, Tuples
  <2>3. 1 \in DOMAIN five /\ 1 \in DOMAIN six /\ 6 \in DOMAIN six
    BY <2>2
  <2> QED
    BY <2>2, <2>3, <2>4, <2>5
<1> HIDE DEF kinds, S
<1>3. /\ Len(kinds) \in Nat /\ DOMAIN kinds = 1 .. Len(kinds)
      /\ \A i \in 1 .. Len(kinds) : kinds[i] \in S
  BY <1>2
<1> DEFINE n == Len(kinds)
           K == S \cup {"details"}
<1>4. a \in Seq(ReadType(K)) /\ Len(a) = n /\ \A i \in 1 .. n : a[i] = Read(kinds[i], Root, 0)
  <2>1. a = [i \in 1 .. n |-> Read(kinds[i], Root, 0)]
    BY <1>3
  <2>2. \A i \in 1 .. n : Read(kinds[i], Root, 0) \in ReadType(K)
    BY <1>3 DEF Read, ReadType
  <2> DEFINE R == ReadType(K)
  <2> HIDE DEF a, n, R
  <2>3. a \in [1 .. n -> R] /\ n \in Nat
    BY <1>3, <2>1, <2>2 DEF R, n
  <2>4. a \in Seq(R) /\ Len(a) = n
    <3>1. a \in Seq(R)
      BY ONLY <2>3, Sequence
    <3>2. DOMAIN a = 1 .. n /\ DOMAIN a = 1 .. Len(a) /\ Len(a) \in Nat
      BY <2>3, <3>1
    <3> QED
      BY ONLY <2>3, <3>1, <3>2
  <2> QED
    BY <2>1, <2>4 DEF R
<1>5. d \in ReadType(K) /\ d.what = "details" /\ d.offset = 0 /\ d.of = Root
  BY DEF Read, ReadType
<1>6. \A i \in 1 .. n : a[i].what = kinds[i] /\ a[i].offset = 0 /\ a[i].of = Root
  BY <1>4 DEF Read
<1>7. \A k \in S : k # "details"
  BY DEF S, Shape
<1> HIDE DEF a, d, q, n
<1>8. /\ n \in Nat /\ q \in Seq(ReadType(K)) /\ Len(q) = n + 1 /\ DOMAIN q = 1 .. n + 1
      /\ \A i \in 1 .. n : q[i] = a[i]
      /\ q[n + 1] = d
  BY <1>1, <1>3, <1>4, <1>5 DEF n
<1>9. \A i \in DOMAIN q : /\ q[i].what = "details" <=> i = Len(q)
                         /\ q[i].offset = 0 /\ q[i].of = Root /\ q[i].what \in K
  <2> SUFFICES ASSUME NEW i \in 1 .. n + 1
               PROVE  /\ q[i].what = "details" <=> i = n + 1
                      /\ q[i].offset = 0 /\ q[i].of = Root /\ q[i].what \in K
    BY <1>8
  <2>1. CASE i = n + 1
    BY <1>5, <1>8, <2>1
  <2>2. CASE i \in 1 .. n
    <3>1. i # n + 1
      BY ONLY <1>8, <2>2
    <3>2. q[i].what = kinds[i] /\ kinds[i] \in S /\ q[i].offset = 0 /\ q[i].of = Root
      BY <1>3, <1>6, <1>8, <2>2 DEF n
    <3> QED
      BY <1>7, <3>1, <3>2
  <2> QED
    BY <1>8, <2>1, <2>2
<1>10. W \subseteq K
  BY <1>9 DEF KindsOf
<1>11. hasShapeSections(m) =>
                "resource" \in W /\ (m.accounts # <<>> => "service-account" \in W)
  <2>1. \A i \in 1 .. n : kinds[i] \in W
    <3>1. \A i \in 1 .. n : i \in DOMAIN q /\ q[i].what = kinds[i]
      BY <1>6, <1>8
    <3> QED
      BY <3>1 DEF KindsOf
  <2> QED
    BY <1>2, <1>3, <2>1 DEF n
<1>12. q \in Seq(ReadType(W))
  <2>1. \A i \in DOMAIN q : q[i] \in ReadType(W)
    <3> SUFFICES ASSUME NEW i \in DOMAIN q PROVE q[i] \in ReadType(W)
      OBVIOUS
    <3>1. q[i] \in ReadType(K) /\ q[i].what \in W
      BY <1>8 DEF KindsOf
    <3> HIDE DEF W, K
    <3> QED
      BY <3>1 DEF ReadType
  <2> DEFINE R == ReadType(W)
             l == n + 1
  <2>2. q = [i \in 1 .. l |-> q[i]] /\ l \in Nat
    BY <1>8
  <2> HIDE DEF R, l, W
  <2>3. q \in [1 .. l -> R]
    BY <2>1, <2>2 DEF R
  <2>4. q \in Seq(R)
    BY ONLY <2>2, <2>3, Sequence
  <2> QED
    BY <2>4 DEF R
<1>13. q # <<>>
  <2>1. Len(<<>>) = 0
    OBVIOUS
  <2> QED
    BY <1>8, <2>1
<1> QED
  BY <1>9, <1>10, <1>11, <1>12, <1>13 DEF S, q

\* The place of an object in the list of its kind.
LEMMA RankIs ==
    ASSUME Consistent(tenant), NEW o \in tenant.objects
    PROVE  /\ Rank(o) \in Nat /\ Cardinality(Listed(o.is)) \in Nat
           /\ 1 <= Rank(o) /\ Rank(o) <= Cardinality(Listed(o.is))
<1> DEFINE A == Listed(o.is)
           B == {p \in Listed(o.is) : p.id <= o.id}
<1>1. IsFiniteSet(tenant.objects) /\ o.id \in Nat
  <2>1. Objects(tenant.objects, tenant.next) /\ o.id \in 1 .. tenant.next - 1 /\ tenant.next \in Nat
    BY VersionsAre
  <2> QED
    BY <2>1 DEF Objects
<1>2. A \subseteq tenant.objects /\ B \subseteq A /\ o \in B
  BY <1>1 DEF Listed
<1> HIDE DEF A, B
<1>3. IsFiniteSet(A) /\ IsFiniteSet(B) /\ Cardinality(B) <= Cardinality(A)
  BY <1>1, <1>2, FS_Subset
<1>4. Cardinality(A) \in Nat /\ Cardinality(B) \in Nat /\ Cardinality(B) # 0
  BY <1>2, <1>3, FS_CardinalityType, FS_EmptySet
<1> QED
  BY <1>3, <1>4 DEF Rank, A, B

LEMMA PhaseAfter ==
    ASSUME TypeInv, Executes
    PROVE  phase = "executing" /\ phase' \in {"executing", "done"}
<1>1. /\ Executing
      /\ \/ \E status \in Statuses : Over(status)
         \/ UNCHANGED <<phase, steps, report>>
  BY ExecutesIs
<1>2. phase = "executing"
  BY <1>1 DEF Executing
<1>3. CASE \E status \in Statuses : Over(status)
  <2>1. PICK status \in Statuses : Over(status)
    BY <1>3
  <2>2. status \in Done => phase' = IF Len(steps) = 1 THEN "done" ELSE phase
    BY <1>1, <2>1, OverIs DEF TypeInv, StepsTyped, Executing
  <2>3. status \notin Done => phase' = "done"
    BY <1>1, <2>1, OverIs DEF TypeInv, StepsTyped, Executing
  <2> QED
    BY <1>2, <2>2, <2>3
<1> QED
  BY <1>1, <1>2, <1>3

LEMMA ReadsHoldNext ==
    ASSUME TypeInv, ReadsHold, [Next]_vars
    PROVE  ReadsHold'
<1>1. CASE \E m \in Manifests : Apply(m)
  <2>1. before' = tenant /\ tenant' = tenant /\ snapshot' = Nothing
    BY <1>1 DEF Apply
  <2> QED
    BY <2>1 DEF ReadsHold, Nothing
<1>2. CASE ReadNext
  <2>1. /\ UNCHANGED <<tenant, phase, before, meddled>> /\ phase = "reading"
        /\ snapshot' = snapshot \/ snapshot' = Gathered(Head(todo))
    BY <1>2 DEF ReadNext
  <2>2. /\ snapshot'.objects \subseteq snapshot.objects \cup tenant.objects
        /\ snapshot'.grants \subseteq snapshot.grants \cup tenant.grants
        /\ snapshot'.members \subseteq snapshot.members \cup tenant.members
        /\ snapshot'.bindings \subseteq snapshot.bindings \cup tenant.bindings
    <3>1. IsSnapshot(snapshot)
      BY DEF TypeInv, ReadsTyped
    <3> QED
      BY <2>1, <3>1, GatheredIs
  <2> QED
    BY <2>1, <2>2 DEF ReadsHold
<1>3. CASE ReadFails \/ Plan
  BY <1>3 DEF ReadFails, Plan, ReadsHold
<1>4. CASE Executes
  BY <1>4, PhaseAfter DEF ReadsHold
<1>5. CASE Administrates
  BY <1>5 DEF Administrates, ReadsHold
<1>6. CASE UNCHANGED vars
  BY <1>6 DEF vars, ReadsHold
<1> QED
  BY <1>1, <1>2, <1>3, <1>4, <1>5, <1>6 DEF Next, Executes

\* An object that is on a page to be read.
Awaited(o) == \E i \in DOMAIN todo : todo[i].what = o.is /\ todo[i].offset < Rank(o)

Queue ==
    /\ todo \in Seq([what : ListedKinds, of : {Root}, offset : Nat])
    /\ \A i \in DOMAIN todo : todo[i].what = "details" <=> i = Len(todo)

LEMMA ListedIs ==
    ListedKinds = KindsOf(Lists(manifest)) /\ ListedKinds \subseteq (Shape \ {"scope"}) \cup {"details"}
<1>1. ListedKinds = KindsOf(Lists(manifest))
  BY DEF ListedKinds, KindsOf
<1>2. KindsOf(Lists(manifest)) \subseteq (Shape \ {"scope"}) \cup {"details"}
  BY ListsIs
<1> QED
  BY <1>1, <1>2

LEMMA JoinIs ==
    ASSUME NEW S, NEW s \in Seq(S), NEW t \in Seq(S)
    PROVE  /\ s \o t \in Seq(S) /\ Len(s \o t) = Len(s) + Len(t)
           /\ \A i \in 1 .. Len(s) : (s \o t)[i] = s[i]
           /\ \A i \in 1 .. Len(t) : (s \o t)[Len(s) + i] = t[i]
OBVIOUS
LEMMA PushIs ==
    ASSUME NEW S, NEW x \in S, NEW t \in Seq(S), NEW n \in Nat, Len(t) = n - 1
    PROVE  LET g == <<x>> \o t IN
           /\ g \in Seq(S) /\ Len(g) = n /\ DOMAIN g = 1 .. n /\ g[1] = x
           /\ \A i \in 2 .. n : g[i] = t[i - 1]
<1> DEFINE s == <<x>> g == s \o t
<1>1. s \in Seq(S) /\ Len(s) = 1 /\ s[1] = x
  OBVIOUS
<1> HIDE DEF s
<1>2. /\ g \in Seq(S) /\ Len(g) = Len(s) + Len(t)
      /\ \A i \in 1 .. Len(s) : g[i] = s[i]
      /\ \A i \in 1 .. Len(t) : g[Len(s) + i] = t[i]
  <2>1. t \in Seq(S)
    OBVIOUS
  <2>2. s \in Seq(S)
    BY <1>1
  <2>3. /\ s \o t \in Seq(S) /\ Len(s \o t) = Len(s) + Len(t)
        /\ \A i \in 1 .. Len(s) : (s \o t)[i] = s[i]
        /\ \A i \in 1 .. Len(t) : (s \o t)[Len(s) + i] = t[i]
    BY ONLY <2>1, <2>2, JoinIs
  <2> QED
    BY <2>3
<1> HIDE DEF g
<1>3. Len(g) = n /\ DOMAIN g = 1 .. n
  BY <1>1, <1>2
<1>4. 1 \in 1 .. 1
  OBVIOUS
<1>5. ASSUME NEW i \in 2 .. n PROVE g[i] = t[i - 1]
  <2>1. i - 1 \in 1 .. n - 1 /\ 1 + (i - 1) = i
    OBVIOUS
  <2>2. g[1 + (i - 1)] = t[i - 1]
    BY <1>1, <1>2, <2>1
  <2> QED
    BY <2>1, <2>2
<1> QED
  BY <1>1, <1>2, <1>3, <1>4, <1>5 DEF g, s

LEMMA ReadPages ==
    ASSUME TypeInv, Queue, \A o \in tenant.objects : o.is \in ListedKinds => o \in snapshot.objects \/ Awaited(o),
           ReadNext, Head(todo).what # "details"
    PROVE  /\ Queue'
           /\ \A o \in tenant.objects : o.is \in ListedKinds => o \in snapshot'.objects \/ Awaited(o)'
<1> DEFINE r == Head(todo)
           t == Tail(todo)
           n == Len(todo)
           more == Read(r.what, Root, r.offset + PLAN_PAGE)
           S == [what : ListedKinds, of : {Root}, offset : Nat]
<1>1. /\ todo # <<>> /\ UNCHANGED <<manifest, tenant>> /\ snapshot' = Gathered(r)
      /\ todo' = IF Paged(r.what) /\ hasMore(r.what, r) THEN <<more>> \o t ELSE t
  BY DEF ReadNext
<1>2. todo \in Seq(S) /\ \A i \in DOMAIN todo : todo[i].what = "details" <=> i = Len(todo)
  BY DEF Queue
<1>3. ListedKinds' = ListedKinds /\ \A o \in tenant.objects : Rank(o)' = Rank(o)
  BY <1>1 DEF ListedKinds, Rank, Listed
<1>4. PLAN_PAGE \in Nat
  BY PageAssumption
<1> HIDE DEF S
<1>5. /\ n \in Nat \ {0} /\ DOMAIN todo = 1 .. n /\ r = todo[1] /\ r \in S
      /\ t \in Seq(S) /\ Len(t) = n - 1 /\ DOMAIN t = 1 .. n - 1
      /\ \A i \in 1 .. n - 1 : t[i] = todo[i + 1]
  BY <1>1, <1>2
<1>6. /\ r.what \in ListedKinds /\ r.offset \in Nat /\ r.of = Root /\ r.what \in Shape \ {"scope"}
      /\ n # 1 /\ Paged(r.what)
  <2>1. r.what \in ListedKinds /\ r.offset \in Nat /\ r.of = Root
    BY <1>5 DEF S
  <2>2. r.what \in Shape \ {"scope"}
    BY <2>1, ListedIs
  <2>3. 1 \in DOMAIN todo
    BY <1>5
  <2> QED
    BY <1>2, <1>5, <2>1, <2>2, <2>3 DEF Paged, Shape
<1>7. more \in S /\ more.what = r.what /\ more.offset = r.offset + PLAN_PAGE
  BY <1>4, <1>6 DEF Read, S
<1> HIDE DEF r, t, more
<1>8. snapshot.objects \subseteq snapshot'.objects /\ snapshot'.objects = snapshot.objects \cup Page(r.what, r)
  <2>1. IsSnapshot(snapshot)
    BY DEF TypeInv, ReadsTyped
  <2>2. r.what \notin {"scope", "role_details", "members"}
    BY <1>6 DEF Shape
  <2> QED
    BY <1>1, <2>1, <2>2, GatheredIs
<1>9. n \in Nat /\ n >= 2
  BY ONLY <1>5, <1>6
<1>10. ASSUME NEW o \in tenant.objects, o.is \in ListedKinds
       PROVE  \/ o \in snapshot'.objects
              \/ \E i \in 2 .. n : todo[i].what = o.is /\ todo[i].offset < Rank(o)
              \/ hasMore(r.what, r) /\ r.what = o.is /\ r.offset + PLAN_PAGE < Rank(o)
  <2>1. CASE o \in snapshot.objects
    BY <1>8, <2>1
  <2>2. CASE \E i \in DOMAIN todo : todo[i].what = o.is /\ todo[i].offset < Rank(o)
    <3>1. PICK i \in DOMAIN todo : todo[i].what = o.is /\ todo[i].offset < Rank(o)
      BY <2>2
    <3>2. CASE i = 1
      <4>1. r.what = o.is /\ r.offset < Rank(o)
        BY <1>5, <3>1, <3>2
      <4>2. /\ Rank(o) \in Nat /\ Cardinality(Listed(o.is)) \in Nat
            /\ Rank(o) <= Cardinality(Listed(o.is))
        BY RankIs DEF TypeInv
      <4>3. CASE r.offset + PLAN_PAGE < Rank(o)
        <5>1. r.offset + PLAN_PAGE < Cardinality(Listed(o.is))
          BY ONLY <1>4, <1>6, <4>2, <4>3
        <5>2. r.offset + PLAN_PAGE < Cardinality(Listed(r.what))
          BY <4>1, <5>1
        <5>3. hasMore(r.what, r)
          BY ONLY <5>2 DEF hasMore
        <5> QED
          BY <4>1, <4>3, <5>3
      <4>4. CASE ~(r.offset + PLAN_PAGE < Rank(o))
        <5>1. Rank(o) \in r.offset + 1 .. r.offset + PLAN_PAGE
          BY ONLY <1>4, <1>6, <4>1, <4>2, <4>4
        <5>2. o \in Page(r.what, r)
          BY <1>10, <4>1, <5>1 DEF Page, Listed
        <5> QED
          BY <1>8, <5>2
      <4> QED
        BY <4>3, <4>4
    <3>3. CASE i # 1
      <4>1. i \in 2 .. n
        BY ONLY <1>5, <1>9, <3>3, <3>1
      <4> QED
        BY <3>1, <4>1
    <3> QED
      BY <3>2, <3>3
  <2> QED
    BY <1>10, <2>1, <2>2 DEF Awaited
<1>11. CASE hasMore(r.what, r)
  <2>1. todo' = <<more>> \o t
    BY <1>1, <1>6, <1>11
  <2>2. /\ todo' \in Seq(S) /\ Len(todo') = n /\ DOMAIN todo' = 1 .. n /\ todo'[1] = more
        /\ \A i \in 2 .. n : todo'[i] = todo[i]
    <3> DEFINE g == <<more>> \o t
    <3>1. more \in S /\ t \in Seq(S) /\ n \in Nat /\ Len(t) = n - 1
      BY <1>5, <1>7
    <3>2. /\ g \in Seq(S) /\ Len(g) = n /\ DOMAIN g = 1 .. n /\ g[1] = more
          /\ \A i \in 2 .. n : g[i] = t[i - 1]
      BY ONLY <3>1, PushIs
    <3> HIDE DEF g
    <3>3. ASSUME NEW i \in 2 .. n PROVE g[i] = todo[i]
      <4>1. i - 1 \in 1 .. n - 1 /\ (i - 1) + 1 = i
        BY ONLY <1>9, <3>3
      <4>2. g[i] = t[i - 1] /\ t[i - 1] = todo[(i - 1) + 1]
        BY <1>5, <3>2, <4>1
      <4> QED
        BY <4>1, <4>2
    <3> QED
      BY <2>1, <3>2, <3>3 DEF g
  <2>3. \A i \in 1 .. n : todo'[i].what = "details" <=> i = n
    <3> SUFFICES ASSUME NEW i \in 1 .. n PROVE todo'[i].what = "details" <=> i = n
      OBVIOUS
    <3>1. CASE i = 1
      BY <1>6, <1>7, <2>2, <3>1 DEF Shape
    <3>2. CASE i # 1
      <4>1. i \in 2 .. n
        BY ONLY <1>9, <3>2
      <4> QED
        BY <1>2, <1>5, <2>2, <4>1
    <3> QED
      BY <3>1, <3>2
  <2>4. Queue'
    BY <1>3, <2>2, <2>3 DEF Queue, S
  <2>5. ASSUME NEW o \in tenant.objects, o.is \in ListedKinds
        PROVE  o \in snapshot'.objects \/ Awaited(o)'
    <3>1. 1 \in 1 .. n /\ \A i \in 2 .. n : i \in 1 .. n
      BY ONLY <1>9
    <3>2. CASE \E i \in 2 .. n : todo[i].what = o.is /\ todo[i].offset < Rank(o)
      BY <1>3, <2>2, <3>1, <3>2 DEF Awaited
    <3>3. CASE hasMore(r.what, r) /\ r.what = o.is /\ r.offset + PLAN_PAGE < Rank(o)
      BY <1>3, <1>7, <2>2, <3>1, <3>3 DEF Awaited
    <3> QED
      BY <1>10, <2>5, <3>2, <3>3
  <2> QED
    BY <2>4, <2>5
<1>12. CASE ~hasMore(r.what, r)
  <2>1. todo' = t
    BY <1>1, <1>12
  <2>2. \A i \in 1 .. n - 1 : i + 1 \in 1 .. n /\ (i + 1 = n <=> i = n - 1)
    BY ONLY <1>9
  <2>3. Queue'
    BY <1>2, <1>3, <1>5, <2>1, <2>2, ZenonT(40) DEF Queue, S
  <2>4. ASSUME NEW o \in tenant.objects, o.is \in ListedKinds
        PROVE  o \in snapshot'.objects \/ Awaited(o)'
    <3>1. CASE \E i \in 2 .. n : todo[i].what = o.is /\ todo[i].offset < Rank(o)
      <4>1. PICK i \in 2 .. n : todo[i].what = o.is /\ todo[i].offset < Rank(o)
        BY <3>1
      <4>2. i - 1 \in 1 .. n - 1 /\ (i - 1) + 1 = i
        BY ONLY <1>9, <4>1
      <4>3. todo'[i - 1] = todo[i] /\ i - 1 \in DOMAIN todo'
        BY <1>5, <2>1, <4>2
      <4> QED
        BY <1>3, <4>1, <4>3 DEF Awaited
    <3> QED
      BY <1>10, <1>12, <2>4, <3>1
  <2> QED
    BY <2>3, <2>4
<1> QED
  BY <1>11, <1>12

LEMMA PagesLeftNext ==
    ASSUME TypeInv, PagesLeft, [Next]_vars
    PROVE  PagesLeft'
<1>1. CASE \E m \in Manifests : Apply(m)
  <2>1. PICK m \in Manifests : Apply(m)
    BY <1>1
  <2>2. /\ manifest' = m /\ tenant' = tenant
        /\ phase' = "reading" => todo' = Lists(m)
    BY <2>1 DEF Apply
  <2>3. ListedKinds' = KindsOf(Lists(m))
    BY <2>2 DEF ListedKinds, KindsOf
  <2> DEFINE q == Lists(m)  W == KindsOf(Lists(m))
  <2>4. /\ q \in Seq(ReadType(W))
        /\ \A i \in DOMAIN q : (q[i].what = "details" <=> i = Len(q)) /\ q[i].offset = 0
    BY ListsIs
  <2> HIDE DEF q
  <2>5. ASSUME NEW o \in tenant.objects, o.is \in W
        PROVE  \E i \in DOMAIN q : q[i].what = o.is /\ q[i].offset < Rank(o)
    <3>1. PICK i \in DOMAIN q : q[i].what = o.is
      BY <2>5 DEF KindsOf, q
    <3>2. Rank(o) \in Nat /\ 1 <= Rank(o)
      BY RankIs DEF TypeInv
    <3>3. 0 < Rank(o)
      BY ONLY <3>2
    <3> QED
      BY <2>4, <3>1, <3>3
  <2>6. \A o \in tenant.objects : Rank(o)' = Rank(o)
    BY <2>2 DEF Rank, Listed
  <2> QED
    BY <2>2, <2>3, <2>4, <2>5, <2>6 DEF PagesLeft, ReadType, q
<1>2. CASE ReadNext
  <2> SUFFICES ASSUME ~meddled PROVE PagesLeft'
    BY <1>2 DEF ReadNext, PagesLeft
  <2>1. /\ UNCHANGED <<manifest, tenant, phase, meddled>> /\ phase = "reading" /\ todo # <<>>
    BY <1>2 DEF ReadNext
  <2>2. snapshot.objects \subseteq snapshot'.objects
    <3>1. IsSnapshot(snapshot)
      BY DEF TypeInv, ReadsTyped
    <3>2. snapshot' = snapshot \/ snapshot' = Gathered(Head(todo))
      BY <1>2 DEF ReadNext
    <3> QED
      BY <3>1, <3>2, GatheredIs
  <2>3. ListedKinds' = ListedKinds
    BY <2>1 DEF ListedKinds
  <2>4. CASE AllRead
    BY <2>1, <2>2, <2>3, <2>4 DEF AllRead, PagesLeft
  <2>5. CASE /\ Queue
             /\ \A o \in tenant.objects : o.is \in ListedKinds => o \in snapshot.objects \/ Awaited(o)
    <3>1. CASE Head(todo).what = "details"
      <4>1. snapshot' = snapshot
        BY <1>2, <3>1 DEF ReadNext
      <4>2. \A o \in tenant.objects : o.is # "details"
        <5>1. Consistent(tenant)
          BY DEF TypeInv
        <5> QED
          BY <5>1, VersionsAre DEF Shape, Network
      <4>3. DOMAIN todo = {1}
        <5>1. /\ Head(todo) = todo[1] /\ Len(todo) \in Nat \ {0} /\ DOMAIN todo = 1 .. Len(todo)
          BY <2>1, <2>5 DEF Queue
        <5>2. 1 \in DOMAIN todo
          BY <5>1
        <5>3. Len(todo) = 1
          BY <2>5, <3>1, <5>1, <5>2 DEF Queue
        <5> QED
          BY <5>1, <5>3
      <4>4. todo[1].what = "details"
        <5>1. Head(todo) = todo[1]
          BY <2>1, <2>5 DEF Queue
        <5> QED
          BY <3>1, <5>1
      <4>5. AllRead
        BY <2>5, <4>2, <4>3, <4>4 DEF AllRead, Awaited
      <4> QED
        BY <2>1, <2>3, <4>1, <4>5 DEF AllRead, PagesLeft
    <3>2. CASE Head(todo).what # "details"
      <4>1. /\ Queue'
            /\ \A o \in tenant.objects : o.is \in ListedKinds => o \in snapshot'.objects \/ Awaited(o)'
        BY <1>2, <2>5, <3>2, ReadPages
      <4> QED
        BY <2>1, <2>3, <4>1 DEF PagesLeft, Queue, Awaited
    <3> QED
      BY <3>1, <3>2
  <2> QED
    BY <2>1, <2>4, <2>5 DEF PagesLeft, Queue, Awaited
<1>3. CASE ReadFails \/ Plan
  BY <1>3 DEF ReadFails, Plan, PagesLeft
<1>4. CASE Executes
  BY <1>4, PhaseAfter DEF PagesLeft
<1>5. CASE Administrates
  BY <1>5 DEF Administrates, PagesLeft
<1>6. CASE UNCHANGED vars
  <2>1. UNCHANGED <<manifest, tenant, phase, todo, snapshot, meddled>>
    BY <1>6 DEF vars
  <2>2. ListedKinds' = ListedKinds /\ \A o : Rank(o)' = Rank(o)
    BY <2>1 DEF ListedKinds, Rank, Listed
  <2>3. AllRead' <=> AllRead
    BY <2>1, <2>2 DEF AllRead
  <2> QED
    BY <2>1, <2>2, <2>3 DEF PagesLeft
<1> QED
  BY <1>1, <1>2, <1>3, <1>4, <1>5, <1>6 DEF Next, Executes

\* When nothing is left to read, all that is listed was read.
LEMMA ReadAll ==
    ASSUME TypeInv, PagesLeft, phase = "reading", ~meddled, todo = <<>>
    PROVE  AllRead
<1>1. DOMAIN <<>> = {}
  OBVIOUS
<1> QED
  BY <1>1 DEF PagesLeft, AllRead

\* What a step of the plan says of item it.
PlannedFor(res, sn, it, s) ==
    /\ s.item = it /\ s.change \in {"create", "update", "no-change"}
    /\ IsObject(it) => ObjectPlanned(it, Found(res, sn, it), s) /\ ResolvedBy(res, it, s)
    /\ it.is = "binding" => BindingPlanned(res, it, Held(res, sn, manifest, it), s)
    /\ it.is \in {"grant", "member"} => LinkPlanned(LinkThere(res, sn, manifest, it), s)

LEMMA PlannedAs ==
    ASSUME TypeInv, Plan, phase' # "threw"
    PROVE  /\ phase = "reading" /\ UNCHANGED <<manifest, tenant, before, meddled, stage>>
           /\ todo = <<>> /\ Valid(manifest)
           /\ Len(Asked) \in Nat /\ Asked' = Asked /\ Worked' = 0
           /\ \A j \in 1 .. Len(Asked) :
                /\ ItemOf(manifest, Asked[j])
                /\ Change(j)' = steps'[j].change /\ ReadFor(j)' = steps'[j].read
                /\ PlannedFor(resolved', snapshot, Asked[j], steps'[j])
<1> DEFINE plan == Compute(manifest, snapshot)
<1>1. /\ phase = "reading" /\ UNCHANGED <<manifest, tenant, before, meddled, stage>>
      /\ todo = <<>> /\ ~Refused(plan) /\ steps' = plan.steps /\ resolved' = plan.res
  BY DEF Plan
<1>2. Valid(manifest)
  BY <1>1, ManifestValid
<1>3. PlanOf(plan)
  BY <1>1, PlannedFirst
<1> HIDE DEF plan
<1>4. /\ Len(Asked) \in Nat /\ Len(steps') = Len(Asked) /\ DOMAIN steps' = 1 .. Len(Asked)
      /\ \A l \in 1 .. Len(Asked) :
           /\ ItemOf(manifest, Asked[l]) /\ steps'[l].item = Asked[l]
           /\ IsObject(Asked[l]) =>
                /\ ObjectPlanned(Asked[l], Found(resolved', snapshot, Asked[l]), steps'[l])
                /\ ResolvedBy(resolved', Asked[l], steps'[l])
           /\ Asked[l].is = "binding" =>
                BindingPlanned(resolved', Asked[l], Held(resolved', snapshot, manifest, Asked[l]), steps'[l])
           /\ Asked[l].is \in {"grant", "member"} =>
                LinkPlanned(LinkThere(resolved', snapshot, manifest, Asked[l]), steps'[l])
           /\ steps'[l].change \in {"create", "update", "no-change", "refused"}
  BY <1>1, <1>3 DEF PlanOf, Asked
<1>5. \A l \in 1 .. Len(Asked) : steps'[l].change # "refused"
  BY <1>1, <1>4 DEF Refused
<1>6. Asked' = Asked
  BY <1>1 DEF Asked
<1>7. Worked' = 0
  <2>1. Worked' = Len(Asked) - Len(Asked)
    BY <1>4, <1>6 DEF Worked
  <2> QED
    BY <1>4, <2>1
<1>8. ASSUME NEW j \in 1 .. Len(Asked)
      PROVE  Change(j)' = steps'[j].change /\ ReadFor(j)' = steps'[j].read
  <2>1. ~(j <= Worked') /\ j - Worked' = j
    BY <1>4, <1>7
  <2> QED
    BY <2>1 DEF Change, ReadFor
<1>9. \A j \in 1 .. Len(Asked) : PlannedFor(resolved', snapshot, Asked[j], steps'[j])
  BY <1>4, <1>5 DEF PlannedFor
<1> QED
  BY <1>1, <1>2, <1>4, <1>6, <1>7, <1>8, <1>9

\* What an item needs is resolved by an item before it.
LEMMA Giving ==
    ASSUME NEW m, Valid(m), NEW j \in 1 .. Len(Items(m)), NEW p \in Needs(m, Items(m)[j])
    PROVE  \E l \in 1 .. Len(Items(m)) :
               /\ l < j /\ Items(m)[l].is \in Shape \cup {"segment"} /\ p = IdKey(Items(m)[l])
               /\ IsObject(Items(m)[l])
<1>1. Len(Items(m)) \in Nat /\ Ordered(m, Items(m))
  BY ItemsAre
<1>2. PICK l \in 1 .. j - 1 : p \in Gives(Items(m)[l])
  BY <1>1 DEF Ordered
<1>3. l \in 1 .. Len(Items(m)) /\ l < j
  BY ONLY <1>1, <1>2
<1> QED
  BY <1>2, <1>3 DEF Gives, IdKey, IsObject, Network

\* A set of at most one element.
LEMMA AtMostOne ==
    ASSUME NEW S, IsFiniteSet(S), ~(Cardinality(S) > 1), NEW a \in S, NEW b \in S
    PROVE  a = b
<1> SUFFICES ASSUME a # b PROVE FALSE
  OBVIOUS
<1>1. {a, b} \subseteq S
  OBVIOUS
<1>2. Cardinality({a, b}) <= Cardinality(S) /\ Cardinality({a, b}) \in Nat /\ Cardinality(S) \in Nat
  BY <1>1, FS_Subset, FS_CardinalityType
<1>3. Cardinality({a, b}) = 2
  <2>1. {a, b} = {b} \cup {a} /\ a \notin {b}
    OBVIOUS
  <2>2. IsFiniteSet({b}) /\ Cardinality({b}) = 1
    BY FS_Singleton
  <2>3. Cardinality({b} \cup {a}) = Cardinality({b}) + 1
    BY <2>1, <2>2, FS_AddElement
  <2> QED
    BY <2>1, <2>2, <2>3
<1> QED
  BY <1>2, <1>3

LEMMA ReadOnce ==
    ASSUME NEW t, Consistent(t), NEW sn, sn.objects \subseteq t.objects, NEW res, NEW it,
           it.is = "service-account" => \A o \in t.objects : o.is = it.is => o \in sn.objects,
           it.is = "service-account" => ~(Cardinality(Found(res, sn, it)) > 1),
           NEW r \in Found(res, sn, it)
    PROVE  Sole(res, t, it, r)
<1> DEFINE F == Found(res, sn, it)  G == Found(res, t, it)
<1>1. Objects(t.objects, t.next)
  BY ConsistentIs
<1>2. F \subseteq G /\ F \subseteq t.objects
  BY DEF Found
<1>3. ASSUME NEW p \in G PROVE p = r
  <2>1. /\ p \in t.objects /\ r \in t.objects /\ p.is = it.is /\ r.is = it.is
        /\ p.name = r.name /\ p.under = r.under
    BY DEF Found
  <2>2. Separate(p, r)
    BY <1>1, <2>1 DEF Objects
  <2>3. CASE it.is = "service-account"
    <3>1. p \in F
      BY <2>1, <2>3 DEF Found
    <3>2. IsFiniteSet(F)
      BY <1>1, <1>2, FS_Subset DEF Objects
    <3>3. r \in F /\ ~(Cardinality(F) > 1)
      BY <2>3
    <3> HIDE DEF F
    <3> QED
      BY <3>1, <3>2, <3>3, AtMostOne
  <2>4. CASE it.is # "service-account"
    BY <2>1, <2>2, <2>4 DEF Separate
  <2> QED
    BY <2>3, <2>4
<1> QED
  BY <1>2, <1>3 DEF Sole

\* Service accounts are listed when one is declared, resources whenever anything is.
LEMMA ListedFor ==
    ASSUME NEW it, ItemOf(manifest, it), it.is \notin Network \cup {"scope"}, Valid(manifest)
    PROVE  "resource" \in ListedKinds /\ (it.is = "service-account" => "service-account" \in ListedKinds)
<1> DEFINE m == manifest
<1>1. DOMAIN <<>> = {}
  OBVIOUS
<1>2. \A s : Keys(s) # {} => s # <<>>
  BY <1>1 DEF Keys
<1>3. \/ Keys(m.resources) # {} \/ Keys(m.permissions) # {} \/ Keys(m.roles) # {}
      \/ Keys(m.groups) # {} \/ Keys(m.users) # {} \/ Keys(m.accounts) # {}
  <2>1. it.is \in Kinds
    BY DEF ItemOf, ItemType
  <2>2. it.is \in {"resource", "permission", "role", "grant", "group", "user", "service-account",
                    "member", "binding"}
    BY <2>1 DEF Kinds, Network, Shape
  <2> QED
    BY <2>2 DEF ItemOf
<1>4. hasShapeSections(m)
  BY <1>2, <1>3 DEF hasShapeSections
<1>5. it.is = "service-account" => m.accounts # <<>>
  BY <1>2 DEF ItemOf
<1>6. ListedKinds = KindsOf(Lists(m))
  BY ListedIs
<1> QED
  BY <1>4, <1>5, <1>6, ListsIs

\* Once the plan is made of all that was read.
LEMMA PlannedObjectIsThere ==
    ASSUME TypeInv, ReadsHold, PagesLeft, Plan, phase' # "threw", ~meddled,
           NEW j \in 1 .. Len(Asked), IsObject(Asked[j])
    PROVE  ObjectIs(resolved', tenant, Asked[j], Change(j)', ReadFor(j)')
<1> DEFINE it == Asked[j]  s == steps'[j]  F == Found(resolved', snapshot, it)
<1>1. /\ phase = "reading" /\ todo = <<>> /\ Valid(manifest) /\ ItemOf(manifest, it)
      /\ Change(j)' = s.change /\ ReadFor(j)' = s.read
      /\ PlannedFor(resolved', snapshot, it, s)
  BY PlannedAs
<1>2. ObjectPlanned(it, F, s) /\ ResolvedBy(resolved', it, s) /\ s.change \in {"create", "update", "no-change"}
  BY <1>1 DEF PlannedFor
<1>3. snapshot.objects \subseteq tenant.objects /\ Consistent(tenant)
  BY <1>1 DEF ReadsHold, TypeInv
<1>4. it.is = "service-account" => \A o \in tenant.objects : o.is = it.is => o \in snapshot.objects
  <2> SUFFICES ASSUME it.is = "service-account" PROVE \A o \in tenant.objects : o.is = it.is => o \in snapshot.objects
    OBVIOUS
  <2>1. AllRead
    BY <1>1, ReadAll
  <2>2. it.is \notin Network \cup {"scope"}
    BY DEF Network
  <2>3. "service-account" \in ListedKinds
    BY <1>1, <2>2, ListedFor
  <2> QED
    BY <2>1, <2>3 DEF AllRead
<1> HIDE DEF it, s
<1>5. CASE F = {}
  <2>1. s.change = "create"
    BY <1>2, <1>5 DEF ObjectPlanned
  <2>2. it.is = "service-account" => Found(resolved', tenant, it) = {}
    BY <1>4, <1>5 DEF Found
  <2> QED
    BY <1>1, <2>1, <2>2 DEF ObjectIs, it, s
<1>6. CASE F # {}
  <2>1. /\ s.read \in F /\ s.change \in {"update", "no-change"}
        /\ s.change = "no-change" => ~drifted(s.read)
        /\ it.is = "service-account" => ~(Cardinality(F) > 1)
    BY <1>2, <1>6 DEF ObjectPlanned
  <2>2. Sole(resolved', tenant, it, s.read)
    BY <1>3, <1>4, <2>1, ReadOnce
  <2>3. s.read \in tenant.objects /\ s.read # Absent
    <3>1. s.read \in snapshot.objects
      BY <2>1 DEF Found
    <3>2. \A r \in snapshot.objects : r.is \in Shape \cup Network
      BY DEF TypeInv, ReadsTyped
    <3> QED
      BY <1>3, <3>1, <3>2, AbsentIs
  <2>4. IdKey(it) \in DOMAIN resolved'.ids /\ resolved'.ids[IdKey(it)] = s.read.id
    BY <1>2, <2>3 DEF ResolvedBy
  <2>5. ObjectAt(resolved', tenant, it, s.change, s.read, s.read)
    BY <2>1, <2>2, <2>4 DEF ObjectAt, Knows, IdKey
  <2>6. s.change # "create"
    BY <2>1
  <2>7. ObjectIs(resolved', tenant, it, s.change, s.read)
    BY <2>3, <2>5, <2>6 DEF ObjectIs
  <2> QED
    BY <1>1, <2>7 DEF it, s
<1> QED
  BY <1>5, <1>6

\* What is resolved of a key is where the tenant has it.
Located(res, t, p) == p \in DOMAIN res.ids /\ res.ids[p] = Declared(t, manifest, p[1], p[2])

\* The objects are there, and what is known of them.
ThereOnce(res, t, it) ==
    IdKey(it) \in DOMAIN res.ids =>
        \E o \in t.objects : Sole(res, t, it, o) /\ res.ids[IdKey(it)] = o.id

LEMMA PlainLocated ==
    ASSUME NEW res, NEW t, NEW it, ItemOf(manifest, it), IsObject(it), ThereOnce(res, t, it),
           it.is \notin {"resource", "scope", "profile"}, IdKey(it) \in DOMAIN res.ids
    PROVE  Located(res, t, IdKey(it))
<1>1. PICK o \in t.objects : Sole(res, t, it, o) /\ res.ids[IdKey(it)] = o.id
  BY DEF ThereOnce
<1>2. it.on = None
  BY DEF ItemOf, IsObject, Shape, Network
<1>3. Declared(t, manifest, it.is, it.key) = o.id
  BY <1>1, <1>2, DeclaredPlain
<1>4. IdKey(it)[1] = it.is /\ IdKey(it)[2] = it.key
  BY DEF IdKey
<1> QED
  BY <1>1, <1>3, <1>4 DEF Located

\* The resources are where the levels have them, those that are not known nowhere.
LEMMA ResourcesLocated ==
    ASSUME NEW res, NEW t, Consistent(t), Valid(manifest),
           \A j \in 1 .. Len(Asked) : Asked[j].is = "resource" =>
              /\ ThereOnce(res, t, Asked[j])
              /\ IdKey(Asked[j]) \notin DOMAIN res.ids => Found(res, t, Asked[j]) = {}
    PROVE  \A k \in Up(manifest) : Declared(t, manifest, "resource", k) = Spot(res, k)
<1> SUFFICES ASSUME NEW k \in Keys(manifest.resources)
             PROVE  Placed(res, t, "resource", k, Spot(res, Parent(manifest)[k]))
  BY ResourcesAre
<1> DEFINE on == Parent(manifest)[k]  p == <<"resource", k>>
<1>1. PICK j \in 1 .. Len(Asked) : Asked[j].is = "resource" /\ Asked[j].key = k /\ Asked[j].on = on
  BY ItemsAre DEF Of, Asked
<1> DEFINE it == Asked[j]
<1>2. IdKey(it) = p /\ OnKind(it.is) = "resource"
  BY <1>1 DEF IdKey, OnKind
<1>3. /\ ThereOnce(res, t, it)
      /\ IdKey(it) \notin DOMAIN res.ids => Found(res, t, it) = {}
  BY <1>1
<1> HIDE DEF it, on
<1>4. Reached(res, it) => Under(res, it) = Spot(res, on)
  BY <1>1, <1>2 DEF Reached, Under, Spot, IdOf, it
<1>5. ASSUME p \in DOMAIN res.ids
      PROVE  \E o : Named(t, "resource", k, Spot(res, on)) = {o} /\ res.ids[p] = o.id
  <2>1. PICK o \in t.objects : Sole(res, t, it, o) /\ res.ids[IdKey(it)] = o.id
    BY <1>2, <1>3, <1>5 DEF ThereOnce
  <2>2. Reached(res, it) /\ Named(t, it.is, it.key, Under(res, it)) = {o}
    BY <2>1, FoundHere
  <2>3. Named(t, "resource", k, Spot(res, on)) = {o}
    BY <1>1, <1>4, <2>2 DEF it
  <2> QED
    BY <1>2, <2>1, <2>3
<1>6. ASSUME p \notin DOMAIN res.ids
      PROVE  Named(t, "resource", k, Spot(res, on)) = {}
  <2>1. Found(res, t, it) = {}
    BY <1>2, <1>3, <1>6
  <2>2. CASE Reached(res, it)
    BY <1>1, <1>4, <2>1, <2>2, FoundIs DEF it
  <2>3. CASE ~Reached(res, it)
    <3>1. Spot(res, on) = Nowhere
      BY <1>1, <1>2, <2>3 DEF Reached, Spot, it
    <3>2. \A o \in t.objects : o.under # Nowhere
      <4>1. t.next \in Nat /\ \A o \in t.objects : Typed(o, t.next)
        BY VersionsAre
      <4>2. \A o \in t.objects : o.under \in 0 .. t.next - 1
        BY <4>1, TypedIs
      <4> QED
        BY ONLY <4>1, <4>2 DEF Nowhere
    <3> QED
      BY <3>1, <3>2 DEF Named
  <2> QED
    BY <2>2, <2>3
<1> QED
  BY <1>5, <1>6 DEF Placed, on

\* What a binding needs is where the tenant has it.
LEMMA NeededLocated ==
    ASSUME NEW res, NEW t, Valid(manifest), NEW j \in 1 .. Len(Asked),
           NEW p \in Needs(manifest, Asked[j]), p \in DOMAIN res.ids,
           p[1] \notin {"resource", "scope", "profile"},
           \A l \in 1 .. Len(Asked) : IsObject(Asked[l]) /\ Asked[l].is \in Shape \cup {"segment"} =>
              ThereOnce(res, t, Asked[l])
    PROVE  Located(res, t, p)
<1>1. PICK l \in 1 .. Len(Asked) : /\ Asked[l].is \in Shape \cup {"segment"} /\ p = IdKey(Asked[l])
                                   /\ IsObject(Asked[l])
  BY Giving DEF Asked
<1>2. ItemOf(manifest, Asked[l])
  BY ItemsAre DEF Of, Asked
<1>3. Asked[l].is \notin {"resource", "scope", "profile"}
  BY <1>1 DEF IdKey
<1> QED
  BY <1>1, <1>2, <1>3, PlainLocated

LEMMA PlannedThere ==
    ASSUME TypeInv, ReadsHold, PagesLeft, Plan, phase' # "threw", ~meddled,
           NEW j \in 1 .. Len(Asked), Asked[j].is \in Shape \cup {"segment"}
    PROVE  /\ ThereOnce(resolved', tenant, Asked[j])
           /\ Asked[j].is = "resource" /\ IdKey(Asked[j]) \notin DOMAIN resolved'.ids =>
                Found(resolved', tenant, Asked[j]) = {}
<1> DEFINE it == Asked[j]  s == steps'[j]  F == Found(resolved', snapshot, it)
<1>0. IsObject(it)
  BY DEF IsObject, Network
<1>1. /\ phase = "reading" /\ todo = <<>> /\ Valid(manifest) /\ ItemOf(manifest, it)
      /\ Change(j)' = s.change /\ ReadFor(j)' = s.read
      /\ PlannedFor(resolved', snapshot, it, s)
  BY PlannedAs
<1>2. ObjectPlanned(it, F, s) /\ ResolvedBy(resolved', it, s)
  BY <1>0, <1>1 DEF PlannedFor
<1>3. ObjectIs(resolved', tenant, it, s.change, s.read)
  BY <1>0, <1>1, PlannedObjectIsThere
<1>4. F # {} => s.read \in F /\ s.read # Absent /\ s.change # "create"
  <2>1. \A r \in snapshot.objects : r.is \in Shape \cup Network
    BY DEF TypeInv, ReadsTyped
  <2>2. F \subseteq snapshot.objects
    BY DEF Found
  <2> HIDE DEF F
  <2> QED
    BY <1>2, <2>1, <2>2, AbsentIs DEF ObjectPlanned
<1>5. F = {} => s.read = Absent
  BY <1>2 DEF ObjectPlanned
<1>6. ASSUME IdKey(it) \in DOMAIN resolved'.ids
      PROVE  \E o \in tenant.objects : Sole(resolved', tenant, it, o) /\ resolved'.ids[IdKey(it)] = o.id
  <2>1. s.read # Absent
    BY <1>2, <1>6 DEF ResolvedBy
  <2>2. s.change # "create"
    BY <1>4, <1>5, <2>1
  <2> QED
    BY <1>3, <2>2 DEF ObjectIs, ObjectAt, IdKey
<1>7. ASSUME it.is = "resource", IdKey(it) \notin DOMAIN resolved'.ids
      PROVE  Found(resolved', tenant, it) = {}
  <2>1. F = {}
    BY <1>2, <1>4, <1>7 DEF ResolvedBy
  <2>2. it.is \notin Network \cup {"scope"}
    BY <1>7 DEF Network
  <2>3. "resource" \in ListedKinds
    BY <1>1, <2>2, ListedFor
  <2>4. \A o \in tenant.objects : o.is = "resource" => o \in snapshot.objects
    BY <1>1, <2>3, ReadAll DEF AllRead
  <2> HIDE DEF it
  <2> QED
    BY <1>7, <2>1, <2>4 DEF Found
<1> QED
  BY <1>6, <1>7 DEF ThereOnce

LEMMA PlannedLinkIsThere ==
    ASSUME TypeInv, ReadsHold, Plan, phase' # "threw", ~meddled,
           NEW j \in 1 .. Len(Asked), Asked[j].is \in {"grant", "member"}, Change(j)' # "create"
    PROVE  LinkThere(resolved', tenant, manifest, Asked[j])
<1>1. /\ phase = "reading" /\ Change(j)' = steps'[j].change
      /\ PlannedFor(resolved', snapshot, Asked[j], steps'[j])
  BY PlannedAs
<1>2. LinkThere(resolved', snapshot, manifest, Asked[j])
  BY <1>1 DEF PlannedFor, LinkPlanned
<1>3. snapshot.grants \subseteq tenant.grants /\ snapshot.members \subseteq tenant.members
  BY <1>1 DEF ReadsHold
<1> QED
  BY <1>2, <1>3 DEF LinkThere

LEMMA PlannedBindingIsThere ==
    ASSUME TypeInv, ReadsHold, PagesLeft, Plan, phase' # "threw", ~meddled,
           NEW j \in 1 .. Len(Asked), Asked[j].is = "binding"
    PROVE  BindingIs(Asked[j], Change(j), ReadFor(j), FALSE)'
<1> SUFFICES ASSUME NEW it, it = Asked[j], NEW s, s = steps'[j], NEW b, b = s.read
             PROVE  BindingIs(it, s.change, b, FALSE)'
  <2>1. Asked' = Asked /\ Change(j)' = steps'[j].change /\ ReadFor(j)' = steps'[j].read
    BY PlannedAs
  <2> QED
    BY <2>1
<1> DEFINE sk == <<SubjectKind(manifest, it.key), it.key>>  rk == <<"role", it.on>>
           H == Held(resolved', snapshot, manifest, it)
<1>1. /\ phase = "reading" /\ todo = <<>> /\ Valid(manifest) /\ ItemOf(manifest, it)
      /\ UNCHANGED <<manifest, tenant, before, meddled, stage>> /\ Asked' = Asked
      /\ Change(j)' = s.change /\ ReadFor(j)' = s.read
      /\ PlannedFor(resolved', snapshot, it, s)
  BY PlannedAs
<1>2. BindingPlanned(resolved', it, H, s) /\ s.change \in {"create", "update", "no-change"}
  BY <1>1 DEF PlannedFor
<1>3. before = tenant /\ snapshot.bindings \subseteq tenant.bindings /\ Consistent(tenant)
  BY <1>1 DEF ReadsHold, TypeInv
<1>4. CASE s.change = "create"
  BY <1>1, <1>4 DEF BindingIs
<1>5. CASE s.change # "create"
  <2>1. b \in H /\ (s.change = "no-change" => ~bindingDrifted(resolved', it, b))
    <3> HIDE DEF H
    <3> QED
      BY <1>2, <1>5 DEF BindingPlanned
  <2>2. /\ b \in snapshot.bindings /\ Resolves(resolved', {rk, sk})
        /\ b.role = resolved'.ids[rk] /\ b.subject = resolved'.ids[sk]
    <3> QED
      BY <2>1 DEF Held
  <2>3. b \in before.bindings /\ b \in tenant.bindings /\ HeldBy(it, b)'
    <3>1. SubjectKind(manifest', it.key) = SubjectKind(manifest, it.key)
      BY <1>1
    <3> QED
      BY <1>3, <2>2, <3>1 DEF HeldBy
  <2>4. \A l \in 1 .. Len(Asked) : Asked[l].is \in Shape \cup {"segment"} =>
            /\ ThereOnce(resolved', tenant, Asked[l])
            /\ Asked[l].is = "resource" /\ IdKey(Asked[l]) \notin DOMAIN resolved'.ids =>
                 Found(resolved', tenant, Asked[l]) = {}
    BY PlannedThere
  <2>5. Located(resolved', tenant, rk) /\ Located(resolved', tenant, sk)
    <3>1. {rk, sk} \subseteq Needs(manifest, it)
      BY DEF Needs
    <3>2. rk \in DOMAIN resolved'.ids /\ sk \in DOMAIN resolved'.ids
      BY <2>2 DEF Resolves
    <3>3. rk[1] = "role" /\ sk[1] \in {"user", "group", "service-account"}
      BY DEF SubjectKind
    <3>4. rk[1] \notin {"resource", "scope", "profile"} /\ sk[1] \notin {"resource", "scope", "profile"}
      BY <3>3
    <3> HIDE DEF rk, sk
    <3> QED
      BY <1>1, <2>4, <3>1, <3>2, <3>4, NeededLocated
  <2>6. IsBindingOf(before, manifest, it, b)
    BY <1>3, <2>2, <2>5 DEF IsBindingOf, Located
  <2>7. ASSUME s.change = "no-change"
        PROVE  Applies(it, b)'
    <3>1. ~bindingDrifted(resolved', it, b)
      BY <2>1, <2>7
    <3>2. b.inherit = it.inherit
      BY <3>1 DEF bindingDrifted
    <3>3. CASE it.at # None => Knows(resolved', "resource", it.at)
      <4>1. b.resource = IdOf(resolved', "resource", it.at)
        BY <3>1, <3>3 DEF bindingDrifted, IdOf
      <4> QED
        BY <3>2, <3>3, <4>1 DEF Applies
    <3>4. CASE ~(it.at # None => Knows(resolved', "resource", it.at))
      <4>1. b.resource = Root
        BY <3>1, <3>4 DEF bindingDrifted
      <4>2. Declared(tenant, manifest, "resource", it.at) = Nowhere
        <5>1. \A l \in 1 .. Len(Asked) : Asked[l].is = "resource" =>
                /\ ThereOnce(resolved', tenant, Asked[l])
                /\ IdKey(Asked[l]) \notin DOMAIN resolved'.ids =>
                     Found(resolved', tenant, Asked[l]) = {}
          BY <2>4 DEF Shape
        <5>2. \A k \in Up(manifest) : Declared(tenant, manifest, "resource", k) = Spot(resolved', k)
          BY <1>1, <1>3, <5>1, ResourcesLocated
        <5>3. it.at \in Up(manifest)
          BY <1>1 DEF ItemOf
        <5>4. Spot(resolved', it.at) = Nowhere
          BY <3>4 DEF Spot, Knows
        <5> QED
          BY <5>2, <5>3, <5>4
      <4>3. LeftEverywhere(it, b)'
        BY <1>1, <1>3, <2>3, <4>1, <4>2 DEF LeftEverywhere
      <4> QED
        BY <3>2, <4>3 DEF Applies
    <3> QED
      BY <3>3, <3>4
  <2>8. IsBindingOf(before, manifest, it, b)' /\ b \in before'.bindings /\ b \in tenant'.bindings
    BY <1>1, <2>3, <2>6
  <2>9. s.change \in {"update", "no-change"} /\ s.change # "over"
    BY <1>2, <1>5
  <2>10. BindingIs(it, s.change, b, FALSE)'
    BY <2>3, <2>7, <2>8, <2>9 DEF BindingIs
  <2> QED
    BY <1>1, <2>10
<1> QED
  BY <1>4, <1>5

LEMMA PlanStands ==
    ASSUME TypeInv, ReadsHold, PagesLeft, StageFits, Plan
    PROVE  ObjectsStand' /\ LinksStand' /\ BindingsStand' /\ BindingsKept'
<1>1. phase' = "threw" => ~(Underway' \/ phase' = "executing")
  BY DEF Underway
<1>2. meddled' = meddled /\ phase = "reading" /\ stage' = stage
  BY DEF Plan
<1>3. CASE phase' = "threw" \/ meddled
  BY <1>1, <1>2, <1>3 DEF ObjectsStand, LinksStand, BindingsStand, BindingsKept, Underway
<1>4. CASE phase' # "threw" /\ ~meddled
  <2>1. /\ UNCHANGED <<manifest, tenant, before, stage>> /\ Asked' = Asked
    BY <1>4, PlannedAs
  <2>2. ObjectsStand'
    BY <1>4, <2>1, PlannedObjectIsThere DEF ObjectsStand
  <2>3. LinksStand'
    BY <1>4, <2>1, PlannedLinkIsThere DEF LinksStand
  <2>4. stage' = "unassign"
    BY <1>2 DEF StageFits, Executing
  <2>5. \A j \in 1 .. Len(Asked) : Replacing(j)' = FALSE
    BY <2>4 DEF Replacing
  <2>6. \A j \in 1 .. Len(Asked) : Asked[j].is = "binding" =>
            BindingIs(Asked[j], Change(j), ReadFor(j), FALSE)'
    BY <1>4, PlannedBindingIsThere
  <2>7. BindingsStand'
    BY <2>1, <2>5, <2>6 DEF BindingsStand
  <2>8. BindingsKept'
    <3>1. tenant' = before'
      BY <1>2, <1>4, <2>1 DEF ReadsHold
    <3> QED
      BY <3>1 DEF BindingsKept
  <2> QED
    BY <2>2, <2>3, <2>7, <2>8
<1> QED
  BY <1>3, <1>4

-----------------------------------------------------------------------------
(* The steps of a run that nobody disturbs *)

Standing ==
    /\ TypeInv /\ StepsFollow /\ KeysKnown
    /\ ObjectsStand /\ LinksStand /\ BindingsStand /\ BindingsKept /\ StageFits
    /\ phase = "executing" /\ ~meddled

LEMMA StandingIs ==
    ASSUME Standing
    PROVE  /\ Underway /\ Consistent(tenant) /\ Consistent(before)
           /\ Len(Asked) \in Nat /\ Worked \in 0 .. Len(Asked) - 1 /\ Worked + 1 \in 1 .. Len(Asked)
           /\ This = Asked[Worked + 1] /\ Change(Worked + 1) = Now.change
           /\ ReadFor(Worked + 1) = Now.read
           /\ Now.change \in {"create", "update", "no-change"}
           /\ StepTyped(manifest, Now) /\ ItemOf(manifest, This) /\ Executing
           /\ Valid(manifest) /\ Unlike(Asked) /\ Sendable
<1>1. /\ Len(Asked) \in Nat /\ Worked \in 0 .. Len(Asked) - 1
      /\ This = Asked[Worked + 1] /\ Change(Worked + 1) = Now.change /\ Now = steps[1]
      /\ Now.change \in {"create", "update", "no-change"} /\ Executing
      /\ Valid(manifest) /\ Unlike(Asked)
  BY Follows DEF Standing
<1>2. Worked + 1 \in 1 .. Len(Asked) /\ (Worked + 1) - Worked = 1
  BY ONLY <1>1
<1>3. ReadFor(Worked + 1) = Now.read
  BY <1>1, <1>2 DEF ReadFor
<1>4. StepTyped(manifest, Now)
  BY <1>1, NowTyped DEF Standing
<1>5. ItemOf(manifest, This)
  BY <1>4 DEF StepTyped, This
<1>6. Underway
  BY DEF Standing, StepsFollow, Underway
<1> QED
  BY <1>1, <1>2, <1>3, <1>4, <1>5, <1>6, SendableIs DEF Standing, TypeInv

Goes == Succeeds \/ GoesOn

AsWere ==
    /\ tenant'.objects = tenant.objects /\ resolved' = resolved
    /\ IsObject(This) => Now.change = "no-change"

Made == IsObject(This) /\ Now.change = "create" /\ Runs /\ CreatesObject

Revised == IsObject(This) /\ Now.change = "update" /\ Runs /\ UpdatesObject

LEMMA GoesIs ==
    ASSUME Standing, Goes
    PROVE  /\ Executes /\ UNCHANGED <<manifest, before, meddled>>
           /\ AsWere \/ Made \/ Revised
<1>2. Executes
  BY DEF Goes, Succeeds, GoesOn, Executes
<1>3. UNCHANGED <<manifest, before, meddled>>
  BY <1>2, ExecutesIs DEF Standing, Same
<1>4. This.is = "binding" => ~IsObject(This)
  BY DEF IsObject, Shape, Network
<1>5. CASE Unchanged
  BY <1>2, <1>3, <1>5 DEF Unchanged, AsWere
<1>6. CASE Unassigns \/ Reassigns
  <2>1. tenant'.objects = tenant.objects
    BY <1>6, BindingStepsSpare DEF Standing
  <2>2. resolved' = resolved /\ This.is = "binding"
    BY <1>6 DEF Unassigns, Reassigns, Rebinds
  <2> QED
    BY <1>2, <1>3, <1>4, <2>1, <2>2 DEF AsWere
<1>7. CASE Runs
  <2>1. Does /\ Now.change # "no-change" /\ Consistent(tenant)
    BY <1>7, StandingIs DEF Runs, Changes
  <2>2. CASE IsObject(This)
    <3>1. This.is \in Shape \cup Network /\ This.is \notin {"grant", "member"} /\ This.is # "binding"
      BY <2>2 DEF IsObject, Shape, Network
    <3> QED
      BY <1>2, <1>3, <1>7, <2>1, <2>2, <3>1 DEF Does, Made, Revised
  <2>3. CASE ~IsObject(This)
    <3>1. This.is \notin Shape \cup {"segment"}
      BY <2>3 DEF IsObject, Network
    <3>2. resolved' = resolved
      BY <1>7, <3>1, RunsIs DEF Standing
    <3>3. Links \/ Assigns(Wanted("all"))
      BY <2>1, <2>3 DEF Does, IsObject
    <3>4. tenant'.objects = tenant.objects
      BY <2>1, <3>3, LinkServed, AssignServed, WantedIs
    <3> QED
      BY <1>2, <1>3, <2>3, <3>2, <3>4 DEF AsWere
  <2> QED
    BY <2>2, <2>3
<1> QED
  BY <1>2, <1>3, <1>5, <1>6, <1>7 DEF Goes, Succeeds, GoesOn

Extends(r1, r2) == \A p \in DOMAIN r1.ids : p \in DOMAIN r2.ids /\ r2.ids[p] = r1.ids[p]

\* What is known stays known.
LEMMA StillKnown ==
    ASSUME Standing, Goes
    PROVE  Extends(resolved, resolved')
<1>1. CASE resolved' = resolved
  BY <1>1 DEF Extends
<1>2. CASE /\ Made \/ Revised
           /\ This.is \in Shape \cup {"segment"}
           /\ \E o \in tenant'.objects :
                   /\ Learnt(resolved, resolved', This, o)
                   /\ o.id = IF Now.change = "create" THEN tenant.next ELSE Now.read.id
  <2>1. PICK o \in tenant'.objects :
                   /\ Learnt(resolved, resolved', This, o)
                   /\ o.id = IF Now.change = "create" THEN tenant.next ELSE Now.read.id
    BY <1>2
  <2>2. /\ Worked + 1 \in 1 .. Len(Asked) /\ This = Asked[Worked + 1]
        /\ Change(Worked + 1) = Now.change /\ ReadFor(Worked + 1) = Now.read /\ Underway
    BY StandingIs
  <2>3. IdKey(This) \in DOMAIN resolved.ids <=> Now.change # "create"
    BY <1>2, <2>2 DEF Standing, KeysKnown, Knows, IdKey
  <2>4. CASE Made
    BY <2>1, <2>3, <2>4 DEF Made, Learnt, Extends
  <2>5. CASE Revised
    <3>1. ObjectIs(resolved, tenant, This, "update", Now.read)
      BY <2>2, <2>5 DEF Standing, ObjectsStand, Revised
    <3>2. resolved.ids[IdKey(This)] = Now.read.id
      BY <1>2, <3>1 DEF ObjectIs, ObjectAt, IdKey
    <3>3. o.id = Now.read.id
      BY <2>1, <2>5 DEF Revised
    <3> QED
      BY <2>1, <3>2, <3>3 DEF Learnt, Extends
  <2> QED
    BY <1>2, <2>4, <2>5
<1> QED
  <2>1. CASE AsWere
    BY <1>1, <2>1 DEF AsWere
  <2>2. CASE Made \/ Revised
    <3>1. Runs
      BY <2>2 DEF Made, Revised
    <3> QED
      BY <1>1, <1>2, <2>2, <3>1, RunsIs DEF Standing
  <2> QED
    BY <2>1, <2>2, GoesIs

LEMMA FoundStill ==
    ASSUME NEW r1, NEW r2, Extends(r1, r2), NEW t, NEW it, Reached(r1, it)
    PROVE  Reached(r2, it) /\ Under(r1, it) = Under(r2, it) /\ Found(r2, t, it) = Found(r1, t, it)
<1>1. Reached(r2, it) /\ Under(r1, it) = Under(r2, it)
  BY DEF Extends, Reached, Under, IdOf
<1> QED
  BY <1>1, FoundIs

\* The object that a step updates, and what becomes of it.
LEMMA ReplacedIs ==
    ASSUME Standing, Revised
    PROVE  \E o \in tenant.objects : \E new :
               /\ ObjectAt(resolved, tenant, This, "update", Now.read, o)
               /\ Same4(new, o) /\ new.value = "stated" /\ (o.is = "role" => new.rest = "own")
               /\ tenant'.objects = (tenant.objects \ {o}) \cup {new}
<1>1. /\ Worked + 1 \in 1 .. Len(Asked) /\ This = Asked[Worked + 1] /\ Consistent(tenant)
      /\ Change(Worked + 1) = Now.change /\ ReadFor(Worked + 1) = Now.read /\ Underway
      /\ StepTyped(manifest, Now)
  BY StandingIs
<1>2. ObjectIs(resolved, tenant, This, "update", Now.read)
  BY <1>1 DEF Standing, ObjectsStand, Revised
<1>3. PICK o \in tenant.objects : ObjectAt(resolved, tenant, This, "update", Now.read, o)
  BY <1>2 DEF ObjectIs
<1>4. o.id = Now.read.id
  BY <1>3 DEF ObjectAt
<1>5. Now.read.rest \in Rests
  BY <1>1 DEF Revised, StepTyped, IsRead, This
<1>6. PICK p, new :
        /\ p \in tenant.objects /\ p.id = Now.read.id /\ Same4(new, p) /\ new.value = "stated"
        /\ p.is = "role" => new.rest = "own"
        /\ tenant'.objects = (tenant.objects \ {p}) \cup {new}
  BY <1>1, <1>5, UpdateServed DEF Revised
<1>7. p = o
  <2>1. Objects(tenant.objects, tenant.next)
    BY <1>1, ConsistentIs
  <2> QED
    BY <1>4, <1>6, <2>1 DEF Objects, Separate
<1> QED
  BY <1>3, <1>6, <1>7

\* The objects of one kind and name are as they were.
Untouched(t, u, is, name) ==
    \A o : o.is = is /\ o.name = name => (o \in t.objects <=> o \in u.objects)

LEMMA UntouchedNamed ==
    ASSUME NEW t, NEW u, NEW is, NEW name, Untouched(t, u, is, name), NEW under
    PROVE  Named(t, is, name, under) = Named(u, is, name, under)
  BY DEF Untouched, Named

LEMMA OthersUntouched ==
    ASSUME Standing, Goes, NEW is, NEW key, <<is, key>> # IdKey(This)
    PROVE  Untouched(tenant, tenant', is, key)
<1>1. CASE AsWere
  BY <1>1 DEF AsWere, Untouched
<1>2. CASE Made
  <2>1. Consistent(tenant) /\ CreatesObject /\ This.is \in Shape \cup Network
    BY <1>2, StandingIs DEF Made, IsObject
  <2>2. tenant'.objects = tenant.objects \cup {Fresh} /\ Fresh.is = This.is /\ Fresh.name = This.key
    BY <2>1, CreateServed
  <2> QED
    BY <2>2 DEF Untouched, IdKey
<1>3. CASE Revised
  <2>1. PICK o, new :
               /\ o \in tenant.objects /\ ObjectAt(resolved, tenant, This, "update", Now.read, o)
               /\ Same4(new, o) /\ new.value = "stated" /\ (o.is = "role" => new.rest = "own")
               /\ tenant'.objects = (tenant.objects \ {o}) \cup {new}
    BY <1>3, ReplacedIs
  <2>2. o.is = This.is /\ o.name = This.key
    BY <2>1, FoundHere DEF ObjectAt
  <2>3. new.is = This.is /\ new.name = This.key
    BY <2>1, <2>2 DEF Same4
  <2> QED
    BY <2>1, <2>2, <2>3 DEF Untouched, IdKey
<1> QED
  BY <1>1, <1>2, <1>3, GoesIs

\* The other items are as they were.
LEMMA ObjectStill ==
    ASSUME Standing, Goes, NEW j \in 1 .. Len(Asked), j # Worked + 1, IsObject(Asked[j]),
           NEW c, NEW r, ObjectIs(resolved, tenant, Asked[j], c, r)
    PROVE  ObjectIs(resolved', tenant', Asked[j], c, r)
<1> DEFINE it == Asked[j]
<1>1. ItemOf(manifest, it) /\ IdKey(it) # IdKey(This)
  <2>1. Valid(manifest)
    BY StandingIs
  <2> QED
    BY <2>1, ItemsAre, Apart DEF Of, Asked, Standing
<1>2. Untouched(tenant, tenant', it.is, it.key)
  BY <1>1, OthersUntouched DEF IdKey
<1>3. Extends(resolved, resolved')
  BY StillKnown
<1> HIDE DEF it
<1>4. ASSUME Reached(resolved, it)
      PROVE  Found(resolved', tenant', it) = Found(resolved, tenant, it)
  <2>1. /\ Reached(resolved', it) /\ Under(resolved', it) = Under(resolved, it)
        /\ Found(resolved', tenant', it) = Found(resolved, tenant', it)
    BY <1>3, <1>4, FoundStill
  <2>2. Named(tenant, it.is, it.key, Under(resolved, it)) = Named(tenant', it.is, it.key, Under(resolved, it))
    BY <1>2, UntouchedNamed
  <2> QED
    BY <1>4, <2>1, <2>2, FoundIs
<1>5. CASE c = "create"
  <2> SUFFICES ASSUME it.is = "service-account" PROVE Found(resolved', tenant', it) = {}
    BY <1>5 DEF ObjectIs, it
  <2>1. Found(resolved, tenant, it) = {}
    BY <1>5 DEF ObjectIs, it
  <2>2. Reached(resolved, it)
    BY <1>1 DEF Reached, ItemOf
  <2> QED
    BY <1>4, <2>1, <2>2
<1>6. CASE c # "create"
  <2>1. PICK o \in tenant.objects : ObjectAt(resolved, tenant, it, c, r, o)
    BY <1>6 DEF ObjectIs, it
  <2>2. Sole(resolved, tenant, it, o) /\ Reached(resolved, it)
    BY <2>1, FoundHere DEF ObjectAt
  <2>3. Sole(resolved', tenant', it, o)
    BY <1>4, <2>2 DEF Sole
  <2>4. o \in tenant'.objects
    BY <2>3, FoundHere
  <2>5. ObjectAt(resolved', tenant', it, c, r, o)
    BY <1>3, <2>1, <2>3 DEF ObjectAt, Extends, Knows
  <2> QED
    BY <1>6, <2>4, <2>5 DEF ObjectIs, it
<1> QED
  BY <1>5, <1>6

\* The object of the step is there once it is over.
LEMMA ObjectDone ==
    ASSUME Standing, Succeeds, IsObject(This)
    PROVE  ObjectIs(resolved', tenant', This, "over", Now.read)
<1>1. /\ Worked + 1 \in 1 .. Len(Asked) /\ This = Asked[Worked + 1] /\ Consistent(tenant)
      /\ Change(Worked + 1) = Now.change /\ ReadFor(Worked + 1) = Now.read /\ Underway
      /\ ItemOf(manifest, This)
  BY StandingIs
<1>2. ObjectIs(resolved, tenant, This, Now.change, Now.read)
  BY <1>1 DEF Standing, ObjectsStand
<1>3. Extends(resolved, resolved') /\ Goes
  BY StillKnown DEF Goes
<1>4. CASE AsWere
  <2>1. Now.change = "no-change" /\ tenant'.objects = tenant.objects /\ resolved' = resolved
    BY <1>4 DEF AsWere
  <2>2. Found(resolved', tenant', This) = Found(resolved, tenant, This)
    BY <2>1 DEF Found
  <2> QED
    BY <1>2, <2>1, <2>2 DEF ObjectIs, ObjectAt, Sole
<1>5. CASE Made
  <2>1. CreatesObject /\ This.is \in Shape \cup Network /\ Now.change = "create" /\ Runs
    BY <1>5 DEF Made, IsObject
  <2>2. /\ tenant'.objects = tenant.objects \cup {Fresh} /\ Fresh.is = This.is /\ Fresh.name = This.key
        /\ Fresh.under = UnderId /\ Fresh.value = "stated" /\ Fresh.rest = "own"
        /\ Fresh.id = tenant.next
        /\ \A o \in tenant.objects : o.id # tenant.next
    BY <1>1, <2>1, CreateServed
  <2>3. Reached(resolved, This) /\ UnderId = Under(resolved, This)
    <3>1. Needs(manifest, This) \subseteq DOMAIN resolved.ids
      BY StandingIs DEF Sendable, Resolves
    <3>2. This.on = None \/ <<OnKind(This.is), This.on>> \in Needs(manifest, This)
      BY <1>1, <2>1 DEF Needs, ItemOf, Shape, Network
    <3> QED
      BY <3>1, <3>2 DEF Reached, UnderId, Under
  <2>4. Named(tenant, This.is, This.key, UnderId) = {}
    <3>1. CASE This.is = "service-account"
      BY <1>2, <2>1, <2>3, <3>1, FoundIs DEF ObjectIs
    <3>2. CASE This.is # "service-account"
      BY <2>1, <3>2 DEF CreatesObject, Taken, Named
    <3> QED
      BY <3>1, <3>2
  <2>5. Named(tenant', This.is, This.key, UnderId) = {Fresh}
    <3> HIDE DEF Fresh
    <3> QED
      BY <2>2, <2>4 DEF Named
  <2>6. Sole(resolved', tenant', This, Fresh)
    <3> HIDE DEF Fresh
    <3>1. Reached(resolved', This) /\ Under(resolved', This) = Under(resolved, This)
      BY <1>3, <2>3, FoundStill
    <3> QED
      BY <2>3, <2>5, <3>1, FoundIs DEF Sole
  <2>7. This.is \in Shape \cup {"segment"} =>
            Knows(resolved', This.is, This.key) /\ resolved'.ids[<<This.is, This.key>>] = tenant.next
    BY <2>1, RunsIs DEF Learnt, IdKey, Knows, Standing
  <2>8. ~drifted(Fresh)
    BY <2>2 DEF drifted
  <2> HIDE DEF Fresh
  <2>9. ObjectAt(resolved', tenant', This, "over", Now.read, Fresh)
    BY <2>2, <2>6, <2>7, <2>8 DEF ObjectAt
  <2> QED
    BY <2>2, <2>9 DEF ObjectIs
<1>6. CASE Revised
  <2>1. PICK o, new :
               /\ o \in tenant.objects /\ ObjectAt(resolved, tenant, This, "update", Now.read, o)
               /\ Same4(new, o) /\ new.value = "stated" /\ (o.is = "role" => new.rest = "own")
               /\ tenant'.objects = (tenant.objects \ {o}) \cup {new}
    BY <1>6, ReplacedIs
  <2>2. /\ Reached(resolved, This) /\ Named(tenant, This.is, This.key, Under(resolved, This)) = {o}
        /\ o.is = This.is /\ o.name = This.key /\ o.under = Under(resolved, This)
    BY <2>1, FoundHere DEF ObjectAt
  <2>3. new.is = This.is /\ new.name = This.key /\ new.under = Under(resolved, This) /\ new.id = o.id
    BY <2>1, <2>2 DEF Same4
  <2>4. Named(tenant', This.is, This.key, Under(resolved, This)) = {new}
    BY <2>1, <2>2, <2>3 DEF Named
  <2>5. Sole(resolved', tenant', This, new)
    <3>1. Reached(resolved', This) /\ Under(resolved', This) = Under(resolved, This)
      BY <1>3, <2>2, FoundStill
    <3> QED
      BY <2>4, <3>1, FoundIs DEF Sole
  <2>6. ~drifted(new)
    BY <2>1 DEF drifted, Same4
  <2>7. ObjectAt(resolved', tenant', This, "over", Now.read, new)
    BY <1>3, <2>1, <2>3, <2>5, <2>6 DEF ObjectAt, Extends, Knows
  <2>8. new \in tenant'.objects
    BY <2>1
  <2> QED
    BY <2>7, <2>8 DEF ObjectIs
<1> QED
  BY <1>3, <1>4, <1>5, <1>6, GoesIs

\* What is left to do of each step, once this one is over.
LEMMA AfterSuccess ==
    ASSUME Standing, Succeeds
    PROVE  /\ Asked' = Asked /\ stage' = "unassign"
           /\ \A j \in 1 .. Len(Asked) : j = Worked + 1 => Change(j)' = "over"
           /\ \A j \in 1 .. Len(Asked) : j # Worked + 1 =>
                /\ Change(j)' = Change(j)
                /\ Change(j) # "over" => ReadFor(j)' = ReadFor(j)
<1>1. /\ Len(Asked) \in Nat /\ Worked \in 0 .. Len(Asked) - 1 /\ Worked + 1 \in 1 .. Len(Asked)
  BY StandingIs
<1>2. manifest' = manifest /\ steps' = Tail(steps) /\ stage' = "unassign"
  BY GoesIs DEF Goes, Succeeds
<1>3. /\ Asked' = Asked
      /\ \A j \in 1 .. Len(Asked) :
                /\ j <= Worked + 1 => Change(j)' = "over"
                /\ j > Worked + 1 => /\ Change(j)' = Change(j)
                                     /\ steps'[j - Worked'] = steps[j - Worked]
  BY <1>2, WorkedOn DEF Standing
<1>4. \A j \in 1 .. Len(Asked) : j <= Worked => Change(j) = "over"
  BY Follows DEF Standing
<1>5. ASSUME NEW j \in 1 .. Len(Asked), j = Worked + 1
      PROVE  Change(j)' = "over"
  <2>1. j <= Worked + 1
    BY ONLY <1>1, <1>5
  <2> QED
    BY <1>3, <2>1
<1>6. ASSUME NEW j \in 1 .. Len(Asked), j # Worked + 1
      PROVE  /\ Change(j)' = Change(j)
             /\ Change(j) # "over" => ReadFor(j)' = ReadFor(j)
  <2>1. CASE j <= Worked
    <3>1. j <= Worked + 1
      BY ONLY <1>1, <2>1
    <3> QED
      BY <1>3, <1>4, <2>1, <3>1
  <2>2. CASE j > Worked + 1
    BY <1>3, <2>2 DEF ReadFor
  <2> QED
    BY ONLY <1>1, <1>6, <2>1, <2>2
<1> QED
  BY <1>2, <1>3, <1>5, <1>6

LEMMA AfterGoingOn ==
    ASSUME Standing, GoesOn
    PROVE  /\ Asked' = Asked /\ Worked' = Worked
           /\ \A j : Change(j)' = Change(j) /\ ReadFor(j)' = ReadFor(j)
           /\ This.is = "binding" /\ Now.change = "update"
<1>1. manifest' = manifest /\ steps' = steps /\ Rebinds
  BY GoesIs DEF Goes, GoesOn
<1>2. Asked' = Asked /\ Worked' = Worked
  BY <1>1 DEF Asked, Worked
<1> QED
  BY <1>1, <1>2 DEF Change, ReadFor, Rebinds

LEMMA ObjectsStandGoing ==
    ASSUME Standing, Goes
    PROVE  ObjectsStand'
<1>1. Underway /\ Worked + 1 \in 1 .. Len(Asked) /\ This = Asked[Worked + 1]
      /\ ReadFor(Worked + 1) = Now.read
  BY StandingIs
<1>2. \A j \in 1 .. Len(Asked) : IsObject(Asked[j]) =>
        ObjectIs(resolved, tenant, Asked[j], Change(j), ReadFor(j))
  BY <1>1 DEF Standing, ObjectsStand
<1>3. \A j \in 1 .. Len(Asked) : IsObject(Asked[j]) /\ j # Worked + 1 =>
        ObjectIs(resolved', tenant', Asked[j], Change(j), ReadFor(j))
  BY <1>2, ObjectStill
<1>4. \A it, r, s : ObjectIs(resolved', tenant', it, "over", r) =>
                    ObjectIs(resolved', tenant', it, "over", s)
  BY DEF ObjectIs, ObjectAt
<1>5. CASE Succeeds
  <2>1. IsObject(This) => ObjectIs(resolved', tenant', This, "over", Now.read)
    BY <1>5, ObjectDone
  <2>2. ASSUME NEW j \in 1 .. Len(Asked), IsObject(Asked[j])
        PROVE  ObjectIs(resolved', tenant', Asked[j], Change(j)', ReadFor(j)')
    <3>1. CASE j = Worked + 1
      <4>1. Change(j)' = "over"
        BY <1>5, <3>1, AfterSuccess
      <4>2. ObjectIs(resolved', tenant', Asked[j], "over", Now.read)
        BY <1>1, <2>1, <2>2, <3>1
      <4> QED
        BY <1>4, <4>1, <4>2
    <3>2. CASE j # Worked + 1
      <4>1. ObjectIs(resolved', tenant', Asked[j], Change(j), ReadFor(j))
        BY <1>3, <2>2, <3>2
      <4>2. Change(j)' = Change(j) /\ (Change(j) # "over" => ReadFor(j)' = ReadFor(j))
        BY <1>5, <3>2, AfterSuccess
      <4> QED
        BY <1>4, <4>1, <4>2
    <3> QED
      BY <3>1, <3>2
  <2> QED
    BY <1>5, <2>2, AfterSuccess DEF ObjectsStand
<1>6. CASE GoesOn
  <2>1. ~IsObject(This)
    BY <1>6, AfterGoingOn DEF IsObject, Shape, Network
  <2>2. \A j \in 1 .. Len(Asked) : IsObject(Asked[j]) => j # Worked + 1
    BY <1>1, <2>1
  <2>3. Asked' = Asked /\ \A j : Change(j)' = Change(j) /\ ReadFor(j)' = ReadFor(j)
    BY <1>6, AfterGoingOn
  <2> QED
    BY <1>3, <2>2, <2>3 DEF ObjectsStand
<1> QED
  BY <1>5, <1>6 DEF Goes

-----------------------------------------------------------------------------
(* Grants and memberships *)

LEMMA LinksGrow ==
    ASSUME Standing, Goes
    PROVE  tenant.grants \subseteq tenant'.grants /\ tenant.members \subseteq tenant'.members
<1>1. Consistent(tenant) /\ StepTyped(manifest, Now) /\ IsTenant(tenant)
  BY StandingIs, VersionsAre
<1>2. CASE Unchanged
  BY <1>2 DEF Unchanged
<1>3. CASE Runs
  <2>1. Does
    BY <1>3 DEF Runs
  <2>2. CASE This.is \in Shape \cup Network /\ CreatesObject
    BY <1>1, <2>2, CreateServed
  <2>3. CASE This.is \in Shape \cup Network /\ UpdatesObject
    <3>1. Now.read.rest \in Rests
      BY <1>1, <2>3 DEF StepTyped, This, IsRead, IsObject
    <3> QED
      BY <1>1, <2>3, <3>1, UpdateServed
  <2>4. CASE Links
    BY <1>1, <2>4, LinkServed
  <2>5. CASE Assigns(Wanted("all"))
    BY <1>1, <2>5, AssignServed, WantedIs
  <2> QED
    BY <2>1, <2>2, <2>3, <2>4, <2>5 DEF Does
<1>4. CASE Unassigns
  <2> DEFINE previous == {b \in tenant.bindings :
                            b.role = Now.read.role /\ b.subject = Now.read.subject
                            /\ b.resource = Now.read.resource}
  <2>1. tenant' = tenant \/ tenant' = [tenant EXCEPT !.bindings = @ \ previous]
    BY <1>4 DEF Unassigns
  <2> HIDE DEF previous
  <2> QED
    BY <1>1, <2>1 DEF IsTenant
<1>5. CASE Reassigns
  <2>1. tenant' = tenant \/ Assigns(Wanted(tenantScope(Now.read)))
    BY <1>5 DEF Reassigns
  <2> QED
    BY <1>1, <2>1, AssignServed, WantedIs
<1> QED
  BY <1>2, <1>3, <1>4, <1>5 DEF Goes, Succeeds, GoesOn

LEMMA LinkStill ==
    ASSUME NEW r1, NEW r2, Extends(r1, r2), NEW t, NEW u,
           t.grants \subseteq u.grants, t.members \subseteq u.members,
           NEW it, it.is \in {"grant", "member"}, LinkThere(r1, t, manifest, it)
    PROVE  LinkThere(r2, u, manifest, it)
<1>1. CASE it.is = "grant"
  <2> DEFINE a == <<"role", it.key>>  b == <<"permission", it.on>>
  <2>1. {a, b} \subseteq DOMAIN r1.ids /\ <<r1.ids[a], r1.ids[b]>> \in t.grants
    BY <1>1 DEF LinkThere, Resolves, Pair
  <2> HIDE DEF a, b
  <2>2. {a, b} \subseteq DOMAIN r2.ids /\ <<r2.ids[a], r2.ids[b]>> \in u.grants
    BY <2>1 DEF Extends
  <2> QED
    BY <1>1, <2>2 DEF LinkThere, Resolves, Pair, a, b
<1>2. CASE it.is = "member"
  <2> DEFINE a == <<"group", it.on>>  b == <<"user", it.key>>
  <2>1. Needs(manifest, it) = {a, b}
    BY <1>2 DEF Needs
  <2>2. {a, b} \subseteq DOMAIN r1.ids /\ <<r1.ids[a], r1.ids[b]>> \in t.members
    BY <1>2, <2>1 DEF LinkThere, Resolves, Pair
  <2> HIDE DEF a, b
  <2>3. {a, b} \subseteq DOMAIN r2.ids /\ <<r2.ids[a], r2.ids[b]>> \in u.members
    BY <2>2 DEF Extends
  <2> QED
    BY <1>2, <2>1, <2>3 DEF LinkThere, Resolves, Pair, a, b
<1> QED
  BY <1>1, <1>2

LEMMA LinksStandGoing ==
    ASSUME Standing, Goes
    PROVE  LinksStand'
<1>1. Underway /\ Worked + 1 \in 1 .. Len(Asked) /\ This = Asked[Worked + 1]
      /\ Consistent(tenant) /\ Change(Worked + 1) = Now.change /\ Sendable
  BY StandingIs
<1>2. Extends(resolved, resolved') /\ manifest' = manifest
      /\ tenant.grants \subseteq tenant'.grants /\ tenant.members \subseteq tenant'.members
  BY StillKnown, LinksGrow, GoesIs
<1>3. ASSUME NEW j \in 1 .. Len(Asked), Asked[j].is \in {"grant", "member"}, Change(j) # "create"
      PROVE  LinkThere(resolved', tenant', manifest, Asked[j])
  <2>1. LinkThere(resolved, tenant, manifest, Asked[j])
    BY <1>1, <1>3 DEF Standing, LinksStand
  <2> QED
    BY <1>2, <1>3, <2>1, LinkStill
<1>4. CASE Succeeds
  <2>1. ASSUME This.is \in {"grant", "member"}, Now.change = "create"
        PROVE  LinkThere(resolved', tenant', manifest, This)
    <3>1. Runs
      BY <1>4, <2>1 DEF Succeeds, Unchanged, Reassigns, Rebinds
    <3>2. Links
      BY <2>1, <3>1 DEF Runs, Does, Shape, Network
    <3>3. /\ This.is = "grant" => Pair(resolved, manifest, This) \in tenant'.grants
          /\ This.is # "grant" => Pair(resolved, manifest, This) \in tenant'.members
      BY <1>1, <3>2, LinkServed
    <3>4. Resolves(resolved, Needs(manifest, This))
      BY <1>1 DEF Sendable
    <3>5. LinkThere(resolved, tenant', manifest, This)
      <4>1. This.is = "grant" => Resolves(resolved, {<<"role", This.key>>, <<"permission", This.on>>})
        BY <3>4 DEF Needs, Resolves
      <4> QED
        BY <3>3, <3>4, <4>1 DEF LinkThere
    <3>6. tenant'.grants \subseteq tenant'.grants /\ tenant'.members \subseteq tenant'.members
      OBVIOUS
    <3> QED
      BY <1>2, <2>1, <3>5, <3>6, LinkStill
  <2>2. ASSUME NEW j \in 1 .. Len(Asked), Asked[j].is \in {"grant", "member"}, Change(j)' # "create"
        PROVE  LinkThere(resolved', tenant', manifest, Asked[j])
    <3>1. CASE j = Worked + 1
      BY <1>1, <1>3, <2>1, <2>2, <3>1
    <3>2. CASE j # Worked + 1
      BY <1>3, <1>4, <2>2, <3>2, AfterSuccess
    <3> QED
      BY <3>1, <3>2
  <2> QED
    BY <1>2, <1>4, <2>2, AfterSuccess DEF LinksStand
<1>5. CASE GoesOn
  BY <1>2, <1>3, <1>5, AfterGoingOn DEF LinksStand
<1> QED
  BY <1>4, <1>5 DEF Goes

\* What a known key is of.
LEMMA KnownIs ==
    ASSUME Standing, NEW j \in 1 .. Len(Asked), NEW p \in Needs(manifest, Asked[j]),
           p \in DOMAIN resolved.ids
    PROVE  \E o \in tenant.objects : resolved.ids[p] = o.id /\ p = <<o.is, o.name>>
<1>1. Underway /\ Valid(manifest) /\ Len(Asked) \in Nat
  BY StandingIs
<1>2. PICK l \in 1 .. Len(Asked) : /\ Asked[l].is \in Shape \cup {"segment"} /\ p = IdKey(Asked[l])
                                   /\ IsObject(Asked[l])
  BY <1>1, Giving DEF Asked
<1>3. ObjectIs(resolved, tenant, Asked[l], Change(l), ReadFor(l))
  BY <1>1, <1>2 DEF Standing, ObjectsStand
<1>4. Change(l) # "create"
  BY <1>2 DEF Standing, KeysKnown, Knows, IdKey
<1>5. PICK o \in tenant.objects : ObjectAt(resolved, tenant, Asked[l], Change(l), ReadFor(l), o)
  BY <1>3, <1>4 DEF ObjectIs
<1>6. o.is = Asked[l].is /\ o.name = Asked[l].key /\ resolved.ids[p] = o.id
  BY <1>2, <1>5, FoundHere DEF ObjectAt, IdKey
<1> QED
  BY <1>2, <1>6 DEF IdKey

LEMMA IdsDiffer ==
    ASSUME Standing, NEW j \in 1 .. Len(Asked), NEW k \in 1 .. Len(Asked),
           NEW p \in Needs(manifest, Asked[j]), NEW q \in Needs(manifest, Asked[k]),
           p \in DOMAIN resolved.ids, q \in DOMAIN resolved.ids, resolved.ids[p] = resolved.ids[q]
    PROVE  p = q
<1>1. PICK o \in tenant.objects : resolved.ids[p] = o.id /\ p = <<o.is, o.name>>
  BY KnownIs
<1>2. PICK r \in tenant.objects : resolved.ids[q] = r.id /\ q = <<r.is, r.name>>
  BY KnownIs
<1>3. Objects(tenant.objects, tenant.next)
  BY StandingIs, ConsistentIs
<1>4. o = r
  BY <1>1, <1>2, <1>3 DEF Objects, Separate
<1> QED
  BY <1>1, <1>2, <1>4

\* No two items are of one subject and one role.
LEMMA HeldApart ==
    ASSUME Standing, NEW j \in 1 .. Len(Asked), NEW k \in 1 .. Len(Asked),
           Asked[j].is = "binding", Asked[k].is = "binding",
           NEW b, NEW c, HeldBy(Asked[j], b), HeldBy(Asked[k], c),
           b.role = c.role, b.subject = c.subject
    PROVE  j = k
<1> DEFINE s(i) == <<SubjectKind(manifest, Asked[i].key), Asked[i].key>>
           r(i) == <<"role", Asked[i].on>>
<1>1. \A i \in {j, k} : {r(i), s(i)} \subseteq Needs(manifest, Asked[i])
  BY DEF Needs
<1>2. /\ \A i \in {j, k} : r(i) \in DOMAIN resolved.ids /\ s(i) \in DOMAIN resolved.ids
      /\ resolved.ids[r(j)] = resolved.ids[r(k)] /\ resolved.ids[s(j)] = resolved.ids[s(k)]
  BY DEF HeldBy, Resolves
<1>3. r(j) = r(k) /\ s(j) = s(k)
  <2> HIDE DEF r, s
  <2>1. r(j) = r(k)
    BY <1>1, <1>2, IdsDiffer
  <2>2. s(j) = s(k)
    BY <1>1, <1>2, IdsDiffer
  <2> QED
    BY <2>1, <2>2
<1>4. Asked[j].on = Asked[k].on /\ Asked[j].key = Asked[k].key
  BY <1>3
<1>5. Alike(Asked[j], Asked[k])
  BY <1>4 DEF Alike
<1> QED
  BY <1>5, StandingIs DEF Unlike

LEMMA HeldStill ==
    ASSUME Standing, Goes, NEW it, NEW b
    PROVE  /\ HeldBy(it, b) => HeldBy(it, b)'
           /\ Applies(it, b) => Applies(it, b)'
<1>1. Extends(resolved, resolved') /\ UNCHANGED <<manifest, before>>
  BY StillKnown, GoesIs
<1>2. HeldBy(it, b) => HeldBy(it, b)'
  <2> DEFINE sk == <<SubjectKind(manifest, it.key), it.key>>  rk == <<"role", it.on>>
  <2>1. HeldBy(it, b) => rk \in DOMAIN resolved.ids /\ sk \in DOMAIN resolved.ids
                         /\ b.role = resolved.ids[rk] /\ b.subject = resolved.ids[sk]
    BY DEF HeldBy, Resolves
  <2>2. rk \in DOMAIN resolved'.ids /\ sk \in DOMAIN resolved'.ids
        /\ b.role = resolved'.ids[rk] /\ b.subject = resolved'.ids[sk] => HeldBy(it, b)'
    <3>1. SubjectKind(manifest', it.key) = SubjectKind(manifest, it.key)
      BY <1>1
    <3> QED
      BY <3>1 DEF HeldBy, Resolves
  <2> HIDE DEF sk, rk
  <2> QED
    BY <1>1, <2>1, <2>2 DEF Extends
<1>3. LeftEverywhere(it, b)' <=> LeftEverywhere(it, b)
  BY <1>1 DEF LeftEverywhere
<1>4. Applies(it, b) => Applies(it, b)'
  BY <1>1, <1>3 DEF Applies, Extends, Knows, IdOf
<1> QED
  BY <1>2, <1>4

\* The bindings a step takes away: the one to be replaced.
LEMMA BindingsGo ==
    ASSUME Standing, Goes
    PROVE  \/ tenant.bindings \subseteq tenant'.bindings
           \/ /\ GoesOn /\ stage = "unassign" /\ stage' = "assign"
              /\ tenant'.bindings \subseteq tenant.bindings
              /\ \A x \in tenant.bindings : x \in tenant'.bindings
                    \/ (x.role = Now.read.role /\ x.subject = Now.read.subject)
<1>1. Consistent(tenant) /\ StepTyped(manifest, Now) /\ IsTenant(tenant)
  BY StandingIs, VersionsAre
<1>2. CASE Unchanged
  BY <1>2 DEF Unchanged
<1>3. CASE Runs
  <2>1. Does
    BY <1>3 DEF Runs
  <2>2. CASE This.is \in Shape \cup Network /\ CreatesObject
    BY <1>1, <2>2, CreateServed
  <2>3. CASE This.is \in Shape \cup Network /\ UpdatesObject
    <3>1. Now.read.rest \in Rests
      BY <1>1, <2>3 DEF StepTyped, This, IsRead, IsObject
    <3> QED
      BY <1>1, <2>3, <3>1, UpdateServed
  <2>4. CASE Links
    BY <1>1, <2>4, LinkServed
  <2>5. CASE Assigns(Wanted("all"))
    BY <1>1, <2>5, AssignServed, WantedIs
  <2> QED
    BY <2>1, <2>2, <2>3, <2>4, <2>5 DEF Does
<1>4. CASE Unassigns /\ GoesOn
  <2> DEFINE previous == {b \in tenant.bindings :
                            b.role = Now.read.role /\ b.subject = Now.read.subject
                            /\ b.resource = Now.read.resource}
  <2>1. stage = "unassign" /\ (tenant' = tenant \/ tenant' = [tenant EXCEPT !.bindings = @ \ previous])
    BY <1>4 DEF Unassigns
  <2>2. stage' = "assign"
    <3>1. stage' = "assign" \/ stage' = "unassign"
      BY <1>4 DEF Unassigns, Over
    <3> QED
      BY <1>4, <3>1 DEF GoesOn
  <2>3. \A x \in previous : x.role = Now.read.role /\ x.subject = Now.read.subject
    OBVIOUS
  <2> HIDE DEF previous
  <2> QED
    BY <1>1, <1>4, <2>1, <2>2, <2>3 DEF IsTenant
<1>5. CASE Reassigns
  <2>1. tenant' = tenant \/ Assigns(Wanted(tenantScope(Now.read)))
    BY <1>5 DEF Reassigns
  <2> QED
    BY <1>1, <2>1, AssignServed, WantedIs
<1> QED
  BY <1>2, <1>3, <1>4, <1>5 DEF Goes, Succeeds, GoesOn

\* What is read of a binding that is to be changed or kept.
LEMMA ReadOf ==
    ASSUME Standing, This.is = "binding", Now.change # "create"
    PROVE  /\ Now.read \in before.bindings /\ HeldBy(This, Now.read)
           /\ IsBindingOf(before, manifest, This, Now.read)
           /\ stage = "unassign" => Now.read \in tenant.bindings
           /\ Now.change = "no-change" => Applies(This, Now.read) /\ stage = "unassign"
<1>1. /\ Underway /\ Worked + 1 \in 1 .. Len(Asked) /\ This = Asked[Worked + 1]
      /\ Change(Worked + 1) = Now.change /\ ReadFor(Worked + 1) = Now.read
      /\ Now.change \in {"create", "update", "no-change"}
  BY StandingIs
<1>2. BindingIs(This, Now.change, Now.read, Replacing(Worked + 1))
  BY <1>1 DEF Standing, BindingsStand
<1>3. Now.change = "no-change" => stage = "unassign"
  BY DEF Standing, StageFits, Rebinds
<1>4. stage = "unassign" => ~Replacing(Worked + 1)
  BY DEF Replacing
<1> QED
  BY <1>1, <1>2, <1>3, <1>4 DEF BindingIs

\* The bindings of the other items are left alone.
LEMMA OthersHeld ==
    ASSUME Standing, Goes, NEW j \in 1 .. Len(Asked), j # Worked + 1, Asked[j].is = "binding",
           NEW b \in tenant.bindings, HeldBy(Asked[j], b)
    PROVE  b \in tenant'.bindings
<1>1. Worked + 1 \in 1 .. Len(Asked) /\ This = Asked[Worked + 1]
  BY StandingIs
<1>2. CASE GoesOn
  <2>1. This.is = "binding" /\ HeldBy(This, Now.read)
    BY <1>2, AfterGoingOn, ReadOf
  <2>2. ~(b.role = Now.read.role /\ b.subject = Now.read.subject)
    BY <1>1, <2>1, HeldApart
  <2> QED
    BY <2>2, BindingsGo
<1>3. CASE ~GoesOn
  BY <1>3, BindingsGo
<1> QED
  BY <1>2, <1>3

LEMMA BindingStill ==
    ASSUME Standing, Goes, NEW j \in 1 .. Len(Asked), j # Worked + 1, Asked[j].is = "binding",
           NEW it, it = Asked[j], NEW c, NEW b, BindingIs(it, c, b, FALSE)
    PROVE  BindingIs(it, c, b, FALSE)'
<1>1. UNCHANGED <<manifest, before>>
  BY GoesIs
<1>2. IsBindingOf(before, manifest, it, b)' <=> IsBindingOf(before, manifest, it, b)
  BY <1>1
<1>3. \A x \in tenant.bindings : HeldBy(it, x) => x \in tenant'.bindings
  BY OthersHeld
<1>4. \A x : (HeldBy(it, x) => HeldBy(it, x)') /\ (Applies(it, x) => Applies(it, x)')
  BY HeldStill
<1> QED
  BY <1>1, <1>2, <1>3, <1>4 DEF BindingIs

\* The binding that the manifest wants.
LEMMA WantedFits ==
    ASSUME Standing, This.is = "binding", NEW reach
    PROVE  HeldBy(This, Wanted(reach)) /\ Applies(This, Wanted(reach))
<1> DEFINE sk == <<SubjectKind(manifest, This.key), This.key>>  rk == <<"role", This.on>>
<1>1. Needs(manifest, This) \subseteq DOMAIN resolved.ids
  BY StandingIs DEF Sendable, Resolves
<1>2. /\ {rk, sk} \subseteq Needs(manifest, This)
      /\ This.at # None => <<"resource", This.at>> \in Needs(manifest, This)
  BY DEF Needs
<1>3. HeldBy(This, Wanted(reach))
  BY <1>1, <1>2, WantedIs DEF HeldBy, Resolves
<1>4. Applies(This, Wanted(reach))
  BY <1>1, <1>2, WantedIs DEF Applies, Knows
<1> QED
  BY <1>3, <1>4

\* How the binding of a step comes to be there.
LEMMA BindingMade ==
    ASSUME Standing, Succeeds, This.is = "binding"
    PROVE  \/ /\ Now.change = "no-change" /\ stage = "unassign"
              /\ Now.read \in tenant'.bindings /\ tenant'.bindings = tenant.bindings
           \/ /\ Now.change = "create" /\ stage = "unassign"
              /\ Wanted("all") \in tenant'.bindings
           \/ Now.change = "update" /\ Wanted(Now.read.reach) \in tenant'.bindings
<1>1. Consistent(tenant) /\ Now.change \in {"create", "update", "no-change"}
  BY StandingIs
<1>2. stage # "unassign" => Rebinds
  BY DEF Standing, StageFits
<1>3. CASE Unchanged
  <2>1. Now.change = "no-change" /\ tenant' = tenant
    BY <1>3 DEF Unchanged
  <2> QED
    BY <2>1, ReadOf
<1>4. CASE Runs
  <2>1. Now.change = "create" /\ stage = "unassign"
    BY <1>1, <1>2, <1>4 DEF Runs, Changes, Rebinds
  <2>2. Assigns(Wanted("all"))
    BY <1>4, <2>1 DEF Runs, Does, Shape, Network
  <2> QED
    BY <1>1, <2>1, <2>2, AssignServed, WantedIs
<1>5. CASE Reassigns /\ Over("updated")
  <2>1. stage' = "unassign" /\ Now.change = "update"
    BY <1>5 DEF Over, Reassigns, Rebinds
  <2>2. Assigns(Wanted(Now.read.reach))
    BY <1>5, <2>1 DEF Reassigns, tenantScope
  <2> QED
    BY <1>1, <2>1, <2>2, AssignServed, WantedIs
<1> QED
  BY <1>3, <1>4, <1>5 DEF Succeeds

LEMMA BindingDone ==
    ASSUME Standing, Succeeds, This.is = "binding"
    PROVE  \E c \in tenant'.bindings : HeldBy(This, c) /\ Applies(This, c)
<1>1. CASE Now.change = "no-change" /\ Now.read \in tenant'.bindings
  BY <1>1, ReadOf
<1>2. CASE \E reach : Wanted(reach) \in tenant'.bindings
  BY <1>2, WantedFits
<1> QED
  BY <1>1, <1>2, BindingMade

LEMMA BindingsStandGoing ==
    ASSUME Standing, Goes
    PROVE  BindingsStand'
<1>1. /\ Underway /\ Worked + 1 \in 1 .. Len(Asked) /\ This = Asked[Worked + 1]
      /\ Change(Worked + 1) = Now.change /\ ReadFor(Worked + 1) = Now.read
  BY StandingIs
<1>2. ASSUME NEW j \in 1 .. Len(Asked), Asked[j].is = "binding", j # Worked + 1,
             NEW it, it = Asked[j]
      PROVE  \A c, b : c = Change(j) /\ b = ReadFor(j) => BindingIs(it, c, b, FALSE)'
  <2>1. BindingIs(it, Change(j), ReadFor(j), Replacing(j)) /\ Replacing(j) = FALSE
    BY <1>1, <1>2 DEF Standing, BindingsStand, Replacing
  <2>2. ASSUME NEW c, NEW b, c = Change(j), b = ReadFor(j) PROVE BindingIs(it, c, b, FALSE)'
    <3>1. BindingIs(it, c, b, FALSE)
      BY <2>1, <2>2
    <3> QED
      BY <1>2, <3>1, BindingStill
  <2> QED
    BY <2>2
<1>3. CASE Succeeds
  <2>1. Asked' = Asked /\ \A j : Replacing(j)' = FALSE
    BY <1>3, AfterSuccess DEF Replacing
  <2>2. ASSUME NEW j \in 1 .. Len(Asked), Asked[j].is = "binding",
               NEW it, it = Asked[j], NEW c, c = Change(j)', NEW b, b = ReadFor(j)'
        PROVE  BindingIs(it, c, b, FALSE)'
    <3>1. CASE j = Worked + 1
      <4>1. c = "over"
        BY <1>3, <2>2, <3>1, AfterSuccess
      <4>2. it = This
        BY <1>1, <2>2, <3>1
      <4>3. PICK x \in tenant'.bindings : HeldBy(it, x) /\ Applies(it, x)
        BY <1>3, <2>2, <4>2, BindingDone
      <4>4. HeldBy(it, x)' /\ Applies(it, x)'
        BY <4>3, HeldStill
      <4> QED
        BY <4>1, <4>3, <4>4 DEF BindingIs
    <3>2. CASE j # Worked + 1
      <4>1. c = Change(j) /\ (c # "over" => b = ReadFor(j))
        BY <1>3, <2>2, <3>2, AfterSuccess
      <4>2. ASSUME NEW r, r = ReadFor(j) PROVE BindingIs(it, c, r, FALSE)'
        BY <1>2, <2>2, <3>2, <4>1, <4>2
      <4>3. PICK r : r = ReadFor(j)
        OBVIOUS
      <4>4. BindingIs(it, c, r, FALSE)'
        BY <4>2, <4>3
      <4>5. CASE c = "over"
        BY <4>4, <4>5 DEF BindingIs
      <4>6. CASE c # "over"
        BY <4>1, <4>3, <4>4, <4>6
      <4> QED
        BY <4>5, <4>6
    <3> QED
      BY <3>1, <3>2
  <2>3. \A j \in 1 .. Len(Asked) : Asked[j].is = "binding" =>
            BindingIs(Asked[j], Change(j), ReadFor(j), FALSE)'
    <3> SUFFICES ASSUME NEW j \in 1 .. Len(Asked), Asked[j].is = "binding"
                 PROVE  BindingIs(Asked[j], Change(j), ReadFor(j), FALSE)'
      OBVIOUS
    <3> QED
      BY <2>1, <2>2
  <2> QED
    BY <2>1, <2>3 DEF BindingsStand
<1>4. CASE GoesOn
  <2>1. /\ Asked' = Asked /\ Worked' = Worked
        /\ \A j : Change(j)' = Change(j) /\ ReadFor(j)' = ReadFor(j)
        /\ This.is = "binding" /\ Now.change = "update"
    BY <1>4, AfterGoingOn
  <2>2. \A j : Replacing(j)' = (j = Worked + 1)
    BY <1>4, <2>1 DEF Replacing, GoesOn
  <2>3. ASSUME NEW j \in 1 .. Len(Asked), Asked[j].is = "binding",
               NEW it, it = Asked[j], NEW c, c = Change(j), NEW b, b = ReadFor(j)
        PROVE  BindingIs(it, c, b, Replacing(j))'
    <3>1. CASE j = Worked + 1
      <4>1. c = "update" /\ b = Now.read /\ it = This
        BY <1>1, <2>1, <2>3, <3>1
      <4>2. b \in before.bindings /\ HeldBy(it, b) /\ IsBindingOf(before, manifest, it, b)
        BY <2>1, <4>1, ReadOf
      <4>3. UNCHANGED <<manifest, before>>
        BY GoesIs
      <4>4. HeldBy(it, b)' /\ IsBindingOf(before, manifest, it, b)' /\ b \in before'.bindings
        BY <4>2, <4>3, HeldStill
      <4>5. Replacing(j)' = TRUE
        BY <2>2, <3>1
      <4> QED
        BY <4>1, <4>4, <4>5 DEF BindingIs
    <3>2. CASE j # Worked + 1
      <4>1. Replacing(j)' = FALSE
        BY <2>2, <3>2
      <4>2. BindingIs(it, c, b, FALSE)'
        BY <1>2, <2>3, <3>2
      <4> QED
        BY <4>1, <4>2
    <3> QED
      BY <3>1, <3>2
  <2>4. \A j \in 1 .. Len(Asked) : Asked[j].is = "binding" =>
            BindingIs(Asked[j], Change(j), ReadFor(j), Replacing(j))'
    <3> SUFFICES ASSUME NEW j \in 1 .. Len(Asked), Asked[j].is = "binding"
                 PROVE  BindingIs(Asked[j], Change(j), ReadFor(j), Replacing(j))'
      OBVIOUS
    <3> QED
      BY <2>1, <2>3
  <2> QED
    BY <2>1, <2>4 DEF BindingsStand
<1> QED
  BY <1>3, <1>4 DEF Goes

-----------------------------------------------------------------------------
(* The bindings of before *)

Like(c, b) == <<c.role, c.subject, c.reach>> = <<b.role, b.subject, b.reach>>

Kept(t) == \A b \in before.bindings : \E c \in t.bindings : Like(c, b)

\* Each binding of before is there, but for the one that is replaced.
KeptBut(t) ==
    \A b \in before.bindings : b = Now.read \/ \E c \in t.bindings : Like(c, b)

LEMMA KeptIs ==
    ASSUME Standing
    PROVE  /\ stage = "unassign" => Kept(tenant)
           /\ Rebinds => KeptBut(tenant)
           /\ ~Rebinds => stage = "unassign"
  BY DEF Standing, BindingsKept, StageFits, Kept, KeptBut, Like

LEMMA KeptGrows ==
    ASSUME NEW t, NEW u, t.bindings \subseteq u.bindings
    PROVE  (Kept(t) => Kept(u)) /\ (KeptBut(t) => KeptBut(u))
  BY DEF Kept, KeptBut

\* All that is taken away is the one that is replaced.
LEMMA KeptWithout ==
    ASSUME Standing, Rebinds, stage = "unassign",
           NEW u, \A x \in tenant.bindings : x \in u.bindings
                    \/ (x.role = Now.read.role /\ x.subject = Now.read.subject)
    PROVE  KeptBut(u)
<1>1. Kept(tenant) /\ Now.read \in before.bindings
  BY KeptIs, ReadOf DEF Rebinds
<1>2. Bindings(before.bindings)
  BY StandingIs, ConsistentIs
<1>3. ASSUME NEW b \in before.bindings, NEW c \in tenant.bindings, Like(c, b), c \notin u.bindings
      PROVE  b = Now.read
  <2>1. c.role = Now.read.role /\ c.subject = Now.read.subject
    BY <1>3
  <2>2. b.role = Now.read.role /\ b.subject = Now.read.subject
    BY <1>3, <2>1 DEF Like
  <2> QED
    BY <1>1, <1>2, <2>2 DEF Bindings
<1> QED
  BY <1>1, <1>3 DEF Kept, KeptBut

LEMMA KeptAfter ==
    ASSUME Standing, Succeeds
    PROVE  Kept(tenant')
<1>1. tenant.bindings \subseteq tenant'.bindings
  <2>1. CASE ~GoesOn
    BY <2>1, BindingsGo DEF Goes
  <2>2. CASE GoesOn
    BY <2>2 DEF GoesOn, Succeeds
  <2> QED
    BY <2>1, <2>2
<1>2. CASE stage = "unassign"
  BY <1>1, <1>2, KeptIs, KeptGrows
<1>3. CASE stage # "unassign"
  <2>1. Rebinds /\ This.is = "binding" /\ Now.change = "update" /\ KeptBut(tenant)
    BY <1>3, KeptIs DEF Rebinds
  <2>2. Wanted(Now.read.reach) \in tenant'.bindings
    BY <2>1, BindingMade
  <2>3. HeldBy(This, Now.read) /\ HeldBy(This, Wanted(Now.read.reach))
    BY <2>1, ReadOf, WantedFits
  <2>4. Like(Wanted(Now.read.reach), Now.read)
    BY <2>3, WantedIs DEF HeldBy, Like
  <2>5. KeptBut(tenant')
    BY <1>1, <2>1, KeptGrows
  <2> QED
    BY <2>2, <2>4, <2>5 DEF Kept, KeptBut
<1> QED
  BY <1>2, <1>3

LEMMA BindingsKeptGoing ==
    ASSUME Standing, Goes
    PROVE  BindingsKept'
<1>1. before' = before
  BY GoesIs
<1>2. CASE Succeeds
  BY <1>1, <1>2, KeptAfter DEF Kept, Like, BindingsKept
<1>3. CASE GoesOn
  <2>1. UNCHANGED steps /\ Rebinds /\ stage' # "unassign"
    BY <1>3 DEF GoesOn
  <2>2. KeptBut(tenant')
    <3>1. CASE tenant.bindings \subseteq tenant'.bindings
      BY <2>1, <3>1, KeptIs, KeptGrows
    <3>2. CASE ~(tenant.bindings \subseteq tenant'.bindings)
      BY <2>1, <3>2, BindingsGo, KeptWithout
    <3> QED
      BY <3>1, <3>2
  <2>3. Now' = Now /\ Rebinds'
    BY <2>1 DEF Now, This, Rebinds
  <2> QED
    BY <1>1, <2>1, <2>2, <2>3 DEF KeptBut, Like, BindingsKept
<1> QED
  BY <1>2, <1>3 DEF Goes

\* A step that fails ends the run, and the report says so.
LEMMA GivenUp ==
    ASSUME TypeInv, Executes, GivesUp
    PROVE  ~Underway' /\ phase' = "done" /\ stage' = "unassign"
<1>1. PICK status \in {"failed", "restored", "rebind-failed"} : Over(status)
  BY DEF GivesUp
<1>2. Ended(status)
  <2>1. steps # <<>>
    BY ExecutesIs DEF Executing
  <2> QED
    BY <1>1, <2>1, OverIs DEF TypeInv, StepsTyped
<1>3. status \notin Done
  BY <1>1 DEF Done
<1> QED
  BY <1>2, <1>3 DEF Ended, Outcome, Underway, GivesUp

StandInv ==
    /\ KnownInv /\ ReadsHold /\ PagesLeft
    /\ ObjectsStand /\ LinksStand /\ BindingsStand /\ BindingsKept /\ StageFits

LEMMA StandingFrom ==
    ASSUME StandInv, phase = "executing", ~meddled
    PROVE  Standing
  BY DEF StandInv, KnownInv, Standing

\* Nothing is to be shown of a run that is not under way.
LEMMA NotUnderway ==
    ASSUME ~Underway, phase # "executing" \/ meddled
    PROVE  ObjectsStand /\ LinksStand /\ BindingsStand /\ BindingsKept
  BY DEF ObjectsStand, LinksStand, BindingsStand, BindingsKept

LEMMA StandNext ==
    ASSUME StandInv, [Next]_vars
    PROVE  StandInv'
<1>1. KnownInv' /\ ReadsHold' /\ PagesLeft'
  BY TypeNext, StepsFollowNext, KeysKnownNext, ReadsHoldNext, PagesLeftNext DEF StandInv, KnownInv
<1>2. TypeInv /\ StepsFollow /\ KeysKnown /\ StageFits
  BY DEF StandInv, KnownInv
<1> SUFFICES ObjectsStand' /\ LinksStand' /\ BindingsStand' /\ BindingsKept' /\ StageFits'
  BY <1>1 DEF StandInv
<1>3. CASE \E m \in Manifests : Apply(m)
  <2>1. phase' \in {"reading", "threw"} /\ stage' = "unassign"
    BY <1>3 DEF Apply
  <2> QED
    BY <2>1 DEF ObjectsStand, LinksStand, BindingsStand, BindingsKept, StageFits, Underway
<1>4. CASE ReadNext \/ ReadFails
  <2>1. phase' \in {"reading", "threw"} /\ stage' = stage /\ phase = "reading"
    BY <1>4 DEF ReadNext, ReadFails
  <2>2. stage' = "unassign"
    BY <1>2, <2>1 DEF StageFits, Executing
  <2> QED
    BY <2>1, <2>2 DEF ObjectsStand, LinksStand, BindingsStand, BindingsKept, StageFits, Underway
<1>5. CASE Plan
  <2>1. stage' = stage /\ phase = "reading"
    BY <1>5 DEF Plan
  <2>2. stage' = "unassign"
    BY <1>2, <2>1 DEF StageFits, Executing
  <2> QED
    BY <1>2, <1>5, <2>2, PlanStands DEF StandInv, StageFits
<1>6. CASE Executes
  <2>1. phase = "executing" /\ meddled' = meddled
    BY <1>2, <1>6, ExecutesIs DEF Executing, Same
  <2>2. Succeeds \/ GivesUp \/ GoesOn
    BY <1>2, <1>6, Ways
  <2>3. StageFits'
    <3>1. CASE stage' = "unassign"
      BY <3>1 DEF StageFits
    <3>2. CASE GoesOn
      BY <3>2 DEF GoesOn, StageFits, Changes, Executing, Rebinds, This, Now
    <3> QED
      BY <2>2, <3>1, <3>2 DEF Succeeds, GivesUp
  <2>4. CASE meddled
    BY <2>1, <2>3, <2>4 DEF ObjectsStand, LinksStand, BindingsStand, BindingsKept, Underway
  <2>5. CASE ~meddled /\ GivesUp
    <3>1. ~Underway' /\ phase' = "done"
      BY <1>2, <1>6, <2>5, GivenUp
    <3> QED
      BY <2>3, <3>1 DEF ObjectsStand, LinksStand, BindingsStand, BindingsKept
  <2>6. CASE ~meddled /\ (Succeeds \/ GoesOn)
    <3>1. Standing /\ Goes
      BY <2>1, <2>6, StandingFrom DEF Goes
    <3> QED
      BY <2>3, <3>1, ObjectsStandGoing, LinksStandGoing, BindingsStandGoing, BindingsKeptGoing
  <2> QED
    BY <2>2, <2>4, <2>5, <2>6
<1>7. CASE Administrates
  <2>1. meddled' = TRUE /\ UNCHANGED <<phase, steps, stage>>
    BY <1>7 DEF Administrates
  <2>2. StageFits'
    BY <1>2, <2>1 DEF StageFits, Executing, Rebinds, This, Now
  <2> QED
    BY <2>1, <2>2 DEF ObjectsStand, LinksStand, BindingsStand, BindingsKept, Underway
<1>8. CASE UNCHANGED vars
  <2>1. /\ UNCHANGED vars /\ StageFits
        /\ ObjectsStand /\ LinksStand /\ BindingsStand /\ BindingsKept
    BY <1>8 DEF StandInv
  <2>2. /\ Asked' = Asked /\ Worked' = Worked
        /\ Underway' = Underway /\ Executing' = Executing
        /\ Rebinds' = Rebinds /\ This' = This /\ Now' = Now
    BY <2>1 DEF vars, Asked, Worked, Underway, Executing, Rebinds, This, Now
  <2>3. \A j : Change(j)' = Change(j) /\ ReadFor(j)' = ReadFor(j) /\ Replacing(j)' = Replacing(j)
    BY <2>1, <2>2 DEF vars, Change, ReadFor, Replacing
  <2>4. resolved' = resolved /\ tenant' = tenant /\ manifest' = manifest /\ before' = before
        /\ stage' = stage /\ phase' = phase /\ meddled' = meddled
    BY <2>1 DEF vars
  <2>5. ObjectsStand'
    BY <2>1, <2>2, <2>3, <2>4 DEF ObjectsStand
  <2>6. LinksStand'
    BY <2>1, <2>2, <2>3, <2>4 DEF LinksStand
  <2>7. \A it, b : (HeldBy(it, b)' <=> HeldBy(it, b)) /\ (Applies(it, b)' <=> Applies(it, b))
    BY <2>4 DEF HeldBy, Applies, LeftEverywhere
  <2>8. \A it, c, b, x : BindingIs(it, c, b, x) => BindingIs(it, c, b, x)'
    BY <2>4, <2>7 DEF BindingIs
  <2>9. BindingsStand'
    BY <2>1, <2>2, <2>3, <2>4, <2>8 DEF BindingsStand
  <2>10. BindingsKept' /\ StageFits'
    BY <2>1, <2>2, <2>4 DEF BindingsKept, StageFits
  <2> QED
    BY <2>5, <2>6, <2>9, <2>10
<1> QED
  BY <1>3, <1>4, <1>5, <1>6, <1>7, <1>8 DEF Next, Executes

\* A run that nobody disturbs does what it reports: the inductive invariant of apply().
THEOREM StandInvariant == Spec => []StandInv
<1>1. Init => StandInv
  <2>1. DOMAIN <<>> = {}
    OBVIOUS
  <2> QED
    BY <2>1, TypeInit DEF Init, StandInv, KnownInv, StepsFollow, KeysKnown, ReadsHold, PagesLeft,
         ObjectsStand, LinksStand, BindingsStand, BindingsKept, StageFits, Underway
<1>2. StandInv /\ [Next]_vars => StandInv'
  BY StandNext
<1> QED
  BY <1>1, <1>2, PTL DEF Spec

\* What BindingAccounted says of the report r and the tenant t.
Told(r, b) ==
    \E i \in DOMAIN r : /\ r[i].status \in {"failed", "rebind-failed"}
                        /\ IsBindingOf(before, manifest, r[i].item, b)

RestoredIn(r, t) ==
    \A i \in DOMAIN r : r[i].status = "restored" =>
        \E b \in before.bindings \cap t.bindings : IsBindingOf(before, manifest, r[i].item, b)

AccountsFor(r, t) ==
    /\ \A b \in before.bindings : Told(r, b) \/ \E c \in t.bindings : Like(c, b)
    /\ RestoredIn(r, t)

LEMMA AccountedIs ==
    BindingAccounted <=> (phase \in {"done", "threw"} /\ ~meddled => AccountsFor(report, tenant))
  BY DEF BindingAccounted, AccountsFor, RestoredIn, Told, Like

LEMMA AccountedAfter ==
    ASSUME UNCHANGED <<manifest, before>>, AccountsFor(report', tenant')
    PROVE  BindingAccounted'
<1>1. \A it, b : IsBindingOf(before, manifest, it, b)' <=> IsBindingOf(before, manifest, it, b)
  OBVIOUS
<1>2. \A b \in before.bindings :
        \/ \E c \in tenant'.bindings : <<c.role, c.subject, c.reach>>
                                       = <<b.role, b.subject, b.reach>>
        \/ \E i \in DOMAIN report' : /\ report'[i].status \in {"failed", "rebind-failed"}
                                     /\ IsBindingOf(before, manifest, report'[i].item, b)
  BY DEF AccountsFor, Told, Like
<1>3. \A i \in DOMAIN report' : report'[i].status = "restored" =>
        \E b \in before.bindings \cap tenant'.bindings :
            IsBindingOf(before, manifest, report'[i].item, b)
  BY DEF AccountsFor, RestoredIn
<1> QED
  BY <1>2, <1>3 DEF BindingAccounted

\* A report of steps that are done says nothing of a binding that is lost.
LEMMA AllDone ==
    ASSUME NEW r, NEW t, Kept(t), \A i \in DOMAIN r : r[i].status \in Done
    PROVE  AccountsFor(r, t)
<1>1. \A i \in DOMAIN r : r[i].status # "restored"
  BY DEF Done
<1> QED
  BY <1>1 DEF AccountsFor, RestoredIn, Kept

\* The report of a step that failed, or whose binding was restored.
LEMMA EndedReport ==
    ASSUME \A i \in DOMAIN report : report[i].status \in Done, NEW status, Ended(status)
    PROVE  /\ \A i \in DOMAIN report' : report'[i].status = "restored" =>
                 status = "restored" /\ report'[i].item = This
           /\ \A b : status \in {"failed", "rebind-failed"}
                     /\ IsBindingOf(before, manifest, This, b) => Told(report', b)
           /\ status \in Done => \A i \in DOMAIN report' : report'[i].status \in Done
<1>1. \A i \in DOMAIN report' : \/ report'[i].status \in Done
                                \/ report'[i] = Outcome(This, status)
                                \/ status \notin Done /\ report'[i].status = "not-attempted"
  BY DEF Ended
<1>2. Outcome(This, status).status = status /\ Outcome(This, status).item = This
  BY DEF Outcome
<1>3. \A i \in DOMAIN report' : report'[i].status = "restored" =>
                 status = "restored" /\ report'[i].item = This
  BY <1>1, <1>2 DEF Done
<1>4. status \in Done => \A i \in DOMAIN report' : report'[i].status \in Done
  BY <1>1, <1>2
<1>5. PICK i \in DOMAIN report' : report'[i] = Outcome(This, status)
  BY DEF Ended
<1> QED
  BY <1>2, <1>3, <1>4, <1>5 DEF Told

LEMMA DoesGrows ==
    ASSUME TypeInv, Changes, Does
    PROVE  tenant.bindings \subseteq tenant'.bindings
<1>1. Consistent(tenant) /\ Executing
  BY DEF TypeInv, Changes
<1>2. CASE This.is \in Shape \cup Network /\ CreatesObject
  BY <1>1, <1>2, CreateServed
<1>3. CASE This.is \in Shape \cup Network /\ UpdatesObject
  <2>1. Now.read.rest \in Rests
    BY <1>1, <1>3, NowTyped DEF StepTyped, IsObject, IsRead, This
  <2> QED
    BY <1>1, <1>3, <2>1, UpdateServed
<1>4. CASE Links
  BY <1>1, <1>4, LinkServed
<1>5. CASE Assigns(Wanted("all"))
  BY <1>1, <1>5, AssignServed, WantedIs
<1> QED
  BY <1>2, <1>3, <1>4, <1>5 DEF Does

\* What is taken away of a rebind's previous binding, also when its answer is lost.
LEMMA UnassignKeeps ==
    ASSUME Standing, Unassigns
    PROVE  KeptBut(tenant')
<1> DEFINE previous == {b \in tenant.bindings :
                          b.role = Now.read.role /\ b.subject = Now.read.subject
                          /\ b.resource = Now.read.resource}
<1>1. Rebinds /\ stage = "unassign"
      /\ (tenant' = tenant \/ tenant' = [tenant EXCEPT !.bindings = @ \ previous])
  BY DEF Unassigns
<1>2. \A x \in previous : x.role = Now.read.role /\ x.subject = Now.read.subject
  OBVIOUS
<1>3. IsTenant(tenant)
  BY StandingIs, VersionsAre
<1> HIDE DEF previous
<1>4. \A x \in tenant.bindings : x \in tenant'.bindings
                    \/ (x.role = Now.read.role /\ x.subject = Now.read.subject)
  BY <1>1, <1>2, <1>3 DEF IsTenant
<1> QED
  BY <1>1, <1>4, KeptWithout

\* A rebind that failed is reported of the binding it was to replace.
LEMMA ReplacedTold ==
    ASSUME Standing, Rebinds, KeptBut(tenant'), NEW status \in {"failed", "rebind-failed"},
           Ended(status)
    PROVE  AccountsFor(report', tenant')
<1>1. \A i \in DOMAIN report : report[i].status \in Done
  BY DEF Standing, StepsFollow
<1>2. IsBindingOf(before, manifest, This, Now.read)
  BY ReadOf DEF Rebinds
<1>3. Told(report', Now.read)
  BY <1>1, <1>2, EndedReport
<1>4. RestoredIn(report', tenant')
  BY <1>1, EndedReport DEF RestoredIn
<1> QED
  BY <1>3, <1>4 DEF AccountsFor, KeptBut

LEMMA GivenUpAccounted ==
    ASSUME Standing, Executes, GivesUp
    PROVE  AccountsFor(report', tenant')
<1>1. /\ \A i \in DOMAIN report : report[i].status \in Done
      /\ phase = "executing" /\ phase' = "done" /\ Consistent(tenant) /\ steps # <<>>
      /\ Failed = "failed" /\ StepTyped(manifest, Now)
  BY StandingIs, SendableIs DEF Standing, StepsFollow, GivesUp, Executing
<1>2. \A status : Over(status) => Ended(status)
  BY <1>1, OverIs DEF Standing, TypeInv, StepsTyped
<1>3. CASE Fails
  <2>1. ~Rebinds /\ Over("failed") /\ (tenant' = tenant \/ Does) /\ Changes
    BY <1>1, <1>3 DEF Fails
  <2>2. Kept(tenant) /\ tenant.bindings \subseteq tenant'.bindings
    BY <2>1, KeptIs, DoesGrows DEF Standing
  <2>3. Kept(tenant')
    BY <2>2, KeptGrows
  <2>4. RestoredIn(report', tenant')
    BY <1>1, <1>2, <2>1, EndedReport DEF RestoredIn
  <2> QED
    BY <2>3, <2>4 DEF AccountsFor, Kept
<1>4. CASE Unassigns
  <2>1. Rebinds /\ Over("failed")
    BY <1>1, <1>4 DEF Unassigns
  <2> QED
    BY <1>2, <1>4, <2>1, UnassignKeeps, ReplacedTold
<1>5. CASE Restores
  <2>1. Rebinds /\ This.is = "binding" /\ Now.change = "update"
    BY <1>5 DEF Restores, Rebinds
  <2>2. KeptBut(tenant) /\ IsBinding(Now.read)
    BY <1>1, <2>1, KeptIs DEF StepTyped, This
  <2>3. Assigns(Now.read) => tenant'.bindings = tenant.bindings \cup {Now.read}
    BY <1>1, <2>2, AssignServed
  <2>4. tenant' = tenant \/ Assigns(Now.read)
    BY <1>5 DEF Restores, Restored
  <2>5. KeptBut(tenant')
    BY <2>2, <2>3, <2>4, KeptGrows
  <2>6. CASE Over("rebind-failed")
    BY <1>2, <2>1, <2>5, <2>6, ReplacedTold
  <2>7. CASE Assigns(Now.read) /\ Over("restored")
    <3>1. /\ Now.read \in before.bindings /\ IsBindingOf(before, manifest, This, Now.read)
          /\ Now.read \in tenant'.bindings
      BY <2>1, <2>3, <2>7, ReadOf
    <3>2. \A i \in DOMAIN report' : report'[i].status = "restored" => report'[i].item = This
      BY <1>1, <1>2, <2>7, EndedReport
    <3>3. RestoredIn(report', tenant')
      BY <3>1, <3>2 DEF RestoredIn
    <3> QED
      BY <2>5, <3>1, <3>3 DEF AccountsFor, KeptBut, Like
  <2> QED
    BY <1>5, <2>6, <2>7 DEF Restores, Restored
<1> QED
  BY <1>3, <1>4, <1>5 DEF GivesUp

LEMMA SucceededAccounted ==
    ASSUME Standing, Succeeds
    PROVE  AccountsFor(report', tenant')
<1>1. /\ \A i \in DOMAIN report : report[i].status \in Done
      /\ Executing /\ steps # <<>> /\ Executes
  BY StandingIs, GoesIs DEF Standing, StepsFollow, Executing, Goes
<1>2. \E status \in Done : Over(status)
  BY DEF Succeeds, Unchanged, Runs, Done
<1>3. \E status \in Done : Ended(status)
  BY <1>1, <1>2, OverIs DEF Standing, TypeInv, StepsTyped
<1>4. \A i \in DOMAIN report' : report'[i].status \in Done
  BY <1>1, <1>3, EndedReport
<1> QED
  BY <1>4, KeptAfter, AllDone

\* Before the first request all the bindings are there.
LEMMA AllKept ==
    ASSUME tenant.bindings = before.bindings
    PROVE  Kept(tenant)
  BY DEF Kept, Like

LEMMA AccountedNext ==
    ASSUME StandInv, BindingAccounted, [Next]_vars
    PROVE  BindingAccounted'
<1>1. TypeInv /\ StepsFollow /\ KeysKnown /\ ReadsHold
  BY DEF StandInv, KnownInv
<1> USE DEF BindingAccounted
<1>2. CASE \E m \in Manifests : Apply(m)
  <2> HIDE DEF BindingAccounted
  <2>1. report' = <<>> /\ before' = tenant /\ tenant' = tenant
    BY <1>2 DEF Apply
  <2>2. DOMAIN report' = {}
    BY <2>1
  <2>3. /\ \A b \in before'.bindings : b \in tenant'.bindings
        /\ \A i \in DOMAIN report' : FALSE
    BY <2>1, <2>2
  <2> QED
    BY <2>3 DEF BindingAccounted
<1>3. CASE ReadNext \/ ReadFails \/ Plan
  <2> HIDE DEF BindingAccounted
  <2>1. phase = "reading" /\ UNCHANGED <<manifest, tenant, before, report, meddled>>
    BY <1>3 DEF ReadNext, ReadFails, Plan
  <2>2. CASE meddled
    BY <2>1, <2>2 DEF BindingAccounted
  <2>3. CASE ~meddled
    <3>1. tenant = before /\ \A i \in DOMAIN report : report[i].status \in Done
      BY <1>1, <2>1, <2>3 DEF ReadsHold, StepsFollow
    <3>2. AccountsFor(report', tenant')
      BY <2>1, <3>1, AllKept, AllDone
    <3> QED
      BY <2>1, <3>2, AccountedAfter
  <2> QED
    BY <2>2, <2>3
<1>4. CASE Executes
  <2> HIDE DEF BindingAccounted
  <2>1. phase = "executing" /\ Same
    BY <1>1, <1>4, ExecutesIs, PhaseAfter
  <2>2. CASE meddled
    BY <2>1, <2>2 DEF BindingAccounted, Same
  <2>3. CASE ~meddled
    <3>1. Standing
      BY <2>1, <2>3, StandingFrom
    <3>2. Succeeds \/ GivesUp \/ GoesOn
      BY <1>1, <1>4, <2>1, Ways
    <3>3. CASE GoesOn
      BY <2>1, <3>3 DEF GoesOn, BindingAccounted
    <3>4. CASE Succeeds \/ GivesUp
      BY <1>4, <2>1, <3>1, <3>4, SucceededAccounted, GivenUpAccounted, AccountedAfter DEF Same
    <3> QED
      BY <3>2, <3>3, <3>4
  <2> QED
    BY <2>2, <2>3
<1>5. CASE Administrates
  BY <1>5 DEF Administrates
<1>6. CASE UNCHANGED vars
  <2>1. UNCHANGED <<phase, meddled, manifest, before, report, tenant>>
    BY <1>6 DEF vars
  <2>2. \A it, b : IsBindingOf(before, manifest, it, b)' <=> IsBindingOf(before, manifest, it, b)
    BY <2>1
  <2> QED
    BY <2>1, <2>2
<1> QED
  BY <1>2, <1>3, <1>4, <1>5, <1>6 DEF Next, Executes

\* A subject never loses a role, nor its tenant_scope, without a word (#rebind()): all
\* that a step takes away is the binding that it replaces, and that binding is assigned
\* again, restored, or told of in the report.
THEOREM BindingsAccounted == Spec => []BindingAccounted
<1>1. Init => BindingAccounted
  BY DEF Init, BindingAccounted
<1>2. StandInv /\ StandInv' /\ BindingAccounted /\ [Next]_vars => BindingAccounted'
  BY AccountedNext
<1> QED
  BY <1>1, <1>2, StandInvariant, PTL DEF Spec

\* A run that ended without a failure.
Settled ==
    /\ StandInv /\ Underway /\ phase = "done"
    /\ \A j \in 1 .. Len(Asked) : Change(j) = "over"

LEMMA SettledIs ==
    ASSUME StandInv, Complete
    PROVE  Settled
<1>1. Underway /\ phase = "done" /\ TypeInv
  BY DEF Complete, Underway, StandInv, KnownInv
<1>2. steps = <<>>
  BY <1>1 DEF TypeInv, StepsTyped
<1>3. Valid(manifest)
  BY <1>1, ManifestValid
<1>4. Len(Asked) \in Nat
  BY <1>3, ItemsAre DEF Asked
<1>5. Len(steps) = 0
  BY <1>2
<1>6. Worked = Len(Asked)
  BY <1>4, <1>5 DEF Worked
<1>7. \A j \in 1 .. Len(Asked) : j <= Worked
  BY <1>4, <1>6
<1> QED
  BY <1>1, <1>7 DEF Settled, Change

\* By then everything is resolved to where it is.
LEMMA SettledKnows ==
    ASSUME Settled
    PROVE  /\ Valid(manifest) /\ Consistent(tenant) /\ Len(Asked) \in Nat /\ DOMAIN Asked = 1 .. Len(Asked)
           /\ \A j \in 1 .. Len(Asked) :
                /\ ItemOf(manifest, Asked[j])
                /\ IsObject(Asked[j]) =>
                     \E o \in tenant.objects :
                         /\ Sole(resolved, tenant, Asked[j], o) /\ ~drifted(o)
                         /\ Asked[j].is \in Shape \cup {"segment"} =>
                              IdKey(Asked[j]) \in DOMAIN resolved.ids
                              /\ resolved.ids[IdKey(Asked[j])] = o.id
<1>1. Valid(manifest) /\ Consistent(tenant)
  BY ManifestValid DEF Settled, StandInv, KnownInv, TypeInv
<1>2. Asked \in Seq(ItemType(manifest)) /\ \A j \in DOMAIN Asked : ItemOf(manifest, Asked[j])
  BY <1>1, ItemsAre DEF Asked, Of
<1>3. Len(Asked) \in Nat /\ DOMAIN Asked = 1 .. Len(Asked)
  BY <1>2
<1>4. ASSUME NEW j \in 1 .. Len(Asked), IsObject(Asked[j])
      PROVE  \E o \in tenant.objects :
                 ObjectAt(resolved, tenant, Asked[j], "over", ReadFor(j), o)
  <2>1. ObjectIs(resolved, tenant, Asked[j], "over", ReadFor(j))
    BY <1>4 DEF Settled, StandInv, ObjectsStand
  <2> QED
    BY <2>1 DEF ObjectIs
<1> QED
  BY <1>1, <1>2, <1>3, <1>4 DEF ObjectAt, Knows, IdKey

LEMMA SettledLocates ==
    ASSUME Settled
    PROVE  /\ \A j \in 1 .. Len(Asked) : \A p \in Needs(manifest, Asked[j]) :
                p \in DOMAIN resolved.ids /\ p[1] \notin {"resource", "scope", "profile"} =>
                    Located(resolved, tenant, p)
           /\ \A k \in Up(manifest) : Declared(tenant, manifest, "resource", k) = Spot(resolved, k)
<1>1. \A l \in 1 .. Len(Asked) : Asked[l].is \in Shape \cup {"segment"} =>
          IdKey(Asked[l]) \in DOMAIN resolved.ids /\ ThereOnce(resolved, tenant, Asked[l])
  BY SettledKnows DEF ThereOnce, IsObject, Network
<1>2. Valid(manifest) /\ Consistent(tenant)
  BY SettledKnows
<1>3. \A l \in 1 .. Len(Asked) : Asked[l].is = "resource" =>
          /\ ThereOnce(resolved, tenant, Asked[l])
          /\ IdKey(Asked[l]) \notin DOMAIN resolved.ids => Found(resolved, tenant, Asked[l]) = {}
  BY <1>1 DEF Shape
<1>4. \A k \in Up(manifest) : Declared(tenant, manifest, "resource", k) = Spot(resolved, k)
  BY <1>2, <1>3, ResourcesLocated
<1>5. ASSUME NEW j \in 1 .. Len(Asked), NEW p \in Needs(manifest, Asked[j]),
             p \in DOMAIN resolved.ids, p[1] \notin {"resource", "scope", "profile"}
      PROVE  Located(resolved, tenant, p)
  BY <1>1, <1>2, <1>5, NeededLocated
<1> QED
  BY <1>4, <1>5

\* A declared object stands.
LEMMA ObjectStands ==
    ASSUME Settled, NEW j \in 1 .. Len(Asked), IsObject(Asked[j]), NEW it, it = Asked[j]
    PROVE  \E o \in tenant.objects : o.id = Declared(tenant, manifest, it.is, it.key)
                                     /\ (it.is = "scope" \/ o.value = "stated")
<1>1. PICK o \in tenant.objects : Sole(resolved, tenant, it, o) /\ ~drifted(o)
             /\ (it.is \in Shape \cup {"segment"} => IdKey(it) \in DOMAIN resolved.ids
                                                     /\ resolved.ids[IdKey(it)] = o.id)
  BY SettledKnows
<1>2. it.is = "scope" \/ o.value = "stated"
  BY <1>1, FoundHere DEF drifted
<1>3. Valid(manifest) /\ ItemOf(manifest, it)
  BY SettledKnows
<1>4. CASE it.is = "resource"
  <2>1. it.key \in Keys(manifest.resources) /\ None \notin Keys(manifest.resources)
    BY <1>3, <1>4, ParentIs DEF ItemOf
  <2>2. it.key \in Up(manifest) /\ it.key # None
    BY <2>1 DEF Up
  <2>3. Spot(resolved, it.key) = o.id
    BY <1>1, <1>4, <2>2 DEF Spot, IdKey, Shape
  <2> QED
    BY <1>1, <1>2, <1>4, <2>2, <2>3, SettledLocates
<1>5. CASE it.is = "scope"
  <2>1. Declared(tenant, manifest, "scope", it.key) = o.id
    BY <1>1, <1>3, <1>5, SettledLocates, DeclaredScope
  <2> QED
    BY <1>5, <2>1
<1>6. CASE it.is = "profile"
  <2>1. it.key \in Keys(manifest.segments) /\ it.on = it.key /\ None \notin Keys(manifest.segments)
    BY <1>3, <1>6, SectionsAre DEF ItemOf
  <2>2. <<"segment", it.on>> \in Needs(manifest, it)
    BY <1>6, <2>1 DEF Needs, OnKind
  <2>3. <<"segment", it.on>> \in DOMAIN resolved.ids
    BY <1>1, <1>6, <2>1, FoundHere DEF Reached, OnKind
  <2>4. Located(resolved, tenant, <<"segment", it.on>>)
    BY <2>2, <2>3, SettledLocates
  <2>5. resolved.ids[<<"segment", it.on>>] = Declared(tenant, manifest, "segment", it.on)
    BY <2>4 DEF Located
  <2>6. Declared(tenant, manifest, "profile", it.key) = o.id
    BY <1>1, <1>3, <1>6, <2>1, <2>5, DeclaredProfile
  <2> QED
    BY <1>2, <1>6, <2>6
<1>7. CASE it.is \notin {"resource", "scope", "profile"}
  <2>1. it.on = None
    BY <1>3, <1>7 DEF ItemOf, IsObject, Shape, Network
  <2>2. Declared(tenant, manifest, it.is, it.key) = o.id
    BY <1>1, <1>7, <2>1, DeclaredPlain
  <2> QED
    BY <1>2, <2>2
<1> QED
  BY <1>4, <1>5, <1>6, <1>7

LEMMA LinkStands ==
    ASSUME Settled, NEW j \in 1 .. Len(Asked), NEW it, it = Asked[j]
    PROVE  /\ it.is = "grant" =>
                <<Declared(tenant, manifest, "role", it.key),
                  Declared(tenant, manifest, "permission", it.on)>> \in tenant.grants
           /\ it.is = "member" =>
                <<Declared(tenant, manifest, "group", it.on),
                  Declared(tenant, manifest, "user", it.key)>> \in tenant.members
<1>1. it.is \in {"grant", "member"} => LinkThere(resolved, tenant, manifest, it)
  BY DEF Settled, StandInv, LinksStand
<1>2. ASSUME it.is = "grant"
      PROVE  <<Declared(tenant, manifest, "role", it.key),
               Declared(tenant, manifest, "permission", it.on)>> \in tenant.grants
  <2> DEFINE r == <<"role", it.key>>  p == <<"permission", it.on>>
  <2>1. r \in DOMAIN resolved.ids /\ p \in DOMAIN resolved.ids
        /\ <<resolved.ids[r], resolved.ids[p]>> \in tenant.grants
    BY <1>1, <1>2 DEF LinkThere, Resolves, Pair
  <2>2. r \in Needs(manifest, it) /\ p \in Needs(manifest, it)
    BY <1>2 DEF Needs
  <2>3. Located(resolved, tenant, r) /\ Located(resolved, tenant, p)
    BY <2>1, <2>2, SettledLocates
  <2> QED
    BY <2>1, <2>3 DEF Located
<1>3. ASSUME it.is = "member"
      PROVE  <<Declared(tenant, manifest, "group", it.on),
               Declared(tenant, manifest, "user", it.key)>> \in tenant.members
  <2> DEFINE g == <<"group", it.on>>  u == <<"user", it.key>>
  <2>1. LinkThere(resolved, tenant, manifest, it)
    BY <1>1, <1>3
  <2>2. g \in Needs(manifest, it) /\ u \in Needs(manifest, it)
    BY <1>3 DEF Needs
  <2>3. g \in DOMAIN resolved.ids /\ u \in DOMAIN resolved.ids
        /\ <<resolved.ids[g], resolved.ids[u]>> \in tenant.members
    BY <1>3, <2>1, <2>2 DEF LinkThere, Resolves, Pair
  <2>4. Located(resolved, tenant, g) /\ Located(resolved, tenant, u)
    BY <2>2, <2>3, SettledLocates
  <2> QED
    BY <2>3, <2>4 DEF Located
<1> QED
  BY <1>2, <1>3

LEMMA BindingStands ==
    ASSUME Settled, NEW j \in 1 .. Len(Asked), NEW it, it = Asked[j], it.is = "binding"
    PROVE  \E b \in tenant.bindings :
               /\ IsBindingOf(tenant, manifest, it, b) /\ b.inherit = it.inherit
               /\ \/ b.resource = IF it.at = None THEN Root
                                  ELSE Declared(tenant, manifest, "resource", it.at)
                  \/ LeftEverywhere(it, b)
<1>1. BindingIs(it, "over", ReadFor(j), Replacing(j))
  BY DEF Settled, StandInv, BindingsStand
<1>2. PICK b \in tenant.bindings : HeldBy(it, b) /\ Applies(it, b)
  BY <1>1 DEF BindingIs
<1> DEFINE r == <<"role", it.on>>  s == <<SubjectKind(manifest, it.key), it.key>>
<1>3. /\ r \in DOMAIN resolved.ids /\ s \in DOMAIN resolved.ids
      /\ b.role = resolved.ids[r] /\ b.subject = resolved.ids[s]
  BY <1>2 DEF HeldBy, Resolves
<1>4. r \in Needs(manifest, it) /\ s \in Needs(manifest, it)
  BY DEF Needs
<1>5. r[1] \notin {"resource", "scope", "profile"} /\ s[1] \notin {"resource", "scope", "profile"}
  BY DEF SubjectKind
<1>6. Located(resolved, tenant, r) /\ Located(resolved, tenant, s)
  <2> HIDE DEF r, s
  <2> QED
    BY <1>3, <1>4, <1>5, SettledLocates
<1>7. IsBindingOf(tenant, manifest, it, b)
  BY <1>3, <1>6 DEF IsBindingOf, Located
<1>8. ASSUME it.at # None, Knows(resolved, "resource", it.at)
      PROVE  Declared(tenant, manifest, "resource", it.at) = IdOf(resolved, "resource", it.at)
  <2>1. it.at \in Up(manifest)
    BY SettledKnows DEF ItemOf
  <2>2. Declared(tenant, manifest, "resource", it.at) = Spot(resolved, it.at)
    BY <2>1, SettledLocates
  <2> QED
    BY <1>8, <2>2 DEF Spot, Knows, IdOf
<1>9. it.at = None => IdOf(resolved, "resource", it.at) = Root
  BY DEF IdOf
<1> QED
  BY <1>2, <1>7, <1>8, <1>9 DEF Applies

LEMMA AllStand ==
    ASSUME Settled, OddBefore, NEW j \in 1 .. Len(Asked)
    PROVE  Stands(Asked[j])
<1> SUFFICES ASSUME NEW it, it = Asked[j] PROVE Stands(it)
  OBVIOUS
<1>0. /\ tenant.altered \subseteq before.altered
      /\ \A o \in tenant.objects : o.value = "stated" \/ o \in before.objects
  BY DEF OddBefore, Settled, Underway
<1>1. CASE it.is \in {"grant", "member"}
  BY <1>0, <1>1, LinkStands DEF Stands
<1>2. CASE it.is = "binding"
  BY <1>2, BindingStands DEF Stands
<1>3. CASE it.is \notin {"grant", "member", "binding"}
  <2>1. IsObject(it)
    <3>1. ItemOf(manifest, it)
      BY SettledKnows
    <3>2. it.is \in Kinds
      BY <3>1 DEF ItemOf, ItemType
    <3> QED
      BY <1>3, <3>2 DEF Kinds, IsObject, Shape, Network
  <2> QED
    BY <1>0, <1>3, <2>1, ObjectStands DEF Stands
<1> QED
  BY <1>1, <1>2, <1>3

\* What is not as stated was so before the run: nothing that a step makes or changes is.
Odd(t, u) ==
    /\ u.altered \subseteq t.altered
    /\ \A o \in u.objects : o.value = "stated" \/ o \in t.objects

LEMMA DoesOdd ==
    ASSUME TypeInv, Changes, Does
    PROVE  Odd(tenant, tenant')
<1>1. Consistent(tenant) /\ Executing
  BY DEF TypeInv, Changes
<1>2. CASE This.is \in Shape \cup Network /\ CreatesObject
  <2>1. tenant'.objects = tenant.objects \cup {Fresh} /\ Fresh.value = "stated"
        /\ tenant'.altered = tenant.altered
    BY <1>1, <1>2, CreateServed
  <2> HIDE DEF Fresh
  <2> QED
    BY <2>1 DEF Odd
<1>3. CASE This.is \in Shape \cup Network /\ UpdatesObject
  <2>1. Now.read.rest \in Rests
    BY <1>1, <1>3, NowTyped DEF StepTyped, IsObject, IsRead, This
  <2>2. PICK o, new : /\ new.value = "stated" /\ tenant'.altered = tenant.altered
                      /\ tenant'.objects = (tenant.objects \ {o}) \cup {new}
    BY <1>1, <1>3, <2>1, UpdateServed
  <2> QED
    BY <2>2 DEF Odd
<1>4. CASE Links
  BY <1>1, <1>4, LinkServed DEF Odd
<1>5. CASE Assigns(Wanted("all"))
  BY <1>1, <1>5, AssignServed, WantedIs DEF Odd
<1> QED
  BY <1>2, <1>3, <1>4, <1>5 DEF Does

LEMMA OddNext ==
    ASSUME TypeInv, OddBefore, [Next]_vars
    PROVE  OddBefore'
<1>1. CASE Apply(manifest') \/ \E m \in Manifests : Apply(m)
  BY <1>1 DEF Apply, OddBefore
<1>2. CASE Administrates
  BY <1>2 DEF Administrates, OddBefore
<1>3. ASSUME UNCHANGED <<before, meddled>>, Odd(tenant, tenant')
      PROVE  OddBefore'
  BY <1>3 DEF OddBefore, Odd
<1>4. CASE UNCHANGED <<tenant, before, meddled>>
  BY <1>3, <1>4 DEF Odd
<1>5. CASE Runs \/ Fails
  <2>1. Changes /\ (UNCHANGED tenant \/ Does) /\ UNCHANGED <<before, meddled>>
    BY <1>5 DEF Runs, Fails, Same
  <2> QED
    BY <1>3, <1>4, <2>1, DoesOdd
<1>6. CASE Unassigns \/ Reassigns \/ Restores
  <2>1. UNCHANGED <<before, meddled>>
    BY <1>6 DEF Unassigns, Reassigns, Restores, Same
  <2> QED
    BY <1>3, <1>6, <2>1, BindingStepsSpare DEF Odd
<1> QED
  BY <1>1, <1>2, <1>4, <1>5, <1>6 DEF Next, ReadNext, ReadFails, Plan, Unchanged, Same, vars

LEMMA OddInvariant == Spec => []OddBefore
<1>1. Init => OddBefore
  BY DEF Init, OddBefore
<1>2. TypeInv /\ OddBefore /\ [Next]_vars => OddBefore'
  BY OddNext
<1> QED
  BY <1>1, <1>2, PrecedeInvariant, PTL DEF Spec

\* When apply() reports no failure, and nobody else worked on the tenant, everything the
\* manifest declares is there exactly once, where it was declared and as it was stated,
\* but for what Reconciled says is left as it was: each object that was read or created
\* is the only one of its kind and name below its parent, each step that is over has left
\* its object, link or binding so, and no step makes anything otherwise.
THEOREM ReconciledAlways == Spec => []Reconciled
<1>1. StandInv /\ OddBefore => Reconciled
  <2> SUFFICES ASSUME StandInv, OddBefore, Complete, NEW j \in DOMAIN Asked
               PROVE  Stands(Asked[j])
    BY DEF Reconciled, Asked
  <2>1. Settled
    BY SettledIs
  <2>2. j \in 1 .. Len(Asked)
    BY <2>1, SettledKnows
  <2> QED
    BY <2>1, <2>2, AllStand
<1> QED
  BY <1>1, StandInvariant, OddInvariant, PTL

=============================================================================
