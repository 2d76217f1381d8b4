------------------------ MODULE DownloadChannelProofs ------------------------
(***************************************************************************)
(* The accounts of a download channel, for every shard, any number of      *)
(* clients and receipts, lost, repeated and reordered, and any number of   *)
(* enlargements, stops, crashes and restarts: the total of a channel is    *)
(* the sum of its parts, no replicator is credited with more than is       *)
(* prepaid, nothing that was accepted is taken back, everything that was   *)
(* sent is covered, and the replicators agree once all receipts have come. *)
(***************************************************************************)
EXTENDS DownloadChannel, FiniteSetTheorems, WellFoundedInduction, TLAPS

------------------------------------------------------------------------------
(* Induction.  The set of the numbers, or of the subsets, for which a        *)
(* property holds stands for the property itself.                            *)

Less == {p \in Nat \X Nat : p[1] < p[2]}

\* Induction over numbers.
LEMMA NumberInduction ==
    ASSUME NEW T \in SUBSET Nat, 0 \in T, \A n \in Nat : n \in T => n + 1 \in T
    PROVE  T = Nat
<1> SUFFICES ASSUME T # Nat PROVE FALSE
  OBVIOUS
<1>1. IsWellFoundedOn(Less, Nat)
  BY NatLessThanWellFounded, Zenon DEF OpToRel, Less
<1>2. PICK B : B = Nat \ T
  OBVIOUS
<1>3. B \subseteq Nat /\ B # {}
  BY <1>2
<1>4. PICK n \in B : \A m \in B : ~(<<m, n>> \in Less)
  BY <1>1, <1>3, WFMin, Zenon
<1>5. n \in Nat /\ n \notin T /\ n # 0
  BY <1>2, <1>4
<1>6. n - 1 \in Nat /\ n - 1 < n /\ (n - 1) + 1 = n
  BY <1>5
<1>7. <<n - 1, n>> \in Less
  BY <1>5, <1>6 DEF Less
<1>8. n - 1 \notin B
  BY <1>4, <1>7
<1> QED BY <1>2, <1>5, <1>6, <1>8

------------------------------------------------------------------------------
(* Folds over a finite set.  Step st takes the element that is chosen first, *)
(* and the result for the others.                                            *)

Choice(s) == CHOOSE x \in s : TRUE

\* Function g has the results of the fold for all subsets.
Folded(S, b, st, g) ==
    \A s \in SUBSET S :
        g[s] = IF s = {} THEN b ELSE st[<<Choice(s), g[s \ {Choice(s)}]>>]

LEMMA ChoiceRest ==
    ASSUME NEW S, NEW s \in SUBSET S, s # {}
    PROVE  Choice(s) \in s /\ Choice(s) \in S /\ s \ {Choice(s)} \in SUBSET S
<1>1. Choice(s) \in s
  BY DEF Choice
<1> QED BY <1>1

\* Induction over the subsets of a finite set, in the order of a fold.
LEMMA ChoiceInduction ==
    ASSUME NEW S, IsFiniteSet(S), NEW T \in SUBSET SUBSET S, {} \in T,
           \A s \in SUBSET S : s # {} /\ s \ {Choice(s)} \in T => s \in T
    PROVE  T = SUBSET S
<1> DEFINE N == {n \in Nat : \A s \in SUBSET S : Cardinality(s) = n => s \in T}
<1>1. \A s \in SUBSET S : IsFiniteSet(s) /\ Cardinality(s) \in Nat
  BY FS_Subset, FS_CardinalityType
<1>2. 0 \in N
  BY <1>1, FS_EmptySet
<1>3. ASSUME NEW n \in Nat, n \in N PROVE n + 1 \in N
  <2> SUFFICES ASSUME NEW s \in SUBSET S, Cardinality(s) = n + 1 PROVE s \in T
    OBVIOUS
  <2>1. s # {}
    BY FS_EmptySet
  <2>2. Choice(s) \in s /\ s \ {Choice(s)} \in SUBSET S
    BY <2>1, ChoiceRest
  <2>3. Cardinality(s \ {Choice(s)}) = Cardinality(s) - 1
    <3>1. PICK x : x = Choice(s)
      OBVIOUS
    <3>2. IsFiniteSet(s) /\ x \in s
      BY <1>1, <2>2, <3>1
    <3>3. Cardinality(s \ {x}) = Cardinality(s) - 1
      BY ONLY <3>2, FS_RemoveElement
    <3> QED BY <3>1, <3>3
  <2>4. Cardinality(s \ {Choice(s)}) = n
    BY <2>3
  <2>5. s \ {Choice(s)} \in T
    BY <1>3, <2>2, <2>4
  <2> QED BY <2>1, <2>5
<1>4. N = Nat
  <2>1. N \in SUBSET Nat
    OBVIOUS
  <2> HIDE DEF N
  <2> QED BY <1>2, <1>3, <2>1, NumberInduction
<1>5. \A s \in SUBSET S : s \in T
  BY <1>1, <1>4
<1> QED BY <1>5

\* A fold has a result.
LEMMA FoldExists ==
    ASSUME NEW S, IsFiniteSet(S), NEW B, NEW b \in B, NEW st \in [S \X B -> B]
    PROVE  \E g \in [SUBSET S -> B] : Folded(S, b, st, g)
<1> DEFINE R(g, s) == IF s = {} THEN b ELSE st[<<Choice(s), g[s \ {Choice(s)}]>>]
           N == {n \in Nat : \E g \in [SUBSET S -> B] :
                                \A s \in SUBSET S : Cardinality(s) <= n => g[s] = R(g, s)}
<1>1. \A s \in SUBSET S : IsFiniteSet(s) /\ Cardinality(s) \in Nat
  BY FS_Subset, FS_CardinalityType
<1>2. 0 \in N
  <2>1. PICK g : g = [s \in SUBSET S |-> b]
    OBVIOUS
  <2>2. g \in [SUBSET S -> B]
    BY <2>1
  <2>3. ASSUME NEW s \in SUBSET S, Cardinality(s) <= 0 PROVE g[s] = R(g, s)
    <3>1. s = {}
      BY <1>1, <2>3, FS_EmptySet
    <3> QED BY <3>1, <2>1
  <2> HIDE DEF R
  <2> QED BY <2>2, <2>3
<1>3. ASSUME NEW n \in Nat, n \in N PROVE n + 1 \in N
  <2>1. PICK g \in [SUBSET S -> B] :
           \A s \in SUBSET S : Cardinality(s) <= n => g[s] = R(g, s)
    BY <1>3
  <2>2. PICK h : h = [s \in SUBSET S |-> R(g, s)]
    OBVIOUS
  <2>3. \A s \in SUBSET S : R(g, s) \in B
    <3> SUFFICES ASSUME NEW s \in SUBSET S PROVE R(g, s) \in B
      OBVIOUS
    <3>1. CASE s = {}
      BY <3>1
    <3>2. CASE s # {}
      <4>1. Choice(s) \in S /\ s \ {Choice(s)} \in SUBSET S
        BY <3>2, ChoiceRest
      <4>2. g[s \ {Choice(s)}] \in B
        BY <4>1
      <4> QED BY <3>2, <4>1, <4>2
    <3> QED BY <3>1, <3>2
  <2>4. h \in [SUBSET S -> B]
    BY <2>2, <2>3
  <2>5. ASSUME NEW s \in SUBSET S, Cardinality(s) <= n + 1 PROVE h[s] = R(h, s)
    <3>1. h[s] = R(g, s)
      BY <2>2
    <3>2. CASE s = {}
      BY <3>1, <3>2
    <3>3. CASE s # {}
      <4>1. PICK t : t = s \ {Choice(s)}
        OBVIOUS
      <4>2. t \in SUBSET S /\ Choice(s) \in s
        BY <3>3, <4>1, ChoiceRest
      <4>3. Cardinality(t) = Cardinality(s) - 1
        BY <1>1, <4>1, <4>2, FS_RemoveElement
      <4>4. Cardinality(t) <= n
        BY <1>1, <2>5, <4>3
      <4>5. g[t] = R(g, t) /\ h[t] = R(g, t)
        BY <2>1, <2>2, <4>2, <4>4
      <4>6. g[s \ {Choice(s)}] = h[s \ {Choice(s)}]
        BY <4>1, <4>5
      <4> QED BY <3>1, <3>3, <4>6
    <3> QED BY <3>2, <3>3
  <2> HIDE DEF R
  <2> QED BY <2>4, <2>5
<1>4. N = Nat
  <2>1. N \in SUBSET Nat
    OBVIOUS
  <2> HIDE DEF N
  <2> QED BY <1>2, <1>3, <2>1, NumberInduction
<1>5. PICK n : n = Cardinality(S)
  OBVIOUS
<1>6. n \in Nat /\ \A s \in SUBSET S : Cardinality(s) <= n
  BY <1>5, FS_CardinalityType, FS_Subset
<1>7. PICK g \in [SUBSET S -> B] : \A s \in SUBSET S : Cardinality(s) <= n => g[s] = R(g, s)
  BY <1>4, <1>6
<1>8. Folded(S, b, st, g)
  BY <1>6, <1>7 DEF Folded
<1> QED BY <1>8

------------------------------------------------------------------------------
(* Sums. *)

\* Function g has the sums of f over all subsets of S.
Sums(S, f, g) ==
    /\ g \in [SUBSET S -> Nat]
    /\ g[{}] = 0
    /\ \A s \in SUBSET S : s # {} => g[s] = f[Choice(s)] + g[s \ {Choice(s)}]

\* A sum is what the partial sums end with.
LEMMA SumExists ==
    ASSUME NEW S, IsFiniteSet(S), NEW f \in [S -> Nat]
    PROVE  \E g : Sums(S, f, g) /\ SumFunction(f) = g[S]
<1> DEFINE st == [z \in S \X Nat |-> f[z[1]] + z[2]]
           P(h) == h = [s \in SUBSET S |->
                          IF s = {} THEN 0
                          ELSE f[CHOOSE x \in s : TRUE] + h[s \ {CHOOSE x \in s : TRUE}]]
<1>1. st \in [S \X Nat -> Nat]
  OBVIOUS
<1>2. PICK g \in [SUBSET S -> Nat] : Folded(S, 0, st, g)
  <2> HIDE DEF st
  <2> QED BY <1>1, FoldExists
<1>3. \A s \in SUBSET S : g[s] = IF s = {} THEN 0 ELSE f[Choice(s)] + g[s \ {Choice(s)}]
  <2> SUFFICES ASSUME NEW s \in SUBSET S, s # {} PROVE g[s] = f[Choice(s)] + g[s \ {Choice(s)}]
    BY <1>2 DEF Folded
  <2>1. Choice(s) \in S /\ s \ {Choice(s)} \in SUBSET S
    BY ChoiceRest
  <2>2. g[s \ {Choice(s)}] \in Nat
    BY <2>1
  <2>3. g[s] = st[<<Choice(s), g[s \ {Choice(s)}]>>]
    BY <1>2 DEF Folded
  <2> QED BY <2>1, <2>2, <2>3
<1>4. P(g)
  <2>1. g = [s \in SUBSET S |-> g[s]]
    OBVIOUS
  <2> QED BY <1>3, <2>1, Zenon DEF Choice
<1>5. PICK h : h = CHOOSE x : P(x)
  OBVIOUS
<1>6. P(h)
  <2> HIDE DEF P
  <2> QED BY <1>4, <1>5, Zenon
<1>7. SumFunction(f) = h[S]
  <2>1. DOMAIN f = S
    OBVIOUS
  <2>2. SumFunctionOnSet(f, S) = (CHOOSE x : P(x))[S]
    BY Zenon DEF SumFunctionOnSet, FoldFunctionOnSet, MapThenFoldSet
  <2>3. SumFunction(f) = SumFunctionOnSet(f, S)
    BY <2>1, Zenon DEF SumFunction
  <2> HIDE DEF P
  <2> QED BY <1>5, <2>2, <2>3, Zenon
<1>8. \A s \in SUBSET S : h[s] = IF s = {} THEN 0 ELSE f[Choice(s)] + h[s \ {Choice(s)}]
  BY <1>6, Zenon DEF Choice
<1>9. DOMAIN h = SUBSET S /\ h = [s \in SUBSET S |-> h[s]]
  BY <1>6
<1> HIDE DEF st, P
<1> DEFINE T == {s \in SUBSET S : h[s] \in Nat}
<1>10. T = SUBSET S
  <2>1. T \in SUBSET SUBSET S /\ {} \in T
    <3>1. {} \in SUBSET S /\ h[{}] = 0
      BY <1>8
    <3> QED BY <3>1
  <2>2. \A s \in SUBSET S : s # {} /\ s \ {Choice(s)} \in T => s \in T
    <3> SUFFICES ASSUME NEW s \in SUBSET S, s # {}, s \ {Choice(s)} \in T PROVE s \in T
      OBVIOUS
    <3>1. Choice(s) \in S
      BY ChoiceRest
    <3>2. f[Choice(s)] \in Nat
      BY <3>1
    <3>3. h[s] = f[Choice(s)] + h[s \ {Choice(s)}]
      BY <1>8
    <3> QED BY <3>2, <3>3
  <2> HIDE DEF T
  <2> QED BY <2>1, <2>2, ChoiceInduction
<1>11. h \in [SUBSET S -> Nat]
  BY <1>9, <1>10
<1> QED BY <1>7, <1>8, <1>11 DEF Sums

LEMMA SumType ==
    ASSUME NEW S, IsFiniteSet(S), NEW f \in [S -> Nat]
    PROVE  SumFunction(f) \in Nat
<1>1. PICK g : Sums(S, f, g) /\ SumFunction(f) = g[S]
  BY SumExists
<1> QED BY <1>1 DEF Sums

\* What a sum is, is shown for one element after the other.
LEMMA SumsStep ==
    ASSUME NEW S, NEW f \in [S -> Nat], NEW g, Sums(S, f, g), NEW s \in SUBSET S, s # {}
    PROVE  \E x \in s, t \in SUBSET S :
              /\ x \in S /\ x = Choice(s) /\ t = s \ {x} /\ s = t \cup {x} /\ x \notin t
              /\ f[x] \in Nat /\ g[t] \in Nat /\ g[s] \in Nat /\ g[s] = f[x] + g[t]
<1>1. PICK x : x = Choice(s)
  OBVIOUS
<1>2. x \in s /\ x \in S /\ s \ {x} \in SUBSET S
  BY <1>1, ChoiceRest
<1>3. PICK t : t = s \ {x}
  OBVIOUS
<1>4. t \in SUBSET S /\ g[t] \in Nat /\ g[s] \in Nat /\ g[s] = f[x] + g[t]
  BY <1>1, <1>2, <1>3 DEF Sums
<1>5. f[x] \in Nat /\ s = t \cup {x} /\ x \notin t
  BY <1>2, <1>3
<1> QED BY <1>1, <1>2, <1>3, <1>4, <1>5

\* A sum grows with its parts.
LEMMA SumGrows ==
    ASSUME NEW S, IsFiniteSet(S), NEW f \in [S -> Nat], NEW h \in [S -> Nat],
           \A x \in S : f[x] <= h[x]
    PROVE  SumFunction(f) <= SumFunction(h)
<1>1. PICK F : Sums(S, f, F) /\ SumFunction(f) = F[S]
  BY SumExists
<1>2. PICK H : Sums(S, h, H) /\ SumFunction(h) = H[S]
  BY SumExists
<1> DEFINE T == {s \in SUBSET S : F[s] <= H[s]}
<1>3. T \in SUBSET SUBSET S /\ {} \in T
  BY <1>1, <1>2 DEF Sums
<1>4. ASSUME NEW s \in SUBSET S, s # {}, s \ {Choice(s)} \in T PROVE s \in T
  <2>1. PICK x \in s, t \in SUBSET S :
           /\ x \in S /\ x = Choice(s) /\ t = s \ {x} /\ s = t \cup {x} /\ x \notin t
           /\ f[x] \in Nat /\ F[t] \in Nat /\ F[s] \in Nat /\ F[s] = f[x] + F[t]
    BY <1>1, <1>4, SumsStep
  <2>a. f[x] \in Nat /\ F[t] \in Nat /\ F[s] \in Nat /\ F[s] = f[x] + F[t]
    BY <2>1
  <2>2. H[s] = h[x] + H[t] /\ h[x] \in Nat /\ H[t] \in Nat
    BY <1>2, <1>4, <2>1 DEF Sums
  <2>3. F[t] <= H[t] /\ f[x] <= h[x]
    BY <1>4, <2>1
  <2>4. F[s] <= H[s]
    BY <2>a, <2>2, <2>3
  <2> QED BY <2>4
<1>5. T = SUBSET S
  <2> HIDE DEF T
  <2> QED BY <1>3, <1>4, ChoiceInduction
<1>6. S \in T
  BY <1>5
<1> QED BY <1>1, <1>2, <1>6

\* A sum grows as much as the one part that grows.
LEMMA SumChange ==
    ASSUME NEW S, IsFiniteSet(S), NEW f \in [S -> Nat], NEW h \in [S -> Nat], NEW y \in S,
           NEW d \in Nat, h[y] = f[y] + d, \A x \in S : x # y => h[x] = f[x]
    PROVE  SumFunction(h) = SumFunction(f) + d
<1>1. PICK F : Sums(S, f, F) /\ SumFunction(f) = F[S]
  BY SumExists
<1>2. PICK H : Sums(S, h, H) /\ SumFunction(h) = H[S]
  BY SumExists
<1> DEFINE T == {s \in SUBSET S : H[s] = F[s] + (IF y \in s THEN d ELSE 0)}
<1>3. T \in SUBSET SUBSET S /\ {} \in T
  BY <1>1, <1>2 DEF Sums
<1>4. ASSUME NEW s \in SUBSET S, s # {}, s \ {Choice(s)} \in T PROVE s \in T
  <2>1. PICK x \in s, t \in SUBSET S :
           /\ x \in S /\ x = Choice(s) /\ t = s \ {x} /\ s = t \cup {x} /\ x \notin t
           /\ f[x] \in Nat /\ F[t] \in Nat /\ F[s] \in Nat /\ F[s] = f[x] + F[t]
    BY <1>1, <1>4, SumsStep
  <2>a. f[x] \in Nat /\ F[t] \in Nat /\ F[s] \in Nat /\ F[s] = f[x] + F[t]
    BY <2>1
  <2>2. H[s] = h[x] + H[t] /\ h[x] \in Nat /\ H[t] \in Nat
    BY <1>2, <1>4, <2>1 DEF Sums
  <2>3. H[t] = F[t] + (IF y \in t THEN d ELSE 0)
    BY <1>4, <2>1
  <2>4. CASE x = y
    <3>1. y \notin t /\ y \in s
      BY <2>1, <2>4
    <3>2. H[s] = F[s] + d
      <4>1. H[t] = F[t]
        BY <2>a, <2>3, <3>1
      <4> QED BY <2>a, <2>2, <2>4, <4>1
    <3> QED BY <3>1, <3>2
  <2>5. CASE x # y
    <3>1. y \in t <=> y \in s
      BY <2>1, <2>5
    <3>2. h[x] = f[x]
      BY <2>1, <2>5
    <3>3. H[s] = F[s] + (IF y \in s THEN d ELSE 0)
      BY <2>a, <2>2, <2>3, <3>1, <3>2
    <3> QED BY <3>3
  <2> QED BY <2>4, <2>5
<1>5. T = SUBSET S
  <2> HIDE DEF T
  <2> QED BY <1>3, <1>4, ChoiceInduction
<1>6. S \in T
  BY <1>5
<1> QED BY <1>1, <1>2, <1>6

\* A part is never more than the sum.
LEMMA SumPart ==
    ASSUME NEW S, IsFiniteSet(S), NEW f \in [S -> Nat], NEW y \in S
    PROVE  f[y] <= SumFunction(f)
<1>1. PICK F : Sums(S, f, F) /\ SumFunction(f) = F[S]
  BY SumExists
<1> DEFINE T == {s \in SUBSET S : y \in s => f[y] <= F[s]}
<1>2. T \in SUBSET SUBSET S /\ {} \in T
  OBVIOUS
<1>3. ASSUME NEW s \in SUBSET S, s # {}, s \ {Choice(s)} \in T PROVE s \in T
  <2>1. PICK x \in s, t \in SUBSET S :
           /\ x \in S /\ x = Choice(s) /\ t = s \ {x} /\ s = t \cup {x} /\ x \notin t
           /\ f[x] \in Nat /\ F[t] \in Nat /\ F[s] \in Nat /\ F[s] = f[x] + F[t]
    BY <1>1, <1>3, SumsStep
  <2>a. f[x] \in Nat /\ F[t] \in Nat /\ F[s] \in Nat /\ F[s] = f[x] + F[t]
    BY <2>1
  <2>2. CASE x = y
    <3>1. f[y] <= F[s]
      BY <2>a, <2>2
    <3> QED BY <3>1
  <2>3. CASE x # y
    <3>1. y \in s => f[y] <= F[t]
      BY <1>3, <2>1, <2>3
    <3>2. y \in s => f[y] <= F[s]
      BY <2>a, <3>1
    <3> QED BY <3>2
  <2> QED BY <2>2, <2>3
<1>4. T = SUBSET S
  <2> HIDE DEF T
  <2> QED BY <1>2, <1>3, ChoiceInduction
<1>5. S \in T
  BY <1>4
<1> QED BY <1>1, <1>5

\* Nothing sums up to nothing.
LEMMA SumOfZeros ==
    ASSUME NEW S, IsFiniteSet(S), NEW f \in [S -> Nat], \A x \in S : f[x] = 0
    PROVE  SumFunction(f) = 0
<1>1. PICK F : Sums(S, f, F) /\ SumFunction(f) = F[S]
  BY SumExists
<1> DEFINE T == {s \in SUBSET S : F[s] = 0}
<1>2. T \in SUBSET SUBSET S /\ {} \in T
  BY <1>1 DEF Sums
<1>3. ASSUME NEW s \in SUBSET S, s # {}, s \ {Choice(s)} \in T PROVE s \in T
  <2>1. PICK x \in s, t \in SUBSET S :
           /\ x \in S /\ x = Choice(s) /\ t = s \ {x} /\ s = t \cup {x} /\ x \notin t
           /\ f[x] \in Nat /\ F[t] \in Nat /\ F[s] \in Nat /\ F[s] = f[x] + F[t]
    BY <1>1, <1>3, SumsStep
  <2>a. f[x] \in Nat /\ F[t] \in Nat /\ F[s] \in Nat /\ F[s] = f[x] + F[t]
    BY <2>1
  <2>2. f[x] = 0 /\ F[t] = 0
    BY <1>3, <2>1
  <2>3. F[s] = 0
    BY <2>a, <2>2
  <2> QED BY <2>3
<1>4. T = SUBSET S
  <2> HIDE DEF T
  <2> QED BY <1>2, <1>3, ChoiceInduction
<1>5. S \in T
  BY <1>4
<1> QED BY <1>1, <1>5

LEMMA CellIsFinite ==
    IsFiniteSet(Cell)
BY FS_Product, DownloadChannelAssumption DEF Cell

\* The sums for every replicator of what f has for all clients.
Column(f, p) == [c \in Clients |-> f[<<c, p>>]]
Columns(f) == [p \in Replicators |-> SumFunction(Column(f, p))]

LEMMA ColumnTypes ==
    ASSUME NEW f \in [Cell -> Nat]
    PROVE  /\ \A p \in Replicators : /\ Column(f, p) \in [Clients -> Nat]
                                     /\ SumFunction(Column(f, p)) \in Nat
           /\ Columns(f) \in [Replicators -> Nat]
<1>1. ASSUME NEW p \in Replicators
      PROVE  Column(f, p) \in [Clients -> Nat] /\ SumFunction(Column(f, p)) \in Nat
  <2>1. \A c \in Clients : <<c, p>> \in Cell
    BY DEF Cell
  <2>2. PICK h : h = Column(f, p)
    OBVIOUS
  <2>3. h \in [Clients -> Nat]
    BY <2>1, <2>2 DEF Column
  <2>4. SumFunction(h) \in Nat
    BY <2>3, SumType, DownloadChannelAssumption
  <2> QED BY <2>2, <2>3, <2>4
<1> QED BY <1>1 DEF Columns

\* What one cell grows by, the sum of the columns grows by.
LEMMA ColumnsChange ==
    ASSUME NEW f \in [Cell -> Nat], NEW h \in [Cell -> Nat], NEW x \in Cell, NEW n \in Nat,
           h[x] = f[x] + n, \A y \in Cell : y # x => h[y] = f[y]
    PROVE  SumFunction(Columns(h)) = SumFunction(Columns(f)) + n
<1>1. PICK c \in Clients, p \in Replicators : x = <<c, p>>
  BY DEF Cell
<1>2. SumFunction(Column(h, p)) = SumFunction(Column(f, p)) + n
  <2>1. PICK a, b : a = Column(f, p) /\ b = Column(h, p)
    OBVIOUS
  <2>2. a \in [Clients -> Nat] /\ b \in [Clients -> Nat]
    BY <2>1, ColumnTypes
  <2>3. b[c] = a[c] + n
    BY <1>1, <2>1 DEF Column
  <2>4. \A e \in Clients : e # c => b[e] = a[e]
    <3> SUFFICES ASSUME NEW e \in Clients, e # c PROVE b[e] = a[e]
      OBVIOUS
    <3>1. <<e, p>> \in Cell /\ <<e, p>> # x
      BY <1>1 DEF Cell
    <3> QED BY <2>1, <3>1 DEF Column
  <2>5. SumFunction(b) = SumFunction(a) + n
    BY ONLY <2>2, <2>3, <2>4, n \in Nat, c \in Clients, SumChange, DownloadChannelAssumption
  <2> QED BY <2>1, <2>5
<1>3. \A q \in Replicators : q # p => Column(h, q) = Column(f, q)
  <2> SUFFICES ASSUME NEW q \in Replicators, q # p PROVE Column(h, q) = Column(f, q)
    OBVIOUS
  <2>1. \A e \in Clients : <<e, q>> \in Cell /\ <<e, q>> # x
    BY <1>1 DEF Cell
  <2> QED BY <2>1 DEF Column
<1>4. PICK a, b : a = Columns(f) /\ b = Columns(h)
  OBVIOUS
<1>5. a \in [Replicators -> Nat] /\ b \in [Replicators -> Nat]
  BY <1>4, ColumnTypes
<1>6. b[p] = a[p] + n /\ \A q \in Replicators : q # p => b[q] = a[q]
  BY <1>2, <1>3, <1>4 DEF Columns
<1>7. SumFunction(b) = SumFunction(a) + n
  BY ONLY <1>5, <1>6, n \in Nat, p \in Replicators, SumChange, DownloadChannelAssumption
<1> QED BY <1>4, <1>7

LEMMA ColumnsOfZeros ==
    ASSUME NEW f \in [Cell -> Nat], \A x \in Cell : f[x] = 0
    PROVE  SumFunction(Columns(f)) = 0
<1>1. ASSUME NEW p \in Replicators PROVE SumFunction(Column(f, p)) = 0
  <2>1. \A c \in Clients : <<c, p>> \in Cell
    BY DEF Cell
  <2>2. PICK h : h = Column(f, p)
    OBVIOUS
  <2>3. h \in [Clients -> Nat] /\ \A c \in Clients : h[c] = 0
    BY <2>1, <2>2, ColumnTypes DEF Column
  <2>4. SumFunction(h) = 0
    BY <2>3, SumOfZeros, DownloadChannelAssumption
  <2> QED BY <2>2, <2>4
<1>2. PICK h : h = Columns(f)
  OBVIOUS
<1>3. h \in [Replicators -> Nat] /\ \A p \in Replicators : h[p] = 0
  BY <1>1, <1>2, ColumnTypes DEF Columns
<1>4. SumFunction(h) = 0
  BY <1>3, SumOfZeros, DownloadChannelAssumption
<1> QED BY <1>2, <1>4

\* The columns sum up to the whole.
LEMMA SumOfColumns ==
    ASSUME NEW f \in [Cell -> Nat]
    PROVE  SumFunction(Columns(f)) = SumFunction(f)
<1> DEFINE Part(s) == [x \in Cell |-> IF x \in s THEN f[x] ELSE 0]
           T == {s \in SUBSET Cell : SumFunction(Columns(Part(s))) = SumFunction(Part(s))}
<1>1. \A s : Part(s) \in [Cell -> Nat]
  OBVIOUS
<1>2. T \in SUBSET SUBSET Cell /\ {} \in T
  <2>1. PICK h : h = Part({})
    OBVIOUS
  <2>2. h \in [Cell -> Nat] /\ \A x \in Cell : h[x] = 0
    BY <2>1
  <2>3. SumFunction(h) = 0 /\ SumFunction(Columns(h)) = 0
    BY <2>2, SumOfZeros, ColumnsOfZeros, CellIsFinite
  <2> HIDE DEF Part
  <2> QED BY <2>1, <2>3
<1>3. ASSUME NEW s \in SUBSET Cell, s # {}, s \ {Choice(s)} \in T PROVE s \in T
  <2>1. PICK x, t : x = Choice(s) /\ t = s \ {Choice(s)}
    OBVIOUS
  <2>2. x \in s /\ x \in Cell /\ x \notin t /\ \A y : y # x => (y \in t <=> y \in s)
    BY <1>3, <2>1, ChoiceRest
  <2>3. PICK a, b : a = Part(t) /\ b = Part(s)
    OBVIOUS
  <2>4. a \in [Cell -> Nat] /\ b \in [Cell -> Nat]
    BY <2>3
  <2>5. a[x] = 0 /\ b[x] = f[x] /\ \A y \in Cell : y # x => b[y] = a[y]
    BY <2>2, <2>3
  <2>6. f[x] \in Nat /\ b[x] = a[x] + f[x]
    BY <2>2, <2>5
  <2>7. PICK n : n = f[x]
    OBVIOUS
  <2>8. /\ SumFunction(Columns(b)) = SumFunction(Columns(a)) + n
        /\ SumFunction(b) = SumFunction(a) + n
    <3>1. n \in Nat /\ b[x] = a[x] + n /\ \A y \in Cell : y # x => b[y] = a[y]
      BY <2>5, <2>6, <2>7
    <3>2. SumFunction(Columns(b)) = SumFunction(Columns(a)) + n
      BY ONLY <2>2, <2>4, <3>1, ColumnsChange
    <3>3. SumFunction(b) = SumFunction(a) + n
      BY ONLY <2>2, <2>4, <3>1, SumChange, CellIsFinite
    <3> QED BY <3>2, <3>3
  <2> HIDE DEF Part
  <2>9. SumFunction(Columns(a)) = SumFunction(a)
    BY <1>3, <2>1, <2>3
  <2>10. SumFunction(Columns(b)) = SumFunction(b)
    BY <2>8, <2>9
  <2> QED BY <2>3, <2>10
<1>4. T = SUBSET Cell
  <2> HIDE DEF T
  <2> QED BY <1>2, <1>3, ChoiceInduction, CellIsFinite
<1>5. Part(Cell) = f
  OBVIOUS
<1> HIDE DEF Part
<1>6. Cell \in T
  BY <1>4
<1> QED BY <1>5, <1>6

------------------------------------------------------------------------------
(* The accounts of one channel. *)

LEMMA MaxOfTwo ==
    ASSUME NEW a \in Nat, NEW b \in Nat
    PROVE  Max({a, b}) = IF a >= b THEN a ELSE b
<1>1. PICK m : m = IF a >= b THEN a ELSE b
  OBVIOUS
<1>2. m \in {a, b} /\ \A y \in {a, b} : m >= y
  BY <1>1
<1>3. PICK k : k = CHOOSE x \in {a, b} : \A y \in {a, b} : x >= y
  OBVIOUS
<1>4. k \in {a, b} /\ \A y \in {a, b} : k >= y
  BY <1>2, <1>3
<1>5. k = m
  BY <1>2, <1>4
<1>6. Max({a, b}) = k
  BY <1>3 DEF Max
<1> QED BY <1>1, <1>5, <1>6

\* The fields of a channel.
LEMMA ChannelFields ==
    ASSUME NEW ch \in Channel
    PROVE  /\ ch.known \in BOOLEAN /\ ch.syncing \in BOOLEAN
           /\ ch.prepaid \in Nat /\ ch.total \in Nat
           /\ ch.accepted \in Sizes /\ ch.refused \in Sizes /\ ch.receipt \in Sizes
           /\ ch.sent \in [Clients -> 0..MaxSize + 1]
BY DEF Channel

LEMMA SizesAreNumbers ==
    ASSUME NEW f \in Sizes, NEW x \in Cell
    PROVE  f[x] \in Nat /\ f[x] <= MaxSize
BY DownloadChannelAssumption DEF Sizes

\* maxReceiptSize is the larger of the two sizes.
LEMMA MaxReceiptSizeIs ==
    ASSUME NEW ch \in Channel, NEW x \in Cell
    PROVE  /\ MaxReceiptSize(ch, x) = IF ch.accepted[x] >= ch.refused[x]
                                      THEN ch.accepted[x] ELSE ch.refused[x]
           /\ MaxReceiptSize(ch, x) \in Nat
           /\ MaxReceiptSize(ch, x) >= ch.accepted[x] /\ MaxReceiptSize(ch, x) >= ch.refused[x]
<1>1. ch.accepted[x] \in Nat /\ ch.refused[x] \in Nat
  BY ChannelFields, SizesAreNumbers
<1>2. PICK a, b : a = ch.accepted[x] /\ b = ch.refused[x]
  OBVIOUS
<1>3. MaxReceiptSize(ch, x) = IF a >= b THEN a ELSE b
  <2>1. Max({a, b}) = IF a >= b THEN a ELSE b
    BY <1>1, <1>2, MaxOfTwo
  <2> QED BY <1>2, <2>1 DEF MaxReceiptSize
<1> QED BY <1>1, <1>2, <1>3

\* The receipts for p, and those that were accepted.
Asked(ch, p) == [c \in Clients |-> MaxReceiptSize(ch, <<c, p>>)]
Credited(ch, p) == [c \in Clients |-> ch.accepted[<<c, p>>]]

\* What every replicator was asked for.
Parts(ch) == [p \in Replicators |-> TotalReceiptSize(ch, p)]

LEMMA PartTypes ==
    ASSUME NEW ch \in Channel
    PROVE  /\ \A p \in Replicators :
                 /\ Asked(ch, p) \in [Clients -> Nat] /\ Credited(ch, p) \in [Clients -> Nat]
                 /\ \A c \in Clients : Credited(ch, p)[c] <= Asked(ch, p)[c]
                 /\ TotalReceiptSize(ch, p) \in Nat /\ TotalAcceptedReceiptSize(ch, p) \in Nat
                 /\ TotalReceiptSize(ch, p) = SumFunction(Asked(ch, p))
                 /\ TotalAcceptedReceiptSize(ch, p) = SumFunction(Credited(ch, p))
                 /\ TotalAcceptedReceiptSize(ch, p) <= TotalReceiptSize(ch, p)
           /\ Parts(ch) \in [Replicators -> Nat]
<1>1. ASSUME NEW p \in Replicators
      PROVE  /\ Asked(ch, p) \in [Clients -> Nat] /\ Credited(ch, p) \in [Clients -> Nat]
             /\ \A c \in Clients : Credited(ch, p)[c] <= Asked(ch, p)[c]
             /\ TotalReceiptSize(ch, p) \in Nat /\ TotalAcceptedReceiptSize(ch, p) \in Nat
             /\ TotalReceiptSize(ch, p) = SumFunction(Asked(ch, p))
             /\ TotalAcceptedReceiptSize(ch, p) = SumFunction(Credited(ch, p))
             /\ TotalAcceptedReceiptSize(ch, p) <= TotalReceiptSize(ch, p)
  <2>1. ASSUME NEW c \in Clients
        PROVE  /\ MaxReceiptSize(ch, <<c, p>>) \in Nat /\ ch.accepted[<<c, p>>] \in Nat
               /\ ch.accepted[<<c, p>>] <= MaxReceiptSize(ch, <<c, p>>)
    <3>1. PICK x \in Cell : x = <<c, p>>
      BY DEF Cell
    <3>2. ch.accepted[x] \in Nat
      BY ChannelFields, SizesAreNumbers
    <3>3. MaxReceiptSize(ch, x) \in Nat /\ MaxReceiptSize(ch, x) >= ch.accepted[x]
      BY MaxReceiptSizeIs
    <3> QED BY <3>1, <3>2, <3>3
  <2>2. /\ Asked(ch, p) \in [Clients -> Nat] /\ Credited(ch, p) \in [Clients -> Nat]
        /\ \A c \in Clients : Credited(ch, p)[c] <= Asked(ch, p)[c]
    BY <2>1 DEF Asked, Credited
  <2>3. PICK a, b : a = Asked(ch, p) /\ b = Credited(ch, p)
    OBVIOUS
  <2>4. SumFunction(a) \in Nat /\ SumFunction(b) \in Nat /\ SumFunction(b) <= SumFunction(a)
    BY <2>2, <2>3, SumType, SumGrows, DownloadChannelAssumption
  <2>5. TotalReceiptSize(ch, p) = SumFunction(Asked(ch, p))
    BY Zenon DEF TotalReceiptSize, Asked
  <2>6. TotalAcceptedReceiptSize(ch, p) = SumFunction(Credited(ch, p))
    BY Zenon DEF TotalAcceptedReceiptSize, Credited
  <2> QED BY <2>2, <2>3, <2>4, <2>5, <2>6
<1>2. Parts(ch) \in [Replicators -> Nat]
  BY <1>1 DEF Parts
<1> QED BY <1>1, <1>2

\* The total is the sum of its parts, and no part is more than is prepaid.
Consistent(ch) ==
    /\ ch.total = SumFunction(Parts(ch))
    /\ \A p \in Replicators : TotalAcceptedReceiptSize(ch, p) <= ch.prepaid

\* Channel d is what became of ch by receipts.
Grown(ch, d) ==
    /\ d \in Channel
    /\ d.known = ch.known /\ d.syncing = ch.syncing /\ d.prepaid = ch.prepaid
    /\ d.sent = ch.sent
    /\ \A x \in Cell : d.accepted[x] >= ch.accepted[x]
    /\ Consistent(ch) => Consistent(d)

LEMMA GrownTwice ==
    ASSUME NEW ch \in Channel, NEW d, NEW e, Grown(ch, d), Grown(d, e)
    PROVE  Grown(ch, e)
<1>1. ASSUME NEW x \in Cell PROVE e.accepted[x] >= ch.accepted[x]
  <2>1. ch.accepted[x] \in Nat /\ d.accepted[x] \in Nat /\ e.accepted[x] \in Nat
    BY ChannelFields, SizesAreNumbers DEF Grown
  <2>2. d.accepted[x] >= ch.accepted[x] /\ e.accepted[x] >= d.accepted[x]
    BY DEF Grown
  <2> QED BY <2>1, <2>2
<1> QED BY <1>1 DEF Grown

LEMMA GrownSame ==
    ASSUME NEW ch \in Channel
    PROVE  Grown(ch, ch)
<1>1. ASSUME NEW x \in Cell PROVE ch.accepted[x] >= ch.accepted[x]
  BY ChannelFields, SizesAreNumbers
<1> QED BY <1>1 DEF Grown

\* The parts of a channel depend on the larger sizes only.
LEMMA SameParts ==
    ASSUME NEW ch \in Channel, NEW d \in Channel, NEW p \in Replicators,
           \A c \in Clients : MaxReceiptSize(d, <<c, p>>) = MaxReceiptSize(ch, <<c, p>>)
    PROVE  TotalReceiptSize(d, p) = TotalReceiptSize(ch, p)
<1>1. Asked(d, p) = Asked(ch, p)
  BY DEF Asked
<1> QED BY <1>1, PartTypes

LEMMA SameCredit ==
    ASSUME NEW ch \in Channel, NEW d \in Channel, NEW p \in Replicators,
           \A c \in Clients : d.accepted[<<c, p>>] = ch.accepted[<<c, p>>]
    PROVE  TotalAcceptedReceiptSize(d, p) = TotalAcceptedReceiptSize(ch, p)
<1>1. Credited(d, p) = Credited(ch, p)
  BY DEF Credited
<1> QED BY <1>1, PartTypes

\* tryFixReceiptSize keeps the larger sizes, and credits nobody with more than
\* is prepaid.
LEMMA GrownByFix ==
    ASSUME NEW ch \in Channel, NEW p \in Replicators
    PROVE  /\ Grown(ch, TryFixReceiptSize(ch, p))
           /\ TryFixReceiptSize(ch, p).total = ch.total
           /\ \A x \in Cell : MaxReceiptSize(TryFixReceiptSize(ch, p), x) = MaxReceiptSize(ch, x)
<1> DEFINE fix == {x \in Cell : /\ x[2] = p /\ ch.refused[x] > ch.accepted[x]
                                /\ ch.prepaid >= TotalReceiptSize(ch, p)}
           acc == [x \in Cell |-> IF x \in fix THEN ch.refused[x] ELSE ch.accepted[x]]
           ref == [x \in Cell |-> IF x \in fix THEN 0 ELSE ch.refused[x]]
<1>1. PICK d : d = TryFixReceiptSize(ch, p)
  OBVIOUS
<1>2. d = [ch EXCEPT !.accepted = acc, !.refused = ref]
  BY <1>1 DEF TryFixReceiptSize
<1>3. acc \in Sizes /\ ref \in Sizes
  BY ChannelFields, DownloadChannelAssumption DEF Sizes
<1>4. /\ \A x \in Cell : acc[x] = IF x \in fix THEN ch.refused[x] ELSE ch.accepted[x]
      /\ \A x \in Cell : ref[x] = IF x \in fix THEN 0 ELSE ch.refused[x]
  OBVIOUS
<1>5. \A x \in Cell : x \in fix => /\ x[2] = p /\ ch.refused[x] > ch.accepted[x]
                                   /\ ch.prepaid >= TotalReceiptSize(ch, p)
  OBVIOUS
<1> HIDE DEF fix, acc, ref
<1>6. /\ d \in Channel /\ d.accepted = acc /\ d.refused = ref
      /\ d.known = ch.known /\ d.syncing = ch.syncing /\ d.prepaid = ch.prepaid
      /\ d.total = ch.total /\ d.receipt = ch.receipt /\ d.sent = ch.sent
  BY <1>2, <1>3 DEF Channel
<1>7. ASSUME NEW x \in Cell
      PROVE  d.accepted[x] >= ch.accepted[x] /\ MaxReceiptSize(d, x) = MaxReceiptSize(ch, x)
  <2>1. ch.accepted[x] \in Nat /\ ch.refused[x] \in Nat
    BY ChannelFields, SizesAreNumbers
  <2>2. MaxReceiptSize(ch, x) = IF ch.accepted[x] >= ch.refused[x]
                                THEN ch.accepted[x] ELSE ch.refused[x]
    BY MaxReceiptSizeIs
  <2>3. MaxReceiptSize(d, x) = IF d.accepted[x] >= d.refused[x]
                               THEN d.accepted[x] ELSE d.refused[x]
    BY <1>6, MaxReceiptSizeIs
  <2>4. CASE x \in fix
    <3>1. d.accepted[x] = ch.refused[x] /\ d.refused[x] = 0 /\ ch.refused[x] > ch.accepted[x]
      BY <1>4, <1>5, <1>6, <2>4
    <3> QED BY <2>1, <2>2, <2>3, <3>1
  <2>5. CASE x \notin fix
    <3>1. d.accepted[x] = ch.accepted[x] /\ d.refused[x] = ch.refused[x]
      BY <1>4, <1>6, <2>5
    <3> QED BY <2>1, <2>2, <2>3, <3>1
  <2> QED BY <2>4, <2>5
<1>8. \A q \in Replicators : TotalReceiptSize(d, q) = TotalReceiptSize(ch, q)
  <2> SUFFICES ASSUME NEW q \in Replicators
               PROVE  TotalReceiptSize(d, q) = TotalReceiptSize(ch, q)
    OBVIOUS
  <2>1. \A c \in Clients : <<c, q>> \in Cell
    BY DEF Cell
  <2>2. \A c \in Clients : MaxReceiptSize(d, <<c, q>>) = MaxReceiptSize(ch, <<c, q>>)
    BY <1>7, <2>1
  <2> QED BY <1>6, <2>2, SameParts
<1>9. ASSUME Consistent(ch) PROVE Consistent(d)
  <2>1. Parts(d) = Parts(ch)
    BY <1>8 DEF Parts
  <2>2. ASSUME NEW q \in Replicators PROVE TotalAcceptedReceiptSize(d, q) <= d.prepaid
    <3>1. \A c \in Clients : <<c, q>> \in Cell /\ <<c, q>>[2] = q
      BY DEF Cell
    <3>2. CASE q = p /\ ch.prepaid >= TotalReceiptSize(ch, p)
      <4>1. TotalAcceptedReceiptSize(d, q) <= TotalReceiptSize(d, q)
        BY <1>6, PartTypes
      <4>2. TotalAcceptedReceiptSize(d, q) \in Nat /\ TotalReceiptSize(d, q) \in Nat
        BY <1>6, PartTypes
      <4>3. TotalReceiptSize(d, q) <= d.prepaid /\ d.prepaid \in Nat
        BY <1>6, <1>8, <3>2, ChannelFields
      <4> QED BY <4>1, <4>2, <4>3
    <3>3. CASE ~(q = p /\ ch.prepaid >= TotalReceiptSize(ch, p))
      <4>1. \A c \in Clients : d.accepted[<<c, q>>] = ch.accepted[<<c, q>>]
        BY <1>4, <1>5, <1>6, <3>1, <3>3
      <4>2. TotalAcceptedReceiptSize(d, q) = TotalAcceptedReceiptSize(ch, q)
        BY <1>6, <4>1, SameCredit
      <4> QED BY <1>6, <1>9, <4>2 DEF Consistent
    <3> QED BY <3>2, <3>3
  <2>3. d.total = SumFunction(Parts(d))
    BY <1>6, <1>9, <2>1 DEF Consistent
  <2> QED BY <2>2, <2>3 DEF Consistent
<1> QED BY <1>1, <1>6, <1>7, <1>9 DEF Grown

\* The larger sizes of all receipts.
Largest(ch) == [x \in Cell |-> MaxReceiptSize(ch, x)]

LEMMA PartsAreColumns ==
    ASSUME NEW ch \in Channel
    PROVE  Largest(ch) \in [Cell -> Nat] /\ Parts(ch) = Columns(Largest(ch))
<1>1. Largest(ch) \in [Cell -> Nat]
  BY MaxReceiptSizeIs DEF Largest
<1>2. ASSUME NEW p \in Replicators
      PROVE  TotalReceiptSize(ch, p) = SumFunction(Column(Largest(ch), p))
  <2>1. \A c \in Clients : <<c, p>> \in Cell
    BY DEF Cell
  <2>2. Column(Largest(ch), p) = Asked(ch, p)
    BY <2>1 DEF Column, Largest, Asked
  <2> QED BY <2>2, PartTypes
<1> QED BY <1>1, <1>2 DEF Parts, Columns

\* A new receipt: the total grows as much as the one part.
LEMMA TakenTotal ==
    ASSUME NEW ch \in Channel, NEW d \in Channel, NEW x \in Cell, NEW n \in Nat,
           MaxReceiptSize(d, x) = MaxReceiptSize(ch, x) + n,
           \A y \in Cell : y # x => MaxReceiptSize(d, y) = MaxReceiptSize(ch, y)
    PROVE  SumFunction(Parts(d)) = SumFunction(Parts(ch)) + n
<1>1. PICK f, h : f = Largest(ch) /\ h = Largest(d)
  OBVIOUS
<1>2. f \in [Cell -> Nat] /\ h \in [Cell -> Nat]
  BY <1>1, PartsAreColumns
<1>3. h[x] = f[x] + n /\ \A y \in Cell : y # x => h[y] = f[y]
  BY <1>1 DEF Largest
<1>4. SumFunction(Columns(h)) = SumFunction(Columns(f)) + n
  BY ONLY <1>2, <1>3, x \in Cell, n \in Nat, ColumnsChange
<1> QED BY <1>1, <1>4, PartsAreColumns

\* The account of x after a new receipt, accepted or refused.
LEMMA GrownByTaking ==
    ASSUME NEW ch \in Channel, NEW x \in Cell, NEW size \in 1..MaxSize, NEW total,
           size > MaxReceiptSize(ch, x), total = ch.total + size - MaxReceiptSize(ch, x)
    PROVE  /\ Grown(ch, [ch EXCEPT !.total = total, !.refused[x] = size])
           /\ total <= ch.prepaid =>
                 Grown(ch, [ch EXCEPT !.total = total, !.accepted[x] = size])
<1>1. /\ ch.accepted[x] \in Nat /\ ch.refused[x] \in Nat /\ ch.total \in Nat
      /\ ch.prepaid \in Nat /\ size \in Nat /\ size <= MaxSize
  BY ChannelFields, SizesAreNumbers, DownloadChannelAssumption
<1>2. PICK n : n = size - MaxReceiptSize(ch, x)
  OBVIOUS
<1>3. /\ MaxReceiptSize(ch, x) \in Nat /\ MaxReceiptSize(ch, x) >= ch.accepted[x]
      /\ MaxReceiptSize(ch, x) >= ch.refused[x]
  BY MaxReceiptSizeIs
<1>4. n \in Nat /\ total = ch.total + n /\ total \in Nat /\ size = MaxReceiptSize(ch, x) + n
  BY <1>1, <1>2, <1>3
<1>5. ASSUME NEW d \in Channel, MaxReceiptSize(d, x) = size, d.total = total,
             \A y \in Cell : y # x => MaxReceiptSize(d, y) = MaxReceiptSize(ch, y),
             Consistent(ch)
      PROVE  d.total = SumFunction(Parts(d))
  <2>1. SumFunction(Parts(d)) = SumFunction(Parts(ch)) + n
    BY <1>4, <1>5, TakenTotal
  <2> QED BY <1>4, <1>5, <2>1 DEF Consistent
<1>6. Grown(ch, [ch EXCEPT !.total = total, !.refused[x] = size])
  <2>1. PICK d : d = [ch EXCEPT !.total = total, !.refused[x] = size]
    OBVIOUS
  <2>2. PICK ref : ref = [ch.refused EXCEPT ![x] = size]
    OBVIOUS
  <2>3. ref \in Sizes /\ ref[x] = size /\ \A y \in Cell : y # x => ref[y] = ch.refused[y]
    BY <1>1, <2>2, ChannelFields, DownloadChannelAssumption DEF Sizes
  <2>4. /\ d \in Channel /\ d.accepted = ch.accepted /\ d.refused = ref /\ d.total = total
        /\ d.known = ch.known /\ d.syncing = ch.syncing /\ d.prepaid = ch.prepaid
        /\ d.sent = ch.sent
    BY <1>4, <2>1, <2>2, <2>3 DEF Channel
  <2>5. MaxReceiptSize(d, x) = size
    <3>1. MaxReceiptSize(d, x) = IF d.accepted[x] >= d.refused[x]
                                 THEN d.accepted[x] ELSE d.refused[x]
      BY <2>4, MaxReceiptSizeIs
    <3>2. d.accepted[x] < d.refused[x] /\ d.refused[x] = size
      BY <1>1, <1>3, <2>3, <2>4
    <3> QED BY <1>1, <2>4, <3>1, <3>2
  <2>6. \A y \in Cell : y # x => MaxReceiptSize(d, y) = MaxReceiptSize(ch, y)
    BY <2>3, <2>4 DEF MaxReceiptSize
  <2>7. \A y \in Cell : d.accepted[y] >= ch.accepted[y]
    BY <2>4, ChannelFields, SizesAreNumbers
  <2>8. \A p \in Replicators : TotalAcceptedReceiptSize(d, p) = TotalAcceptedReceiptSize(ch, p)
    BY <2>4, SameCredit
  <2>9. Consistent(ch) => Consistent(d)
    BY <1>5, <2>4, <2>5, <2>6, <2>8 DEF Consistent
  <2> QED BY <2>1, <2>4, <2>7, <2>9 DEF Grown
<1>7. ASSUME total <= ch.prepaid
      PROVE  Grown(ch, [ch EXCEPT !.total = total, !.accepted[x] = size])
  <2>1. PICK d : d = [ch EXCEPT !.total = total, !.accepted[x] = size]
    OBVIOUS
  <2>2. PICK acc : acc = [ch.accepted EXCEPT ![x] = size]
    OBVIOUS
  <2>3. acc \in Sizes /\ acc[x] = size /\ \A y \in Cell : y # x => acc[y] = ch.accepted[y]
    BY <1>1, <2>2, ChannelFields, DownloadChannelAssumption DEF Sizes
  <2>4. /\ d \in Channel /\ d.accepted = acc /\ d.refused = ch.refused /\ d.total = total
        /\ d.known = ch.known /\ d.syncing = ch.syncing /\ d.prepaid = ch.prepaid
        /\ d.sent = ch.sent
    BY <1>4, <2>1, <2>2, <2>3 DEF Channel
  <2>5. MaxReceiptSize(d, x) = size
    <3>1. MaxReceiptSize(d, x) = IF d.accepted[x] >= d.refused[x]
                                 THEN d.accepted[x] ELSE d.refused[x]
      BY <2>4, MaxReceiptSizeIs
    <3>2. d.accepted[x] >= d.refused[x] /\ d.accepted[x] = size
      BY <1>1, <1>3, <2>3, <2>4
    <3> QED BY <3>1, <3>2
  <2>6. \A y \in Cell : y # x => MaxReceiptSize(d, y) = MaxReceiptSize(ch, y)
    BY <2>3, <2>4 DEF MaxReceiptSize
  <2>7. ASSUME NEW y \in Cell PROVE d.accepted[y] >= ch.accepted[y]
    <3>1. ch.accepted[y] \in Nat /\ d.accepted[y] \in Nat
      BY <2>4, ChannelFields, SizesAreNumbers
    <3>2. CASE y = x
      BY <1>1, <1>3, <2>3, <2>4, <3>2
    <3>3. CASE y # x
      BY <2>3, <2>4, <3>1, <3>3
    <3> QED BY <3>2, <3>3
  <2>8. ASSUME Consistent(ch) PROVE Consistent(d)
    <3>1. d.total = SumFunction(Parts(d))
      BY <1>5, <2>4, <2>5, <2>6, <2>8
    <3>2. ASSUME NEW p \in Replicators PROVE TotalAcceptedReceiptSize(d, p) <= d.prepaid
      <4>1. TotalAcceptedReceiptSize(d, p) <= TotalReceiptSize(d, p)
        BY <2>4, PartTypes
      <4>2. TotalAcceptedReceiptSize(d, p) \in Nat /\ TotalReceiptSize(d, p) \in Nat
        BY <2>4, PartTypes
      <4>3. PICK h : h = Parts(d)
        OBVIOUS
      <4>4. h \in [Replicators -> Nat] /\ h[p] = TotalReceiptSize(d, p)
        BY <2>4, <4>3, PartTypes DEF Parts
      <4>5. h[p] <= SumFunction(h)
        BY ONLY <4>4, p \in Replicators, SumPart, DownloadChannelAssumption
      <4>6. TotalReceiptSize(d, p) <= total
        BY <2>4, <3>1, <4>3, <4>4, <4>5
      <4> QED BY <1>1, <1>4, <1>7, <2>4, <4>1, <4>2, <4>6
    <3> QED BY <3>1, <3>2 DEF Consistent
  <2> QED BY <2>1, <2>4, <2>7, <2>8 DEF Grown
<1> QED BY <1>6, <1>7

\* acceptUploadSize: an old receipt changes nothing but what tryFixReceiptSize
\* does, a new one is accepted or refused.
LEMMA GrownByUploadSize ==
    ASSUME NEW ch \in Channel, NEW x \in Cell, NEW size \in 1..MaxSize
    PROVE  Grown(ch, AcceptUploadSize(ch, x, size))
<1>1. PICK p \in Replicators : p = x[2]
  BY DEF Cell
<1>2. PICK fixed : fixed = TryFixReceiptSize(ch, x[2])
  OBVIOUS
<1>3. PICK total : total = fixed.total + size - MaxReceiptSize(fixed, x)
  OBVIOUS
<1>4. Grown(ch, fixed) /\ fixed \in Channel
  <2>1. Grown(ch, fixed)
    BY <1>1, <1>2, GrownByFix
  <2> QED BY <2>1 DEF Grown
<1>5. AcceptUploadSize(ch, x, size) =
         CASE size <= MaxReceiptSize(fixed, x) -> fixed
           [] size > MaxReceiptSize(fixed, x) /\ total > fixed.prepaid ->
                 [fixed EXCEPT !.total = total, !.refused[x] = size]
           [] OTHER -> [fixed EXCEPT !.total = total, !.accepted[x] = size]
  BY <1>2, <1>3, Zenon DEF AcceptUploadSize
<1>6. /\ MaxReceiptSize(fixed, x) \in Nat /\ size \in Nat /\ fixed.prepaid \in Nat
      /\ fixed.total \in Nat
  BY <1>4, MaxReceiptSizeIs, ChannelFields, DownloadChannelAssumption
<1>7. total \in Int
  BY <1>3, <1>6
<1>8. CASE size <= MaxReceiptSize(fixed, x)
  <2>1. AcceptUploadSize(ch, x, size) = fixed
    BY <1>5, <1>6, <1>8
  <2> QED BY <1>4, <2>1
<1>9. CASE size > MaxReceiptSize(fixed, x)
  <2>1. /\ Grown(fixed, [fixed EXCEPT !.total = total, !.refused[x] = size])
        /\ total <= fixed.prepaid =>
              Grown(fixed, [fixed EXCEPT !.total = total, !.accepted[x] = size])
    BY ONLY <1>3, <1>4, <1>9, x \in Cell, size \in 1..MaxSize, GrownByTaking
  <2>2. CASE total > fixed.prepaid
    <3>1. AcceptUploadSize(ch, x, size) = [fixed EXCEPT !.total = total, !.refused[x] = size]
      BY <1>5, <1>6, <1>9, <2>2
    <3> QED BY <1>4, <2>1, <3>1, GrownTwice
  <2>3. CASE ~(total > fixed.prepaid)
    <3>1. AcceptUploadSize(ch, x, size) = [fixed EXCEPT !.total = total, !.accepted[x] = size]
      BY <1>5, <1>6, <1>9, <2>3
    <3>2. total <= fixed.prepaid
      BY <1>6, <1>7, <2>3
    <3> QED BY <1>4, <2>1, <3>1, <3>2, GrownTwice
  <2> QED BY <2>2, <2>3
<1> QED BY <1>6, <1>8, <1>9

\* acceptReceiptImpl
LEMMA GrownByReceipt ==
    ASSUME NEW ch \in Channel, NEW x \in Cell, NEW size \in 1..MaxSize
    PROVE  Grown(ch, AcceptReceiptImpl(ch, x, size))
<1>1. PICK done : done = AcceptUploadSize(ch, x, size)
  OBVIOUS
<1>2. Grown(ch, done) /\ done \in Channel
  <2>1. Grown(ch, done)
    BY <1>1, GrownByUploadSize
  <2> QED BY <2>1 DEF Grown
<1>3. PICK d : d = AcceptReceiptImpl(ch, x, size)
  OBVIOUS
<1>4. PICK k : k = Max({done.receipt[x], size})
  OBVIOUS
<1>5. d = [done EXCEPT !.receipt = [done.receipt EXCEPT ![x] = k]]
  BY <1>1, <1>3, <1>4 DEF AcceptReceiptImpl
<1>6. done.receipt[x] \in Nat /\ done.receipt[x] <= MaxSize /\ size \in Nat /\ size <= MaxSize
  BY <1>2, ChannelFields, SizesAreNumbers, DownloadChannelAssumption
<1>7. k \in 0..MaxSize
  <2>1. PICK a : a = done.receipt[x]
    OBVIOUS
  <2>2. Max({a, size}) = IF a >= size THEN a ELSE size
    BY <1>6, <2>1, MaxOfTwo
  <2> QED BY <1>4, <1>6, <2>1, <2>2
<1>8. [done.receipt EXCEPT ![x] = k] \in Sizes
  BY <1>2, <1>7, ChannelFields DEF Sizes
<1>9. /\ d \in Channel /\ d.accepted = done.accepted /\ d.refused = done.refused
      /\ d.known = done.known /\ d.syncing = done.syncing /\ d.prepaid = done.prepaid
      /\ d.sent = done.sent /\ d.total = done.total
  BY <1>2, <1>5, <1>8 DEF Channel
<1>10. Parts(d) = Parts(done)
  BY <1>9, Zenon DEF Parts, TotalReceiptSize, MaxReceiptSize
<1>11. \A p : TotalAcceptedReceiptSize(d, p) = TotalAcceptedReceiptSize(done, p)
  BY <1>9, Zenon DEF TotalAcceptedReceiptSize
<1>12. Consistent(done) => Consistent(d)
  BY <1>9, <1>10, <1>11 DEF Consistent
<1>13. \A y \in Cell : d.accepted[y] >= done.accepted[y]
  BY <1>2, <1>9, ChannelFields, SizesAreNumbers
<1>14. Grown(done, d)
  BY <1>9, <1>12, <1>13 DEF Grown
<1> QED BY <1>2, <1>3, <1>14, GrownTwice

\* Function h has the channels after the receipts of all subsets of an answer.
SyncFold(ch, cells, receipt, h) ==
    /\ h[{}] = ch
    /\ \A s \in SUBSET cells : s # {} =>
          h[s] = AcceptReceiptImpl(h[s \ {Choice(s)}], Choice(s), receipt[Choice(s)])

\* onSyncRcptReceived: a whole answer, receipt by receipt.
LEMMA SyncIsFold ==
    ASSUME NEW ch \in Channel, NEW cells \in SUBSET Cell, NEW receipt,
           \A x \in cells : receipt[x] \in 1..MaxSize
    PROVE  \E h : /\ SyncFold(ch, cells, receipt, h)
                  /\ AcceptSyncRcpts(ch, cells, receipt) = h[cells]
<1> DEFINE st == [z \in cells \X Channel |-> AcceptReceiptImpl(z[2], z[1], receipt[z[1]])]
           P(h) == h = [s \in SUBSET cells |->
                          IF s = {} THEN ch
                          ELSE AcceptReceiptImpl(h[s \ {CHOOSE x \in s : TRUE}],
                                                 CHOOSE x \in s : TRUE,
                                                 receipt[CHOOSE x \in s : TRUE])]
<1>1. IsFiniteSet(cells)
  BY CellIsFinite, FS_Subset
<1>2. st \in [cells \X Channel -> Channel]
  <2> SUFFICES ASSUME NEW x \in cells, NEW d \in Channel
               PROVE  AcceptReceiptImpl(d, x, receipt[x]) \in Channel
    OBVIOUS
  <2>1. Grown(d, AcceptReceiptImpl(d, x, receipt[x]))
    BY GrownByReceipt
  <2> QED BY <2>1 DEF Grown
<1>3. PICK g \in [SUBSET cells -> Channel] : Folded(cells, ch, st, g)
  <2> HIDE DEF st
  <2> QED BY <1>1, <1>2, FoldExists
<1>4. ASSUME NEW s \in SUBSET cells
      PROVE  g[s] = IF s = {} THEN ch
                    ELSE AcceptReceiptImpl(g[s \ {Choice(s)}], Choice(s), receipt[Choice(s)])
  <2> SUFFICES ASSUME s # {}
               PROVE  g[s] = AcceptReceiptImpl(g[s \ {Choice(s)}], Choice(s), receipt[Choice(s)])
    BY <1>3 DEF Folded
  <2>1. Choice(s) \in cells /\ s \ {Choice(s)} \in SUBSET cells
    BY ChoiceRest
  <2>2. g[s \ {Choice(s)}] \in Channel
    BY <2>1
  <2>3. g[s] = st[<<Choice(s), g[s \ {Choice(s)}]>>]
    BY <1>3 DEF Folded
  <2> QED BY <2>1, <2>2, <2>3
<1>5. P(g)
  <2>1. g = [s \in SUBSET cells |-> g[s]]
    OBVIOUS
  <2> QED BY <1>4, <2>1, Zenon DEF Choice
<1>6. PICK h : h = CHOOSE x : P(x)
  OBVIOUS
<1>7. P(h)
  <2> HIDE DEF P
  <2> QED BY <1>5, <1>6, Zenon
<1>8. AcceptSyncRcpts(ch, cells, receipt) = h[cells]
  <2>1. AcceptSyncRcpts(ch, cells, receipt) = (CHOOSE x : P(x))[cells]
    BY Zenon DEF AcceptSyncRcpts, FoldSet, MapThenFoldSet
  <2> HIDE DEF P
  <2> QED BY <1>6, <2>1, Zenon
<1>9. ASSUME NEW s \in SUBSET cells
      PROVE  h[s] = IF s = {} THEN ch
                    ELSE AcceptReceiptImpl(h[s \ {Choice(s)}], Choice(s), receipt[Choice(s)])
  BY <1>7, Zenon DEF Choice
<1> HIDE DEF st, P
<1>10. h[{}] = ch
  BY <1>9
<1> QED BY <1>8, <1>9, <1>10 DEF SyncFold

LEMMA GrownBySync ==
    ASSUME NEW ch \in Channel, NEW cells \in SUBSET Cell, NEW receipt,
           \A x \in cells : receipt[x] \in 1..MaxSize
    PROVE  Grown(ch, AcceptSyncRcpts(ch, cells, receipt))
<1>1. PICK h : SyncFold(ch, cells, receipt, h) /\ AcceptSyncRcpts(ch, cells, receipt) = h[cells]
  BY SyncIsFold
<1> DEFINE T == {s \in SUBSET cells : Grown(ch, h[s])}
<1>2. T \in SUBSET SUBSET cells /\ {} \in T
  BY <1>1, GrownSame DEF SyncFold
<1>3. ASSUME NEW s \in SUBSET cells, s # {}, s \ {Choice(s)} \in T PROVE s \in T
  <2>1. PICK x, d : x = Choice(s) /\ d = h[s \ {Choice(s)}]
    OBVIOUS
  <2>2. x \in cells /\ x \in Cell /\ receipt[x] \in 1..MaxSize
    BY <1>3, <2>1, ChoiceRest
  <2>3. Grown(ch, d) /\ d \in Channel
    BY <1>3, <2>1 DEF Grown
  <2>4. h[s] = AcceptReceiptImpl(d, x, receipt[x])
    BY <1>1, <1>3, <2>1 DEF SyncFold
  <2>5. Grown(d, h[s])
    BY <2>2, <2>3, <2>4, GrownByReceipt
  <2>6. Grown(ch, h[s])
    BY <2>3, <2>5, GrownTwice
  <2> QED BY <2>6
<1>4. T = SUBSET cells
  <2>1. IsFiniteSet(cells)
    BY CellIsFinite, FS_Subset
  <2> HIDE DEF T
  <2> QED BY <1>2, <1>3, <2>1, ChoiceInduction
<1>5. cells \in T
  BY <1>4
<1> QED BY <1>1, <1>5

------------------------------------------------------------------------------
(* The invariant. *)

\* An enlargement waits for a replicator only after the chain has seen it.
WaitingIsCounted == \A r \in Replicators : waiting[r] <= chain.events

\* What was sent to c is covered, in a channel or in a saved one.
CoveredBy(ch, r) ==
    \A c \in Clients : ch.sent[c] <= ch.accepted[<<c, r>>] + ReceiptLimit + 1

Covered ==
    \A r \in Replicators : CoveredBy(channel[r], r) /\ CoveredBy(file[r], r)

AllConsistent ==
    \A r \in Replicators : channel[r].known /\ ~file[r].known => Consistent(channel[r])

Accounts == TypeOK /\ WaitingIsCounted /\ Covered /\ AllConsistent

LEMMA NoChannelType ==
    /\ NoChannel \in Channel /\ Zero \in Sizes
    /\ Save(NoChannel) \in Saved /\ ~Save(NoChannel).known
<1>1. Zero \in Sizes
  BY DownloadChannelAssumption DEF Zero, Sizes
<1>2. [c \in Clients |-> 0] \in [Clients -> 0..MaxSize + 1]
  BY DownloadChannelAssumption
<1>3. NoChannel \in Channel
  BY <1>1, <1>2 DEF NoChannel, Channel
<1>4. Save(NoChannel) \in Saved /\ ~Save(NoChannel).known
  BY <1>1, <1>2 DEF NoChannel, Save, Saved
<1> QED BY <1>1, <1>3, <1>4

LEMMA NoChannelCovered ==
    ASSUME NEW r \in Replicators
    PROVE  CoveredBy(NoChannel, r) /\ CoveredBy(Save(NoChannel), r)
<1>1. \A c \in Clients : <<c, r>> \in Cell
  BY DEF Cell
<1> QED BY <1>1, DownloadChannelAssumption DEF CoveredBy, NoChannel, Save, Zero

\* An empty channel is consistent.
LEMMA EmptyConsistent ==
    ASSUME NEW ch \in Channel, ch.total = 0, ch.accepted = Zero, ch.refused = Zero
    PROVE  Consistent(ch)
<1>1. \A x \in Cell : MaxReceiptSize(ch, x) = 0
  <2> SUFFICES ASSUME NEW x \in Cell PROVE MaxReceiptSize(ch, x) = 0
    OBVIOUS
  <2>1. ch.accepted[x] = 0 /\ ch.refused[x] = 0
    BY DEF Zero
  <2> QED BY <2>1, MaxReceiptSizeIs
<1>2. ASSUME NEW p \in Replicators PROVE TotalAcceptedReceiptSize(ch, p) = 0
  <2>1. \A c \in Clients : <<c, p>> \in Cell
    BY DEF Cell
  <2>2. PICK h : h = Credited(ch, p)
    OBVIOUS
  <2>3. h \in [Clients -> Nat] /\ \A c \in Clients : h[c] = 0
    BY <2>1, <2>2, PartTypes DEF Credited, Zero
  <2>4. SumFunction(h) = 0
    BY <2>3, SumOfZeros, DownloadChannelAssumption
  <2> QED BY <2>2, <2>4, PartTypes
<1>3. PICK h : h = Largest(ch)
  OBVIOUS
<1>4. h \in [Cell -> Nat] /\ \A x \in Cell : h[x] = 0
  BY <1>1, <1>3, PartsAreColumns DEF Largest
<1>5. SumFunction(Columns(h)) = 0
  BY <1>4, ColumnsOfZeros
<1> QED BY <1>2, <1>3, <1>5, PartsAreColumns, ChannelFields DEF Consistent

LEMMA InitAccounts ==
    Init => Accounts
<1> SUFFICES ASSUME Init PROVE Accounts
  OBVIOUS
<1>1. TypeOK
  BY NoChannelType, DownloadChannelAssumption DEF Init, TypeOK, NoSync
<1>2. WaitingIsCounted
  BY DEF Init, WaitingIsCounted
<1>3. Covered
  BY NoChannelCovered DEF Init, Covered
<1>4. AllConsistent
  BY DEF Init, AllConsistent, NoChannel
<1> QED BY <1>1, <1>2, <1>3, <1>4 DEF Accounts

------------------------------------------------------------------------------
(* Every step keeps the invariant, and what was accepted. *)

\* What is accepted by a channel that stays is not taken back.
Keeps ==
    \A r \in Replicators : channel[r].known /\ channel'[r].known =>
        \A x \in Cell : channel'[r].accepted[x] >= channel[r].accepted[x]

\* The parts of the state that have a type of their own.
RestTypes ==
    /\ chain \in [first : Prepaid, prepaid : Nat, closed : BOOLEAN, events : 0..MaxEvents,
                  restarted : BOOLEAN]
    /\ phase \in [Replicators -> {"up", "down"}]
    /\ file \in [Replicators -> Saved]
    /\ sync \in [Replicators -> [on : BOOLEAN, answers : SUBSET Replicators,
                                 asked : SUBSET Replicators, timer : BOOLEAN]]
    /\ waiting \in [Replicators -> 0..MaxEvents]
    /\ connected \subseteq Cell
    /\ signed \in Sizes
    /\ net \subseteq Receipt
    /\ traffic \in [Replicators -> [sent : [Clients -> Nat], losses : Nat]]

LEMMA SplitTypes ==
    TypeOK <=> RestTypes /\ channel \in [Replicators -> Channel]
BY DEF TypeOK, RestTypes

LEMMA SplitTypesNext ==
    TypeOK' <=> RestTypes' /\ channel' \in [Replicators -> Channel]
BY DEF TypeOK, RestTypes

\* One channel changes, and nothing is saved.
LEMMA OneChannel ==
    ASSUME Accounts, NEW r \in Replicators, NEW d \in Channel,
           channel' = [channel EXCEPT ![r] = d], file' = file, CoveredBy(d, r),
           d.known /\ ~file[r].known => Consistent(d)
    PROVE  channel' \in [Replicators -> Channel] /\ Covered' /\ AllConsistent'
<1>1. channel \in [Replicators -> Channel]
  BY DEF Accounts, TypeOK
<1>2. /\ channel' \in [Replicators -> Channel] /\ channel'[r] = d
      /\ \A q \in Replicators : q # r => channel'[q] = channel[q]
  BY <1>1
<1>3. ASSUME NEW q \in Replicators PROVE CoveredBy(channel'[q], q) /\ CoveredBy(file'[q], q)
  <2>1. CoveredBy(channel[q], q) /\ CoveredBy(file[q], q)
    BY DEF Accounts, Covered
  <2>2. (channel'[q] = d /\ q = r) \/ channel'[q] = channel[q]
    BY <1>2
  <2> QED BY <2>1, <2>2
<1>4. ASSUME NEW q \in Replicators, channel'[q].known, ~file'[q].known
      PROVE  Consistent(channel'[q])
  <2>1. channel[q].known /\ ~file[q].known => Consistent(channel[q])
    BY DEF Accounts, AllConsistent
  <2>2. (channel'[q] = d /\ q = r) \/ channel'[q] = channel[q]
    BY <1>2
  <2> QED BY <1>4, <2>1, <2>2
<1>5. Covered'
  BY <1>3 DEF Covered
<1>6. AllConsistent'
  BY <1>4 DEF AllConsistent
<1> QED BY <1>2, <1>5, <1>6

\* What became of a channel by receipts.
LEMMA GrownChannel ==
    ASSUME Accounts, NEW r \in Replicators, NEW d, Grown(channel[r], d),
           channel' = [channel EXCEPT ![r] = d], file' = file
    PROVE  channel' \in [Replicators -> Channel] /\ Covered' /\ AllConsistent' /\ Keeps
<1>1. PICK ch \in Channel : ch = channel[r]
  BY DEF Accounts, TypeOK
<1>2. Grown(ch, d) /\ d \in Channel
  BY <1>1 DEF Grown
<1>3. CoveredBy(d, r)
  <2> SUFFICES ASSUME NEW c \in Clients
               PROVE  d.sent[c] <= d.accepted[<<c, r>>] + ReceiptLimit + 1
    BY DEF CoveredBy
  <2>1. PICK x \in Cell : x = <<c, r>>
    BY DEF Cell
  <2>2. ch.sent[c] <= ch.accepted[x] + ReceiptLimit + 1
    BY <1>1, <2>1 DEF Accounts, Covered, CoveredBy
  <2>3. d.accepted[x] >= ch.accepted[x] /\ d.sent = ch.sent
    BY <1>2 DEF Grown
  <2>4. /\ ch.accepted[x] \in Nat /\ d.accepted[x] \in Nat /\ ReceiptLimit \in Nat
        /\ ch.sent[c] \in Int
    BY <1>2, ChannelFields, SizesAreNumbers, DownloadChannelAssumption
  <2>5. ch.sent[c] <= d.accepted[x] + ReceiptLimit + 1
    BY <2>2, <2>3, <2>4
  <2> QED BY <2>1, <2>3, <2>5
<1>4. d.known /\ ~file[r].known => Consistent(d)
  BY <1>1, <1>2 DEF Accounts, AllConsistent, Grown
<1>5. channel' \in [Replicators -> Channel] /\ Covered' /\ AllConsistent'
  BY <1>2, <1>3, <1>4, OneChannel
<1>6. ASSUME NEW q \in Replicators, NEW x \in Cell
      PROVE  channel'[q].accepted[x] >= channel[q].accepted[x]
  <2>1. channel \in [Replicators -> Channel]
    BY DEF Accounts, TypeOK
  <2>2. channel[q].accepted[x] \in Nat
    BY <2>1, ChannelFields, SizesAreNumbers
  <2>3. CASE q = r
    BY <1>1, <1>2, <2>1, <2>3 DEF Grown
  <2>4. CASE q # r
    <3>1. channel'[q] = channel[q]
      BY <2>1, <2>4
    <3> QED BY <2>2, <3>1
  <2> QED BY <2>3, <2>4
<1> QED BY <1>5, <1>6 DEF Keeps

\* A channel that is not in the map any more, or was not, keeps nothing.
LEMMA OtherChannelsKeep ==
    ASSUME TypeOK, NEW r \in Replicators, NEW d, channel' = [channel EXCEPT ![r] = d],
           ~channel[r].known \/ ~d.known
    PROVE  Keeps
<1>1. channel \in [Replicators -> Channel]
  BY DEF TypeOK
<1> SUFFICES ASSUME NEW q \in Replicators, channel[q].known, channel'[q].known, NEW x \in Cell
             PROVE  channel'[q].accepted[x] >= channel[q].accepted[x]
  BY DEF Keeps
<1>2. q # r
  BY <1>1
<1>3. channel'[q] = channel[q]
  BY <1>1, <1>2
<1>4. channel[q].accepted[x] \in Nat
  BY <1>1, ChannelFields, SizesAreNumbers
<1> QED BY <1>3, <1>4

LEMMA SameChannelsKeep ==
    ASSUME TypeOK, channel' = channel
    PROVE  Keeps
<1> SUFFICES ASSUME NEW q \in Replicators, NEW x \in Cell
             PROVE  channel[q].accepted[x] >= channel[q].accepted[x]
  BY DEF Keeps
<1>1. channel[q] \in Channel
  BY DEF TypeOK
<1>2. channel[q].accepted[x] \in Nat
  BY <1>1, ChannelFields, SizesAreNumbers
<1> QED BY <1>2

\* Channels and files stay.
LEMMA SameChannels ==
    ASSUME Accounts, channel' = channel, file' = file
    PROVE  channel' \in [Replicators -> Channel] /\ Covered' /\ AllConsistent' /\ Keeps
<1>1. Keeps
  BY SameChannelsKeep DEF Accounts
<1>2. Covered' /\ AllConsistent'
  BY DEF Accounts, Covered, AllConsistent
<1> QED BY <1>1, <1>2 DEF Accounts, TypeOK

\* Receipts have been processed: receipts are passed on.
LEMMA UpdateKeeps ==
    ASSUME Accounts, NEW r \in Replicators, NEW d, Grown(channel[r], d), Update(r, d),
           file' = file
    PROVE  /\ channel' \in [Replicators -> Channel] /\ Covered' /\ AllConsistent' /\ Keeps
           /\ net' \subseteq Receipt
<1>1. channel' = [channel EXCEPT ![r] = d]
  BY DEF Update
<1>2. PICK some : net' = net \cup Forwarded(r, channel[r], d, some)
  BY DEF Update
<1>3. Forwarded(r, channel[r], d, some) \subseteq Receipt
  BY DEF Forwarded
<1>4. net \subseteq Receipt
  BY DEF Accounts, TypeOK
<1> QED BY <1>1, <1>2, <1>3, <1>4, GrownChannel

LEMMA StepAcceptReceipt ==
    ASSUME Accounts, NEW c \in Clients, NEW r \in Replicators, NEW size \in 1..MaxSize,
           AcceptReceipt(c, r, size)
    PROVE  Accounts' /\ Keeps
<1>1. PICK x \in Cell : x = <<c, r>>
  BY DEF Cell
<1>2. channel[r] \in Channel /\ RestTypes
  BY SplitTypes DEF Accounts
<1>3. /\ signed' = [signed EXCEPT ![x] = size]
      /\ UNCHANGED <<chain, phase, file, sync, waiting, traffic>>
  BY <1>1 DEF AcceptReceipt
<1>4. signed' \in Sizes
  BY <1>2, <1>3, DownloadChannelAssumption DEF RestTypes, Sizes
<1>5. /\ channel' \in [Replicators -> Channel] /\ Covered' /\ AllConsistent' /\ Keeps
      /\ net' \subseteq Receipt /\ connected' \subseteq Cell
  <2>1. CASE channel[r].known
    <3>1. PICK ch : ch = AcceptReceiptImpl(channel[r], x, size)
      OBVIOUS
    <3>2. /\ Update(r, ch)
          /\ connected' = IF ch.refused[x] = size THEN connected \ {x} ELSE connected
      BY <1>1, <2>1, <3>1 DEF AcceptReceipt
    <3>3. Grown(channel[r], ch)
      BY <1>2, <3>1, GrownByReceipt
    <3>4. connected' \subseteq Cell
      BY <1>2, <3>2 DEF RestTypes
    <3> QED BY <1>3, <3>2, <3>3, <3>4, UpdateKeeps
  <2>2. CASE ~channel[r].known
    <3>1. connected' = connected \ {x} /\ channel' = channel /\ net' = net
      BY <1>1, <2>2 DEF AcceptReceipt
    <3> QED BY <1>2, <1>3, <3>1, SameChannels DEF RestTypes
  <2> QED BY <2>1, <2>2
<1>6. RestTypes'
  BY <1>2, <1>3, <1>4, <1>5 DEF RestTypes
<1>7. WaitingIsCounted'
  BY <1>3 DEF Accounts, WaitingIsCounted
<1> QED BY <1>5, <1>6, <1>7, SplitTypesNext DEF Accounts

LEMMA StepOnRcpt ==
    ASSUME Accounts, NEW m \in net, OnRcpt(m)
    PROVE  Accounts' /\ Keeps
<1>1. RestTypes /\ \A r \in Replicators : channel[r] \in Channel
  BY SplitTypes DEF Accounts
<1>2. m.to \in Replicators /\ m.cell \in Cell /\ m.size \in 1..MaxSize
  BY <1>1 DEF RestTypes, Receipt
<1>3. PICK d : d = AcceptReceiptImpl(channel[m.to], m.cell, m.size)
  OBVIOUS
<1>4. Grown(channel[m.to], d)
  BY <1>1, <1>2, <1>3, GrownByReceipt
<1>5. Update(m.to, d) /\ UNCHANGED <<chain, phase, file, sync, waiting, connected, signed, traffic>>
  BY <1>3 DEF OnRcpt
<1>6. /\ channel' \in [Replicators -> Channel] /\ Covered' /\ AllConsistent' /\ Keeps
      /\ net' \subseteq Receipt
  BY <1>2, <1>4, <1>5, UpdateKeeps
<1>7. RestTypes'
  BY <1>1, <1>5, <1>6 DEF RestTypes
<1>8. WaitingIsCounted'
  BY <1>5 DEF Accounts, WaitingIsCounted
<1> QED BY <1>6, <1>7, <1>8, SplitTypesNext DEF Accounts

LEMMA StepOnSyncRcptReceived ==
    ASSUME Accounts, NEW r \in Replicators, NEW s \in Replicators, OnSyncRcptReceived(r, s)
    PROVE  Accounts' /\ Keeps
<1>1. RestTypes /\ channel[r] \in Channel /\ channel[s] \in Channel
  BY SplitTypes DEF Accounts
<1>2. UNCHANGED <<chain, phase, file, waiting, connected, signed, traffic>>
  BY DEF OnSyncRcptReceived
<1>3. sync' \in [Replicators -> [on : BOOLEAN, answers : SUBSET Replicators,
                                 asked : SUBSET Replicators, timer : BOOLEAN]]
  <2>1. PICK answers : answers = sync[r].answers \cup {s}
    OBVIOUS
  <2>2. PICK more : more = (sync[r].on /\ Cardinality(answers) < ConsensusThreshould(r))
    OBVIOUS
  <2>3. PICK e : e = [sync[r] EXCEPT !.asked = @ \ {s},
                                     !.answers = IF sync[r].on THEN answers ELSE @,
                                     !.on = more]
    OBVIOUS
  <2>4. sync' = [sync EXCEPT ![r] = e]
    BY <1>1, <2>1, <2>2, <2>3 DEF OnSyncRcptReceived, RestTypes
  <2>5. more \in BOOLEAN /\ answers \in SUBSET Replicators
    BY <1>1, <2>1, <2>2 DEF RestTypes
  <2>6. e \in [on : BOOLEAN, answers : SUBSET Replicators,
               asked : SUBSET Replicators, timer : BOOLEAN]
    <3>1. PICK o : o = sync[r]
      OBVIOUS
    <3>2. o \in [on : BOOLEAN, answers : SUBSET Replicators,
                 asked : SUBSET Replicators, timer : BOOLEAN]
      BY <1>1, <3>1 DEF RestTypes
    <3>3. PICK a, b : a = o.asked \ {s} /\ b = IF o.on THEN answers ELSE o.answers
      OBVIOUS
    <3>4. e = [o EXCEPT !.asked = a, !.answers = b, !.on = more]
      BY <2>3, <3>1, <3>3, Zenon
    <3>5. a \in SUBSET Replicators /\ b \in SUBSET Replicators
      BY <2>5, <3>2, <3>3
    <3> QED BY <2>5, <3>2, <3>4, <3>5
  <2> QED BY <1>1, <2>4, <2>6 DEF RestTypes
<1>4. /\ channel' \in [Replicators -> Channel] /\ Covered' /\ AllConsistent' /\ Keeps
      /\ net' \subseteq Receipt
  <2>1. CASE channel[r].known
    <3>1. PICK cells, receipt : cells = CreateSyncRcpts(s) /\ receipt = channel[s].receipt
      OBVIOUS
    <3>2. PICK d : d = AcceptSyncRcpts(channel[r], cells, receipt)
      OBVIOUS
    <3>3. Update(r, d)
      BY <2>1, <3>1, <3>2 DEF OnSyncRcptReceived
    <3>4. cells \in SUBSET Cell /\ \A x \in cells : receipt[x] \in 1..MaxSize
      <4>1. receipt \in Sizes
        BY <1>1, <3>1, ChannelFields
      <4>2. cells \in SUBSET Cell /\ \A x \in cells : receipt[x] > 0
        BY <3>1 DEF CreateSyncRcpts
      <4>3. ASSUME NEW x \in cells PROVE receipt[x] \in 1..MaxSize
        <5>1. receipt[x] \in Nat /\ receipt[x] <= MaxSize /\ receipt[x] > 0
          BY <4>1, <4>2, SizesAreNumbers
        <5> QED BY <5>1, DownloadChannelAssumption
      <4> QED BY <4>2, <4>3
    <3>5. Grown(channel[r], d)
      BY <1>1, <3>2, <3>4, GrownBySync
    <3> QED BY <1>2, <3>3, <3>5, UpdateKeeps
  <2>2. CASE ~channel[r].known
    <3>1. channel' = channel /\ net' = net
      BY <2>2 DEF OnSyncRcptReceived
    <3> QED BY <1>1, <1>2, <3>1, SameChannels DEF RestTypes
  <2> QED BY <2>1, <2>2
<1>5. RestTypes'
  BY <1>1, <1>2, <1>3, <1>4 DEF RestTypes
<1>6. WaitingIsCounted'
  BY <1>2 DEF Accounts, WaitingIsCounted
<1> QED BY <1>4, <1>5, <1>6, SplitTypesNext DEF Accounts

\* A piece is sent to c, and to nobody else.
LEMMA TrafficOfPiece ==
    ASSUME NEW c \in Clients, NEW r \in Replicators, SendPiece(c, r),
           traffic \in [Replicators -> [sent : [Clients -> Nat], losses : Nat]]
    PROVE  /\ traffic' \in [Replicators -> [sent : [Clients -> Nat], losses : Nat]]
           /\ \A q \in Replicators : traffic'[q].losses = traffic[q].losses
           /\ \A q \in Replicators, e \in Clients :
                 traffic'[q].sent[e] = IF q = r /\ e = c THEN traffic[q].sent[e] + 1
                                       ELSE traffic[q].sent[e]
<1>1. PICK t : t = [traffic[r].sent EXCEPT ![c] = @ + 1]
  OBVIOUS
<1>2. PICK u : u = [traffic[r] EXCEPT !.sent = t]
  OBVIOUS
<1>3. traffic' = [traffic EXCEPT ![r] = u]
  BY <1>1, <1>2 DEF SendPiece
<1>4. t \in [Clients -> Nat]
  BY <1>1
<1>5. /\ u \in [sent : [Clients -> Nat], losses : Nat]
      /\ u.losses = traffic[r].losses /\ u.sent = t
  BY <1>2, <1>4
<1>6. \A e \in Clients : t[e] = IF e = c THEN traffic[r].sent[e] + 1 ELSE traffic[r].sent[e]
  BY <1>1
<1> QED BY <1>3, <1>5, <1>6

\* What is lost is the count of r only.
LEMMA TrafficOfLoss ==
    ASSUME NEW r \in Replicators, NEW some, CountIsLost(r, some),
           traffic \in [Replicators -> [sent : [Clients -> Nat], losses : Nat]]
    PROVE  /\ traffic' \in [Replicators -> [sent : [Clients -> Nat], losses : Nat]]
           /\ \A q \in Replicators : traffic'[q].sent = traffic[q].sent
           /\ \A q \in Replicators :
                 traffic'[q].losses = IF q = r /\ some THEN traffic[q].losses + 1
                                      ELSE traffic[q].losses
<1>1. PICK n : n = IF some THEN traffic[r].losses + 1 ELSE traffic[r].losses
  OBVIOUS
<1>2. PICK u : u = [traffic[r] EXCEPT !.losses = n]
  OBVIOUS
<1>3. traffic' = [traffic EXCEPT ![r] = u]
  BY <1>1, <1>2 DEF CountIsLost
<1>4. n \in Nat
  BY <1>1
<1>5. /\ u \in [sent : [Clients -> Nat], losses : Nat]
      /\ u.losses = n /\ u.sent = traffic[r].sent
  BY <1>2, <1>4
<1> QED BY <1>1, <1>3, <1>5

LEMMA StepSendPiece ==
    ASSUME Accounts, NEW c \in Clients, NEW r \in Replicators, SendPiece(c, r)
    PROVE  Accounts' /\ Keeps
<1>1. RestTypes /\ channel \in [Replicators -> Channel]
  BY SplitTypes DEF Accounts
<1>2. PICK ch \in Channel : ch = channel[r]
  BY <1>1
<1>3. PICK d : d = [ch EXCEPT !.sent = [ch.sent EXCEPT ![c] = @ + 1]]
  OBVIOUS
<1>4. channel' = [channel EXCEPT ![r] = d]
  BY <1>1, <1>2, <1>3 DEF SendPiece
<1>5. UNCHANGED <<chain, phase, file, sync, waiting, connected, signed, net>>
  BY DEF SendPiece
<1>6. ch.sent[c] <= MaxSize /\ ch.sent[c] <= ch.accepted[<<c, r>>] + ReceiptLimit
  BY <1>2 DEF SendPiece, CheckDownloadLimit
<1>7. [ch.sent EXCEPT ![c] = @ + 1] \in [Clients -> 0..MaxSize + 1]
  BY <1>6, ChannelFields, DownloadChannelAssumption
<1>8. /\ d \in Channel /\ d.accepted = ch.accepted /\ d.refused = ch.refused
      /\ d.known = ch.known /\ d.prepaid = ch.prepaid /\ d.total = ch.total
      /\ d.sent = [ch.sent EXCEPT ![c] = @ + 1]
  BY <1>3, <1>7 DEF Channel
<1>9. CoveredBy(d, r)
  <2> SUFFICES ASSUME NEW e \in Clients
               PROVE  d.sent[e] <= d.accepted[<<e, r>>] + ReceiptLimit + 1
    BY DEF CoveredBy
  <2>1. PICK x \in Cell : x = <<e, r>>
    BY DEF Cell
  <2>2. ch.accepted[x] \in Nat /\ ReceiptLimit \in Nat /\ ch.sent[e] \in Int
    BY ChannelFields, SizesAreNumbers, DownloadChannelAssumption
  <2>3. ch.sent[e] <= ch.accepted[x] + ReceiptLimit + 1
    BY <1>2, <2>1 DEF Accounts, Covered, CoveredBy
  <2>4. CASE e = c
    <3>1. d.sent[e] = ch.sent[e] + 1
      BY <1>8, <2>4, ChannelFields
    <3> QED BY <1>6, <1>8, <2>1, <2>2, <2>4, <3>1
  <2>5. CASE e # c
    <3>1. d.sent[e] = ch.sent[e]
      BY <1>8, <2>5, ChannelFields
    <3> QED BY <1>8, <2>1, <2>3, <3>1
  <2> QED BY <2>4, <2>5
<1>10. Consistent(ch) => Consistent(d)
  <2>1. Parts(d) = Parts(ch)
    BY <1>8, Zenon DEF Parts, TotalReceiptSize, MaxReceiptSize
  <2>2. \A p : TotalAcceptedReceiptSize(d, p) = TotalAcceptedReceiptSize(ch, p)
    BY <1>8, Zenon DEF TotalAcceptedReceiptSize
  <2> QED BY <1>8, <2>1, <2>2 DEF Consistent
<1>11. d.known /\ ~file[r].known => Consistent(d)
  BY <1>2, <1>8, <1>10 DEF Accounts, AllConsistent
<1>12. channel' \in [Replicators -> Channel] /\ Covered' /\ AllConsistent'
  BY <1>4, <1>5, <1>8, <1>9, <1>11, OneChannel
<1>13. Keeps
  <2> SUFFICES ASSUME NEW q \in Replicators, NEW x \in Cell
               PROVE  channel'[q].accepted[x] >= channel[q].accepted[x]
    BY DEF Keeps
  <2>1. channel'[q].accepted = channel[q].accepted
    BY <1>1, <1>2, <1>4, <1>8
  <2>2. channel[q].accepted[x] \in Nat
    BY <1>1, ChannelFields, SizesAreNumbers
  <2> QED BY <2>1, <2>2
<1>14. traffic' \in [Replicators -> [sent : [Clients -> Nat], losses : Nat]]
  BY <1>1, TrafficOfPiece DEF RestTypes
<1>15. RestTypes' /\ WaitingIsCounted'
  BY <1>1, <1>5, <1>14 DEF RestTypes, Accounts, WaitingIsCounted
<1> QED BY <1>12, <1>13, <1>15, SplitTypesNext DEF Accounts

\* More is prepaid.
LEMMA EnlargedConsistent ==
    ASSUME NEW ch \in Channel, NEW d \in Channel, d.accepted = ch.accepted,
           d.refused = ch.refused, d.total = ch.total, d.prepaid >= ch.prepaid, Consistent(ch)
    PROVE  Consistent(d)
<1>1. Parts(d) = Parts(ch)
  BY Zenon DEF Parts, TotalReceiptSize, MaxReceiptSize
<1>2. ASSUME NEW p \in Replicators PROVE TotalAcceptedReceiptSize(d, p) <= d.prepaid
  <2>1. TotalAcceptedReceiptSize(d, p) = TotalAcceptedReceiptSize(ch, p)
    BY Zenon DEF TotalAcceptedReceiptSize
  <2>2. TotalAcceptedReceiptSize(d, p) \in Nat /\ d.prepaid \in Nat /\ ch.prepaid \in Nat
    BY PartTypes, ChannelFields
  <2>3. TotalAcceptedReceiptSize(ch, p) <= ch.prepaid
    BY DEF Consistent
  <2> QED BY <2>1, <2>2, <2>3
<1> QED BY <1>1, <1>2 DEF Consistent

LEMMA StepIncreaseChannelSize ==
    ASSUME Accounts, NEW r \in Replicators, IncreaseChannelSize(r)
    PROVE  Accounts' /\ Keeps
<1>1. RestTypes /\ channel \in [Replicators -> Channel]
  BY SplitTypes DEF Accounts
<1>2. PICK ch \in Channel : ch = channel[r]
  BY <1>1
<1>3. PICK n : n = IF ch.known THEN ch.prepaid + 1 ELSE ch.prepaid
  OBVIOUS
<1>4. PICK d : d = [ch EXCEPT !.prepaid = n]
  OBVIOUS
<1>5. channel' = [channel EXCEPT ![r] = d]
  BY <1>1, <1>2, <1>3, <1>4 DEF IncreaseChannelSize
<1>6. /\ UNCHANGED <<chain, phase, file, sync, connected, signed, net, traffic>>
      /\ waiting[r] > 0 /\ waiting' = [waiting EXCEPT ![r] = @ - 1]
  BY DEF IncreaseChannelSize
<1>7. n \in Nat /\ n >= ch.prepaid
  BY <1>3, ChannelFields
<1>8. /\ d \in Channel /\ d.accepted = ch.accepted /\ d.refused = ch.refused
      /\ d.known = ch.known /\ d.prepaid = n /\ d.total = ch.total /\ d.sent = ch.sent
  BY <1>4, <1>7 DEF Channel
<1>9. CoveredBy(d, r)
  BY <1>2, <1>8 DEF Accounts, Covered, CoveredBy
<1>10. d.known /\ ~file[r].known => Consistent(d)
  BY <1>2, <1>7, <1>8, EnlargedConsistent DEF Accounts, AllConsistent
<1>11. channel' \in [Replicators -> Channel] /\ Covered' /\ AllConsistent'
  BY <1>5, <1>6, <1>8, <1>9, <1>10, OneChannel
<1>12. Keeps
  <2> SUFFICES ASSUME NEW q \in Replicators, NEW x \in Cell
               PROVE  channel'[q].accepted[x] >= channel[q].accepted[x]
    BY DEF Keeps
  <2>1. channel'[q].accepted = channel[q].accepted
    BY <1>1, <1>2, <1>5, <1>8
  <2>2. channel[q].accepted[x] \in Nat
    BY <1>1, ChannelFields, SizesAreNumbers
  <2> QED BY <2>1, <2>2
<1>13. waiting' \in [Replicators -> 0..MaxEvents]
  BY <1>1, <1>6, DownloadChannelAssumption DEF RestTypes
<1>14. WaitingIsCounted'
  BY <1>1, <1>6, DownloadChannelAssumption DEF RestTypes, Accounts, WaitingIsCounted
<1>15. RestTypes'
  BY <1>1, <1>6, <1>13 DEF RestTypes
<1> QED BY <1>11, <1>12, <1>14, <1>15, SplitTypesNext DEF Accounts

LEMMA StepAddChannelInfo ==
    ASSUME Accounts, NEW r \in Replicators, AddChannelInfo(r)
    PROVE  Accounts' /\ Keeps
<1>1. RestTypes /\ channel \in [Replicators -> Channel]
  BY SplitTypes DEF Accounts
<1>2. PICK joins : joins = (r \in Joining)
  OBVIOUS
<1>3. PICK new : new = [NoChannel EXCEPT !.known = TRUE, !.prepaid = chain.prepaid,
                                         !.syncing = joins]
  OBVIOUS
<1>4. PICK d : d = IF file[r].known THEN RestoreChannel(new, file[r]) ELSE new
  OBVIOUS
<1>5. /\ channel' = [channel EXCEPT ![r] = d] /\ ~channel[r].known
      /\ sync' = [sync EXCEPT ![r] = IF r \in Joining THEN StartSync(r) ELSE NoSync]
      /\ waiting' = [waiting EXCEPT ![r] = 0]
      /\ UNCHANGED <<chain, phase, file, connected, signed, net, traffic>>
  BY <1>2, <1>3, <1>4 DEF AddChannelInfo
<1>6. chain.prepaid \in Nat /\ joins \in BOOLEAN
  BY <1>1, <1>2 DEF RestTypes
<1>7. /\ new \in Channel /\ new.total = 0 /\ new.accepted = Zero /\ new.refused = Zero
      /\ new.sent = NoChannel.sent /\ new.accepted = NoChannel.accepted
  BY <1>2, <1>3, <1>6, NoChannelType DEF Channel, NoChannel
<1>8. d \in Channel /\ CoveredBy(d, r) /\ (~file[r].known => Consistent(d))
  <2>1. CASE file[r].known
    <3>1. PICK saved \in Saved : saved = file[r]
      BY <1>1 DEF RestTypes
    <3>2. d = [new EXCEPT !.sent = saved.sent, !.accepted = saved.accepted,
                          !.refused = saved.refused]
      BY <1>4, <2>1, <3>1 DEF RestoreChannel
    <3>3. d \in Channel /\ d.sent = saved.sent /\ d.accepted = saved.accepted
      BY <1>7, <3>1, <3>2 DEF Channel, Saved
    <3>4. CoveredBy(saved, r)
      BY <3>1 DEF Accounts, Covered
    <3> QED BY <2>1, <3>3, <3>4 DEF CoveredBy
  <2>2. CASE ~file[r].known
    <3>1. d = new
      BY <1>4, <2>2
    <3>2. CoveredBy(NoChannel, r)
      BY NoChannelCovered
    <3> QED BY <1>7, <3>1, <3>2, EmptyConsistent DEF CoveredBy
  <2> QED BY <2>1, <2>2
<1>9. channel' \in [Replicators -> Channel] /\ Covered' /\ AllConsistent'
  BY <1>5, <1>8, OneChannel
<1>10. Keeps
  BY <1>5, OtherChannelsKeep DEF Accounts
<1>11. waiting' \in [Replicators -> 0..MaxEvents] /\ WaitingIsCounted'
  BY <1>1, <1>5, DownloadChannelAssumption DEF RestTypes, Accounts, WaitingIsCounted
<1>12. sync' \in [Replicators -> [on : BOOLEAN, answers : SUBSET Replicators,
                                  asked : SUBSET Replicators, timer : BOOLEAN]]
  BY <1>1, <1>5 DEF RestTypes, StartSync, NoSync, Others
<1>13. RestTypes'
  BY <1>1, <1>5, <1>11, <1>12 DEF RestTypes
<1> QED BY <1>9, <1>10, <1>11, <1>13, SplitTypesNext DEF Accounts

LEMMA StepRemoveChannelInfo ==
    ASSUME Accounts, NEW r \in Replicators, RemoveChannelInfo(r)
    PROVE  Accounts' /\ Keeps
<1>1. RestTypes
  BY SplitTypes DEF Accounts
<1>2. /\ channel' = [channel EXCEPT ![r] = NoChannel]
      /\ UNCHANGED <<chain, phase, file, sync, waiting, connected, signed, net, traffic>>
  BY DEF RemoveChannelInfo
<1>3. NoChannel \in Channel /\ ~NoChannel.known
  BY NoChannelType DEF NoChannel
<1>4. channel' \in [Replicators -> Channel] /\ Covered' /\ AllConsistent'
  BY <1>2, <1>3, NoChannelCovered, OneChannel
<1>5. Keeps
  BY <1>2, <1>3, OtherChannelsKeep DEF Accounts
<1>6. RestTypes' /\ WaitingIsCounted'
  BY <1>1, <1>2 DEF RestTypes, Accounts, WaitingIsCounted
<1> QED BY <1>4, <1>5, <1>6, SplitTypesNext DEF Accounts

\* A replicator goes down: of its channel only what is saved stays, and what is
\* saved is the channel of an orderly stop or an earlier one.
LEMMA StepGoDown ==
    ASSUME Accounts, NEW r \in Replicators, GoDown(r), NEW saved \in Saved,
           file' = [file EXCEPT ![r] = saved], CoveredBy(saved, r),
           NEW some, CountIsLost(r, some)
    PROVE  Accounts' /\ Keeps
<1>1. RestTypes /\ channel \in [Replicators -> Channel]
  BY SplitTypes DEF Accounts
<1>2. /\ chain.events < MaxEvents
      /\ chain' = [chain EXCEPT !.events = @ + 1, !.restarted = TRUE]
      /\ phase' = [phase EXCEPT ![r] = "down"]
      /\ channel' = [channel EXCEPT ![r] = NoChannel]
      /\ sync' = [sync EXCEPT ![r] = NoSync]
      /\ waiting' = [waiting EXCEPT ![r] = 0]
      /\ connected' = {x \in connected : x[2] # r}
      /\ UNCHANGED <<signed, net>>
  BY DEF GoDown
<1>3. NoChannel \in Channel /\ ~NoChannel.known /\ CoveredBy(NoChannel, r)
  BY NoChannelType, NoChannelCovered DEF NoChannel
<1>4. /\ channel' \in [Replicators -> Channel] /\ channel'[r] = NoChannel
      /\ \A q \in Replicators : q # r => channel'[q] = channel[q]
  BY <1>1, <1>2, <1>3
<1>5. /\ file' \in [Replicators -> Saved] /\ file'[r] = saved
      /\ \A q \in Replicators : q # r => file'[q] = file[q]
  BY <1>1 DEF RestTypes
<1>6. Covered'
  <2> SUFFICES ASSUME NEW q \in Replicators
               PROVE  CoveredBy(channel'[q], q) /\ CoveredBy(file'[q], q)
    BY DEF Covered
  <2>1. CASE q = r
    BY <1>3, <1>4, <1>5, <2>1
  <2>2. CASE q # r
    BY <1>4, <1>5, <2>2 DEF Accounts, Covered
  <2> QED BY <2>1, <2>2
<1>7. AllConsistent'
  <2> SUFFICES ASSUME NEW q \in Replicators, channel'[q].known, ~file'[q].known
               PROVE  Consistent(channel'[q])
    BY DEF AllConsistent
  <2>1. q # r
    BY <1>3, <1>4
  <2>2. channel'[q] = channel[q] /\ file'[q] = file[q]
    BY <1>4, <1>5, <2>1
  <2> QED BY <2>2 DEF Accounts, AllConsistent
<1>8. Keeps
  BY <1>2, <1>3, OtherChannelsKeep DEF Accounts
<1>9. PICK n : n = chain.events + 1
  OBVIOUS
<1>10. chain.events \in Nat /\ n \in 0..MaxEvents
  BY <1>1, <1>2, <1>9, DownloadChannelAssumption DEF RestTypes
<1>11. /\ chain' \in [first : Prepaid, prepaid : Nat, closed : BOOLEAN, events : 0..MaxEvents,
                      restarted : BOOLEAN]
       /\ chain'.events = n
  <2>1. chain' = [chain EXCEPT !.events = n, !.restarted = TRUE]
    BY <1>2, <1>9
  <2> QED BY <1>1, <1>10, <2>1 DEF RestTypes
<1>12. waiting' \in [Replicators -> 0..MaxEvents]
  BY <1>1, <1>2, DownloadChannelAssumption DEF RestTypes
<1>13. WaitingIsCounted'
  <2> SUFFICES ASSUME NEW q \in Replicators PROVE waiting'[q] <= n
    BY <1>11 DEF WaitingIsCounted
  <2>1. waiting[q] <= chain.events /\ waiting[q] \in Int
    BY <1>1, DownloadChannelAssumption DEF Accounts, WaitingIsCounted, RestTypes
  <2>2. waiting'[q] = 0 \/ waiting'[q] = waiting[q]
    BY <1>1, <1>2 DEF RestTypes
  <2> QED BY <1>9, <1>10, <2>1, <2>2
<1>14. sync' \in [Replicators -> [on : BOOLEAN, answers : SUBSET Replicators,
                                  asked : SUBSET Replicators, timer : BOOLEAN]]
  BY <1>1, <1>2 DEF RestTypes, NoSync
<1>15. traffic' \in [Replicators -> [sent : [Clients -> Nat], losses : Nat]]
  BY <1>1, TrafficOfLoss DEF RestTypes
<1>16. RestTypes'
  BY <1>1, <1>2, <1>5, <1>11, <1>12, <1>14, <1>15 DEF RestTypes
<1> QED BY <1>4, <1>6, <1>7, <1>8, <1>13, <1>16, SplitTypesNext DEF Accounts

LEMMA StepStop ==
    ASSUME Accounts, NEW r \in Replicators, StopReplicator(r) \/ Crash(r)
    PROVE  Accounts' /\ Keeps
<1>1. file \in [Replicators -> Saved] /\ channel[r] \in Channel
  BY DEF Accounts, TypeOK
<1>2. CASE StopReplicator(r)
  <2>1. PICK saved : saved = Save(channel[r])
    OBVIOUS
  <2>2. saved \in Saved
    BY <1>1, <2>1 DEF Save, Saved, Channel
  <2>3. CoveredBy(channel[r], r)
    BY DEF Accounts, Covered
  <2>4. CoveredBy(saved, r)
    BY <2>1, <2>3 DEF CoveredBy, Save
  <2>5. /\ GoDown(r) /\ file' = [file EXCEPT ![r] = saved]
        /\ CountIsLost(r, file[r].known /\ ~channel[r].known)
    BY <1>2, <2>1 DEF StopReplicator
  <2> QED BY <2>2, <2>4, <2>5, StepGoDown
<1>3. CASE Crash(r)
  <2>1. PICK saved \in Saved : saved = file[r]
    BY <1>1
  <2>2. CoveredBy(saved, r)
    BY <2>1 DEF Accounts, Covered
  <2>3. GoDown(r) /\ file' = [file EXCEPT ![r] = saved] /\ CountIsLost(r, channel[r].known)
    BY <1>1, <1>3, <2>1 DEF Crash
  <2> QED BY <2>2, <2>3, StepGoDown
<1> QED BY <1>2, <1>3

LEMMA StepChainIncrease ==
    ASSUME Accounts, ChainIncrease
    PROVE  Accounts' /\ Keeps
<1>1. RestTypes /\ channel \in [Replicators -> Channel]
  BY SplitTypes DEF Accounts
<1>2. /\ chain.events < MaxEvents
      /\ chain' = [chain EXCEPT !.events = @ + 1, !.prepaid = @ + 1]
      /\ waiting' = [r \in Replicators |->
                        IF channel[r].known THEN waiting[r] + 1 ELSE waiting[r]]
      /\ UNCHANGED <<phase, channel, file, sync, connected, signed, net, traffic>>
  BY DEF ChainIncrease
<1>3. PICK n, m : n = chain.events + 1 /\ m = chain.prepaid + 1
  OBVIOUS
<1>4. chain.events \in Nat /\ n \in 0..MaxEvents /\ m \in Nat
  BY <1>1, <1>2, <1>3, DownloadChannelAssumption DEF RestTypes
<1>5. /\ chain' \in [first : Prepaid, prepaid : Nat, closed : BOOLEAN, events : 0..MaxEvents,
                     restarted : BOOLEAN]
      /\ chain'.events = n
  <2>1. chain' = [chain EXCEPT !.events = n, !.prepaid = m]
    BY <1>2, <1>3
  <2> QED BY <1>1, <1>4, <2>1 DEF RestTypes
<1>6. ASSUME NEW q \in Replicators PROVE waiting'[q] \in 0..MaxEvents /\ waiting'[q] <= n
  <2>1. waiting[q] <= chain.events /\ waiting[q] \in Nat
    BY <1>1, DownloadChannelAssumption DEF Accounts, WaitingIsCounted, RestTypes
  <2>2. waiting'[q] = waiting[q] + 1 \/ waiting'[q] = waiting[q]
    BY <1>2
  <2> QED BY <1>3, <1>4, <2>1, <2>2, DownloadChannelAssumption
<1>7. waiting' \in [Replicators -> 0..MaxEvents]
  BY <1>2, <1>6
<1>8. WaitingIsCounted'
  BY <1>5, <1>6 DEF WaitingIsCounted
<1>9. RestTypes'
  BY <1>1, <1>2, <1>5, <1>7 DEF RestTypes
<1> QED BY <1>2, <1>8, <1>9, SameChannels, SplitTypesNext DEF Accounts

LEMMA StepChainClose ==
    ASSUME Accounts, ChainClose
    PROVE  Accounts' /\ Keeps
<1>1. RestTypes
  BY SplitTypes DEF Accounts
<1>2. /\ chain.events < MaxEvents
      /\ chain' = [chain EXCEPT !.events = @ + 1, !.closed = TRUE]
      /\ UNCHANGED <<phase, channel, file, sync, waiting, connected, signed, net, traffic>>
  BY DEF ChainClose
<1>3. PICK n : n = chain.events + 1
  OBVIOUS
<1>4. chain.events \in Nat /\ n \in 0..MaxEvents
  BY <1>1, <1>2, <1>3, DownloadChannelAssumption DEF RestTypes
<1>5. /\ chain' \in [first : Prepaid, prepaid : Nat, closed : BOOLEAN, events : 0..MaxEvents,
                     restarted : BOOLEAN]
      /\ chain'.events = n
  <2>1. chain' = [chain EXCEPT !.events = n, !.closed = TRUE]
    BY <1>2, <1>3
  <2> QED BY <1>1, <1>4, <2>1 DEF RestTypes
<1>6. WaitingIsCounted'
  <2> SUFFICES ASSUME NEW q \in Replicators PROVE waiting[q] <= n
    BY <1>2, <1>5 DEF WaitingIsCounted
  <2>1. waiting[q] <= chain.events /\ waiting[q] \in Nat
    BY <1>1, DownloadChannelAssumption DEF Accounts, WaitingIsCounted, RestTypes
  <2> QED BY <1>3, <1>4, <2>1
<1>7. RestTypes'
  BY <1>1, <1>2, <1>5 DEF RestTypes
<1> QED BY <1>2, <1>6, <1>7, SameChannels, SplitTypesNext DEF Accounts

\* The steps that change neither a channel nor a count.
LEMMA StepOthers ==
    ASSUME Accounts, NEW r \in Replicators,
           \/ \E c \in Clients : AcceptClientConnection(c, r)
           \/ SyncTimeout(r)
           \/ Start(r)
    PROVE  Accounts' /\ Keeps
<1>1. RestTypes
  BY SplitTypes DEF Accounts
<1>2. UNCHANGED <<chain, channel, file, waiting, signed, net, traffic>>
  BY DEF AcceptClientConnection, SyncTimeout, Start
<1>3. WaitingIsCounted'
  BY <1>2 DEF Accounts, WaitingIsCounted
<1>4. RestTypes'
  <2>1. ASSUME NEW c \in Clients, AcceptClientConnection(c, r) PROVE RestTypes'
    BY <1>1, <2>1 DEF AcceptClientConnection, RestTypes, Cell
  <2>2. CASE SyncTimeout(r)
    BY <1>1, <2>2 DEF SyncTimeout, RestTypes, Others
  <2>3. CASE Start(r)
    BY <1>1, <2>3 DEF Start, RestTypes
  <2> QED BY <2>1, <2>2, <2>3
<1> QED BY <1>2, <1>3, <1>4, SameChannels, SplitTypesNext DEF Accounts

\* Every step keeps the invariant.
LEMMA NextAccounts ==
    Accounts /\ [Next]_vars => Accounts' /\ (Keeps \/ UNCHANGED vars)
<1> SUFFICES ASSUME Accounts, [Next]_vars PROVE Accounts' /\ (Keeps \/ UNCHANGED vars)
  OBVIOUS
<1>1. ASSUME NEW c \in Clients, NEW r \in Replicators, SendPiece(c, r) PROVE Accounts' /\ Keeps
  BY <1>1, StepSendPiece
<1>2. ASSUME NEW c \in Clients, NEW r \in Replicators, NEW size \in 1..MaxSize,
             AcceptReceipt(c, r, size)
      PROVE  Accounts' /\ Keeps
  BY <1>2, StepAcceptReceipt
<1>3. ASSUME NEW m \in net, OnRcpt(m) PROVE Accounts' /\ Keeps
  BY <1>3, StepOnRcpt
<1>4. ASSUME NEW r \in Replicators,
             \/ AddChannelInfo(r) \/ IncreaseChannelSize(r) \/ RemoveChannelInfo(r)
             \/ StopReplicator(r) \/ Crash(r)
      PROVE  Accounts' /\ Keeps
  BY <1>4, StepAddChannelInfo, StepIncreaseChannelSize, StepRemoveChannelInfo, StepStop
<1>5. ASSUME NEW r \in Replicators, NEW s \in Replicators, OnSyncRcptReceived(r, s)
      PROVE  Accounts' /\ Keeps
  BY <1>5, StepOnSyncRcptReceived
<1>6. ASSUME NEW r \in Replicators,
             \/ \E c \in Clients : AcceptClientConnection(c, r)
             \/ SyncTimeout(r) \/ Start(r)
      PROVE  Accounts' /\ Keeps
  BY <1>6, StepOthers
<1>7. CASE ChainIncrease \/ ChainClose
  BY <1>7, StepChainIncrease, StepChainClose
<1>8. CASE UNCHANGED vars
  <2>1. channel' = channel /\ file' = file
    BY <1>8 DEF vars
  <2>2. RestTypes' /\ WaitingIsCounted'
    BY <1>8 DEF vars, RestTypes, Accounts, TypeOK, WaitingIsCounted
  <2>3. channel' \in [Replicators -> Channel] /\ Covered' /\ AllConsistent'
    BY <2>1, SameChannels
  <2> QED BY <1>8, <2>2, <2>3, SplitTypesNext DEF Accounts
<1> QED BY <1>1, <1>2, <1>3, <1>4, <1>5, <1>6, <1>7, <1>8 DEF Next

------------------------------------------------------------------------------
(* The theorems. *)

THEOREM AccountsHold ==
    Spec => []Accounts
BY InitAccounts, NextAccounts, PTL DEF Spec

\* The accounts of a channel are always consistent, as long as nothing was
\* restored from a file: m_totalReceiptsSize is the sum of the largest receipts
\* of all clients for all replicators, and nobody is credited with more than is
\* prepaid - in whatever order receipts come, by whatever way, however often,
\* and although some are refused first and accepted later (acceptUploadSize,
\* tryFixReceiptSize, onSyncRcptReceived).
THEOREM AccountsAreConsistentTheorem ==
    Spec => []AccountsAreConsistent
<1>1. Accounts => AccountsAreConsistent
  <2> SUFFICES ASSUME Accounts PROVE AccountsAreConsistent
    OBVIOUS
  <2>1. TypeOK /\ AllConsistent
    BY DEF Accounts
  <2>2. TotalIsSum
    BY <2>1 DEF AllConsistent, Consistent, TotalIsSum, Parts
  <2>3. ReplicatorWithinPrepaid
    BY <2>1 DEF AllConsistent, Consistent, ReplicatorWithinPrepaid, CreateMyOpinion
  <2> QED BY <2>1, <2>2, <2>3 DEF AccountsAreConsistent
<1> QED BY <1>1, AccountsHold, PTL

\* What is accepted is never taken back while a channel is in the map, although
\* old receipts come late and more than once (acceptUploadSize).
THEOREM AcceptedNeverShrinksTheorem ==
    Spec => AcceptedNeverShrinks
<1>1. Accounts /\ [Next]_vars =>
         [\A r \in Replicators : channel[r].known /\ channel'[r].known =>
             \A x \in Cell : channel'[r].accepted[x] >= channel[r].accepted[x]]_vars
  BY NextAccounts DEF Keeps
<1> QED BY <1>1, AccountsHold, PTL DEF Spec, AcceptedNeverShrinks

------------------------------------------------------------------------------
(* What a channel learns from receipts, when all that was signed is prepaid. *)

\* Nothing is accepted, or refused, that was not signed, in a channel or in a
\* saved one.
SignedFor(ch, sg) == \A x \in Cell : ch.accepted[x] <= sg[x] /\ ch.refused[x] <= sg[x]

\* Nobody has a receipt for more than was signed.
Honest(ch, sg) == SignedFor(ch, sg) /\ \A x \in Cell : ch.receipt[x] <= sg[x]

\* Every receipt was accepted.
Neat(ch) == ch.accepted = ch.receipt /\ ch.refused = Zero

\* Channel d is what became of ch by receipts that were signed.
Learnt(ch, d, sg) ==
    /\ Honest(d, sg)
    /\ \A x \in Cell : d.receipt[x] >= ch.receipt[x]
    /\ Consistent(ch) /\ Neat(ch) /\ SumFunction(sg) <= ch.prepaid => Neat(d)

\* acceptUploadSize keeps the receipts themselves.
LEMMA UploadSizeReceipts ==
    ASSUME NEW ch \in Channel, NEW x \in Cell, NEW size \in 1..MaxSize
    PROVE  AcceptUploadSize(ch, x, size).receipt = ch.receipt
<1>1. PICK fixed : fixed = TryFixReceiptSize(ch, x[2])
  OBVIOUS
<1>2. PICK total : total = fixed.total + size - MaxReceiptSize(fixed, x)
  OBVIOUS
<1>3. fixed.receipt = ch.receipt
  BY <1>1 DEF TryFixReceiptSize, Channel
<1>4. fixed \in Channel
  <2>1. PICK p \in Replicators : p = x[2]
    BY DEF Cell
  <2> QED BY <1>1, <2>1, GrownByFix DEF Grown
<1>5. AcceptUploadSize(ch, x, size) =
         CASE size <= MaxReceiptSize(fixed, x) -> fixed
           [] size > MaxReceiptSize(fixed, x) /\ total > fixed.prepaid ->
                 [fixed EXCEPT !.total = total, !.refused[x] = size]
           [] OTHER -> [fixed EXCEPT !.total = total, !.accepted[x] = size]
  BY <1>1, <1>2, Zenon DEF AcceptUploadSize
<1>6. MaxReceiptSize(fixed, x) \in Nat /\ size \in Nat
  BY <1>4, MaxReceiptSizeIs, DownloadChannelAssumption
<1>7. \/ AcceptUploadSize(ch, x, size) = fixed
      \/ AcceptUploadSize(ch, x, size) = [fixed EXCEPT !.total = total, !.refused[x] = size]
      \/ AcceptUploadSize(ch, x, size) = [fixed EXCEPT !.total = total, !.accepted[x] = size]
  BY <1>5, <1>6
<1> QED BY <1>3, <1>4, <1>7 DEF Channel

\* acceptUploadSize credits no more than was signed.
LEMMA UploadSizeSigned ==
    ASSUME NEW ch \in Channel, NEW x \in Cell, NEW size \in 1..MaxSize, NEW sg \in Sizes,
           SignedFor(ch, sg), size <= sg[x]
    PROVE  SignedFor(AcceptUploadSize(ch, x, size), sg)
<1>1. PICK fixed : fixed = TryFixReceiptSize(ch, x[2])
  OBVIOUS
<1>2. PICK total : total = fixed.total + size - MaxReceiptSize(fixed, x)
  OBVIOUS
<1>3. fixed \in Channel
  <2>1. PICK p \in Replicators : p = x[2]
    BY DEF Cell
  <2> QED BY <1>1, <2>1, GrownByFix DEF Grown
<1>4. SignedFor(fixed, sg)
  <2> DEFINE fix == {y \in Cell : /\ y[2] = x[2] /\ ch.refused[y] > ch.accepted[y]
                                  /\ ch.prepaid >= TotalReceiptSize(ch, x[2])}
             acc == [y \in Cell |-> IF y \in fix THEN ch.refused[y] ELSE ch.accepted[y]]
             ref == [y \in Cell |-> IF y \in fix THEN 0 ELSE ch.refused[y]]
  <2>1. fixed = [ch EXCEPT !.accepted = acc, !.refused = ref]
    BY <1>1 DEF TryFixReceiptSize
  <2>2. fixed.accepted = acc /\ fixed.refused = ref
    <3> HIDE DEF acc, ref
    <3> QED BY <2>1 DEF Channel
  <2>3. ASSUME NEW y \in Cell PROVE acc[y] <= sg[y] /\ ref[y] <= sg[y]
    <3>1. sg[y] \in Nat /\ ch.accepted[y] <= sg[y] /\ ch.refused[y] <= sg[y]
      BY SizesAreNumbers DEF SignedFor
    <3>2. acc[y] = ch.refused[y] \/ acc[y] = ch.accepted[y]
      OBVIOUS
    <3>3. ref[y] = ch.refused[y] \/ ref[y] = 0
      OBVIOUS
    <3> HIDE DEF acc, ref
    <3> QED BY <3>1, <3>2, <3>3
  <2> HIDE DEF acc, ref
  <2> QED BY <2>2, <2>3 DEF SignedFor
<1>5. AcceptUploadSize(ch, x, size) =
         CASE size <= MaxReceiptSize(fixed, x) -> fixed
           [] size > MaxReceiptSize(fixed, x) /\ total > fixed.prepaid ->
                 [fixed EXCEPT !.total = total, !.refused[x] = size]
           [] OTHER -> [fixed EXCEPT !.total = total, !.accepted[x] = size]
  BY <1>1, <1>2, Zenon DEF AcceptUploadSize
<1>6. MaxReceiptSize(fixed, x) \in Nat /\ size \in Nat
  BY <1>3, MaxReceiptSizeIs, DownloadChannelAssumption
<1>7. \/ AcceptUploadSize(ch, x, size) = fixed
      \/ AcceptUploadSize(ch, x, size) = [fixed EXCEPT !.total = total, !.refused[x] = size]
      \/ AcceptUploadSize(ch, x, size) = [fixed EXCEPT !.total = total, !.accepted[x] = size]
  BY <1>5, <1>6
<1>8. fixed.accepted \in Sizes /\ fixed.refused \in Sizes
  BY <1>3, ChannelFields
<1>9. PICK a, b : a = [fixed.accepted EXCEPT ![x] = size] /\ b = [fixed.refused EXCEPT ![x] = size]
  OBVIOUS
<1>10. \A y \in Cell : a[y] <= sg[y] /\ b[y] <= sg[y]
  BY <1>4, <1>8, <1>9 DEF SignedFor, Sizes
<1>11. CASE AcceptUploadSize(ch, x, size) = fixed
  BY <1>4, <1>11
<1>12. CASE AcceptUploadSize(ch, x, size) = [fixed EXCEPT !.total = total, !.refused[x] = size]
  <2>1. PICK d : d = AcceptUploadSize(ch, x, size)
    OBVIOUS
  <2>2. d.accepted = fixed.accepted /\ d.refused = b
    BY <1>3, <1>9, <1>12, <2>1 DEF Channel
  <2> QED BY <1>4, <1>10, <2>1, <2>2 DEF SignedFor
<1>13. CASE AcceptUploadSize(ch, x, size) = [fixed EXCEPT !.total = total, !.accepted[x] = size]
  <2>1. PICK d : d = AcceptUploadSize(ch, x, size)
    OBVIOUS
  <2>2. d.accepted = a /\ d.refused = fixed.refused
    BY <1>3, <1>9, <1>13, <2>1 DEF Channel
  <2> QED BY <1>4, <1>10, <2>1, <2>2 DEF SignedFor
<1> QED BY <1>7, <1>11, <1>12, <1>13

\* More may be signed.
LEMMA SignedMore ==
    ASSUME NEW ch, NEW sg \in Sizes, NEW tg \in Sizes, \A x \in Cell : tg[x] >= sg[x],
           ch.accepted \in Sizes, ch.refused \in Sizes
    PROVE  /\ SignedFor(ch, sg) => SignedFor(ch, tg)
           /\ ch.receipt \in Sizes /\ Honest(ch, sg) => Honest(ch, tg)
<1>1. SignedFor(ch, sg) => SignedFor(ch, tg)
  <2> SUFFICES ASSUME SignedFor(ch, sg), NEW x \in Cell
               PROVE  ch.accepted[x] <= tg[x] /\ ch.refused[x] <= tg[x]
    BY DEF SignedFor
  <2>1. sg[x] \in Nat /\ tg[x] \in Nat /\ ch.accepted[x] \in Nat /\ ch.refused[x] \in Nat
    BY SizesAreNumbers
  <2>2. ch.accepted[x] <= sg[x] /\ ch.refused[x] <= sg[x] /\ tg[x] >= sg[x]
    BY DEF SignedFor
  <2> QED BY <2>1, <2>2
<1>2. ASSUME ch.receipt \in Sizes, Honest(ch, sg), NEW x \in Cell PROVE ch.receipt[x] <= tg[x]
  <2>1. sg[x] \in Nat /\ tg[x] \in Nat /\ ch.receipt[x] \in Nat
    BY <1>2, SizesAreNumbers
  <2>2. ch.receipt[x] <= sg[x] /\ tg[x] >= sg[x]
    BY <1>2 DEF Honest
  <2> QED BY <2>1, <2>2
<1> QED BY <1>1, <1>2 DEF Honest

\* acceptReceiptImpl keeps the larger receipt.
LEMMA ReceiptOfReceipt ==
    ASSUME NEW ch \in Channel, NEW x \in Cell, NEW size \in 1..MaxSize
    PROVE  /\ AcceptReceiptImpl(ch, x, size).receipt =
                 [ch.receipt EXCEPT ![x] = IF ch.receipt[x] >= size THEN ch.receipt[x] ELSE size]
           /\ AcceptReceiptImpl(ch, x, size).accepted = AcceptUploadSize(ch, x, size).accepted
           /\ AcceptReceiptImpl(ch, x, size).refused = AcceptUploadSize(ch, x, size).refused
<1>1. PICK done : done = AcceptUploadSize(ch, x, size)
  OBVIOUS
<1>2. done \in Channel /\ done.receipt = ch.receipt
  BY <1>1, GrownByUploadSize, UploadSizeReceipts DEF Grown
<1>3. PICK k : k = Max({ch.receipt[x], size})
  OBVIOUS
<1>4. AcceptReceiptImpl(ch, x, size) = [done EXCEPT !.receipt = [done.receipt EXCEPT ![x] = k]]
  BY <1>1, <1>2, <1>3 DEF AcceptReceiptImpl
<1>5. PICK a : a = ch.receipt[x]
  OBVIOUS
<1>6. a \in Nat /\ size \in Nat
  BY <1>5, ChannelFields, SizesAreNumbers, DownloadChannelAssumption
<1>7. k = IF a >= size THEN a ELSE size
  BY <1>3, <1>5, <1>6, MaxOfTwo
<1> QED BY <1>1, <1>2, <1>4, <1>5, <1>7 DEF Channel

\* When all receipts were accepted tryFixReceiptSize has nothing to do.
LEMMA NothingToFix ==
    ASSUME NEW ch \in Channel, NEW p, ch.refused = Zero
    PROVE  TryFixReceiptSize(ch, p) = ch
<1> DEFINE fix == {x \in Cell : /\ x[2] = p /\ ch.refused[x] > ch.accepted[x]
                                /\ ch.prepaid >= TotalReceiptSize(ch, p)}
           acc == [x \in Cell |-> IF x \in fix THEN ch.refused[x] ELSE ch.accepted[x]]
           ref == [x \in Cell |-> IF x \in fix THEN 0 ELSE ch.refused[x]]
<1>1. \A x \in Cell : ~(ch.refused[x] > ch.accepted[x])
  BY ChannelFields, SizesAreNumbers DEF Zero
<1>2. \A x \in Cell : x \notin fix
  BY <1>1
<1>3. acc = ch.accepted /\ ref = ch.refused
  BY <1>2, ChannelFields DEF Sizes
<1>4. TryFixReceiptSize(ch, p) = [ch EXCEPT !.accepted = acc, !.refused = ref]
  BY DEF TryFixReceiptSize
<1> HIDE DEF fix, acc, ref
<1> QED BY <1>3, <1>4 DEF Channel

\* A receipt that was signed is accepted when all that was signed is prepaid.
LEMMA NeatByReceipt ==
    ASSUME NEW ch \in Channel, NEW x \in Cell, NEW size \in 1..MaxSize, NEW sg \in Sizes,
           Honest(ch, sg), size <= sg[x], Consistent(ch), Neat(ch), SumFunction(sg) <= ch.prepaid
    PROVE  Neat(AcceptReceiptImpl(ch, x, size))
<1>1. PICK d : d = AcceptReceiptImpl(ch, x, size)
  OBVIOUS
<1>2. PICK done : done = AcceptUploadSize(ch, x, size)
  OBVIOUS
<1>3. /\ d.receipt = [ch.receipt EXCEPT ![x] = IF ch.receipt[x] >= size THEN ch.receipt[x] ELSE size]
      /\ d.accepted = done.accepted /\ d.refused = done.refused
  BY <1>1, <1>2, ReceiptOfReceipt
<1>4. /\ ch.accepted[x] \in Nat /\ ch.receipt[x] = ch.accepted[x] /\ ch.refused[x] = 0
      /\ size \in Nat /\ ch.total \in Nat /\ ch.prepaid \in Nat
  BY ChannelFields, SizesAreNumbers, DownloadChannelAssumption DEF Neat, Zero
<1>5. \A y \in Cell : MaxReceiptSize(ch, y) = ch.accepted[y]
  <2> SUFFICES ASSUME NEW y \in Cell PROVE MaxReceiptSize(ch, y) = ch.accepted[y]
    OBVIOUS
  <2>1. ch.refused[y] = 0 /\ ch.accepted[y] \in Nat
    BY ChannelFields, SizesAreNumbers DEF Neat, Zero
  <2> QED BY <2>1, MaxReceiptSizeIs
<1>6. PICK total : total = ch.total + size - ch.accepted[x]
  OBVIOUS
<1>7. done = CASE size <= ch.accepted[x] -> ch
               [] size > ch.accepted[x] /\ total > ch.prepaid ->
                     [ch EXCEPT !.total = total, !.refused[x] = size]
               [] OTHER -> [ch EXCEPT !.total = total, !.accepted[x] = size]
  <2>1. TryFixReceiptSize(ch, x[2]) = ch
    BY NothingToFix DEF Neat
  <2>2. MaxReceiptSize(ch, x) = ch.accepted[x]
    BY <1>5
  <2> QED BY <1>2, <1>6, <2>1, <2>2, Zenon DEF AcceptUploadSize
<1>8. CASE size <= ch.accepted[x]
  <2>1. done = ch
    BY <1>4, <1>7, <1>8
  <2>2. d.receipt = ch.receipt
    BY <1>3, <1>4, <1>8, ChannelFields DEF Sizes
  <2> QED BY <1>1, <1>3, <2>1, <2>2 DEF Neat
<1>9. CASE size > ch.accepted[x]
  <2>1. PICK h : h = [ch.accepted EXCEPT ![x] = size]
    OBVIOUS
  <2>2. PICK f : f = ch.accepted
    OBVIOUS
  <2>3. f \in [Cell -> Nat] /\ h \in [Cell -> Nat] /\ sg \in [Cell -> Nat]
    BY <1>4, <2>1, <2>2, ChannelFields, DownloadChannelAssumption DEF Sizes
  <2>4. PICK n : n = size - f[x]
    OBVIOUS
  <2>5. n \in Nat /\ h[x] = f[x] + n /\ total = ch.total + n
    BY <1>4, <1>6, <1>9, <2>1, <2>2, <2>3, <2>4
  <2>6. \A y \in Cell : y # x => h[y] = f[y]
    BY <2>1, <2>2, <2>3
  <2>7. SumFunction(Columns(h)) = SumFunction(Columns(f)) + n
    BY ONLY <2>3, <2>5, <2>6, x \in Cell, ColumnsChange
  <2>8. ch.total = SumFunction(Columns(f))
    <3>1. Largest(ch) = f
      BY <1>5, <2>2, <2>3 DEF Largest
    <3> QED BY <3>1, PartsAreColumns DEF Consistent
  <2>9. SumFunction(h) <= SumFunction(sg)
    <3>1. ASSUME NEW y \in Cell PROVE h[y] <= sg[y]
      <4>1. CASE y = x
        BY <2>1, <2>2, <2>3, <4>1
      <4>2. CASE y # x
        BY <2>2, <2>6, <4>2 DEF Honest, Neat
      <4> QED BY <4>1, <4>2
    <3> QED BY <2>3, <3>1, SumGrows, CellIsFinite
  <2>10. total = SumFunction(h) /\ SumFunction(h) \in Nat /\ SumFunction(sg) \in Nat
    BY <2>3, <2>5, <2>7, <2>8, SumOfColumns, SumType, CellIsFinite
  <2>11. ~(total > ch.prepaid)
    BY <1>4, <2>9, <2>10
  <2>12. done = [ch EXCEPT !.total = total, !.accepted[x] = size]
    BY <1>4, <1>7, <1>9, <2>11
  <2>13. done.accepted = h /\ done.refused = Zero
    BY <2>1, <2>12 DEF Channel, Neat
  <2>14. d.receipt = h
    BY <1>3, <1>4, <1>9, <2>1 DEF Neat
  <2> QED BY <1>1, <1>3, <2>13, <2>14 DEF Neat
<1> QED BY <1>4, <1>8, <1>9

LEMMA LearntByReceipt ==
    ASSUME NEW ch \in Channel, NEW x \in Cell, NEW size \in 1..MaxSize, NEW sg \in Sizes,
           Honest(ch, sg), size <= sg[x]
    PROVE  Learnt(ch, AcceptReceiptImpl(ch, x, size), sg)
<1>1. PICK d : d = AcceptReceiptImpl(ch, x, size)
  OBVIOUS
<1>2. PICK k : k = IF ch.receipt[x] >= size THEN ch.receipt[x] ELSE size
  OBVIOUS
<1>3. d.receipt = [ch.receipt EXCEPT ![x] = k]
  BY <1>1, <1>2, ReceiptOfReceipt
<1>4. ASSUME NEW y \in Cell PROVE d.receipt[y] <= sg[y] /\ d.receipt[y] >= ch.receipt[y]
  <2>1. ch.receipt[y] \in Nat /\ sg[y] \in Nat /\ ch.receipt[y] <= sg[y] /\ size \in Nat
    BY ChannelFields, SizesAreNumbers, DownloadChannelAssumption DEF Honest
  <2>2. d.receipt[y] = IF y = x THEN k ELSE ch.receipt[y]
    BY <1>3, ChannelFields DEF Sizes
  <2>3. CASE y = x
    BY <1>2, <2>1, <2>2, <2>3
  <2>4. CASE y # x
    BY <2>1, <2>2, <2>4
  <2> QED BY <2>3, <2>4
<1>5. Consistent(ch) /\ Neat(ch) /\ SumFunction(sg) <= ch.prepaid => Neat(d)
  BY <1>1, NeatByReceipt
<1>6. SignedFor(d, sg)
  <2>1. d.accepted = AcceptUploadSize(ch, x, size).accepted
        /\ d.refused = AcceptUploadSize(ch, x, size).refused
    BY <1>1, ReceiptOfReceipt
  <2>2. SignedFor(AcceptUploadSize(ch, x, size), sg)
    BY UploadSizeSigned DEF Honest
  <2> QED BY <2>1, <2>2 DEF SignedFor
<1> QED BY <1>1, <1>4, <1>5, <1>6 DEF Learnt, Honest

LEMMA LearntBySync ==
    ASSUME NEW ch \in Channel, NEW cells \in SUBSET Cell, NEW receipt, NEW sg \in Sizes,
           \A x \in cells : receipt[x] \in 1..MaxSize /\ receipt[x] <= sg[x], Honest(ch, sg)
    PROVE  Learnt(ch, AcceptSyncRcpts(ch, cells, receipt), sg)
<1>1. PICK h : SyncFold(ch, cells, receipt, h) /\ AcceptSyncRcpts(ch, cells, receipt) = h[cells]
  BY SyncIsFold
<1> DEFINE T == {s \in SUBSET cells : Grown(ch, h[s]) /\ Learnt(ch, h[s], sg)}
<1>2. T \in SUBSET SUBSET cells /\ {} \in T
  <2>1. h[{}] = ch
    BY <1>1 DEF SyncFold
  <2>2. \A x \in Cell : ch.receipt[x] >= ch.receipt[x]
    BY ChannelFields, SizesAreNumbers
  <2>3. Learnt(ch, ch, sg)
    BY <2>2 DEF Learnt
  <2> QED BY <2>1, <2>3, GrownSame
<1>3. ASSUME NEW s \in SUBSET cells, s # {}, s \ {Choice(s)} \in T PROVE s \in T
  <2>1. PICK x, d : x = Choice(s) /\ d = h[s \ {Choice(s)}]
    OBVIOUS
  <2>2. x \in cells /\ x \in Cell /\ receipt[x] \in 1..MaxSize /\ receipt[x] <= sg[x]
    BY <1>3, <2>1, ChoiceRest
  <2>3. Grown(ch, d) /\ d \in Channel /\ Learnt(ch, d, sg)
    BY <1>3, <2>1 DEF Grown
  <2>4. PICK e : e = h[s]
    OBVIOUS
  <2>5. e = AcceptReceiptImpl(d, x, receipt[x])
    BY <1>1, <1>3, <2>1, <2>4 DEF SyncFold
  <2>6. Grown(d, e) /\ e \in Channel
    BY <2>2, <2>3, <2>5, GrownByReceipt DEF Grown
  <2>7. Learnt(d, e, sg)
    <3>1. Honest(d, sg)
      BY <2>3 DEF Learnt
    <3> QED BY <2>2, <2>3, <2>5, <3>1, LearntByReceipt
  <2>8. Grown(ch, e)
    BY <2>3, <2>6, GrownTwice
  <2>9. Learnt(ch, e, sg)
    <3>1. ASSUME NEW y \in Cell PROVE e.receipt[y] >= ch.receipt[y]
      <4>1. ch.receipt[y] \in Nat /\ d.receipt[y] \in Nat /\ e.receipt[y] \in Nat
        BY <2>3, <2>6, ChannelFields, SizesAreNumbers
      <4>2. d.receipt[y] >= ch.receipt[y] /\ e.receipt[y] >= d.receipt[y]
        BY <2>3, <2>7 DEF Learnt
      <4> QED BY <4>1, <4>2
    <3>2. Consistent(ch) /\ Neat(ch) /\ SumFunction(sg) <= ch.prepaid => Neat(e)
      BY <2>3, <2>7 DEF Learnt, Grown
    <3> QED BY <2>7, <3>1, <3>2 DEF Learnt
  <2> QED BY <2>4, <2>8, <2>9
<1>4. T = SUBSET cells
  <2>1. IsFiniteSet(cells)
    BY CellIsFinite, FS_Subset
  <2> HIDE DEF T
  <2> QED BY <1>2, <1>3, <2>1, ChoiceInduction
<1>5. cells \in T
  BY <1>4
<1> QED BY <1>1, <1>5

------------------------------------------------------------------------------
(* All receipts have come. *)

\* No replicator was restarted, and the channel was always large enough for
\* all that was signed.
Ample == ~chain.restarted /\ chain.first >= SumFunction(signed)

EnoughPrepaid ==
    /\ chain.prepaid >= chain.first
    /\ \A r \in Replicators : channel[r].known => channel[r].prepaid >= chain.first

NothingInvented ==
    /\ \A r \in Replicators : Honest(channel[r], signed) /\ SignedFor(file[r], signed)
    /\ \A m \in net : m.size <= signed[m.cell]

\* Before a replicator has the channel for the first time, nobody signs for it.
Untouched(r) == \A c \in Clients : signed[<<c, r>>] = 0 /\ <<c, r>> \notin connected

Fresh ==
    ~chain.restarted =>
        \A r \in Replicators :
            ~file[r].known /\ (~channel[r].known /\ ~chain.closed => Untouched(r))

\* What was signed for r is known to r, and was passed on to all the others.
PassedOn(r, x, size) ==
    \A q \in Others(r) : [to |-> q, cell |-> x, size |-> size] \in net

OwnReceipts(r) ==
    \A c \in Clients :
        /\ channel[r].receipt[<<c, r>>] = signed[<<c, r>>]
        /\ signed[<<c, r>>] > 0 => PassedOn(r, <<c, r>>, signed[<<c, r>>])

AllPassedOn ==
    ~chain.restarted => \A r \in Replicators : channel[r].known => OwnReceipts(r)

AllNeat == Ample => \A r \in Replicators : channel[r].known => Neat(channel[r])

Agreed == EnoughPrepaid /\ NothingInvented /\ Fresh /\ AllPassedOn /\ AllNeat

LEMMA SignedSums ==
    ASSUME NEW f \in Sizes, NEW h \in Sizes, \A x \in Cell : f[x] <= h[x]
    PROVE  SumFunction(f) <= SumFunction(h) /\ SumFunction(f) \in Nat /\ SumFunction(h) \in Nat
<1>1. f \in [Cell -> Nat] /\ h \in [Cell -> Nat]
  BY DownloadChannelAssumption DEF Sizes
<1> QED BY <1>1, SumGrows, SumType, CellIsFinite

LEMMA InitAgreed ==
    Init => Agreed
<1> SUFFICES ASSUME Init PROVE Agreed
  OBVIOUS
<1>1. EnoughPrepaid
  BY DownloadChannelAssumption DEF Init, EnoughPrepaid, NoChannel
<1>2. NothingInvented
  BY DEF Init, NothingInvented, Honest, SignedFor, NoChannel, Save, Zero
<1>3. Fresh
  BY DEF Init, Fresh, Untouched, Save, NoChannel, Zero, Cell
<1>4. AllPassedOn /\ AllNeat
  BY DEF Init, AllPassedOn, AllNeat, NoChannel
<1> QED BY <1>1, <1>2, <1>3, <1>4 DEF Agreed

\* The books of all channels stay as they are.
SameBooks ==
    /\ \A r \in Replicators :
          /\ channel'[r].known = channel[r].known /\ channel'[r].receipt = channel[r].receipt
          /\ channel'[r].accepted = channel[r].accepted
          /\ channel'[r].refused = channel[r].refused
          /\ channel'[r].prepaid >= channel[r].prepaid
    /\ chain'.first = chain.first /\ chain'.prepaid >= chain.prepaid
    /\ chain'.restarted = chain.restarted /\ (chain.closed => chain'.closed)
    /\ file' = file /\ signed' = signed /\ net' = net
    /\ \A x \in connected' : x \in connected \/ channel[x[2]].known

LEMMA SameBooksAgreed ==
    ASSUME Accounts, Accounts', Agreed, SameBooks
    PROVE  Agreed'
<1>1. /\ chain.first \in Nat /\ chain.prepaid \in Nat /\ chain'.prepaid \in Nat
      /\ \A r \in Replicators : channel[r].prepaid \in Nat /\ channel'[r].prepaid \in Nat
  BY DownloadChannelAssumption, ChannelFields DEF Accounts, TypeOK
<1>2. EnoughPrepaid'
  BY <1>1 DEF Agreed, EnoughPrepaid, SameBooks
<1>3. NothingInvented'
  BY DEF Agreed, NothingInvented, SameBooks, Honest, SignedFor
<1>4. Fresh'
  <2> SUFFICES ASSUME ~chain.restarted, NEW r \in Replicators
               PROVE  /\ ~file[r].known
                      /\ ~channel[r].known /\ ~chain'.closed =>
                            \A c \in Clients : signed[<<c, r>>] = 0 /\ <<c, r>> \notin connected'
    BY DEF Fresh, SameBooks, Untouched
  <2>1. ~file[r].known /\ (~channel[r].known /\ ~chain.closed => Untouched(r))
    BY DEF Agreed, Fresh
  <2>2. \A c \in Clients : <<c, r>>[2] = r
    OBVIOUS
  <2> QED BY <2>1, <2>2 DEF SameBooks, Untouched
<1>5. AllPassedOn'
  BY DEF Agreed, AllPassedOn, SameBooks, OwnReceipts, PassedOn
<1>6. AllNeat'
  BY DEF Agreed, AllNeat, Ample, SameBooks, Neat
<1> QED BY <1>2, <1>3, <1>4, <1>5, <1>6 DEF Agreed

\* More has been signed.
LEMMA StillHonest ==
    ASSUME Accounts, Agreed, signed' \in Sizes, \A x \in Cell : signed'[x] >= signed[x],
           NEW q \in Replicators
    PROVE  Honest(channel[q], signed') /\ SignedFor(file[q], signed')
<1>1. /\ channel[q] \in Channel /\ signed \in Sizes
      /\ file[q].accepted \in Sizes /\ file[q].refused \in Sizes
  BY DEF Accounts, TypeOK, Saved
<1>2. Honest(channel[q], signed) /\ SignedFor(file[q], signed)
  BY DEF Agreed, NothingInvented
<1>3. /\ channel[q].accepted \in Sizes /\ channel[q].refused \in Sizes
      /\ channel[q].receipt \in Sizes
  BY <1>1, ChannelFields
<1>4. PICK tg \in Sizes : tg = signed'
  OBVIOUS
<1>5. Honest(channel[q], tg)
  BY <1>1, <1>2, <1>3, <1>4, SignedMore
<1>6. SignedFor(file[q], tg)
  BY <1>1, <1>2, <1>4, SignedMore
<1> QED BY <1>4, <1>5, <1>6

\* Replicator r has processed receipts, and perhaps a client has signed for more.
LEMMA UpdateAgreed ==
    ASSUME Accounts, Agreed, NEW r \in Replicators, NEW d, Grown(channel[r], d),
           Learnt(channel[r], d, signed'), Update(r, d), channel[r].known, signed' \in Sizes,
           \A x \in Cell : signed'[x] >= signed[x] /\ (x[2] # r => signed'[x] = signed[x]),
           ~chain.restarted =>
              \A c \in Clients : d.receipt[<<c, r>>] = signed'[<<c, r>>],
           connected' \subseteq connected, chain' = chain, file' = file
    PROVE  Agreed'
<1>1. /\ channel \in [Replicators -> Channel] /\ signed \in Sizes /\ net \subseteq Receipt
      /\ chain.first \in Nat
  BY DownloadChannelAssumption DEF Accounts, TypeOK
<1>2. PICK some : net' = net \cup Forwarded(r, channel[r], d, some)
  BY DEF Update
<1>3. /\ channel'[r] = d /\ \A q \in Replicators : q # r => channel'[q] = channel[q]
  BY <1>1 DEF Update
<1>4. d \in Channel /\ d.known = channel[r].known /\ d.prepaid = channel[r].prepaid
  BY DEF Grown
<1>10. \A q \in Replicators : Honest(channel[q], signed') /\ SignedFor(file[q], signed')
  BY StillHonest
<1>5. EnoughPrepaid'
  BY <1>3, <1>4 DEF Agreed, EnoughPrepaid
<1>6. NothingInvented'
  <2>1. ASSUME NEW q \in Replicators PROVE Honest(channel'[q], signed')
    <3>1. CASE q = r
      BY <1>3, <3>1 DEF Learnt
    <3>2. CASE q # r
      BY <1>3, <1>10, <3>2
    <3> QED BY <3>1, <3>2
  <2>2. ASSUME NEW m \in net' PROVE m.size <= signed'[m.cell]
    <3>1. CASE m \in net
      <4>1. m.cell \in Cell /\ m.size \in Nat
        BY <1>1, <3>1, DownloadChannelAssumption DEF Receipt
      <4>2. signed[m.cell] \in Nat /\ signed'[m.cell] \in Nat
        BY <1>1, <4>1, SizesAreNumbers
      <4>3. m.size <= signed[m.cell] /\ signed'[m.cell] >= signed[m.cell]
        BY <3>1, <4>1 DEF Agreed, NothingInvented
      <4> QED BY <4>1, <4>2, <4>3
    <3>2. CASE m \in Forwarded(r, channel[r], d, some)
      <4>1. m.cell \in Cell /\ d.receipt[m.cell] = m.size
        BY <3>2 DEF Forwarded, Receipt
      <4> QED BY <4>1 DEF Learnt, Honest
    <3> QED BY <1>2, <3>1, <3>2
  <2> QED BY <1>10, <2>1, <2>2 DEF NothingInvented
<1>7. Fresh'
  <2> SUFFICES ASSUME ~chain.restarted, NEW q \in Replicators
               PROVE  /\ ~file[q].known
                      /\ ~channel'[q].known /\ ~chain.closed =>
                            \A c \in Clients : signed'[<<c, q>>] = 0 /\ <<c, q>> \notin connected'
    BY DEF Fresh, Untouched
  <2>1. ~file[q].known /\ (~channel[q].known /\ ~chain.closed => Untouched(q))
    BY DEF Agreed, Fresh
  <2>2. \A c \in Clients : <<c, q>> \in Cell /\ <<c, q>>[2] = q
    BY DEF Cell
  <2>3. ~channel'[q].known => q # r /\ ~channel[q].known
    BY <1>3, <1>4
  <2> QED BY <2>1, <2>2, <2>3 DEF Untouched
<1>8. AllPassedOn'
  <2> SUFFICES ASSUME ~chain.restarted, NEW q \in Replicators, channel'[q].known, NEW c \in Clients
               PROVE  /\ channel'[q].receipt[<<c, q>>] = signed'[<<c, q>>]
                      /\ signed'[<<c, q>>] > 0 =>
                            \A p \in Others(q) :
                               [to |-> p, cell |-> <<c, q>>, size |-> signed'[<<c, q>>]] \in net'
    BY DEF AllPassedOn, OwnReceipts, PassedOn
  <2>1. PICK x \in Cell : x = <<c, q>> /\ x[2] = q
    <3>1. <<c, q>> \in Cell /\ <<c, q>>[2] = q
      BY DEF Cell
    <3> QED BY <3>1
  <2>2. channel[q].known
    BY <1>3, <1>4
  <2>3. /\ channel[q].receipt[x] = signed[x]
        /\ signed[x] > 0 => \A p \in Others(q) : [to |-> p, cell |-> x, size |-> signed[x]] \in net
    BY <2>1, <2>2 DEF Agreed, AllPassedOn, OwnReceipts, PassedOn
  <2>4. CASE signed'[x] = signed[x] /\ q # r
    <3>1. channel'[q] = channel[q]
      BY <1>3, <2>4
    <3> QED BY <1>2, <2>1, <2>3, <2>4, <3>1
  <2>5. CASE signed'[x] = signed[x] /\ q = r
    <3>1. channel'[q].receipt[x] = signed'[x]
      BY <1>3, <2>1, <2>5
    <3> QED BY <1>2, <2>1, <2>3, <2>5, <3>1
  <2>6. CASE signed'[x] # signed[x]
    <3>1. q = r
      BY <2>1, <2>6
    <3>2. channel'[q] = d /\ d.receipt[x] = signed'[x]
      BY <1>3, <2>1, <3>1
    <3>3. /\ signed[x] \in Nat /\ signed'[x] \in Nat /\ signed'[x] <= MaxSize
          /\ signed'[x] > signed[x]
      <4>1. signed[x] \in Nat /\ signed'[x] \in Nat /\ signed'[x] <= MaxSize
        BY <1>1, SizesAreNumbers
      <4>2. signed'[x] >= signed[x]
        OBVIOUS
      <4> QED BY <2>6, <4>1, <4>2
    <3>4. signed'[x] \in 1..MaxSize
      BY <3>3, DownloadChannelAssumption
    <3>5. ASSUME NEW p \in Others(q)
          PROVE  [to |-> p, cell |-> x, size |-> signed'[x]] \in net'
      <4>1. PICK m : m = [to |-> p, cell |-> x, size |-> signed'[x]]
        OBVIOUS
      <4>2. m \in Receipt /\ m.cell = x /\ m.size = signed'[x] /\ m.to = p
        BY <3>4, <4>1 DEF Receipt, Others
      <4>3. channel[r].receipt[m.cell] < m.size /\ d.receipt[m.cell] = m.size
        BY <2>3, <3>1, <3>2, <3>3, <4>2
      <4>4. m.cell[2] = r /\ m.to \in Others(r)
        BY <2>1, <3>1, <4>2
      <4>5. m \in Forwarded(r, channel[r], d, some)
        BY <4>2, <4>3, <4>4 DEF Forwarded
      <4> QED BY <1>2, <4>1, <4>5
    <3> QED BY <2>1, <3>2, <3>5
  <2> QED BY <2>4, <2>5, <2>6
<1>9. AllNeat'
  <2> SUFFICES ASSUME ~chain.restarted, chain.first >= SumFunction(signed'),
                      NEW q \in Replicators, channel'[q].known
               PROVE  Neat(channel'[q])
    BY DEF AllNeat, Ample
  <2>1. /\ SumFunction(signed) <= SumFunction(signed')
        /\ SumFunction(signed) \in Nat /\ SumFunction(signed') \in Nat
    <3>1. PICK f, h : f = signed /\ h = signed'
      OBVIOUS
    <3>2. ASSUME NEW x \in Cell PROVE f[x] <= h[x]
      <4>1. signed[x] \in Nat /\ signed'[x] \in Nat /\ signed'[x] >= signed[x]
        BY <1>1, SizesAreNumbers
      <4> QED BY <3>1, <4>1
    <3>3. f \in Sizes /\ h \in Sizes
      BY <1>1, <3>1
    <3>4. SumFunction(f) <= SumFunction(h) /\ SumFunction(f) \in Nat /\ SumFunction(h) \in Nat
      BY ONLY <3>2, <3>3, SignedSums
    <3> QED BY <3>1, <3>4
  <2>2. Ample
    BY <1>1, <2>1 DEF Ample
  <2>3. CASE q # r
    BY <1>3, <2>2, <2>3 DEF Agreed, AllNeat
  <2>4. CASE q = r
    <3>1. Neat(channel[r])
      BY <2>2 DEF Agreed, AllNeat
    <3>2. Consistent(channel[r])
      BY DEF Agreed, Fresh, Accounts, AllConsistent
    <3>3. SumFunction(signed') <= channel[r].prepaid
      <4>1. channel[r].prepaid >= chain.first /\ channel[r].prepaid \in Nat
        BY <1>1, ChannelFields DEF Agreed, EnoughPrepaid
      <4> QED BY <1>1, <2>1, <4>1
    <3> QED BY <1>3, <2>4, <3>1, <3>2, <3>3 DEF Learnt
  <2> QED BY <2>3, <2>4
<1> QED BY <1>5, <1>6, <1>7, <1>8, <1>9 DEF Agreed

\* Channels, files, receipts and the chain stay.
LEMMA SameStateAgreed ==
    ASSUME Accounts, Accounts', Agreed,
           UNCHANGED <<chain, channel, file, signed, net>>,
           \A x \in connected' : x \in connected \/ channel[x[2]].known
    PROVE  Agreed'
<1>1. \A r \in Replicators : channel[r].prepaid \in Nat
  BY ChannelFields DEF Accounts, TypeOK
<1>2. chain.prepaid \in Nat
  BY DEF Accounts, TypeOK
<1>3. SameBooks
  BY <1>1, <1>2 DEF SameBooks
<1> QED BY <1>3, SameBooksAgreed

LEMMA AgreedAcceptReceipt ==
    ASSUME Accounts, Agreed, NEW c \in Clients, NEW r \in Replicators, NEW size \in 1..MaxSize,
           AcceptReceipt(c, r, size)
    PROVE  Agreed'
<1>1. PICK x \in Cell : x = <<c, r>>
  BY DEF Cell
<1>2. /\ channel \in [Replicators -> Channel] /\ signed \in Sizes /\ net \subseteq Receipt
      /\ chain.first \in Nat
  BY DownloadChannelAssumption DEF Accounts, TypeOK
<1>3. /\ signed' = [signed EXCEPT ![x] = size] /\ signed[x] < size /\ x \in connected
      /\ UNCHANGED <<chain, file>>
  BY <1>1 DEF AcceptReceipt
<1>4. /\ signed' \in Sizes /\ signed'[x] = size
      /\ \A y \in Cell : y # x => signed'[y] = signed[y]
  BY <1>2, <1>3, DownloadChannelAssumption DEF Sizes
<1>5. ASSUME NEW y \in Cell
      PROVE  signed'[y] >= signed[y] /\ (y[2] # r => signed'[y] = signed[y])
  <2>1. signed[y] \in Nat /\ size \in Nat
    BY <1>2, SizesAreNumbers, DownloadChannelAssumption
  <2>2. CASE y = x
    BY <1>1, <1>3, <1>4, <2>1, <2>2
  <2>3. CASE y # x
    BY <1>4, <2>1, <2>3
  <2> QED BY <2>2, <2>3
<1>6. CASE channel[r].known
  <2>1. PICK d : d = AcceptReceiptImpl(channel[r], x, size)
    OBVIOUS
  <2>2. /\ Update(r, d)
        /\ connected' = IF d.refused[x] = size THEN connected \ {x} ELSE connected
    BY <1>1, <1>6, <2>1 DEF AcceptReceipt
  <2>3. Grown(channel[r], d)
    BY <1>2, <2>1, GrownByReceipt
  <2>4. Honest(channel[r], signed')
    BY <1>4, <1>5, StillHonest
  <2>5. Learnt(channel[r], d, signed')
    <3>1. PICK sg \in Sizes : sg = signed'
      BY <1>4
    <3>2. size <= sg[x] /\ Honest(channel[r], sg)
      BY <1>4, <2>4, <3>1, DownloadChannelAssumption
    <3> QED BY <1>2, <2>1, <3>1, <3>2, LearntByReceipt
  <2>6. ASSUME ~chain.restarted, NEW e \in Clients
        PROVE  d.receipt[<<e, r>>] = signed'[<<e, r>>]
    <3>1. PICK y \in Cell : y = <<e, r>>
      BY DEF Cell
    <3>2. channel[r].receipt[y] = signed[y]
      BY <1>6, <2>6, <3>1 DEF Agreed, AllPassedOn, OwnReceipts
    <3>3. d.receipt = [channel[r].receipt EXCEPT
                          ![x] = IF channel[r].receipt[x] >= size THEN channel[r].receipt[x] ELSE size]
      BY <1>2, <2>1, ReceiptOfReceipt
    <3>4. channel[r].receipt \in Sizes
      BY <1>2, ChannelFields
    <3>5. CASE y = x
      <4>1. ~(channel[r].receipt[x] >= size)
        <5>1. signed[x] \in Nat /\ size \in Nat
          BY <1>2, SizesAreNumbers, DownloadChannelAssumption
        <5> QED BY <1>3, <3>2, <3>5, <5>1
      <4> QED BY <1>4, <3>1, <3>3, <3>4, <3>5, <4>1 DEF Sizes
    <3>6. CASE y # x
      BY <1>4, <3>1, <3>2, <3>3, <3>4, <3>6 DEF Sizes
    <3> QED BY <3>5, <3>6
  <2>7. connected' \subseteq connected /\ chain' = chain /\ file' = file
    BY <1>3, <2>2
  <2> QED BY <1>4, <1>5, <1>6, <2>2, <2>3, <2>5, <2>6, <2>7, UpdateAgreed
<1>7. CASE ~channel[r].known
  <2>1. connected' = connected \ {x} /\ channel' = channel /\ net' = net
    BY <1>1, <1>7 DEF AcceptReceipt
  <2>2. EnoughPrepaid'
    BY <1>3, <2>1 DEF Agreed, EnoughPrepaid
  <2>3. NothingInvented'
    <3>1. \A q \in Replicators : Honest(channel[q], signed') /\ SignedFor(file[q], signed')
      BY <1>4, <1>5, StillHonest
    <3>2. ASSUME NEW m \in net PROVE m.size <= signed'[m.cell]
      <4>1. m.cell \in Cell /\ m.size \in Nat
        BY <1>2, DownloadChannelAssumption DEF Receipt
      <4>2. signed[m.cell] \in Nat /\ signed'[m.cell] \in Nat
        BY <1>2, <1>4, <4>1, SizesAreNumbers
      <4>3. m.size <= signed[m.cell] /\ signed'[m.cell] >= signed[m.cell]
        BY <1>5, <4>1 DEF Agreed, NothingInvented
      <4> QED BY <4>1, <4>2, <4>3
    <3> QED BY <1>3, <2>1, <3>1, <3>2 DEF NothingInvented
  <2>4. ~chain.restarted => chain.closed
    BY <1>1, <1>3, <1>7 DEF Agreed, Fresh, Untouched
  <2>5. Fresh'
    BY <1>3, <2>4 DEF Agreed, Fresh
  <2>6. AllPassedOn'
    <3> SUFFICES ASSUME ~chain.restarted, NEW q \in Replicators, channel[q].known, NEW e \in Clients
                 PROVE  /\ channel[q].receipt[<<e, q>>] = signed'[<<e, q>>]
                        /\ signed'[<<e, q>>] > 0 =>
                              \A p \in Others(q) :
                                 [to |-> p, cell |-> <<e, q>>, size |-> signed'[<<e, q>>]] \in net
      BY <1>3, <2>1 DEF AllPassedOn, OwnReceipts, PassedOn
    <3>1. <<e, q>> \in Cell /\ <<e, q>> # x
      BY <1>1, <1>7 DEF Cell
    <3>2. signed'[<<e, q>>] = signed[<<e, q>>]
      BY <1>4, <3>1
    <3> QED BY <3>2 DEF Agreed, AllPassedOn, OwnReceipts, PassedOn
  <2>7. AllNeat'
    <3> SUFFICES ASSUME ~chain.restarted, chain.first >= SumFunction(signed')
                 PROVE  Ample
      BY <1>3, <2>1 DEF Agreed, AllNeat, Ample
    <3>1. PICK f, h : f = signed /\ h = signed'
      OBVIOUS
    <3>2. ASSUME NEW y \in Cell PROVE f[y] <= h[y]
      <4>1. signed[y] \in Nat /\ signed'[y] \in Nat /\ signed'[y] >= signed[y]
        BY <1>2, <1>4, <1>5, SizesAreNumbers
      <4> QED BY <3>1, <4>1
    <3>3. f \in Sizes /\ h \in Sizes
      BY <1>2, <1>4, <3>1
    <3>4. SumFunction(f) <= SumFunction(h) /\ SumFunction(f) \in Nat /\ SumFunction(h) \in Nat
      BY ONLY <3>2, <3>3, SignedSums
    <3> QED BY <1>2, <3>1, <3>4 DEF Ample
  <2> QED BY <2>2, <2>3, <2>5, <2>6, <2>7 DEF Agreed
<1> QED BY <1>6, <1>7

\* Receipts of others: nothing new is signed.
LEMMA AgreedByOthers ==
    ASSUME Accounts, Agreed, NEW r \in Replicators, NEW d, Grown(channel[r], d),
           Learnt(channel[r], d, signed), Update(r, d), channel[r].known,
           UNCHANGED <<chain, file, connected, signed>>
    PROVE  Agreed'
<1>1. channel \in [Replicators -> Channel] /\ signed \in Sizes
  BY DEF Accounts, TypeOK
<1>2. ASSUME NEW x \in Cell
      PROVE  signed'[x] >= signed[x] /\ (x[2] # r => signed'[x] = signed[x])
  <2>1. signed[x] \in Nat
    BY <1>1, SizesAreNumbers
  <2> QED BY <2>1
<1>3. ASSUME ~chain.restarted, NEW c \in Clients
      PROVE  d.receipt[<<c, r>>] = signed'[<<c, r>>]
  <2>1. PICK x \in Cell : x = <<c, r>>
    BY DEF Cell
  <2>2. channel[r].receipt[x] = signed[x]
    BY <1>3, <2>1 DEF Agreed, AllPassedOn, OwnReceipts
  <2>3. d.receipt[x] >= channel[r].receipt[x] /\ d.receipt[x] <= signed[x]
    BY DEF Learnt, Honest
  <2>4. d.receipt[x] \in Nat /\ signed[x] \in Nat
    BY <1>1, ChannelFields, SizesAreNumbers DEF Grown
  <2>5. d.receipt[x] = signed[x]
    BY <2>2, <2>3, <2>4
  <2> QED BY <2>1, <2>5
<1>4. Learnt(channel[r], d, signed') /\ signed' \in Sizes
  BY <1>1
<1> QED BY <1>2, <1>3, <1>4, UpdateAgreed

LEMMA AgreedOnRcpt ==
    ASSUME Accounts, Agreed, NEW m \in net, OnRcpt(m)
    PROVE  Agreed'
<1>1. channel \in [Replicators -> Channel] /\ signed \in Sizes /\ net \subseteq Receipt
  BY DEF Accounts, TypeOK
<1>2. m.to \in Replicators /\ m.cell \in Cell /\ m.size \in 1..MaxSize
  BY <1>1 DEF Receipt
<1>3. PICK r, x, size : r = m.to /\ x = m.cell /\ size = m.size
  OBVIOUS
<1>4. PICK d : d = AcceptReceiptImpl(channel[r], x, size)
  OBVIOUS
<1>5. Update(r, d) /\ channel[r].known /\ UNCHANGED <<chain, file, connected, signed>>
  BY <1>3, <1>4 DEF OnRcpt
<1>6. Grown(channel[r], d)
  BY <1>1, <1>2, <1>3, <1>4, GrownByReceipt
<1>7. Honest(channel[r], signed) /\ size <= signed[x]
  BY <1>2, <1>3 DEF Agreed, NothingInvented
<1>8. Learnt(channel[r], d, signed)
  BY <1>1, <1>2, <1>3, <1>4, <1>7, LearntByReceipt
<1> QED BY <1>2, <1>3, <1>5, <1>6, <1>8, AgreedByOthers

LEMMA AgreedOnSyncRcptReceived ==
    ASSUME Accounts, Accounts', Agreed, NEW r \in Replicators, NEW s \in Replicators,
           OnSyncRcptReceived(r, s)
    PROVE  Agreed'
<1>1. channel \in [Replicators -> Channel] /\ signed \in Sizes
  BY DEF Accounts, TypeOK
<1>2. UNCHANGED <<chain, file, connected, signed>>
  BY DEF OnSyncRcptReceived
<1>3. CASE channel[r].known
  <2>1. PICK cells, receipt : cells = CreateSyncRcpts(s) /\ receipt = channel[s].receipt
    OBVIOUS
  <2>2. PICK d : d = AcceptSyncRcpts(channel[r], cells, receipt)
    OBVIOUS
  <2>3. Update(r, d)
    BY <1>3, <2>1, <2>2 DEF OnSyncRcptReceived
  <2>4. cells \in SUBSET Cell /\ \A x \in cells : receipt[x] > 0
    BY <2>1 DEF CreateSyncRcpts
  <2>5. receipt \in Sizes
    BY <1>1, <2>1, ChannelFields
  <2>6. ASSUME NEW x \in cells PROVE receipt[x] \in 1..MaxSize /\ receipt[x] <= signed[x]
    <3>1. receipt[x] \in Nat /\ receipt[x] <= MaxSize /\ receipt[x] > 0
      BY <2>4, <2>5, SizesAreNumbers
    <3>2. receipt[x] <= signed[x]
      BY <2>1, <2>4 DEF Agreed, NothingInvented, Honest
    <3> QED BY <3>1, <3>2, DownloadChannelAssumption
  <2>7. Grown(channel[r], d)
    BY <1>1, <2>2, <2>4, <2>6, GrownBySync
  <2>8. Learnt(channel[r], d, signed)
    <3>1. Honest(channel[r], signed)
      BY DEF Agreed, NothingInvented
    <3> QED BY <1>1, <2>2, <2>4, <2>6, <3>1, LearntBySync
  <2> QED BY <1>2, <1>3, <2>3, <2>7, <2>8, AgreedByOthers
<1>4. CASE ~channel[r].known
  <2>1. channel' = channel /\ net' = net
    BY <1>4 DEF OnSyncRcptReceived
  <2> QED BY <1>2, <2>1, SameStateAgreed
<1> QED BY <1>3, <1>4

LEMMA AgreedAddChannelInfo ==
    ASSUME Accounts, Agreed, NEW r \in Replicators, AddChannelInfo(r)
    PROVE  Agreed'
<1>1. /\ channel \in [Replicators -> Channel] /\ signed \in Sizes /\ chain.prepaid \in Nat
      /\ file \in [Replicators -> Saved]
  BY DEF Accounts, TypeOK
<1>2. PICK joins : joins = (r \in Joining)
  OBVIOUS
<1>3. PICK new : new = [NoChannel EXCEPT !.known = TRUE, !.prepaid = chain.prepaid,
                                         !.syncing = joins]
  OBVIOUS
<1>4. PICK d : d = IF file[r].known THEN RestoreChannel(new, file[r]) ELSE new
  OBVIOUS
<1>5. /\ channel' = [channel EXCEPT ![r] = d] /\ ~channel[r].known /\ ~chain.closed
      /\ UNCHANGED <<chain, file, connected, signed, net>>
  BY <1>2, <1>3, <1>4 DEF AddChannelInfo
<1>6. /\ new.known /\ new.prepaid = chain.prepaid /\ new.receipt = Zero
      /\ new.accepted = Zero /\ new.refused = Zero
  BY <1>3 DEF NoChannel
<1>7. d.known /\ d.prepaid = chain.prepaid /\ d.receipt = Zero
  BY <1>3, <1>4, <1>6 DEF RestoreChannel, NoChannel
<1>8. channel'[r] = d /\ \A q \in Replicators : q # r => channel'[q] = channel[q]
  BY <1>1, <1>5
<1>9. EnoughPrepaid'
  BY <1>5, <1>7, <1>8 DEF Agreed, EnoughPrepaid
<1>10. NothingInvented'
  <2>1. Honest(d, signed)
    <3>1. \A x \in Cell : d.receipt[x] <= signed[x]
      BY <1>1, <1>7, SizesAreNumbers DEF Zero
    <3>2. CASE file[r].known
      <4>1. d.accepted = file[r].accepted /\ d.refused = file[r].refused
        BY <1>3, <1>4, <3>2 DEF RestoreChannel, NoChannel
      <4>2. SignedFor(file[r], signed)
        BY DEF Agreed, NothingInvented
      <4> QED BY <3>1, <4>1, <4>2 DEF Honest, SignedFor
    <3>3. CASE ~file[r].known
      <4>1. d.accepted = Zero /\ d.refused = Zero
        BY <1>4, <1>6, <3>3
      <4> QED BY <1>1, <3>1, <4>1, SizesAreNumbers DEF Honest, SignedFor, Zero
    <3> QED BY <3>2, <3>3
  <2>2. \A q \in Replicators : Honest(channel'[q], signed)
    BY <1>8, <2>1 DEF Agreed, NothingInvented
  <2> QED BY <1>5, <2>2 DEF Agreed, NothingInvented
<1>11. Fresh'
  <2> SUFFICES ASSUME ~chain.restarted, NEW q \in Replicators
               PROVE  ~file[q].known /\ (~channel'[q].known /\ ~chain.closed => Untouched(q))
    BY <1>5 DEF Fresh, Untouched
  <2>1. ~file[q].known /\ (~channel[q].known /\ ~chain.closed => Untouched(q))
    BY DEF Agreed, Fresh
  <2> QED BY <1>7, <1>8, <2>1
<1>12. AllPassedOn'
  <2> SUFFICES ASSUME ~chain.restarted, NEW q \in Replicators, channel'[q].known, NEW c \in Clients
               PROVE  /\ channel'[q].receipt[<<c, q>>] = signed[<<c, q>>]
                      /\ signed[<<c, q>>] > 0 => PassedOn(q, <<c, q>>, signed[<<c, q>>])
    BY <1>5 DEF AllPassedOn, OwnReceipts, PassedOn
  <2>1. CASE q = r
    <3>1. signed[<<c, q>>] = 0 /\ <<c, q>> \in Cell
      BY <1>5, <2>1 DEF Agreed, Fresh, Untouched, Cell
    <3> QED BY <1>7, <1>8, <2>1, <3>1 DEF Zero
  <2>2. CASE q # r
    BY <1>8, <2>2 DEF Agreed, AllPassedOn, OwnReceipts
  <2> QED BY <2>1, <2>2
<1>13. AllNeat'
  <2> SUFFICES ASSUME Ample, NEW q \in Replicators, channel'[q].known PROVE Neat(channel'[q])
    BY <1>5 DEF AllNeat, Ample
  <2>1. CASE q = r
    <3>1. ~file[r].known
      BY DEF Agreed, Fresh, Ample
    <3> QED BY <1>4, <1>6, <1>8, <2>1, <3>1 DEF Neat
  <2>2. CASE q # r
    BY <1>8, <2>2 DEF Agreed, AllNeat
  <2> QED BY <2>1, <2>2
<1> QED BY <1>9, <1>10, <1>11, <1>12, <1>13 DEF Agreed

\* A channel is not in the map any more, because it was closed or because the
\* replicator goes down.
LEMMA AgreedWithout ==
    ASSUME Accounts, Agreed, NEW r \in Replicators, channel' = [channel EXCEPT ![r] = NoChannel],
           UNCHANGED <<signed, net>>, chain'.first = chain.first, chain'.prepaid = chain.prepaid,
           \/ chain' = chain /\ chain.closed /\ file' = file /\ connected' = connected
           \/ chain'.restarted,
           \/ file' = file
           \/ file' = [file EXCEPT ![r] = Save(channel[r])]
    PROVE  Agreed'
<1>1. channel \in [Replicators -> Channel] /\ signed \in Sizes
  BY DEF Accounts, TypeOK
<1>2. /\ ~NoChannel.known /\ NoChannel.receipt = Zero
      /\ NoChannel.accepted = Zero /\ NoChannel.refused = Zero
  BY DEF NoChannel
<1>3. channel'[r] = NoChannel /\ \A q \in Replicators : q # r => channel'[q] = channel[q]
  BY <1>1
<1>4. EnoughPrepaid'
  BY <1>2, <1>3 DEF Agreed, EnoughPrepaid
<1>5. NothingInvented'
  <2>1. Honest(NoChannel, signed)
    BY <1>1, <1>2, SizesAreNumbers DEF Honest, SignedFor, Zero
  <2>2. \A q \in Replicators : Honest(channel'[q], signed)
    BY <1>3, <2>1 DEF Agreed, NothingInvented
  <2>3. ASSUME NEW q \in Replicators PROVE SignedFor(file'[q], signed)
    <3>1. SignedFor(file[q], signed) /\ SignedFor(channel[q], signed)
      BY DEF Agreed, NothingInvented, Honest
    <3>2. SignedFor(Save(channel[q]), signed)
      BY <3>1 DEF SignedFor, Save
    <3>3. file'[q] = file[q] \/ file'[q] = Save(channel[q])
      BY DEF Accounts, TypeOK
    <3> QED BY <3>1, <3>2, <3>3
  <2> QED BY <2>2, <2>3 DEF Agreed, NothingInvented
<1>6. CASE chain'.restarted
  BY <1>4, <1>5, <1>6 DEF Agreed, Fresh, AllPassedOn, AllNeat, Ample
<1>7. CASE chain' = chain /\ chain.closed /\ file' = file /\ connected' = connected
  <2>1. Fresh'
    BY <1>7 DEF Agreed, Fresh
  <2>2. AllPassedOn'
    BY <1>2, <1>3, <1>7 DEF Agreed, AllPassedOn, OwnReceipts, PassedOn
  <2>3. AllNeat'
    BY <1>2, <1>3, <1>7 DEF Agreed, AllNeat, Ample
  <2> QED BY <1>4, <1>5, <2>1, <2>2, <2>3 DEF Agreed
<1> QED BY <1>6, <1>7

\* The steps that leave the books as they are.
LEMMA AgreedSendPiece ==
    ASSUME Accounts, Accounts', Agreed, NEW c \in Clients, NEW r \in Replicators, SendPiece(c, r)
    PROVE  Agreed'
<1>1. channel \in [Replicators -> Channel] /\ chain.prepaid \in Nat
  BY DEF Accounts, TypeOK
<1>2. PICK d : d = [channel[r] EXCEPT !.sent = [channel[r].sent EXCEPT ![c] = @ + 1]]
  OBVIOUS
<1>3. /\ channel' = [channel EXCEPT ![r] = d]
      /\ UNCHANGED <<chain, file, connected, signed, net>>
  BY <1>1, <1>2 DEF SendPiece
<1>4. ASSUME NEW q \in Replicators
      PROVE  /\ channel'[q].known = channel[q].known /\ channel'[q].receipt = channel[q].receipt
             /\ channel'[q].accepted = channel[q].accepted
             /\ channel'[q].refused = channel[q].refused
             /\ channel'[q].prepaid >= channel[q].prepaid
  <2>1. channel[q].prepaid \in Nat
    BY <1>1, ChannelFields
  <2>2. CASE q = r
    <3>1. channel'[q] = d /\ channel[q] \in Channel
      BY <1>1, <1>3, <2>2
    <3> QED BY <1>2, <2>1, <2>2, <3>1 DEF Channel
  <2>3. CASE q # r
    <3>1. channel'[q] = channel[q]
      BY <1>1, <1>3, <2>3
    <3> QED BY <2>1, <3>1
  <2> QED BY <2>2, <2>3
<1>5. SameBooks
  BY <1>1, <1>3, <1>4 DEF SameBooks
<1> QED BY <1>5, SameBooksAgreed

LEMMA AgreedIncreaseChannelSize ==
    ASSUME Accounts, Accounts', Agreed, NEW r \in Replicators, IncreaseChannelSize(r)
    PROVE  Agreed'
<1>1. channel \in [Replicators -> Channel] /\ chain.prepaid \in Nat
  BY DEF Accounts, TypeOK
<1>2. PICK n : n = IF channel[r].known THEN channel[r].prepaid + 1 ELSE channel[r].prepaid
  OBVIOUS
<1>3. PICK d : d = [channel[r] EXCEPT !.prepaid = n]
  OBVIOUS
<1>4. /\ channel' = [channel EXCEPT ![r] = d]
      /\ UNCHANGED <<chain, file, connected, signed, net>>
  BY <1>1, <1>2, <1>3 DEF IncreaseChannelSize
<1>5. ASSUME NEW q \in Replicators
      PROVE  /\ channel'[q].known = channel[q].known /\ channel'[q].receipt = channel[q].receipt
             /\ channel'[q].accepted = channel[q].accepted
             /\ channel'[q].refused = channel[q].refused
             /\ channel'[q].prepaid >= channel[q].prepaid
  <2>1. channel[q].prepaid \in Nat
    BY <1>1, ChannelFields
  <2>2. CASE q = r
    <3>1. channel'[q] = d /\ channel[q] \in Channel
      BY <1>1, <1>4, <2>2
    <3> QED BY <1>2, <1>3, <2>1, <2>2, <3>1 DEF Channel
  <2>3. CASE q # r
    <3>1. channel'[q] = channel[q]
      BY <1>1, <1>4, <2>3
    <3> QED BY <2>1, <3>1
  <2> QED BY <2>2, <2>3
<1>6. SameBooks
  BY <1>1, <1>4, <1>5 DEF SameBooks
<1> QED BY <1>6, SameBooksAgreed

LEMMA AgreedChain ==
    ASSUME Accounts, Accounts', Agreed, ChainIncrease \/ ChainClose
    PROVE  Agreed'
<1>1. \A r \in Replicators : channel[r].prepaid \in Nat
  BY ChannelFields DEF Accounts, TypeOK
<1>2. chain \in [first : Prepaid, prepaid : Nat, closed : BOOLEAN, events : 0..MaxEvents,
                 restarted : BOOLEAN]
  BY DEF Accounts, TypeOK
<1>3. UNCHANGED <<channel, file, connected, signed, net>>
  BY DEF ChainIncrease, ChainClose
<1>4. /\ chain'.first = chain.first /\ chain'.prepaid >= chain.prepaid
      /\ chain'.restarted = chain.restarted /\ (chain.closed => chain'.closed)
  <2>1. chain.prepaid \in Nat
    BY <1>2
  <2>2. CASE ChainIncrease
    <3>1. chain' = [chain EXCEPT !.events = @ + 1, !.prepaid = @ + 1]
      BY <2>2 DEF ChainIncrease
    <3>2. /\ chain'.first = chain.first /\ chain'.prepaid = chain.prepaid + 1
          /\ chain'.restarted = chain.restarted /\ chain'.closed = chain.closed
      BY <1>2, <3>1
    <3> QED BY <2>1, <3>2
  <2>3. CASE ChainClose
    <3>1. chain' = [chain EXCEPT !.events = @ + 1, !.closed = TRUE]
      BY <2>3 DEF ChainClose
    <3>2. /\ chain'.first = chain.first /\ chain'.prepaid = chain.prepaid
          /\ chain'.restarted = chain.restarted /\ chain'.closed
      BY <1>2, <3>1
    <3> QED BY <2>1, <3>2
  <2> QED BY <2>2, <2>3
<1>5. SameBooks
  BY <1>1, <1>3, <1>4 DEF SameBooks
<1> QED BY <1>5, SameBooksAgreed

LEMMA AgreedOthers ==
    ASSUME Accounts, Accounts', Agreed, NEW r \in Replicators,
           \/ \E c \in Clients : AcceptClientConnection(c, r)
           \/ SyncTimeout(r)
           \/ Start(r)
    PROVE  Agreed'
<1>1. UNCHANGED <<chain, channel, file, signed, net>>
  BY DEF AcceptClientConnection, SyncTimeout, Start
<1>2. ASSUME NEW c \in Clients, AcceptClientConnection(c, r), NEW x \in connected'
      PROVE  x \in connected \/ channel[x[2]].known
  <2>1. channel[r].known /\ connected' = connected \cup {<<c, r>>}
    BY <1>2 DEF AcceptClientConnection
  <2> QED BY <1>2, <2>1
<1>3. \A x \in connected' : x \in connected \/ channel[x[2]].known
  <2>1. SyncTimeout(r) \/ Start(r) => connected' = connected
    BY DEF SyncTimeout, Start
  <2> QED BY <1>2, <2>1
<1> QED BY <1>1, <1>3, SameStateAgreed

LEMMA NextAgreed ==
    Accounts /\ Accounts' /\ Agreed /\ [Next]_vars => Agreed'
<1> SUFFICES ASSUME Accounts, Accounts', Agreed, [Next]_vars PROVE Agreed'
  OBVIOUS
<1>1. ASSUME NEW c \in Clients, NEW r \in Replicators, SendPiece(c, r) PROVE Agreed'
  BY <1>1, AgreedSendPiece
<1>2. ASSUME NEW c \in Clients, NEW r \in Replicators, NEW size \in 1..MaxSize,
             AcceptReceipt(c, r, size)
      PROVE  Agreed'
  BY <1>2, AgreedAcceptReceipt
<1>3. ASSUME NEW m \in net, OnRcpt(m) PROVE Agreed'
  BY <1>3, AgreedOnRcpt
<1>4. ASSUME NEW r \in Replicators, AddChannelInfo(r) \/ IncreaseChannelSize(r) PROVE Agreed'
  BY <1>4, AgreedAddChannelInfo, AgreedIncreaseChannelSize
<1>5. ASSUME NEW r \in Replicators, NEW s \in Replicators, OnSyncRcptReceived(r, s) PROVE Agreed'
  BY <1>5, AgreedOnSyncRcptReceived
<1>6. ASSUME NEW r \in Replicators,
             \/ \E c \in Clients : AcceptClientConnection(c, r)
             \/ SyncTimeout(r) \/ Start(r)
      PROVE  Agreed'
  BY <1>6, AgreedOthers
<1>7. ASSUME NEW r \in Replicators, RemoveChannelInfo(r) PROVE Agreed'
  <2>1. /\ channel' = [channel EXCEPT ![r] = NoChannel] /\ chain.closed
        /\ UNCHANGED <<chain, file, connected, signed, net>>
    BY <1>7 DEF RemoveChannelInfo
  <2> QED BY <2>1, AgreedWithout
<1>8. ASSUME NEW r \in Replicators, StopReplicator(r) \/ Crash(r) PROVE Agreed'
  <2>1. GoDown(r)
    BY <1>8 DEF StopReplicator, Crash
  <2>2. /\ channel' = [channel EXCEPT ![r] = NoChannel]
        /\ chain' = [chain EXCEPT !.events = @ + 1, !.restarted = TRUE]
        /\ UNCHANGED <<signed, net>>
    BY <2>1 DEF GoDown
  <2>3. chain \in [first : Prepaid, prepaid : Nat, closed : BOOLEAN, events : 0..MaxEvents,
                   restarted : BOOLEAN]
    BY DEF Accounts, TypeOK
  <2>4. chain'.restarted /\ chain'.first = chain.first /\ chain'.prepaid = chain.prepaid
    BY <2>2, <2>3
  <2>5. file' = file \/ file' = [file EXCEPT ![r] = Save(channel[r])]
    BY <1>8 DEF StopReplicator, Crash
  <2> QED BY <2>2, <2>4, <2>5, AgreedWithout
<1>9. CASE ChainIncrease \/ ChainClose
  BY <1>9, AgreedChain
<1>10. CASE UNCHANGED vars
  <2>1. UNCHANGED <<chain, channel, file, signed, net>> /\ connected' = connected
    BY <1>10 DEF vars
  <2> QED BY <2>1, SameStateAgreed
<1> QED BY <1>1, <1>2, <1>3, <1>4, <1>5, <1>6, <1>7, <1>8, <1>9, <1>10 DEF Next

\* When every receipt that was passed on has come and the channel was always
\* large enough for all that was signed, all replicators state the same sizes,
\* and these are what the clients have signed (createMyOpinion), whatever came
\* late, twice, in another order or by synchronization.
THEOREM AgreeWhenDeliveredTheorem ==
    Spec => []AgreeWhenDelivered
<1>1. Accounts /\ Agreed => AgreeWhenDelivered
  <2> SUFFICES ASSUME Accounts, Agreed, Ample,
                      \A r \in Replicators : channel[r].known,
                      \A m \in net : channel[m.to].receipt[m.cell] >= m.size,
                      NEW r \in Replicators
               PROVE  channel[r].accepted = signed
    BY DEF AgreeWhenDelivered, Ample
  <2>1. channel[r] \in Channel /\ signed \in Sizes
    BY DEF Accounts, TypeOK
  <2>2. ASSUME NEW x \in Cell PROVE channel[r].receipt[x] = signed[x]
    <3>1. PICK c \in Clients, p \in Replicators : x = <<c, p>>
      BY DEF Cell
    <3>2. /\ channel[p].receipt[x] = signed[x]
          /\ signed[x] > 0 => PassedOn(p, x, signed[x])
      BY <3>1 DEF Agreed, AllPassedOn, OwnReceipts, Ample
    <3>3. channel[r].receipt[x] <= signed[x]
      BY DEF Agreed, NothingInvented, Honest
    <3>4. channel[r].receipt[x] \in Nat /\ signed[x] \in Nat
      BY <2>1, ChannelFields, SizesAreNumbers
    <3>5. CASE r = p \/ signed[x] = 0
      BY <3>2, <3>3, <3>4, <3>5
    <3>6. CASE r # p /\ signed[x] > 0
      <4>1. PICK m : m = [to |-> r, cell |-> x, size |-> signed[x]]
        OBVIOUS
      <4>2. m \in net /\ m.to = r /\ m.cell = x /\ m.size = signed[x]
        BY <3>2, <3>6, <4>1 DEF PassedOn, Others
      <4>3. channel[r].receipt[x] >= signed[x]
        BY <4>2
      <4> QED BY <3>3, <3>4, <4>3
    <3> QED BY <3>4, <3>5, <3>6
  <2>3. channel[r].receipt = signed
    BY <2>1, <2>2, ChannelFields DEF Sizes
  <2> QED BY <2>3 DEF Agreed, AllNeat, Neat
<1> QED BY <1>1, AccountsHold, InitAgreed, NextAgreed, PTL DEF Spec

------------------------------------------------------------------------------
(* What was really sent. *)

\* What a client may get of a replicator before it must sign for more.
Ration(r, c) == signed[<<c, r>>] + ReceiptLimit + 1

\* What the replicator still counts, or, when the channel is closed and gone,
\* all it may have sent since its last loss.
Counted(r, c) ==
    IF channel[r].known THEN channel[r].sent[c]
    ELSE IF chain.closed THEN Ration(r, c)
    ELSE IF file[r].known THEN file[r].sent[c] ELSE 0

Rationed ==
    \A r \in Replicators, c \in Clients :
        traffic[r].sent[c] <= traffic[r].losses * Ration(r, c) + Counted(r, c)

LEMMA ProductGrows ==
    ASSUME NEW n \in Nat, NEW a \in Nat, NEW b \in Nat, a <= b
    PROVE  n * a <= n * b
<1>1. PICK d \in Nat : b = a + d
  <2>1. b - a \in Nat /\ b = a + (b - a)
    OBVIOUS
  <2> QED BY <2>1
<1>2. n * b = n * a + n * d /\ n * d >= 0
  BY <1>1
<1>3. n * a \in Int /\ n * d \in Int /\ n * b \in Int
  OBVIOUS
<1> QED BY <1>2, <1>3

LEMMA ProductNext ==
    ASSUME NEW n \in Nat, NEW a \in Nat
    PROVE  (n + 1) * a = n * a + a /\ n * a \in Nat
OBVIOUS

\* What is counted is within a ration.
LEMMA CountedRange ==
    ASSUME Accounts, Agreed, NEW r \in Replicators, NEW c \in Clients
    PROVE  /\ Ration(r, c) \in Nat /\ Counted(r, c) \in Nat /\ Counted(r, c) <= Ration(r, c)
           /\ channel[r].sent[c] \in Nat /\ channel[r].sent[c] <= Ration(r, c)
           /\ traffic[r].sent[c] \in Nat /\ traffic[r].losses \in Nat
<1>1. PICK x \in Cell : x = <<c, r>>
  BY DEF Cell
<1>2. /\ channel[r] \in Channel /\ file[r] \in Saved /\ signed \in Sizes
      /\ traffic[r] \in [sent : [Clients -> Nat], losses : Nat]
  BY DEF Accounts, TypeOK
<1>3. signed[x] \in Nat /\ ReceiptLimit \in Nat
  BY <1>2, SizesAreNumbers, DownloadChannelAssumption
<1>4. /\ channel[r].sent[c] \in Nat /\ channel[r].accepted[x] \in Nat
      /\ file[r].sent[c] \in Nat /\ file[r].accepted[x] \in Nat
  BY <1>2, ChannelFields, SizesAreNumbers, DownloadChannelAssumption DEF Saved
<1>5. /\ channel[r].sent[c] <= channel[r].accepted[x] + ReceiptLimit + 1
      /\ file[r].sent[c] <= file[r].accepted[x] + ReceiptLimit + 1
  BY <1>1 DEF Accounts, Covered, CoveredBy
<1>6. channel[r].accepted[x] <= signed[x] /\ file[r].accepted[x] <= signed[x]
  BY DEF Agreed, NothingInvented, Honest, SignedFor
<1>7. /\ channel[r].sent[c] <= signed[x] + ReceiptLimit + 1
      /\ file[r].sent[c] <= signed[x] + ReceiptLimit + 1
  BY <1>3, <1>4, <1>5, <1>6
<1>8. Ration(r, c) = signed[x] + ReceiptLimit + 1 /\ Ration(r, c) \in Nat
  BY <1>1, <1>3 DEF Ration
<1>9. \/ Counted(r, c) = channel[r].sent[c] \/ Counted(r, c) = Ration(r, c)
      \/ Counted(r, c) = file[r].sent[c] \/ Counted(r, c) = 0
  BY DEF Counted
<1> QED BY <1>2, <1>4, <1>7, <1>8, <1>9

LEMMA NextRange ==
    ASSUME Accounts', NEW r \in Replicators, NEW c \in Clients
    PROVE  Ration(r, c)' \in Nat /\ Counted(r, c)' \in Nat
<1>1. PICK x \in Cell : x = <<c, r>>
  BY DEF Cell
<1>2. channel'[r] \in Channel /\ file'[r] \in Saved /\ signed' \in Sizes
  BY DEF Accounts, TypeOK
<1>3. signed'[x] \in Nat /\ ReceiptLimit \in Nat
  BY <1>2, SizesAreNumbers, DownloadChannelAssumption
<1>4. channel'[r].sent[c] \in Nat /\ file'[r].sent[c] \in Nat
  BY <1>2, ChannelFields, DownloadChannelAssumption DEF Saved
<1>5. Ration(r, c)' \in Nat
  BY <1>1, <1>3 DEF Ration
<1> QED BY <1>4, <1>5 DEF Counted

\* One replicator and one client: nothing is sent, and as much is counted.
RationKept(r, c) ==
    /\ traffic'[r].sent[c] = traffic[r].sent[c] /\ traffic'[r].losses = traffic[r].losses
    /\ Ration(r, c)' >= Ration(r, c) /\ Counted(r, c)' >= Counted(r, c)

LEMMA KeptIsRationed ==
    ASSUME Accounts, Agreed, Accounts', Agreed', Rationed, NEW r \in Replicators, NEW c \in Clients,
           RationKept(r, c)
    PROVE  traffic'[r].sent[c] <= traffic'[r].losses * Ration(r, c)' + Counted(r, c)'
<1>1. PICK n, t, a, k : n = traffic[r].losses /\ t = traffic[r].sent[c]
                        /\ a = Ration(r, c) /\ k = Counted(r, c)
  OBVIOUS
<1>2. PICK b, l : b = Ration(r, c)' /\ l = Counted(r, c)'
  OBVIOUS
<1>3. n \in Nat /\ t \in Nat /\ a \in Nat /\ k \in Nat
  BY <1>1, CountedRange
<1>4. b \in Nat /\ l \in Nat
  <2>1. Ration(r, c)' \in Nat /\ Counted(r, c)' \in Nat
    BY NextRange
  <2> QED BY <1>2, <2>1
<1>5. t <= n * a + k
  BY <1>1 DEF Rationed
<1>6. b >= a /\ l >= k /\ traffic'[r].losses = n /\ traffic'[r].sent[c] = t
  BY <1>1, <1>2 DEF RationKept
<1>7. n * a <= n * b
  BY <1>3, <1>4, <1>6, ProductGrows
<1>8. PICK p, q : p = n * a /\ q = n * b
  OBVIOUS
<1>9. p \in Nat /\ q \in Nat
  BY <1>3, <1>4, <1>8, ProductNext
<1>10. t <= q + l
  BY <1>3, <1>4, <1>5, <1>6, <1>7, <1>8, <1>9
<1> QED BY <1>2, <1>6, <1>8, <1>10

\* The count is lost.
LEMMA LostIsRationed ==
    ASSUME Accounts, Agreed, Accounts', Rationed, NEW r \in Replicators, NEW c \in Clients,
           traffic'[r].sent[c] = traffic[r].sent[c],
           traffic'[r].losses = traffic[r].losses + 1, signed' = signed
    PROVE  traffic'[r].sent[c] <= traffic'[r].losses * Ration(r, c)' + Counted(r, c)'
<1>1. PICK n, t, a, k, l : /\ n = traffic[r].losses /\ t = traffic[r].sent[c]
                           /\ a = Ration(r, c) /\ k = Counted(r, c) /\ l = Counted(r, c)'
  OBVIOUS
<1>2. n \in Nat /\ t \in Nat /\ a \in Nat /\ k \in Nat /\ k <= a /\ l \in Nat
  BY <1>1, CountedRange, NextRange
<1>3. t <= n * a + k
  BY <1>1 DEF Rationed
<1>4. (n + 1) * a = n * a + a /\ n * a \in Nat
  BY <1>2, ProductNext
<1>5. PICK p, q : p = n * a /\ q = (n + 1) * a
  OBVIOUS
<1>6. t <= q + l
  BY <1>2, <1>3, <1>4, <1>5
<1>7. Ration(r, c)' = a
  BY <1>1 DEF Ration
<1> QED BY <1>1, <1>5, <1>6, <1>7

\* Channels, files and the chain keep what is counted.
SameCount ==
    /\ traffic' = traffic /\ file' = file
    /\ chain'.closed = chain.closed
    /\ \A q \in Replicators :
          channel'[q].known = channel[q].known /\ channel'[q].sent = channel[q].sent
    /\ signed' \in Sizes /\ \A x \in Cell : signed'[x] >= signed[x]

LEMMA SameCountKept ==
    ASSUME Accounts, SameCount, NEW r \in Replicators, NEW c \in Clients
    PROVE  RationKept(r, c)
<1>1. PICK x \in Cell : x = <<c, r>>
  BY DEF Cell
<1>2. /\ channel[r] \in Channel /\ file[r] \in Saved /\ signed \in Sizes
      /\ signed[x] \in Nat /\ signed'[x] \in Nat /\ ReceiptLimit \in Nat
      /\ signed'[x] >= signed[x]
  BY SizesAreNumbers, DownloadChannelAssumption DEF Accounts, TypeOK, SameCount
<1>3. Ration(r, c)' >= Ration(r, c) /\ Ration(r, c) \in Nat
  BY <1>1, <1>2 DEF Ration
<1>4. channel[r].sent[c] \in Nat /\ file[r].sent[c] \in Nat
  BY <1>2, ChannelFields, DownloadChannelAssumption DEF Saved
<1>5. CASE channel[r].known
  BY <1>3, <1>4, <1>5 DEF SameCount, RationKept, Counted
<1>6. CASE ~channel[r].known /\ chain.closed
  BY <1>3, <1>6 DEF SameCount, RationKept, Counted
<1>7. CASE ~channel[r].known /\ ~chain.closed
  BY <1>3, <1>4, <1>7 DEF SameCount, RationKept, Counted
<1> QED BY <1>5, <1>6, <1>7

\* Receipts that are processed do not change what is counted.
LEMMA UpdateSameCount ==
    ASSUME Accounts, NEW r \in Replicators, NEW d, Grown(channel[r], d), Update(r, d),
           traffic' = traffic, file' = file, chain' = chain,
           signed' \in Sizes, \A x \in Cell : signed'[x] >= signed[x]
    PROVE  SameCount
<1>1. channel \in [Replicators -> Channel] /\ channel' = [channel EXCEPT ![r] = d]
  BY DEF Accounts, TypeOK, Update
<1>2. d.known = channel[r].known /\ d.sent = channel[r].sent
  BY DEF Grown
<1> QED BY <1>1, <1>2 DEF SameCount

LEMMA SameCountOfReceipt ==
    ASSUME Accounts, NEW c \in Clients, NEW r \in Replicators, NEW size \in 1..MaxSize,
           AcceptReceipt(c, r, size)
    PROVE  SameCount
<1>1. PICK x \in Cell : x = <<c, r>>
  BY DEF Cell
<1>2. channel[r] \in Channel /\ signed \in Sizes
  BY DEF Accounts, TypeOK
<1>3. /\ signed' = [signed EXCEPT ![x] = size] /\ signed[x] < size
      /\ UNCHANGED <<chain, file, traffic>>
  BY <1>1 DEF AcceptReceipt
<1>4. signed' \in Sizes
  BY <1>2, <1>3, DownloadChannelAssumption DEF Sizes
<1>5. ASSUME NEW y \in Cell PROVE signed'[y] >= signed[y]
  <2>1. signed[y] \in Nat /\ size \in Nat
    BY <1>2, SizesAreNumbers, DownloadChannelAssumption
  <2>2. signed'[y] = IF y = x THEN size ELSE signed[y]
    BY <1>2, <1>3 DEF Sizes
  <2> QED BY <1>3, <2>1, <2>2
<1>6. CASE channel[r].known
  <2>1. PICK d : d = AcceptReceiptImpl(channel[r], x, size)
    OBVIOUS
  <2>2. Update(r, d)
    BY <1>1, <1>6, <2>1 DEF AcceptReceipt
  <2>3. Grown(channel[r], d)
    BY <1>2, <2>1, GrownByReceipt
  <2> QED BY <1>3, <1>4, <1>5, <2>2, <2>3, UpdateSameCount
<1>7. CASE ~channel[r].known
  <2>1. channel' = channel
    BY <1>7 DEF AcceptReceipt
  <2> QED BY <1>3, <1>4, <1>5, <2>1 DEF SameCount
<1> QED BY <1>6, <1>7

LEMMA SameSigned ==
    ASSUME Accounts, signed' = signed
    PROVE  signed' \in Sizes /\ \A x \in Cell : signed'[x] >= signed[x]
<1>1. signed \in Sizes
  BY DEF Accounts, TypeOK
<1>2. \A x \in Cell : signed[x] \in Nat
  BY <1>1, SizesAreNumbers
<1> QED BY <1>1, <1>2

LEMMA SameCountOfRcpt ==
    ASSUME Accounts, NEW m \in net, OnRcpt(m)
    PROVE  SameCount
<1>1. /\ m.to \in Replicators /\ m.cell \in Cell /\ m.size \in 1..MaxSize
      /\ channel[m.to] \in Channel
  BY DEF Accounts, TypeOK, Receipt
<1>2. PICK d : d = AcceptReceiptImpl(channel[m.to], m.cell, m.size)
  OBVIOUS
<1>3. Grown(channel[m.to], d)
  BY <1>1, <1>2, GrownByReceipt
<1>4. Update(m.to, d) /\ UNCHANGED <<chain, file, signed, traffic>>
  BY <1>2 DEF OnRcpt
<1> QED BY <1>1, <1>3, <1>4, SameSigned, UpdateSameCount

LEMMA SameCountOfSync ==
    ASSUME Accounts, NEW r \in Replicators, NEW s \in Replicators, OnSyncRcptReceived(r, s)
    PROVE  SameCount
<1>1. channel[r] \in Channel /\ channel[s] \in Channel
  BY DEF Accounts, TypeOK
<1>2. UNCHANGED <<chain, file, signed, traffic>>
  BY DEF OnSyncRcptReceived
<1>3. CASE channel[r].known
  <2>1. PICK cells, receipt : cells = CreateSyncRcpts(s) /\ receipt = channel[s].receipt
    OBVIOUS
  <2>2. PICK d : d = AcceptSyncRcpts(channel[r], cells, receipt)
    OBVIOUS
  <2>3. Update(r, d)
    BY <1>3, <2>1, <2>2 DEF OnSyncRcptReceived
  <2>4. receipt \in Sizes /\ cells \in SUBSET Cell /\ \A x \in cells : receipt[x] > 0
    BY <1>1, <2>1, ChannelFields DEF CreateSyncRcpts
  <2>5. ASSUME NEW x \in cells PROVE receipt[x] \in 1..MaxSize
    <3>1. receipt[x] \in Nat /\ receipt[x] <= MaxSize /\ receipt[x] > 0
      BY <2>4, SizesAreNumbers
    <3> QED BY <3>1, DownloadChannelAssumption
  <2>6. Grown(channel[r], d)
    BY <1>1, <2>2, <2>4, <2>5, GrownBySync
  <2> QED BY <1>2, <2>3, <2>6, SameSigned, UpdateSameCount
<1>4. CASE ~channel[r].known
  <2>1. channel' = channel
    BY <1>4 DEF OnSyncRcptReceived
  <2> QED BY <1>2, <2>1, SameSigned DEF SameCount
<1> QED BY <1>3, <1>4

LEMMA SameCountOfOthers ==
    ASSUME Accounts,
           \/ \E r \in Replicators :
                 \/ \E c \in Clients : AcceptClientConnection(c, r)
                 \/ SyncTimeout(r) \/ Start(r) \/ IncreaseChannelSize(r)
           \/ ChainIncrease
           \/ UNCHANGED vars
    PROVE  SameCount
<1>1. channel \in [Replicators -> Channel]
  BY DEF Accounts, TypeOK
<1>2. UNCHANGED <<file, signed, traffic>>
  BY DEF AcceptClientConnection, SyncTimeout, Start, IncreaseChannelSize, ChainIncrease, vars
<1>3. chain'.closed = chain.closed
  <2>1. chain \in [first : Prepaid, prepaid : Nat, closed : BOOLEAN, events : 0..MaxEvents,
                   restarted : BOOLEAN]
    BY DEF Accounts, TypeOK
  <2>2. CASE ChainIncrease
    BY <2>1, <2>2 DEF ChainIncrease
  <2>3. CASE ~ChainIncrease
    BY <2>3 DEF AcceptClientConnection, SyncTimeout, Start, IncreaseChannelSize, vars
  <2> QED BY <2>2, <2>3
<1>4. ASSUME NEW q \in Replicators
      PROVE  channel'[q].known = channel[q].known /\ channel'[q].sent = channel[q].sent
  <2>1. ASSUME NEW r \in Replicators, IncreaseChannelSize(r)
        PROVE  channel'[q].known = channel[q].known /\ channel'[q].sent = channel[q].sent
    <3>1. PICK n : n = IF channel[r].known THEN channel[r].prepaid + 1 ELSE channel[r].prepaid
      OBVIOUS
    <3>2. PICK d : d = [channel[r] EXCEPT !.prepaid = n]
      OBVIOUS
    <3>3. channel' = [channel EXCEPT ![r] = d]
      BY <1>1, <2>1, <3>1, <3>2 DEF IncreaseChannelSize
    <3>4. d.known = channel[r].known /\ d.sent = channel[r].sent
      BY <1>1, <3>2 DEF Channel
    <3> QED BY <1>1, <3>3, <3>4
  <2>2. CASE \A r \in Replicators : ~IncreaseChannelSize(r)
    <3>1. channel' = channel
      BY <2>2 DEF AcceptClientConnection, SyncTimeout, Start, ChainIncrease, vars
    <3> QED BY <3>1
  <2> QED BY <2>1, <2>2
<1> QED BY <1>2, <1>3, <1>4, SameSigned DEF SameCount

\* A channel is added, with what was saved of it.
LEMMA KeptByAdding ==
    ASSUME Accounts, Agreed, NEW r \in Replicators, NEW c \in Clients, NEW q \in Replicators,
           AddChannelInfo(q)
    PROVE  RationKept(r, c)
<1>1. channel \in [Replicators -> Channel]
  BY DEF Accounts, TypeOK
<1>2. UNCHANGED <<file, signed, traffic>>
  BY DEF AddChannelInfo
<1>3. Ration(r, c)' = Ration(r, c) /\ Ration(r, c) \in Nat /\ Counted(r, c) \in Nat
  BY <1>2, CountedRange DEF Ration
<1>4. PICK joins : joins = (q \in Joining)
  OBVIOUS
<1>5. PICK new : new = [NoChannel EXCEPT !.known = TRUE, !.prepaid = chain.prepaid,
                                         !.syncing = joins]
  OBVIOUS
<1>6. PICK d : d = IF file[q].known THEN RestoreChannel(new, file[q]) ELSE new
  OBVIOUS
<1>7. /\ channel' = [channel EXCEPT ![q] = d] /\ ~channel[q].known /\ ~chain.closed
      /\ chain' = chain
  BY <1>4, <1>5, <1>6 DEF AddChannelInfo
<1>8. new.known /\ new.sent[c] = 0
  BY <1>5 DEF NoChannel
<1>9. d.known /\ d.sent[c] = IF file[q].known THEN file[q].sent[c] ELSE 0
  <2>1. CASE file[q].known
    BY <1>5, <1>6, <2>1 DEF RestoreChannel, NoChannel
  <2>2. CASE ~file[q].known
    BY <1>6, <1>8, <2>2
  <2> QED BY <2>1, <2>2
<1>10. CASE r = q
  <2>1. channel'[r] = d
    BY <1>1, <1>7, <1>10
  <2>2. Counted(r, c)' = d.sent[c]
    BY <1>9, <2>1 DEF Counted
  <2>3. Counted(r, c) = d.sent[c]
    BY <1>7, <1>9, <1>10 DEF Counted
  <2> QED BY <1>2, <1>3, <2>2, <2>3 DEF RationKept
<1>11. CASE r # q
  <2>1. channel'[r] = channel[r]
    BY <1>1, <1>7, <1>11
  <2>2. Counted(r, c)' = Counted(r, c)
    BY <1>2, <1>3, <1>7, <2>1 DEF Counted
  <2> QED BY <1>2, <1>3, <2>2 DEF RationKept
<1> QED BY <1>10, <1>11

\* A channel is added, taken out of the map, or closed on the chain.
LEMMA KeptByChannelLife ==
    ASSUME Accounts, Agreed, NEW r \in Replicators, NEW c \in Clients,
           \/ ChainClose
           \/ \E q \in Replicators : AddChannelInfo(q) \/ RemoveChannelInfo(q)
    PROVE  RationKept(r, c)
<1>1. channel \in [Replicators -> Channel] /\ file \in [Replicators -> Saved]
  BY DEF Accounts, TypeOK
<1>2. UNCHANGED <<file, signed, traffic>>
  <2>1. ChainClose => UNCHANGED <<file, signed, traffic>>
    BY Zenon DEF ChainClose
  <2>2. ASSUME NEW q \in Replicators, AddChannelInfo(q) PROVE UNCHANGED <<file, signed, traffic>>
    BY <2>2 DEF AddChannelInfo
  <2>3. ASSUME NEW q \in Replicators, RemoveChannelInfo(q)
        PROVE  UNCHANGED <<file, signed, traffic>>
    BY <2>3 DEF RemoveChannelInfo
  <2> QED BY <2>1, <2>2, <2>3
<1>3. /\ Ration(r, c)' = Ration(r, c) /\ Ration(r, c) \in Nat /\ Counted(r, c) \in Nat
      /\ Counted(r, c) <= Ration(r, c) /\ channel[r].sent[c] \in Nat
      /\ channel[r].sent[c] <= Ration(r, c)
  BY <1>2, CountedRange DEF Ration
<1>4. CASE ChainClose
  <2>1. chain \in [first : Prepaid, prepaid : Nat, closed : BOOLEAN, events : 0..MaxEvents,
                   restarted : BOOLEAN]
    BY DEF Accounts, TypeOK
  <2>2. chain'.closed /\ channel' = channel
    BY <1>4, <2>1 DEF ChainClose
  <2>3. Counted(r, c)' >= Counted(r, c)
    BY <1>2, <1>3, <2>2 DEF Counted
  <2> QED BY <1>2, <1>3, <2>3 DEF RationKept
<1>5. ASSUME NEW q \in Replicators, RemoveChannelInfo(q) PROVE RationKept(r, c)
  <2>1. channel' = [channel EXCEPT ![q] = NoChannel] /\ chain.closed /\ chain' = chain
    BY <1>5 DEF RemoveChannelInfo
  <2>2. channel'[r] = channel[r] \/ (channel'[r] = NoChannel /\ ~channel'[r].known)
    BY <1>1, <2>1 DEF NoChannel
  <2>3. Counted(r, c)' >= Counted(r, c)
    BY <1>2, <1>3, <2>1, <2>2 DEF Counted
  <2> QED BY <1>2, <1>3, <2>3 DEF RationKept
<1>6. ASSUME NEW q \in Replicators, AddChannelInfo(q) PROVE RationKept(r, c)
  BY <1>6, KeptByAdding
<1> QED BY <1>4, <1>5, <1>6

\* A piece is sent, and counted.
LEMMA RationedSendPiece ==
    ASSUME Accounts, Agreed, Rationed, NEW e \in Clients, NEW q \in Replicators, SendPiece(e, q),
           NEW r \in Replicators, NEW c \in Clients
    PROVE  traffic'[r].sent[c] <= traffic'[r].losses * Ration(r, c)' + Counted(r, c)'
<1>1. /\ channel \in [Replicators -> Channel]
      /\ traffic \in [Replicators -> [sent : [Clients -> Nat], losses : Nat]]
  BY DEF Accounts, TypeOK
<1>2. PICK d : d = [channel[q] EXCEPT !.sent = [channel[q].sent EXCEPT ![e] = @ + 1]]
  OBVIOUS
<1>3. /\ channel' = [channel EXCEPT ![q] = d] /\ channel[q].known
      /\ UNCHANGED <<chain, file, signed>>
  BY <1>1, <1>2 DEF SendPiece, CheckDownloadLimit
<1>4. /\ traffic'[r].losses = traffic[r].losses
      /\ traffic'[r].sent[c] = IF r = q /\ c = e THEN traffic[r].sent[c] + 1
                               ELSE traffic[r].sent[c]
  BY <1>1, TrafficOfPiece
<1>5. Ration(r, c)' = Ration(r, c)
  BY <1>3 DEF Ration
<1>6. Counted(r, c)' = IF r = q /\ c = e THEN Counted(r, c) + 1 ELSE Counted(r, c)
  <2>1. CASE r = q
    <3>1. channel'[r] = d
      BY <1>1, <1>3, <2>1
    <3>2. d.known /\ d.sent = [channel[q].sent EXCEPT ![e] = @ + 1]
      BY <1>1, <1>2, <1>3 DEF Channel
    <3>3. channel[q].sent \in [Clients -> 0..MaxSize + 1]
      BY <1>1, ChannelFields
    <3>4. d.sent[c] = IF c = e THEN channel[q].sent[c] + 1 ELSE channel[q].sent[c]
      BY <3>2, <3>3
    <3>5. Counted(r, c)' = d.sent[c] /\ Counted(r, c) = channel[q].sent[c]
      BY <1>3, <2>1, <3>1, <3>2 DEF Counted
    <3> QED BY <2>1, <3>4, <3>5
  <2>2. CASE r # q
    <3>1. channel'[r] = channel[r]
      BY <1>1, <1>3, <2>2
    <3> QED BY <1>3, <2>2, <3>1 DEF Counted, Ration
  <2> QED BY <2>1, <2>2
<1>7. PICK p, k, t : /\ p = traffic[r].losses * Ration(r, c) /\ k = Counted(r, c)
                     /\ t = traffic[r].sent[c]
  OBVIOUS
<1>8. p \in Nat /\ k \in Nat /\ t \in Nat /\ t <= p + k
  <2>1. /\ Ration(r, c) \in Nat /\ traffic[r].losses \in Nat /\ Counted(r, c) \in Nat
        /\ traffic[r].sent[c] \in Nat
    BY CountedRange
  <2>2. p \in Nat
    BY <1>7, <2>1, ProductNext
  <2> QED BY <1>7, <2>1, <2>2 DEF Rationed
<1> QED BY <1>4, <1>5, <1>6, <1>7, <1>8

\* A replicator goes down.
LEMMA RationedStop ==
    ASSUME Accounts, Agreed, Accounts', Agreed', Rationed, NEW q \in Replicators,
           StopReplicator(q) \/ Crash(q), NEW r \in Replicators, NEW c \in Clients
    PROVE  traffic'[r].sent[c] <= traffic'[r].losses * Ration(r, c)' + Counted(r, c)'
<1>1. /\ channel \in [Replicators -> Channel] /\ file \in [Replicators -> Saved]
      /\ chain \in [first : Prepaid, prepaid : Nat, closed : BOOLEAN, events : 0..MaxEvents,
                    restarted : BOOLEAN]
      /\ traffic \in [Replicators -> [sent : [Clients -> Nat], losses : Nat]]
  BY DEF Accounts, TypeOK
<1>2. GoDown(q)
  BY DEF StopReplicator, Crash
<1>3. /\ channel' = [channel EXCEPT ![q] = NoChannel] /\ signed' = signed
      /\ chain' = [chain EXCEPT !.events = @ + 1, !.restarted = TRUE]
  BY <1>2 DEF GoDown
<1>4. /\ chain'.closed = chain.closed /\ channel'[q] = NoChannel /\ ~NoChannel.known
      /\ \A p \in Replicators : p # q => channel'[p] = channel[p]
  BY <1>1, <1>3 DEF NoChannel
<1>5. PICK some : /\ CountIsLost(q, some)
                  /\ \/ some = (file[q].known /\ ~channel[q].known)
                        /\ file' = [file EXCEPT ![q] = Save(channel[q])]
                     \/ some = channel[q].known /\ file' = file
  BY DEF StopReplicator, Crash
<1>6. /\ traffic'[r].sent = traffic[r].sent
      /\ traffic'[r].losses = IF r = q /\ some THEN traffic[r].losses + 1
                              ELSE traffic[r].losses
  BY <1>1, <1>5, TrafficOfLoss
<1>7. /\ Ration(r, c)' = Ration(r, c) /\ Ration(r, c) \in Nat /\ Counted(r, c) \in Nat
      /\ Counted(r, c) <= Ration(r, c)
  BY <1>3, CountedRange DEF Ration
<1>8. CASE r = q /\ some
  BY <1>3, <1>6, <1>8, LostIsRationed
<1>9. CASE r # q
  <2>1. file'[r] = file[r] /\ channel'[r] = channel[r]
    BY <1>1, <1>4, <1>5, <1>9
  <2>2. Counted(r, c)' = Counted(r, c)
    BY <1>4, <1>7, <2>1 DEF Counted
  <2>3. RationKept(r, c)
    BY <1>6, <1>7, <1>9, <2>2 DEF RationKept
  <2> QED BY <2>3, KeptIsRationed
<1>10. CASE r = q /\ ~some
  <2>1. Counted(r, c)' = IF chain.closed THEN Ration(r, c)
                         ELSE IF file'[r].known THEN file'[r].sent[c] ELSE 0
    BY <1>4, <1>7, <1>10 DEF Counted
  <2>2. ~chain.closed =>
           Counted(r, c) = IF file'[r].known THEN file'[r].sent[c] ELSE 0
    <3>1. CASE file' = [file EXCEPT ![q] = Save(channel[q])] /\ ~(file[q].known /\ ~channel[q].known)
      <4>1. file'[r] = Save(channel[r])
        BY <1>1, <1>10, <3>1
      <4>2. file'[r].known = channel[r].known /\ file'[r].sent = channel[r].sent
        BY <4>1 DEF Save
      <4> QED BY <1>10, <3>1, <4>2 DEF Counted
    <3>2. CASE file' = file /\ ~channel[q].known
      BY <1>10, <3>2 DEF Counted
    <3> QED BY <1>5, <1>10, <3>1, <3>2
  <2>3. RationKept(r, c)
    BY <1>6, <1>7, <1>10, <2>1, <2>2 DEF RationKept
  <2> QED BY <2>3, KeptIsRationed
<1> QED BY <1>8, <1>9, <1>10

LEMMA NextRationed ==
    Accounts /\ Agreed /\ Accounts' /\ Agreed' /\ Rationed /\ [Next]_vars => Rationed'
<1> SUFFICES ASSUME Accounts, Agreed, Accounts', Agreed', Rationed, [Next]_vars,
                    NEW r \in Replicators, NEW c \in Clients
             PROVE  traffic'[r].sent[c] <= traffic'[r].losses * Ration(r, c)' + Counted(r, c)'
  BY DEF Rationed
<1>1. CASE SameCount \/ RationKept(r, c)
  BY <1>1, SameCountKept, KeptIsRationed
<1>2. ASSUME NEW e \in Clients, NEW q \in Replicators, NEW size \in 1..MaxSize,
             AcceptReceipt(e, q, size)
      PROVE  SameCount
  BY <1>2, SameCountOfReceipt
<1>3. ASSUME NEW m \in net, OnRcpt(m) PROVE SameCount
  BY <1>3, SameCountOfRcpt
<1>4. ASSUME NEW q \in Replicators, NEW s \in Replicators, OnSyncRcptReceived(q, s)
      PROVE  SameCount
  BY <1>4, SameCountOfSync
<1>5. ASSUME \/ \E q \in Replicators :
                   \/ \E e \in Clients : AcceptClientConnection(e, q)
                   \/ SyncTimeout(q) \/ Start(q) \/ IncreaseChannelSize(q)
             \/ ChainIncrease
             \/ UNCHANGED vars
      PROVE  SameCount
  BY <1>5, SameCountOfOthers
<1>6. ASSUME ChainClose \/ \E q \in Replicators : AddChannelInfo(q) \/ RemoveChannelInfo(q)
      PROVE  RationKept(r, c)
  BY <1>6, KeptByChannelLife
<1>7. ASSUME NEW e \in Clients, NEW q \in Replicators, SendPiece(e, q)
      PROVE  traffic'[r].sent[c] <= traffic'[r].losses * Ration(r, c)' + Counted(r, c)'
  BY <1>7, RationedSendPiece
<1>8. ASSUME NEW q \in Replicators, StopReplicator(q) \/ Crash(q)
      PROVE  traffic'[r].sent[c] <= traffic'[r].losses * Ration(r, c)' + Counted(r, c)'
  BY <1>8, RationedStop
<1> QED BY <1>1, <1>2, <1>3, <1>4, <1>5, <1>6, <1>7, <1>8 DEF Next

LEMMA InitRationed ==
    Init => Rationed
<1> SUFFICES ASSUME Init, NEW r \in Replicators, NEW c \in Clients
             PROVE  traffic[r].sent[c] <= traffic[r].losses * Ration(r, c) + Counted(r, c)
  BY DEF Rationed
<1>1. traffic[r].sent[c] = 0 /\ traffic[r].losses = 0 /\ Counted(r, c) = 0
  BY DEF Init, Counted, NoChannel, Save
<1>2. Ration(r, c) \in Nat
  <2>1. PICK x \in Cell : x = <<c, r>>
    BY DEF Cell
  <2> QED BY <2>1, DownloadChannelAssumption DEF Init, Ration, Zero
<1> QED BY <1>1, <1>2

\* What a replicator has really sent to a client is within what the client has
\* signed for it, the limit and one piece, and every time the count is lost - by
\* a crash, or by a stop before the channel was restored - costs no more than
\* that once more (checkDownloadLimit, saveDownloadChannelMap, addChannelInfo).
THEOREM TrafficIsCoveredTheorem ==
    Spec => []TrafficIsCovered
<1>1. Accounts /\ Agreed /\ Rationed => TrafficIsCovered
  <2> SUFFICES ASSUME Accounts, Agreed, Rationed, NEW r \in Replicators, NEW c \in Clients
               PROVE  traffic[r].sent[c] <= (traffic[r].losses + 1) * Ration(r, c)
    BY Zenon DEF TrafficIsCovered, Ration
  <2>1. PICK n, t, a, k : /\ n = traffic[r].losses /\ t = traffic[r].sent[c]
                          /\ a = Ration(r, c) /\ k = Counted(r, c)
    OBVIOUS
  <2>2. n \in Nat /\ t \in Nat /\ a \in Nat /\ k \in Nat /\ k <= a
    BY <2>1, CountedRange
  <2>3. t <= n * a + k
    BY <2>1 DEF Rationed
  <2>4. (n + 1) * a = n * a + a /\ n * a \in Nat
    BY <2>2, ProductNext
  <2>5. PICK p, q : p = n * a /\ q = (n + 1) * a
    OBVIOUS
  <2>6. t <= q
    BY <2>2, <2>3, <2>4, <2>5
  <2> QED BY <2>1, <2>5, <2>6
<1> QED BY <1>1, AccountsHold, InitAgreed, NextAgreed, InitRationed, NextRationed, PTL DEF Spec

==============================================================================
