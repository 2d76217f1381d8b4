---------------------- MODULE ManualModificationsProofs ----------------------
(***************************************************************************)
(* Manual modifications, for any names and sizes, any number of calls,     *)
(* batches and modifications, and a termination at any time: the files     *)
(* that are in use stay, the size that limits a call is exact, nothing is  *)
(* left behind, and the two sandboxes and the drive, which share one       *)
(* folder, implement the abstract storage of SandboxedStorage.             *)
(***************************************************************************)
EXTENDS ManualModifications, FiniteSetTheorems, WellFoundedInduction, TLAPS

------------------------------------------------------------------------------
(* Induction.  The set of the numbers, or of the subsets, for which a        *)
(* property holds stands for the property itself.                            *)

Less == {p \in Nat \X Nat : p[1] < p[2]}

\* Induction over numbers.
LEMMA NumberInduction ==
    ASSUME NEW T \in SUBSET Nat, 0 \in T, \A n \in Nat : n \in T => n + 1 \in T
    PROVE  T = Nat
<1> SUFFICES ASSUME T # Nat PROVE FALSE
  OBVIOUS
<1>1. IsWellFoundedOn(Less, Nat)
  BY NatLessThanWellFounded, Zenon DEF OpToRel, Less
<1>2. PICK B : B = Nat \ T
  OBVIOUS
<1>3. B \subseteq Nat /\ B # {}
  BY <1>2
<1>4. PICK n \in B : \A m \in B : ~(<<m, n>> \in Less)
  BY <1>1, <1>3, WFMin, Zenon
<1>5. n \in Nat /\ n \notin T /\ n # 0
  BY <1>2, <1>4
<1>6. n - 1 \in Nat /\ n - 1 < n /\ (n - 1) + 1 = n
  BY <1>5
<1>7. <<n - 1, n>> \in Less
  BY <1>5, <1>6 DEF Less
<1>8. n - 1 \notin B
  BY <1>4, <1>7
<1> QED BY <1>2, <1>5, <1>6, <1>8

------------------------------------------------------------------------------
(* Folds over a finite set.  Step st takes the element that is chosen first, *)
(* and the result for the others.                                            *)

Choice(s) == CHOOSE x \in s : TRUE

\* Function g has the results of the fold for all subsets.
Folded(S, b, st, g) ==
    \A s \in SUBSET S :
        g[s] = IF s = {} THEN b ELSE st[<<Choice(s), g[s \ {Choice(s)}]>>]

LEMMA ChoiceRest ==
    ASSUME NEW S, NEW s \in SUBSET S, s # {}
    PROVE  Choice(s) \in s /\ Choice(s) \in S /\ s \ {Choice(s)} \in SUBSET S
<1>1. Choice(s) \in s
  BY DEF Choice
<1> QED BY <1>1

\* Induction over the subsets of a finite set, in the order of a fold.
LEMMA ChoiceInduction ==
    ASSUME NEW S, IsFiniteSet(S), NEW T \in SUBSET SUBSET S, {} \in T,
           \A s \in SUBSET S : s # {} /\ s \ {Choice(s)} \in T => s \in T
    PROVE  T = SUBSET S
<1> DEFINE N == {n \in Nat : \A s \in SUBSET S : Cardinality(s) = n => s \in T}
<1>1. \A s \in SUBSET S : IsFiniteSet(s) /\ Cardinality(s) \in Nat
  BY FS_Subset, FS_CardinalityType
<1>2. 0 \in N
  BY <1>1, FS_EmptySet
<1>3. ASSUME NEW n \in Nat, n \in N PROVE n + 1 \in N
  <2> SUFFICES ASSUME NEW s \in SUBSET S, Cardinality(s) = n + 1 PROVE s \in T
    OBVIOUS
  <2>1. s # {}
    BY FS_EmptySet
  <2>2. Choice(s) \in s /\ s \ {Choice(s)} \in SUBSET S
    BY <2>1, ChoiceRest
  <2>3. Cardinality(s \ {Choice(s)}) = Cardinality(s) - 1
    <3>1. PICK x : x = Choice(s)
      OBVIOUS
    <3>2. IsFiniteSet(s) /\ x \in s
      BY <1>1, <2>2, <3>1
    <3>3. Cardinality(s \ {x}) = Cardinality(s) - 1
      BY ONLY <3>2, FS_RemoveElement
    <3> QED BY <3>1, <3>3
  <2>4. Cardinality(s \ {Choice(s)}) = n
    BY <2>3
  <2>5. s \ {Choice(s)} \in T
    BY <1>3, <2>2, <2>4
  <2> QED BY <2>1, <2>5
<1>4. N = Nat
  <2>1. N \in SUBSET Nat
    OBVIOUS
  <2> HIDE DEF N
  <2> QED BY <1>2, <1>3, <2>1, NumberInduction
<1>5. \A s \in SUBSET S : s \in T
  BY <1>1, <1>4
<1> QED BY <1>5

\* A fold has a result.
LEMMA FoldExists ==
    ASSUME NEW S, IsFiniteSet(S), NEW B, NEW b \in B, NEW st \in [S \X B -> B]
    PROVE  \E g \in [SUBSET S -> B] : Folded(S, b, st, g)
<1> DEFINE R(g, s) == IF s = {} THEN b ELSE st[<<Choice(s), g[s \ {Choice(s)}]>>]
           N == {n \in Nat : \E g \in [SUBSET S -> B] :
                                \A s \in SUBSET S : Cardinality(s) <= n => g[s] = R(g, s)}
<1>1. \A s \in SUBSET S : IsFiniteSet(s) /\ Cardinality(s) \in Nat
  BY FS_Subset, FS_CardinalityType
<1>2. 0 \in N
  <2>1. PICK g : g = [s \in SUBSET S |-> b]
    OBVIOUS
  <2>2. g \in [SUBSET S -> B]
    BY <2>1
  <2>3. ASSUME NEW s \in SUBSET S, Cardinality(s) <= 0 PROVE g[s] = R(g, s)
    <3>1. s = {}
      BY <1>1, <2>3, FS_EmptySet
    <3> QED BY <3>1, <2>1
  <2> HIDE DEF R
  <2> QED BY <2>2, <2>3
<1>3. ASSUME NEW n \in Nat, n \in N PROVE n + 1 \in N
  <2>1. PICK g \in [SUBSET S -> B] :
           \A s \in SUBSET S : Cardinality(s) <= n => g[s] = R(g, s)
    BY <1>3
  <2>2. PICK h : h = [s \in SUBSET S |-> R(g, s)]
    OBVIOUS
  <2>3. \A s \in SUBSET S : R(g, s) \in B
    <3> SUFFICES ASSUME NEW s \in SUBSET S PROVE R(g, s) \in B
      OBVIOUS
    <3>1. CASE s = {}
      BY <3>1
    <3>2. CASE s # {}
      <4>1. Choice(s) \in S /\ s \ {Choice(s)} \in SUBSET S
        BY <3>2, ChoiceRest
      <4>2. g[s \ {Choice(s)}] \in B
        BY <4>1
      <4> QED BY <3>2, <4>1, <4>2
    <3> QED BY <3>1, <3>2
  <2>4. h \in [SUBSET S -> B]
    BY <2>2, <2>3
  <2>5. ASSUME NEW s \in SUBSET S, Cardinality(s) <= n + 1 PROVE h[s] = R(h, s)
    <3>1. h[s] = R(g, s)
      BY <2>2
    <3>2. CASE s = {}
      BY <3>1, <3>2
    <3>3. CASE s # {}
      <4>1. PICK t : t = s \ {Choice(s)}
        OBVIOUS
      <4>2. t \in SUBSET S /\ Choice(s) \in s
        BY <3>3, <4>1, ChoiceRest
      <4>3. Cardinality(t) = Cardinality(s) - 1
        BY <1>1, <4>1, <4>2, FS_RemoveElement
      <4>4. Cardinality(t) <= n
        BY <1>1, <2>5, <4>3
      <4>5. g[t] = R(g, t) /\ h[t] = R(g, t)
        BY <2>1, <2>2, <4>2, <4>4
      <4>6. g[s \ {Choice(s)}] = h[s \ {Choice(s)}]
        BY <4>1, <4>5
      <4> QED BY <3>1, <3>3, <4>6
    <3> QED BY <3>2, <3>3
  <2> HIDE DEF R
  <2> QED BY <2>4, <2>5
<1>4. N = Nat
  <2>1. N \in SUBSET Nat
    OBVIOUS
  <2> HIDE DEF N
  <2> QED BY <1>2, <1>3, <2>1, NumberInduction
<1>5. PICK n : n = Cardinality(S)
  OBVIOUS
<1>6. n \in Nat /\ \A s \in SUBSET S : Cardinality(s) <= n
  BY <1>5, FS_CardinalityType, FS_Subset
<1>7. PICK g \in [SUBSET S -> B] : \A s \in SUBSET S : Cardinality(s) <= n => g[s] = R(g, s)
  BY <1>4, <1>6
<1>8. Folded(S, b, st, g)
  BY <1>6, <1>7 DEF Folded
<1> QED BY <1>8

------------------------------------------------------------------------------
(* The size of the files of a set, one file after the other. *)

\* The size of file i of disk d, 0 if there is none.
SizeOf(d, i) == IF d[i] = Absent THEN 0 ELSE d[i]

\* Function g has the sums of the sizes of all sets of files.
Sums(d, g) ==
    /\ g \in [SUBSET Ids -> Nat]
    /\ g[{}] = 0
    /\ \A s \in SUBSET Ids : s # {} => g[s] = SizeOf(d, Choice(s)) + g[s \ {Choice(s)}]

Disks == [Ids -> -1..MaxSize]

Total(d, ids) == MapThenSumSet(LAMBDA i : d[i], {i \in ids : d[i] # Absent})

LEMMA FiniteIds == IsFiniteSet(Ids) /\ MaxSize \in Nat
<1>1. MaxSize \in Nat /\ MaxFiles \in Nat  BY ManualModificationsAssumption
<1>2. Ids = 0..(MaxSize + MaxFiles)  BY <1>1 DEF Ids, Hashes, Temporary
<1>3. IsFiniteSet(0..(MaxSize + MaxFiles))  BY <1>1, FS_Interval
<1> QED  BY <1>1, <1>2, <1>3

LEMMA SizeOfType ==
    ASSUME NEW d \in Disks, NEW i \in Ids
    PROVE  SizeOf(d, i) \in Nat /\ (d[i] # Absent => SizeOf(d, i) = d[i] /\ d[i] \in Nat)
<1>1. d[i] \in -1..MaxSize /\ MaxSize \in Nat  BY FiniteIds DEF Disks
<1> QED  BY <1>1 DEF SizeOf, Absent

LEMMA SumsExist ==
    ASSUME NEW d \in Disks
    PROVE  \E g : Sums(d, g)
<1> DEFINE st == [z \in Ids \X Nat |-> SizeOf(d, z[1]) + z[2]]
<1>1. st \in [Ids \X Nat -> Nat]
  <2>1. \A i \in Ids : SizeOf(d, i) \in Nat  BY SizeOfType
  <2> QED  BY <2>1
<1>2. PICK g \in [SUBSET Ids -> Nat] : Folded(Ids, 0, st, g)
  <2> HIDE DEF st
  <2> QED  BY <1>1, FiniteIds, FoldExists
<1>3. \A s \in SUBSET Ids : s # {} => g[s] = SizeOf(d, Choice(s)) + g[s \ {Choice(s)}]
  <2> SUFFICES ASSUME NEW s \in SUBSET Ids, s # {}
               PROVE  g[s] = SizeOf(d, Choice(s)) + g[s \ {Choice(s)}]
    OBVIOUS
  <2>1. Choice(s) \in Ids /\ s \ {Choice(s)} \in SUBSET Ids  BY ChoiceRest
  <2>2. g[s \ {Choice(s)}] \in Nat  BY <2>1
  <2>3. g[s] = st[<<Choice(s), g[s \ {Choice(s)}]>>]  BY <1>2 DEF Folded
  <2> QED  BY <2>1, <2>2, <2>3
<1>4. g[{}] = 0  BY <1>2 DEF Folded
<1> QED  BY <1>3, <1>4 DEF Sums

\* The sum is the same whichever file is taken first.
LEMMA SumsTake ==
    ASSUME NEW d \in Disks, NEW g, Sums(d, g), NEW s \in SUBSET Ids, NEW i \in s
    PROVE  g[s] = SizeOf(d, i) + g[s \ {i}]
<1> DEFINE N == {n \in Nat : \A u \in SUBSET Ids : Cardinality(u) = n =>
                     \A j \in u : g[u] = SizeOf(d, j) + g[u \ {j}]}
<1>1. \A u \in SUBSET Ids : IsFiniteSet(u) /\ Cardinality(u) \in Nat
  BY FiniteIds, FS_Subset, FS_CardinalityType
<1>2. 0 \in N  BY <1>1, FS_EmptySet
<1>3. ASSUME NEW n \in Nat, n \in N  PROVE n + 1 \in N
  <2> SUFFICES ASSUME NEW u \in SUBSET Ids, Cardinality(u) = n + 1, NEW j \in u
               PROVE  g[u] = SizeOf(d, j) + g[u \ {j}]
    OBVIOUS
  <2>1. PICK c : c = Choice(u)  OBVIOUS
  <2>2. c \in u /\ g[u] = SizeOf(d, c) + g[u \ {c}]  BY <2>1, ChoiceRest DEF Sums
  <2>3. CASE j = c  BY <2>2, <2>3
  <2>4. CASE j # c
    <3>1. PICK v : v = u \ {c}  OBVIOUS
    <3>2. PICK w : w = u \ {j}  OBVIOUS
    <3>3. PICK r : r = v \ {j}  OBVIOUS
    <3>4. v \in SUBSET Ids /\ w \in SUBSET Ids /\ r \in SUBSET Ids /\ r = w \ {c} /\ j \in v /\ c \in w
      BY <2>2, <2>4, <3>1, <3>2, <3>3
    <3>5. Cardinality(v) = n
      <4>1. IsFiniteSet(u) /\ Cardinality(v) = Cardinality(u) - 1
        BY <1>1, <2>2, <3>1, FS_RemoveElement
      <4> QED  BY <1>3, <4>1
    <3>6. Cardinality(w) = n
      <4>1. IsFiniteSet(u) /\ Cardinality(w) = Cardinality(u) - 1
        BY <1>1, <3>2, FS_RemoveElement
      <4> QED  BY <1>3, <4>1
    <3>7. g[v] = SizeOf(d, j) + g[r]  BY <1>3, <3>3, <3>4, <3>5
    <3>8. g[w] = SizeOf(d, c) + g[r]  BY <1>3, <3>4, <3>6
    <3>9. SizeOf(d, j) \in Nat /\ SizeOf(d, c) \in Nat /\ g[r] \in Nat
      BY <2>2, <3>4, SizeOfType DEF Sums
    <3>10. g[u] = SizeOf(d, c) + g[v]  BY <2>2, <3>1
    <3>11. g[u] = SizeOf(d, j) + g[w]  BY ONLY <3>7, <3>8, <3>9, <3>10
    <3> QED  BY <3>2, <3>11
  <2> QED  BY <2>3, <2>4
<1>4. N = Nat
  <2>1. N \in SUBSET Nat  OBVIOUS
  <2> HIDE DEF N
  <2> QED  BY <1>2, <1>3, <2>1, NumberInduction
<1>5. PICK n : n = Cardinality(s)  OBVIOUS
<1>6. n \in N  BY <1>1, <1>4, <1>5
<1> QED  BY <1>5, <1>6

LEMMA SumsType ==
    ASSUME NEW d, NEW g, Sums(d, g), NEW s \in SUBSET Ids
    PROVE  g[s] \in Nat /\ g[{}] = 0
BY DEF Sums

\* Files that are not there do not count.
LEMMA SumsOfPresent ==
    ASSUME NEW d \in Disks, NEW g, Sums(d, g), NEW ids \in SUBSET Ids
    PROVE  g[{i \in ids : d[i] # Absent}] = g[ids]
<1> DEFINE S == {i \in ids : d[i] # Absent}
           A == ids \ S
           T == {t \in SUBSET A : g[S \cup t] = g[S]}
<1>1. A \in SUBSET Ids /\ IsFiniteSet(A)  BY FiniteIds, FS_Subset
<1>2. T \in SUBSET SUBSET A /\ {} \in T
  <2>1. S \cup {} = S  OBVIOUS
  <2> QED  BY <2>1
<1>3. ASSUME NEW s \in SUBSET A, s # {}, s \ {Choice(s)} \in T  PROVE s \in T
  <2>1. PICK c : c = Choice(s)  OBVIOUS
  <2>2. c \in s  BY <1>3, <2>1, ChoiceRest
  <2>3. PICK u : u = S \cup s  OBVIOUS
  <2>4. u \in SUBSET Ids /\ c \in u /\ c \in Ids /\ d[c] = Absent /\ u \ {c} = S \cup (s \ {c})
    BY <2>2, <2>3
  <2>5. g[u] = SizeOf(d, c) + g[u \ {c}]  BY <2>4, SumsTake
  <2>6. SizeOf(d, c) = 0  BY <2>4 DEF SizeOf
  <2>7. g[u \ {c}] \in Nat  BY <2>4, SumsType
  <2>8. g[u \ {c}] = g[S]  BY <1>3, <2>1, <2>4
  <2>9. g[u] = g[S]  BY <2>5, <2>6, <2>7, <2>8
  <2> QED  BY <2>3, <2>9
<1>4. T = SUBSET A
  <2> HIDE DEF T, A
  <2> QED  BY <1>1, <1>2, <1>3, ChoiceInduction
<1>5. A \in T /\ S \cup A = ids  BY <1>4
<1> QED  BY <1>5

LEMMA TotalIsSum ==
    ASSUME NEW d \in Disks, NEW g, Sums(d, g), NEW ids \in SUBSET Ids
    PROVE  Total(d, ids) = g[ids]
<1> DEFINE S == {i \in ids : d[i] # Absent}
           P(h) == h = [s \in SUBSET S |->
                          IF s = {} THEN 0
                          ELSE d[CHOOSE x \in s : TRUE] + h[s \ {CHOOSE x \in s : TRUE}]]
<1>1. S \in SUBSET Ids /\ IsFiniteSet(S)  BY FiniteIds, FS_Subset
<1>2. \A s \in SUBSET S : g[s] = IF s = {} THEN 0 ELSE d[Choice(s)] + g[s \ {Choice(s)}]
  <2> SUFFICES ASSUME NEW s \in SUBSET S
               PROVE  g[s] = IF s = {} THEN 0 ELSE d[Choice(s)] + g[s \ {Choice(s)}]
    OBVIOUS
  <2>1. CASE s = {}  BY <2>1 DEF Sums
  <2>2. CASE s # {}
    <3>1. Choice(s) \in S  BY <2>2, ChoiceRest
    <3>2. SizeOf(d, Choice(s)) = d[Choice(s)]  BY <3>1, SizeOfType
    <3> QED  BY <1>1, <2>2, <3>2 DEF Sums
  <2> QED  BY <2>1, <2>2
<1>3. PICK f : f = [s \in SUBSET S |-> g[s]]  OBVIOUS
<1>4. \A s \in SUBSET S : f[s] = IF s = {} THEN 0 ELSE d[Choice(s)] + f[s \ {Choice(s)}]
  BY <1>2, <1>3, ChoiceRest
<1>5. P(f)
  <2>1. f = [s \in SUBSET S |-> f[s]]  BY <1>3
  <2> QED  BY <1>4, <2>1, Zenon DEF Choice
<1>6. PICK h : h = CHOOSE x : P(x)  OBVIOUS
<1>7. P(h)
  <2> HIDE DEF P
  <2> QED  BY <1>5, <1>6, Zenon
<1>8. Total(d, ids) = h[S]
  <2>1. Total(d, ids) = (CHOOSE x : P(x))[S]
    BY Zenon DEF Total, MapThenSumSet, MapThenFoldSet
  <2> QED  BY <1>6, <2>1, Zenon
<1>9. \A s \in SUBSET S : h[s] = IF s = {} THEN 0 ELSE d[Choice(s)] + h[s \ {Choice(s)}]
  BY <1>7, Zenon DEF Choice
<1> HIDE DEF P
<1> DEFINE T == {s \in SUBSET S : h[s] = g[s]}
<1>10. T \in SUBSET SUBSET S /\ {} \in T  BY <1>2, <1>9
<1>11. ASSUME NEW s \in SUBSET S, s # {}, s \ {Choice(s)} \in T  PROVE s \in T
  BY <1>2, <1>9, <1>11
<1>12. T = SUBSET S
  <2> HIDE DEF T, S
  <2> QED  BY <1>1, <1>10, <1>11, ChoiceInduction
<1>13. h[S] = g[S]  BY <1>12
<1>14. g[S] = g[ids]  BY SumsOfPresent
<1> QED  BY <1>8, <1>13, <1>14

LEMMA TotalType ==
    ASSUME NEW d \in Disks, NEW ids \in SUBSET Ids
    PROVE  Total(d, ids) \in Nat
<1>1. PICK g : Sums(d, g)  BY SumsExist
<1>2. Total(d, ids) = g[ids]  BY <1>1, TotalIsSum
<1> QED  BY <1>1, <1>2, SumsType

LEMMA TotalOfNone ==
    ASSUME NEW d \in Disks
    PROVE  Total(d, {}) = 0
<1>1. PICK g : Sums(d, g)  BY SumsExist
<1>2. Total(d, {}) = g[{}]  BY <1>1, TotalIsSum
<1> QED  BY <1>1, <1>2 DEF Sums

\* The sum without one file.
LEMMA TotalTake ==
    ASSUME NEW d \in Disks, NEW ids \in SUBSET Ids, NEW i \in ids
    PROVE  Total(d, ids) = SizeOf(d, i) + Total(d, ids \ {i})
<1>1. PICK g : Sums(d, g)  BY SumsExist
<1>2. Total(d, ids) = g[ids] /\ Total(d, ids \ {i}) = g[ids \ {i}]  BY <1>1, TotalIsSum
<1> QED  BY <1>1, <1>2, SumsTake

LEMMA TotalOfOne ==
    ASSUME NEW d \in Disks, NEW i \in Ids
    PROVE  Total(d, {i}) = SizeOf(d, i)
<1>1. PICK s : s = {i}  OBVIOUS
<1>2. Total(d, s) = SizeOf(d, i) + Total(d, s \ {i})  BY <1>1, TotalTake
<1>3. Total(d, s \ {i}) = 0
  <2>1. s \ {i} = {}  BY <1>1
  <2> QED  BY <2>1, TotalOfNone
<1>4. SizeOf(d, i) \in Nat  BY SizeOfType
<1> QED  BY <1>1, <1>2, <1>3, <1>4

\* The sum over two sets with no common file.
LEMMA TotalOfBoth ==
    ASSUME NEW d \in Disks, NEW X \in SUBSET Ids, NEW Y \in SUBSET Ids, X \cap Y = {}
    PROVE  Total(d, X \cup Y) = Total(d, X) + Total(d, Y)
<1> DEFINE T == {t \in SUBSET Y : Total(d, X \cup t) = Total(d, X) + Total(d, t)}
<1>1. IsFiniteSet(Y)  BY FiniteIds, FS_Subset
<1>2. T \in SUBSET SUBSET Y /\ {} \in T
  <2>1. X \cup {} = X  OBVIOUS
  <2>2. Total(d, X \cup {}) = Total(d, X) + Total(d, {})  BY <2>1, TotalOfNone, TotalType
  <2> QED  BY <2>2
<1>3. ASSUME NEW s \in SUBSET Y, s # {}, s \ {Choice(s)} \in T  PROVE s \in T
  <2>1. PICK c : c = Choice(s)  OBVIOUS
  <2>2. c \in s  BY <1>3, <2>1, ChoiceRest
  <2>3. PICK u : u = X \cup s  OBVIOUS
  <2>4. u \in SUBSET Ids /\ c \in u /\ c \in Ids /\ u \ {c} = X \cup (s \ {c}) /\ s \in SUBSET Ids
    BY <2>2, <2>3
  <2>5. Total(d, u) = SizeOf(d, c) + Total(d, u \ {c})  BY <2>4, TotalTake
  <2>6. Total(d, s) = SizeOf(d, c) + Total(d, s \ {c})  BY <2>2, <2>4, TotalTake
  <2>7. Total(d, u \ {c}) = Total(d, X) + Total(d, s \ {c})  BY <1>3, <2>1, <2>4
  <2>8. /\ SizeOf(d, c) \in Nat /\ Total(d, X) \in Nat /\ Total(d, s \ {c}) \in Nat
        /\ Total(d, s) \in Nat
    <3>1. s \ {c} \in SUBSET Ids  BY <2>4
    <3> QED  BY <2>4, <3>1, SizeOfType, TotalType
  <2>9. Total(d, u) = Total(d, X) + Total(d, s)  BY ONLY <2>5, <2>6, <2>7, <2>8
  <2> QED  BY <2>3, <2>9
<1>4. T = SUBSET Y
  <2> HIDE DEF T
  <2> QED  BY <1>1, <1>2, <1>3, ChoiceInduction
<1>5. Y \in T  BY <1>4
<1> QED  BY <1>5

\* The same files of the same sizes have the same sum.
LEMMA TotalOfSame ==
    ASSUME NEW d \in Disks, NEW e \in Disks, NEW X \in SUBSET Ids, NEW Y \in SUBSET Ids,
           {i \in X : d[i] # Absent} = {i \in Y : e[i] # Absent},
           \A i \in X : d[i] # Absent => e[i] = d[i]
    PROVE  Total(d, X) = Total(e, Y)
<1>1. PICK S : S = {i \in X : d[i] # Absent}  OBVIOUS
<1>2. PICK g : Sums(d, g)  BY SumsExist
<1>3. PICK h : Sums(e, h)  BY SumsExist
<1>4. S \in SUBSET Ids /\ IsFiniteSet(S)  BY <1>1, FiniteIds, FS_Subset
<1> DEFINE T == {s \in SUBSET S : g[s] = h[s]}
<1>5. T \in SUBSET SUBSET S /\ {} \in T  BY <1>2, <1>3 DEF Sums
<1>6. ASSUME NEW s \in SUBSET S, s # {}, s \ {Choice(s)} \in T  PROVE s \in T
  <2>1. PICK c : c = Choice(s)  OBVIOUS
  <2>2. c \in s  BY <1>6, <2>1, ChoiceRest
  <2>3. s \in SUBSET Ids /\ d[c] = e[c]  BY <1>1, <1>4, <2>2
  <2>4. g[s] = SizeOf(d, c) + g[s \ {c}] /\ h[s] = SizeOf(e, c) + h[s \ {c}]
    BY <1>2, <1>3, <2>2, <2>3, SumsTake
  <2>5. SizeOf(d, c) = SizeOf(e, c)  BY <2>3 DEF SizeOf
  <2>6. g[s \ {c}] = h[s \ {c}]  BY <1>6, <2>1
  <2> QED  BY <2>4, <2>5, <2>6
<1>7. T = SUBSET S
  <2> HIDE DEF T
  <2> QED  BY <1>4, <1>5, <1>6, ChoiceInduction
<1>8. g[S] = h[S]  BY <1>7
<1>9. g[S] = g[X] /\ h[S] = h[Y]
  <2>1. g[{i \in X : d[i] # Absent}] = g[X]  BY <1>2, SumsOfPresent
  <2>2. h[{i \in Y : e[i] # Absent}] = h[Y]  BY <1>3, SumsOfPresent
  <2> QED  BY <1>1, <2>1, <2>2, Zenon
<1>10. Total(d, X) = g[X] /\ Total(e, Y) = h[Y]  BY <1>2, <1>3, TotalIsSum
<1> QED  BY <1>8, <1>9, <1>10

\* The sum grows with the set.
LEMMA TotalMonotone ==
    ASSUME NEW d \in Disks, NEW X \in SUBSET Ids, NEW Y \in SUBSET Ids,
           {i \in X : d[i] # Absent} \subseteq Y
    PROVE  Total(d, X) <= Total(d, Y) /\ Total(d, X) \in Nat /\ Total(d, Y) \in Nat
<1>1. PICK P : P = {i \in X : d[i] # Absent}  OBVIOUS
<1>2. PICK R : R = Y \ P  OBVIOUS
<1>3. P \in SUBSET Ids /\ R \in SUBSET Ids /\ P \cap R = {} /\ Y = P \cup R
  BY <1>1, <1>2
<1>4. Total(d, Y) = Total(d, P) + Total(d, R)  BY <1>3, TotalOfBoth
<1>5. Total(d, X) = Total(d, P)
  <2>1. {i \in X : d[i] # Absent} = {i \in P : d[i] # Absent}  BY <1>1
  <2> QED  BY <1>3, <2>1, TotalOfSame
<1>6. Total(d, P) \in Nat /\ Total(d, R) \in Nat /\ Total(d, Y) \in Nat  BY <1>3, TotalType
<1> QED  BY <1>4, <1>5, <1>6

------------------------------------------------------------------------------
(* The inductive invariant, by what each part of it is about: tree lo is the *)
(* lower sandbox and up the upper one, d the disk, h the torrents, man the   *)
(* files the call has created, j the job, fi how far the end of the task is. *)

\* The temporary files of a tree, and those that there are.
Temps(tree) == Files(tree) \cap Temporary
Present(d) == {i \in Temporary : d[i] # Absent}

\* No file that can be written has two names.
OneName(tree) ==
    \A n, m \in DOMAIN tree : tree[n] = tree[m] /\ tree[n] \in Temporary => n = m

Running == finish = "running"

\* What the job on the background thread is going to create or to remove.
Writing(j) == j.op = "open" /\ j.stage = "background" /\ j.file.mode = "write"
Pending(j) == IF Writing(j) THEN {j.file.id} ELSE {}
Doomed(j) == IF j.op = "remove" /\ j.stage = "background" THEN j.files ELSE {}

\* The call is over, and its files or those it replaces are removed.
Applied(j) == j.op = "apply" /\ j.stage = "session"

\* How far the task, its query and the application of the storage are.
Stages ==
    /\ job.op = "none" => job = NoJob
    /\ job.stage = "background" \/ job.op \notin {"open", "remove", "apply"} => job.size = 0
    /\ ~Running => job.op = "none"
    /\ chain # "none" => job.op = "none" /\ upper = NoTree
    /\ chain # "none" /\ finish # "over" => hashed /\ lower # NoTree
    /\ chain = "add" => finish \in {"running", "trash"}
    /\ chain = "swap" => finish # "over"
    /\ Running => lower # NoTree
    /\ finish = "over" => /\ lower = NoTree /\ upper = NoTree /\ lowerSize = 0
                          /\ ~hashed /\ ~interrupted
    /\ upper # NoTree => ~hashed
    /\ upper = NoTree => managed = {} /\ job.op \in {"none", "hash"}
    /\ job.op = "hash" => upper = NoTree /\ (hashed <=> job.stage = "session")

\* Every file of the drive has a torrent, and while the storage is applied also
\* every file of the batch; none of these can be written any more.
Torrents(dr, h, d, lo, ch) ==
    /\ Files(dr) \ {0} \subseteq h
    /\ ch # "none" => Files(lo) \subseteq Hashes
    /\ ch = "add" => \A i \in Files(lo) \ {0} : d[i] = i
    /\ ch \in {"delete", "swap"} => Files(lo) \ {0} \subseteq h

\* A file under a hash belongs to a torrent or to the batch that has its hash.
HashFiles(dr, h, d, lo, up, ha, fi) ==
    /\ dr \in [Names -> Hashes \cup {Absent}]
    /\ \A i \in h : d[i] = i
    /\ \A i \in Hashes \ {0} : d[i] # Absent =>
          d[i] = i /\ (i \in h \/ (ha /\ fi \in {"running", "trash"} /\ i \in Files(lo)))
    /\ fi = "running" => \A i \in (Files(lo) \cap Hashes) \ {0} :
                            IF ha THEN d[i] = i ELSE i \in h
    /\ fi = "running" => (Files(up) \cap Hashes) \ {0} \subseteq h

\* A file under a temporary hash belongs to a sandbox, unless there was a careless
\* move (ca) ...
TempFiles(d, lo, up, ha, ch, fi, ca) ==
    /\ fi = "running" => /\ OneName(lo) /\ OneName(up)
                         /\ ha => Temps(lo) = {}
                         /\ up = NoTree => Temps(lo) \subseteq Present(d)
    /\ ~ca => /\ fi = "running" /\ up = NoTree => Present(d) \subseteq Temps(lo)
              /\ fi = "trash" => Present(d) \subseteq Files(lo) \cup Files(up)
              /\ fi \in {"close", "closing", "cleared", "over"} \/ ch # "none" => Present(d) = {}

\* ... to the lower one or, if this call has created it, to the upper one only.
CallFiles(d, lo, up, man, j, ca) ==
    /\ man \subseteq Temps(up) /\ man \cap Files(lo) = {}
    /\ Pending(j) \subseteq man
    /\ Doomed(j) \subseteq Temporary /\ Doomed(j) \cap (Files(lo) \cup man) = {}
    /\ Applied(j) => (IF j.ok THEN Temps(up) ELSE Temps(lo)) \subseteq Present(d)
    /\ ~Applied(j) => Temps(lo) \cup man \subseteq Present(d) \cup Pending(j)
    /\ ~ca => /\ Temps(up) \subseteq Temps(lo) \cup man
              /\ Doomed(j) \cap Files(up) = {}
              /\ Applied(j) => Present(d) \subseteq IF j.ok THEN Temps(up) ELSE Temps(lo)
              /\ ~Applied(j) => Present(d) \subseteq Temps(lo) \cup man \cup Doomed(j)

\* A file that is written was created by this call.
Opened(up, man, op, j, fi) ==
    /\ up = NoTree \/ j.op \in {"streams", "apply"} \/ fi \in {"closing", "cleared"} => op = {}
    /\ \A o \in op : o.mode = "write" => o.id \in man
    /\ j.op \in {"open", "write"} => j.file \in OpenFiles
    /\ j.op = "open" /\ j.file.mode = "write" => j.file.id \in man
    /\ j.op = "write" => j.file \in op /\ j.file.mode = "write"

\* It has the name under which it was opened.
Named(up, op, j) ==
    /\ \A o \in op : o.mode = "write" => up[o.name] = o.id
    /\ j.op = "open" /\ j.file.mode = "write" => up[j.file.name] = j.file.id

\* What was removed and is not yet taken off, and what is still to be written.
Due(j) == IF j.op = "write" /\ j.stage = "background" THEN 1 ELSE j.size

\* The size covers the files and, without careless moves, is exact.
Covers(size, total, ca) == total <= size /\ (~ca => total = size)

\* The temporary files which the size of a call is about.
Held(lo, up, j) == (Temps(lo) \cup Temps(up)) \cup Doomed(j)

LowerSize(d, lo, size, ca) == Covers(size, Total(d, Temps(lo)), ca)
UpperSize(d, lo, up, size, j, ca) == Covers(size, Total(d, Held(lo, up, j)) + Due(j), ca)

IInv ==
    /\ TypeOK /\ Stages /\ job.size \in Nat
    /\ Torrents(drive, handles, disk, lower, chain)
    /\ HashFiles(drive, handles, disk, lower, upper, hashed, finish)
    /\ TempFiles(disk, lower, upper, hashed, chain, finish, careless)
    /\ Opened(upper, managed, open, job, finish)
    /\ Running /\ upper # NoTree =>
          /\ CallFiles(disk, lower, upper, managed, job, careless)
          /\ Named(upper, open, job)
          /\ UpperSize(disk, lower, upper, upperSize, job, careless)
    /\ Running /\ ~hashed /\ ~(Applied(job) /\ job.ok) =>
          LowerSize(disk, lower, lowerSize, careless)

------------------------------------------------------------------------------
(* The identifiers, the trees and the jobs *)

LEMMA Identifiers ==
    /\ Ids = Hashes \cup Temporary /\ Hashes \cap Temporary = {} /\ 0 \in Hashes
    /\ Ids \subseteq Nat /\ Absent \notin Ids /\ Hashes = 0..MaxSize
    /\ MaxSize \in Nat /\ MaxSize # 0
<1>1. MaxSize \in Nat /\ MaxFiles \in Nat /\ MaxSize # 0  BY ManualModificationsAssumption
<1> QED  BY <1>1 DEF Ids, Hashes, Temporary, Absent

LEMMA DiskType ==
    ASSUME NEW d \in Disks, NEW i \in Ids
    PROVE  d[i] = Absent \/ d[i] \in Hashes
<1>1. d[i] \in -1..MaxSize /\ MaxSize \in Nat /\ Hashes = 0..MaxSize
  BY Identifiers DEF Disks
<1> QED  BY <1>1 DEF Absent

LEMMA TreeType ==
    ASSUME NEW tree \in Trees
    PROVE  /\ DOMAIN tree = Names /\ tree # NoTree /\ Files(tree) \subseteq Ids
           /\ \A n \in Names : tree[n] = Absent \/ tree[n] \in Files(tree)
           /\ \A i \in Files(tree) : \E n \in Names : tree[n] = i
<1>1. DOMAIN tree = Names  BY DEF Trees
<1>2. Names # {}  BY ManualModificationsAssumption
<1>3. DOMAIN NoTree = {}  BY DEF NoTree
<1>4. \A n \in Names : tree[n] \in Ids \cup {Absent}  BY DEF Trees
<1> QED  BY <1>1, <1>2, <1>3, <1>4 DEF Files

LEMMA NoFiles == Files(NoTree) = {}
BY DEF Files, NoTree

\* The tree is there.
LEMMA IsTree ==
    ASSUME NEW tree \in Trees \cup {NoTree}
    PROVE  tree # NoTree <=> tree \in Trees
BY TreeType

Operations == {"none", "open", "write", "query", "close", "remove", "streams", "apply", "hash"}

\* What is in a job.
IsJob(j, op, file, files, ok) ==
    /\ j \in Jobs
    /\ j.op = op /\ j.stage = "background" /\ j.file = file /\ j.files = files
    /\ j.size = 0 /\ j.ok = ok

LEMMA JobsMade ==
    ASSUME NEW op \in Operations, NEW file \in OpenFiles \cup {NoTree}, NEW files \in SUBSET Ids,
           NEW ok \in BOOLEAN
    PROVE  /\ IsJob(Job(op), op, NoTree, {}, TRUE)
           /\ IsJob([Job(op) EXCEPT !.file = file], op, file, {}, TRUE)
           /\ IsJob([Job(op) EXCEPT !.files = files], op, NoTree, files, TRUE)
           /\ IsJob([Job(op) EXCEPT !.ok = ok], op, NoTree, {}, ok)
<1>1. Job(op) = [op |-> op, stage |-> "background", file |-> NoTree, files |-> {},
                 size |-> 0, ok |-> TRUE]
  <2>1. NoJob = [op |-> "none", stage |-> "session", file |-> NoTree, files |-> {},
                 size |-> 0, ok |-> TRUE]
    BY DEF NoJob
  <2>2. PICK no : no = NoTree  OBVIOUS
  <2>3. Job(op) = [NoJob EXCEPT !.op = op, !.stage = "background"]  BY DEF Job
  <2> QED  BY ONLY <2>1, <2>2, <2>3
<1>2. PICK none \in SUBSET Ids : none = {}  OBVIOUS
<1>3. PICK no \in OpenFiles \cup {NoTree} : no = NoTree  OBVIOUS
<1>4. Job(op) \in Jobs
  BY ONLY <1>1, <1>2, <1>3, op \in Operations DEF Jobs, Operations
<1>5. IsJob(Job(op), op, NoTree, {}, TRUE)  BY <1>1, <1>4 DEF IsJob
<1>6. IsJob([Job(op) EXCEPT !.file = file], op, file, {}, TRUE)
  BY ONLY <1>4, <1>5, file \in OpenFiles \cup {NoTree} DEF IsJob, Jobs
<1>7. IsJob([Job(op) EXCEPT !.files = files], op, NoTree, files, TRUE)
  BY ONLY <1>4, <1>5, files \in SUBSET Ids DEF IsJob, Jobs
<1>8. IsJob([Job(op) EXCEPT !.ok = ok], op, NoTree, {}, ok)
  BY ONLY <1>4, <1>5, ok \in BOOLEAN DEF IsJob, Jobs
<1> QED  BY <1>5, <1>6, <1>7, <1>8

LEMMA NoJobFields ==
    /\ NoJob \in Jobs /\ NoJob.op = "none" /\ NoJob.stage = "session" /\ NoJob.size = 0
    /\ NoJob.files = {}
<1>1. NoJob = [op |-> "none", stage |-> "session", file |-> NoTree, files |-> {},
               size |-> 0, ok |-> TRUE]
  BY DEF NoJob
<1>2. PICK none \in SUBSET Ids : none = {}  OBVIOUS
<1>3. PICK no \in OpenFiles \cup {NoTree} : no = NoTree  OBVIOUS
<1> QED  BY ONLY <1>1, <1>2, <1>3 DEF Jobs

\* A job goes on to the session thread.
LEMMA JobGoesOn ==
    ASSUME NEW j \in Jobs, NEW ok \in BOOLEAN, NEW size \in Int
    PROVE  /\ [j EXCEPT !.stage = "session"] \in Jobs
           /\ [j EXCEPT !.stage = "session"].op = j.op
           /\ [j EXCEPT !.stage = "session"].stage = "session"
           /\ [j EXCEPT !.stage = "session"].file = j.file
           /\ [j EXCEPT !.stage = "session"].size = j.size
           /\ [j EXCEPT !.stage = "session"].ok = j.ok
           /\ [j EXCEPT !.stage = "session", !.size = size] \in Jobs
           /\ [j EXCEPT !.stage = "session", !.size = size].op = j.op
           /\ [j EXCEPT !.stage = "session", !.size = size].stage = "session"
           /\ [j EXCEPT !.stage = "session", !.size = size].size = size
           /\ [j EXCEPT !.stage = "session", !.ok = ok, !.size = size] \in Jobs
           /\ [j EXCEPT !.stage = "session", !.ok = ok, !.size = size].op = j.op
           /\ [j EXCEPT !.stage = "session", !.ok = ok, !.size = size].stage = "session"
           /\ [j EXCEPT !.stage = "session", !.ok = ok, !.size = size].file = j.file
           /\ [j EXCEPT !.stage = "session", !.ok = ok, !.size = size].size = size
           /\ [j EXCEPT !.stage = "session", !.ok = ok, !.size = size].ok = ok
BY DEF Jobs

\* The sizes on the disk.
LEMMA SizeIsTotal ==
    ASSUME NEW ids
    PROVE  SizeOnDisk(ids) = Total(disk, ids)
BY Zenon DEF SizeOnDisk, Total

\* What follows from the invariant for the identifiers.
LEMMA Basics ==
    ASSUME TypeOK
    PROVE  /\ disk \in Disks /\ handles \in SUBSET Ids /\ managed \in SUBSET Ids
           /\ Files(lower) \in SUBSET Ids /\ Files(upper) \in SUBSET Ids
           /\ Files(drive) \in SUBSET Ids /\ Temporary \in SUBSET Ids
           /\ job \in Jobs /\ job.files \in SUBSET Ids /\ job.size \in Int /\ job.ok \in BOOLEAN
           /\ job.file \in OpenFiles \cup {NoTree}
<1>1. disk \in Disks  BY DEF TypeOK, Disks
<1>2. handles \in SUBSET Ids /\ managed \in SUBSET Ids /\ Temporary \in SUBSET Ids
  BY Identifiers DEF TypeOK
<1>3. Files(lower) \in SUBSET Ids /\ Files(upper) \in SUBSET Ids /\ Files(drive) \in SUBSET Ids
  BY TreeType, NoFiles DEF TypeOK
<1>4. job \in Jobs  BY DEF TypeOK
<1>5. /\ job.files \in SUBSET Ids /\ job.size \in Int /\ job.ok \in BOOLEAN
      /\ job.file \in OpenFiles \cup {NoTree}
  BY <1>4 DEF Jobs
<1> QED  BY <1>1, <1>2, <1>3, <1>4, <1>5

LEMMA OpenFile ==
    ASSUME NEW o \in OpenFiles
    PROVE  o.name \in Names /\ o.id \in Ids /\ o.mode \in {"read", "write"}
BY DEF OpenFiles

LEMMA OpenFileMade ==
    ASSUME NEW n \in Names, NEW i \in Ids, NEW m \in {"read", "write"}
    PROVE  /\ [name |-> n, id |-> i, mode |-> m] \in OpenFiles
           /\ [name |-> n, id |-> i, mode |-> m].name = n
           /\ [name |-> n, id |-> i, mode |-> m].id = i
           /\ [name |-> n, id |-> i, mode |-> m].mode = m
BY DEF OpenFiles

------------------------------------------------------------------------------
(* The steps that leave the files alone *)

\* A job that neither creates nor removes a file.
Plain(j) == Pending(j) = {} /\ Doomed(j) = {} /\ ~Applied(j)

LEMMA PlainJob ==
    ASSUME NEW j, \/ j.op \notin {"open", "remove", "apply"}
                  \/ j.op = "open" /\ j.file.mode = "read"
                  \/ j.op # "apply" /\ j.stage = "session"
                  \/ j.op = "apply" /\ j.stage = "background"
    PROVE  Plain(j)
BY DEF Plain, Pending, Doomed, Applied, Writing

\* What a job has to do with the call.
CallJob(lo, up, op, size, d, j, ca) ==
    Named(up, op, j) /\ UpperSize(d, lo, up, size, j, ca)

LEMMA FilesAlone ==
    ASSUME IInv, TypeOK', Stages', job'.size \in Nat, Plain(job), Plain(job'),
           UNCHANGED <<drive, handles, disk, lower, upper, lowerSize, managed, hashed, chain,
                       finish, careless>>,
           Opened(upper, managed, open', job', finish),
           Running /\ upper # NoTree =>
              CallJob(lower, upper, open', upperSize', disk, job', careless)
    PROVE  IInv'
<1>1. /\ Torrents(drive, handles, disk, lower, chain)'
      /\ HashFiles(drive, handles, disk, lower, upper, hashed, finish)'
      /\ TempFiles(disk, lower, upper, hashed, chain, finish, careless)'
  BY DEF IInv
<1>2. Opened(upper, managed, open, job, finish)'  OBVIOUS
<1>3. ASSUME Running', (upper # NoTree)'
      PROVE  /\ CallFiles(disk, lower, upper, managed, job, careless)'
             /\ Named(upper, open, job)'
             /\ UpperSize(disk, lower, upper, upperSize, job, careless)'
  <2>1. Running /\ upper # NoTree  BY <1>3 DEF Running
  <2>2. CallFiles(disk, lower, upper, managed, job, careless)  BY <2>1 DEF IInv
  <2>3. CallFiles(disk, lower, upper, managed, job', careless)  BY <2>2 DEF CallFiles, Plain
  <2> QED  BY <2>1, <2>3 DEF CallJob
<1>4. ASSUME Running', ~hashed'  PROVE LowerSize(disk, lower, lowerSize, careless)'
  BY <1>4 DEF IInv, Plain, Running
<1> QED  BY <1>1, <1>2, <1>3, <1>4 DEF IInv

\* The files of a call that have a size, and their size on the disk.
CallTotal(lo, up, j) == Total(disk, Held(lo, up, j))

LEMMA HeldFiles ==
    ASSUME NEW lo, NEW up, NEW d, NEW man, NEW j, NEW ca, CallFiles(d, lo, up, man, j, ca)
    PROVE  Held(lo, up, j) \subseteq Temporary /\ Held(lo, up, j) \in SUBSET Ids
BY Identifiers DEF CallFiles, Held, Temps

\* A job that removes nothing does not change what the size is about.
LEMMA PlainTotal ==
    ASSUME NEW lo, NEW up, NEW j, NEW k, Plain(j), Plain(k)
    PROVE  Held(lo, up, j) = Held(lo, up, k) /\ CallTotal(lo, up, j) = CallTotal(lo, up, k)
BY DEF Plain, Held, CallTotal

\* A request of a call that runs.
LEMMA AtCall ==
    ASSUME IInv, InCall
    PROVE  /\ Running /\ ~interrupted /\ chain = "none" /\ job = NoJob /\ upper # NoTree
           /\ ~hashed /\ upper \in Trees /\ lower \in Trees /\ Plain(job)
           /\ CallFiles(disk, lower, upper, managed, job, careless) /\ Named(upper, open, job)
           /\ Temps(lower) \cup managed \subseteq Present(disk)
           /\ ~careless => Present(disk) \subseteq Temps(lower) \cup managed
           /\ CallTotal(lower, upper, NoJob) \in Nat
           /\ Covers(upperSize, CallTotal(lower, upper, NoJob), careless)
<1>1. /\ Running /\ ~interrupted /\ chain = "none" /\ job = NoJob /\ upper # NoTree
      /\ ~hashed /\ lower # NoTree
  BY DEF InCall, Accepts, IInv, Stages, Running
<1>2. upper \in Trees /\ lower \in Trees  BY <1>1 DEF IInv, TypeOK
<1>3. Plain(job)  BY <1>1, NoJobFields, PlainJob
<1>4. /\ CallFiles(disk, lower, upper, managed, job, careless) /\ Named(upper, open, job)
      /\ UpperSize(disk, lower, upper, upperSize, job, careless)
  BY <1>1 DEF IInv
<1>5. /\ Temps(lower) \cup managed \subseteq Present(disk)
      /\ ~careless => Present(disk) \subseteq Temps(lower) \cup managed
  BY <1>3, <1>4 DEF CallFiles, Plain
<1>6. Due(job) = 0  BY <1>1, NoJobFields DEF Due
<1>7. CallTotal(lower, upper, NoJob) \in Nat
  <2>1. Held(lower, upper, job) \in SUBSET Ids  BY <1>4, HeldFiles
  <2> QED  BY <1>1, <2>1, Basics, TotalType DEF IInv, CallTotal
<1>8. Covers(upperSize, CallTotal(lower, upper, NoJob), careless)
  BY <1>1, <1>4, <1>6, <1>7 DEF UpperSize, CallTotal
<1> QED  BY <1>1, <1>2, <1>3, <1>4, <1>5, <1>7, <1>8

LEMMA FolderIteratorStep ==
    ASSUME IInv, FolderIteratorCreate \/ FolderIteratorDestroy
    PROVE  IInv'
<1>1. /\ InCall /\ iterating' \in BOOLEAN
      /\ UNCHANGED <<drive, handles, disk, lower, upper, lowerSize, upperSize, managed,
                     open, job, hashed, chain, interrupted, finish, tasks, careless>>
  BY DEF FolderIteratorCreate, FolderIteratorDestroy
<1>2. TypeOK'  BY <1>1 DEF IInv, TypeOK
<1> QED  BY <1>1, <1>2 DEF IInv, Stages, Running

\* A request that starts a job which uses no file, or reads one.
LEMMA PlainRequest ==
    ASSUME IInv, InCall, NEW op, NEW file, NEW ok \in BOOLEAN,
           IsJob(job', op, file, {}, ok),
           \/ op \in {"query", "close"} /\ open' = open
           \/ op = "open" /\ file \in OpenFiles /\ file.mode = "read" /\ open' = open
           \/ op = "streams" /\ open' = {},
           UNCHANGED <<drive, handles, disk, lower, upper, lowerSize, upperSize, managed,
                       iterating, hashed, chain, interrupted, finish, tasks, careless>>
    PROVE  IInv'
<1>1. /\ job' \in Jobs /\ job'.op = op /\ job'.stage = "background" /\ job'.size = 0
      /\ job'.file = file
  BY DEF IsJob
<1>2. /\ Running /\ ~interrupted /\ chain = "none" /\ job = NoJob /\ upper # NoTree
      /\ ~hashed /\ Plain(job) /\ Named(upper, open, job)
      /\ CallTotal(lower, upper, NoJob) \in Nat
      /\ Covers(upperSize, CallTotal(lower, upper, NoJob), careless)
  BY AtCall
<1>3. Plain(job')  BY <1>1, PlainJob
<1>4. PICK none \in SUBSET OpenFiles : none = {}  OBVIOUS
<1>5. open' \subseteq OpenFiles /\ open' \subseteq open  BY <1>4 DEF IInv, TypeOK
<1>6. TypeOK'  BY <1>1, <1>5 DEF IInv, TypeOK
<1>7. Stages'  BY <1>1, <1>2 DEF IInv, Stages, Running
<1>8. Opened(upper, managed, open', job', finish)
  BY <1>1, <1>2, <1>5, NoJobFields DEF IInv, Opened, Running
<1>9. Named(upper, open', job')  BY <1>1, <1>2, <1>5 DEF Named
<1>10. UpperSize(disk, lower, upper, upperSize, job', careless)
  <2>1. Due(job') = 0  BY <1>1 DEF Due
  <2>2. Total(disk, Held(lower, upper, job')) = CallTotal(lower, upper, NoJob)
    BY <1>2, <1>3, PlainTotal DEF CallTotal
  <2> QED  BY <1>2, <2>1, <2>2 DEF UpperSize
<1> QED  BY <1>1, <1>2, <1>3, <1>6, <1>7, <1>8, <1>9, <1>10, FilesAlone DEF CallJob

LEMMA QueryStep ==
    ASSUME IInv, Query
    PROVE  IInv'
<1>1. PICK op \in Operations : op = "query"  BY DEF Operations
<1>2. IsJob(job', op, NoTree, {}, TRUE)  BY <1>1, JobsMade DEF Query
<1> QED  BY <1>1, <1>2, PlainRequest DEF Query

LEMMA CloseFileStep ==
    ASSUME IInv, NEW o \in open, CloseFile(o)
    PROVE  IInv'
<1>1. PICK op \in Operations : op = "close"  BY DEF Operations
<1>2. o \in OpenFiles  BY DEF IInv, TypeOK
<1>3. IsJob(job', op, o, {}, TRUE)  BY <1>1, <1>2, JobsMade DEF CloseFile
<1> QED  BY <1>1, <1>3, PlainRequest DEF CloseFile

LEMMA OpenToReadStep ==
    ASSUME IInv, NEW n \in Names, OpenToRead(n)
    PROVE  IInv'
<1>1. PICK op \in Operations : op = "open"  BY DEF Operations
<1>2. PICK file : file = [name |-> n, id |-> upper[n], mode |-> "read"]  OBVIOUS
<1>3. upper[n] \in Ids
  <2>1. upper \in Trees  BY AtCall DEF OpenToRead
  <2> QED  BY <2>1, TreeType DEF OpenToRead
<1>4. file \in OpenFiles /\ file.mode = "read"  BY <1>2, <1>3, OpenFileMade
<1>5. IsJob(job', op, file, {}, TRUE)  BY <1>1, <1>2, <1>4, JobsMade DEF OpenToRead
<1> QED  BY <1>1, <1>4, <1>5, PlainRequest DEF OpenToRead

LEMMA ApplySandboxStep ==
    ASSUME IInv, NEW success \in BOOLEAN, ApplySandboxModifications(success)
    PROVE  IInv'
<1>1. PICK op \in Operations : op = "streams"  BY DEF Operations
<1>2. IsJob(job', op, NoTree, {}, success)
  BY <1>1, JobsMade DEF ApplySandboxModifications
<1> QED  BY <1>1, <1>2, PlainRequest DEF ApplySandboxModifications

LEMMA WriteFileStep ==
    ASSUME IInv, NEW o \in open, WriteFile(o)
    PROVE  IInv'
<1>1. /\ InCall /\ job' = [Job("write") EXCEPT !.file = o] /\ o.mode = "write"
      /\ upperSize + 1 <= MaxSize /\ upperSize' = upperSize + 1
      /\ UNCHANGED <<drive, handles, disk, lower, upper, lowerSize, managed, open,
                     iterating, hashed, chain, interrupted, finish, tasks, careless>>
  BY DEF WriteFile
<1>2. PICK op \in Operations : op = "write"  BY DEF Operations
<1>3. o \in OpenFiles  BY DEF IInv, TypeOK
<1>4. IsJob(job', op, o, {}, TRUE)  BY <1>1, <1>2, <1>3, JobsMade
<1>5. /\ job' \in Jobs /\ job'.op = "write" /\ job'.stage = "background" /\ job'.size = 0
      /\ job'.file = o
  BY <1>2, <1>4 DEF IsJob
<1>6. Plain(job')  BY <1>5, PlainJob
<1>7. /\ Running /\ ~interrupted /\ chain = "none" /\ job = NoJob /\ upper # NoTree
      /\ ~hashed /\ Plain(job) /\ Named(upper, open, job)
      /\ CallTotal(lower, upper, NoJob) \in Nat
      /\ Covers(upperSize, CallTotal(lower, upper, NoJob), careless)
  BY <1>1, AtCall
<1>8. upperSize \in 0..MaxSize /\ MaxSize \in Nat  BY Identifiers DEF IInv, TypeOK
<1>9. upperSize' \in 0..MaxSize  BY <1>1, <1>8
<1>10. TypeOK'  BY <1>1, <1>5, <1>9 DEF IInv, TypeOK
<1>11. Stages'  BY <1>1, <1>5, <1>7 DEF IInv, Stages, Running
<1>12. Opened(upper, managed, open, job', finish)
  BY <1>1, <1>3, <1>5, <1>7, NoJobFields DEF IInv, Opened, Running
<1>13. Named(upper, open, job')  BY <1>5, <1>7 DEF Named
<1>14. UpperSize(disk, lower, upper, upperSize', job', careless)
  <2>1. Due(job') = 1  BY <1>5 DEF Due
  <2>2. Total(disk, Held(lower, upper, job')) = CallTotal(lower, upper, NoJob)
    BY <1>6, <1>7, PlainTotal DEF CallTotal
  <2> QED  BY <1>1, <1>7, <1>8, <2>1, <2>2 DEF UpperSize, Covers
<1> QED  BY <1>1, <1>5, <1>6, <1>7, <1>10, <1>11, <1>12, <1>13, <1>14, FilesAlone DEF CallJob

LEMMA EvaluateStorageHashStep ==
    ASSUME IInv, EvaluateStorageHash
    PROVE  IInv'
<1>1. /\ BetweenCalls /\ ~hashed /\ job' = Job("hash")
      /\ UNCHANGED <<drive, handles, disk, lower, upper, lowerSize, upperSize, managed,
                     open, iterating, hashed, chain, interrupted, finish, tasks, careless>>
  BY DEF EvaluateStorageHash
<1>2. PICK op \in Operations : op = "hash"  BY DEF Operations
<1>3. IsJob(job', op, NoTree, {}, TRUE)  BY <1>1, <1>2, JobsMade
<1>4. job' \in Jobs /\ job'.op = "hash" /\ job'.stage = "background" /\ job'.size = 0
  BY <1>2, <1>3 DEF IsJob
<1>5. Running /\ ~interrupted /\ chain = "none" /\ job = NoJob /\ upper = NoTree
  BY <1>1 DEF BetweenCalls, Accepts, IInv, Stages, Running
<1>6. Plain(job) /\ Plain(job')  BY <1>4, <1>5, NoJobFields, PlainJob
<1>7. TypeOK'  BY <1>1, <1>4 DEF IInv, TypeOK
<1>8. Stages'  BY <1>1, <1>4, <1>5 DEF IInv, Stages, Running
<1>9. Opened(upper, managed, open, job', finish)
  BY <1>4, <1>5, NoJobFields DEF IInv, Opened
<1> QED  BY <1>1, <1>4, <1>5, <1>6, <1>7, <1>8, <1>9, FilesAlone

\* The answers.
LEMMA AnswerStep ==
    ASSUME IInv, OnAnswer \/ OnFileClosed \/ OnFileOpened \/ OnRemoved
    PROVE  IInv'
<1>1. /\ job.stage = "session" /\ ~interrupted /\ job' = NoJob
      /\ job.op \in {"write", "query", "hash", "close", "open", "remove"}
      /\ UNCHANGED <<drive, handles, disk, lower, upper, lowerSize, managed, iterating,
                     hashed, chain, interrupted, finish, tasks, careless>>
      /\ upperSize' = upperSize \/ upperSize' = upperSize - job.size
      /\ job.op \in {"open", "remove"} => upperSize' = upperSize - job.size
      /\ job.op = "open" => open' = open \/ open' = open \cup {job.file}
      /\ job.op # "open" => open' \subseteq open
  BY DEF OnAnswer, OnFileClosed, OnFileOpened, OnRemoved, OnSession
<1>2. /\ TypeOK /\ Stages /\ job.op # "none" /\ job.size \in Nat
      /\ Opened(upper, managed, open, job, finish)
  BY <1>1 DEF IInv
<1>3. Running /\ chain = "none" /\ (upper = NoTree <=> job.op = "hash")
  BY <1>1, <1>2 DEF Stages
<1>4. Plain(job) /\ Plain(job') /\ job' \in Jobs  BY <1>1, NoJobFields, PlainJob
<1>5. job.op = "open" => job.file \in OpenFiles /\ (job.file.mode = "write" => job.file.id \in managed)
  BY <1>2 DEF Opened
<1>6. open' \subseteq OpenFiles
  <2>1. open \subseteq OpenFiles  BY <1>2 DEF TypeOK
  <2> QED  BY <1>1, <1>5, <2>1
<1>7. /\ upper = NoTree => upperSize' = upperSize
      /\ upper # NoTree => UpperSize(disk, lower, upper, upperSize', job', careless)
      /\ upperSize' \in 0..MaxSize
  <2>1. upperSize \in 0..MaxSize /\ MaxSize \in Nat  BY <1>2, Identifiers DEF TypeOK
  <2>2. upper = NoTree => upperSize' = upperSize  BY <1>1, <1>2, <1>3, <2>1 DEF Stages
  <2>3. PICK total : total = CallTotal(lower, upper, job)  OBVIOUS
  <2>4. ASSUME upper # NoTree
        PROVE  /\ total \in Nat /\ Covers(upperSize', total, careless)
               /\ upperSize' \in 0..MaxSize
    <3>1. /\ UpperSize(disk, lower, upper, upperSize, job, careless)
          /\ CallFiles(disk, lower, upper, managed, job, careless)
      BY <1>3, <2>4 DEF IInv
    <3>2. Due(job) = job.size  BY <1>1 DEF Due
    <3>3. total \in Nat
      <4>1. Held(lower, upper, job) \in SUBSET Ids  BY <3>1, HeldFiles
      <4> QED  BY <1>2, <2>3, <4>1, TotalType, Basics DEF CallTotal
    <3>4. upperSize' = upperSize - job.size
      <4>1. job.op \notin {"open", "remove"} => job.size = 0  BY <1>1, <1>2 DEF Stages
      <4> QED  BY <1>1, <2>1, <4>1
    <3>5. Covers(upperSize, total + job.size, careless)
      BY <2>3, <3>1, <3>2 DEF UpperSize, CallTotal
    <3> QED  BY ONLY <1>2, <2>1, <3>3, <3>4, <3>5 DEF Covers
  <2>5. Due(job') = 0  BY <1>1, NoJobFields DEF Due
  <2>6. Total(disk, Held(lower, upper, job')) = total
    BY <1>4, <2>3, PlainTotal DEF CallTotal
  <2> QED  BY <2>1, <2>2, <2>4, <2>5, <2>6 DEF UpperSize, Covers
<1>8. TypeOK'  BY <1>1, <1>2, <1>4, <1>6, <1>7 DEF TypeOK
<1>9. Stages'  BY <1>1, <1>2, <1>3, NoJobFields DEF Stages, Running
<1>10. \A o \in open' : o \in open \/ (o = job.file /\ job.op = "open")  BY <1>1
<1>11. Opened(upper, managed, open', job', finish)
  <2>1. upper = NoTree => open' = {}
    <3>1. upper = NoTree => open = {}  BY <1>2 DEF Opened
    <3> QED  BY <1>1, <1>3, <3>1
  <2>2. \A o \in open' : o.mode = "write" => o.id \in managed
    BY <1>2, <1>5, <1>10 DEF Opened
  <2> QED  BY <1>1, <1>3, <2>1, <2>2, NoJobFields DEF Opened, Running
<1>12. ASSUME upper # NoTree  PROVE Named(upper, open', job')
  <2>1. Named(upper, open, job)  BY <1>3, <1>12 DEF IInv
  <2> QED  BY <1>1, <1>10, <2>1, NoJobFields DEF Named
<1> QED
  BY <1>1, <1>4, <1>7, <1>8, <1>9, <1>11, <1>12, NoJobFields, FilesAlone DEF CallJob

LEMMA StreamsClosedStep ==
    ASSUME IInv, OnSandboxModificationStreamsClosed
    PROVE  IInv'
<1>1. /\ job.op = "streams" /\ job.stage = "session" /\ ~interrupted /\ iterating' = FALSE
      /\ job' = [Job("apply") EXCEPT !.ok = job.ok]
      /\ UNCHANGED <<drive, handles, disk, lower, upper, lowerSize, upperSize, managed,
                     open, hashed, chain, interrupted, finish, tasks, careless>>
  BY DEF OnSandboxModificationStreamsClosed, OnSession
<1>2. /\ TypeOK /\ Stages /\ job.op # "none" /\ job.ok \in BOOLEAN
      /\ Opened(upper, managed, open, job, finish)
  BY <1>1, Basics DEF IInv
<1>3. PICK op \in Operations : op = "apply"  BY DEF Operations
<1>4. IsJob(job', op, NoTree, {}, job.ok)  BY <1>1, <1>2, <1>3, JobsMade
<1>5. job' \in Jobs /\ job'.op = "apply" /\ job'.stage = "background" /\ job'.size = 0
  BY <1>3, <1>4 DEF IsJob
<1>6. Running /\ chain = "none" /\ upper # NoTree /\ job.size = 0
  BY <1>1, <1>2 DEF Stages
<1>7. Plain(job) /\ Plain(job')  BY <1>1, <1>5, PlainJob
<1>8. TypeOK'  BY <1>1, <1>2, <1>5 DEF TypeOK
<1>9. Stages'  BY <1>1, <1>2, <1>5, <1>6 DEF Stages, Running
<1>10. Opened(upper, managed, open', job', finish)  BY <1>1, <1>2, <1>5 DEF Opened
<1>11. Named(upper, open', job')
  <2>1. Named(upper, open, job)  BY <1>6 DEF IInv
  <2> QED  BY <1>1, <1>5, <2>1 DEF Named
<1>12. UpperSize(disk, lower, upper, upperSize', job', careless)
  <2>1. UpperSize(disk, lower, upper, upperSize, job, careless)  BY <1>6 DEF IInv
  <2>2. Due(job) = 0 /\ Due(job') = 0  BY <1>1, <1>5, <1>6 DEF Due
  <2>3. Held(lower, upper, job') = Held(lower, upper, job)  BY <1>7, PlainTotal
  <2> QED  BY <1>1, <2>1, <2>2, <2>3 DEF UpperSize
<1> QED  BY <1>1, <1>5, <1>6, <1>7, <1>8, <1>9, <1>10, <1>11, <1>12, FilesAlone DEF CallJob

------------------------------------------------------------------------------
(* The end of the task *)

\* The temporary files of a task that ends belong to its sandboxes.
LEMMA FilesOfTheTask ==
    ASSUME IInv, Running, job.stage = "session", ~careless
    PROVE  Present(disk) \subseteq Files(lower) \cup Files(upper)
<1>1. CASE upper = NoTree  BY <1>1 DEF IInv, TempFiles, Temps, Running
<1>2. CASE upper # NoTree
  <2>1. CallFiles(disk, lower, upper, managed, job, careless)  BY <1>2 DEF IInv
  <2>2. Pending(job) = {} /\ Doomed(job) = {}  BY DEF Pending, Doomed, Writing
  <2> QED  BY <2>1, <2>2 DEF CallFiles, Temps
<1> QED  BY <1>1, <1>2

\* A query or a request finds that the task ends.
LEMMA EndStep ==
    ASSUME IInv, Running, job.stage = "session", finish' = "trash",
           job' = NoJob, interrupted' \in BOOLEAN,
           job.op \in {"streams", "apply"} => open' = {},
           UNCHANGED <<drive, handles, disk, lower, upper, lowerSize, upperSize, managed,
                       open, iterating, hashed, chain, tasks, careless>>
    PROVE  IInv'
<1>1. ~careless => Present(disk) \subseteq Files(lower) \cup Files(upper)  BY FilesOfTheTask
<1>2. TypeOK'  BY NoJobFields DEF IInv, TypeOK
<1>3. Stages'  BY NoJobFields DEF IInv, Stages, Running
<1>4. Torrents(drive, handles, disk, lower, chain)'  BY DEF IInv
<1>5. HashFiles(drive, handles, disk, lower, upper, hashed, finish)'
  BY DEF IInv, HashFiles, Running
<1>6. TempFiles(disk, lower, upper, hashed, chain, finish, careless)'  BY <1>1 DEF IInv, TempFiles, Running
<1>7. Opened(upper, managed, open, job, finish)'
  BY NoJobFields DEF IInv, Opened, Running
<1>8. ~Running'  BY DEF Running
<1> QED  BY <1>2, <1>3, <1>4, <1>5, <1>6, <1>7, <1>8, NoJobFields DEF IInv

LEMMA InterruptedStep ==
    ASSUME IInv, Interrupted
    PROVE  IInv'
<1>1. Running  BY DEF Interrupted, IInv, Stages
<1>2. job.op \in {"streams", "apply"} => open' = {}  BY DEF Interrupted, IInv, Opened
<1>3. interrupted' \in BOOLEAN  BY DEF Interrupted, IInv, TypeOK
<1> QED  BY <1>1, <1>2, <1>3, EndStep DEF Interrupted

LEMMA TerminateStep ==
    ASSUME IInv, Terminate
    PROVE  IInv'
<1>1. /\ finish # "over" /\ interrupted' = TRUE
      /\ UNCHANGED <<drive, handles, disk, lower, upper, lowerSize, upperSize, managed,
                     open, iterating, job, hashed, chain, tasks, careless>>
      /\ finish' = IF finish = "running" /\ job.op = "none" THEN "trash" ELSE finish
  BY DEF Terminate
<1>2. CASE finish = "running" /\ job.op = "none"
  <2>1. job = NoJob /\ job.stage = "session" /\ Running
    BY <1>2, NoJobFields DEF IInv, Stages, Running
  <2> QED  BY <1>1, <1>2, <2>1, EndStep
<1>3. CASE ~(finish = "running" /\ job.op = "none")
  <2>1. UNCHANGED finish  BY <1>1, <1>3
  <2>2. TypeOK'  BY <1>1, <2>1 DEF IInv, TypeOK
  <2>3. Stages'  BY <1>1, <2>1 DEF IInv, Stages, Running
  <2> QED  BY <1>1, <2>1, <2>2, <2>3 DEF IInv, Running
<1> QED  BY <1>2, <1>3

LEMMA ApplyStorageStep ==
    ASSUME IInv, NEW success \in BOOLEAN, ApplyStorageModifications(success)
    PROVE  IInv'
<1>1. /\ BetweenCalls /\ hashed
      /\ UNCHANGED <<drive, handles, disk, lower, upper, lowerSize, upperSize, managed,
                     open, iterating, job, hashed, interrupted, tasks, careless>>
  BY DEF ApplyStorageModifications
<1>2. /\ Running /\ ~interrupted /\ chain = "none" /\ job = NoJob /\ upper = NoTree
      /\ job.stage = "session" /\ job.op = "none"
  BY <1>1, NoJobFields DEF BetweenCalls, Accepts, IInv, Stages, Running
<1>3. CASE success
  <2>1. chain' = "add" /\ UNCHANGED finish  BY <1>3 DEF ApplyStorageModifications
  <2>2. TypeOK'  BY <1>1, <2>1 DEF IInv, TypeOK
  <2>3. Stages'  BY <1>1, <1>2, <2>1 DEF IInv, Stages, Running
  <2>4. Temps(lower) = {} /\ (~careless => Present(disk) = {})
    BY <1>1, <1>2 DEF IInv, TempFiles, Running
  <2>5. Files(lower) \subseteq Hashes
    <3>1. Files(lower) \subseteq Ids  BY Basics DEF IInv
    <3> QED  BY <2>4, <3>1, Identifiers DEF Temps
  <2>6. \A i \in Files(lower) \ {0} : disk[i] = i
    BY <1>1, <1>2, <2>5 DEF IInv, HashFiles, Running
  <2>7. Torrents(drive, handles, disk, lower, chain)'
    BY <1>1, <2>1, <2>5, <2>6 DEF IInv, Torrents
  <2>8. TempFiles(disk, lower, upper, hashed, chain, finish, careless)'
    BY <1>1, <2>1, <2>4 DEF IInv, TempFiles
  <2> QED  BY <1>1, <1>2, <2>1, <2>2, <2>3, <2>7, <2>8 DEF IInv, Running
<1>4. CASE ~success
  <2>1. finish' = "trash" /\ UNCHANGED chain  BY <1>4 DEF ApplyStorageModifications
  <2>2. interrupted' \in BOOLEAN  BY <1>1 DEF IInv, TypeOK
  <2> QED  BY <1>1, <1>2, <2>1, <2>2, EndStep
<1> QED  BY <1>3, <1>4

LEMMA WithoutFiles ==
    ASSUME TypeOK, NEW ids
    PROVE  /\ Without(ids) \in Disks
           /\ \A i \in Ids : Without(ids)[i] = IF i \in ids THEN Absent ELSE disk[i]
<1>1. disk \in Disks  BY Basics
<1>2. Absent \in -1..MaxSize  BY Identifiers DEF Absent
<1> QED  BY <1>1, <1>2 DEF Without, Disks

\* A file that is not there is not present.
LEMMA PresentFiles ==
    ASSUME NEW d, NEW i
    PROVE  i \in Present(d) <=> i \in Temporary /\ d[i] # Absent
BY DEF Present

LEMMA DiskIsTyped ==
    ASSUME NEW d
    PROVE  d \in [Ids -> -1..MaxSize] <=> d \in Disks
BY DEF Disks

LEMMA ClearTrashStep ==
    ASSUME IInv, ClearTrash
    PROVE  IInv'
<1>1. /\ finish = "trash" /\ chain # "add" /\ finish' = "close"
      /\ disk' = Without((Files(lower) \cup Files(upper)) \ handles)
      /\ UNCHANGED <<drive, handles, lower, upper, lowerSize, upperSize, managed, open,
                     iterating, job, hashed, chain, interrupted, tasks, careless>>
  BY DEF ClearTrash
<1>2. TypeOK /\ handles \cap Temporary = {} /\ ~Running /\ ~Running'
  BY <1>1, Identifiers DEF IInv, TypeOK, Running
<1>3. /\ disk' \in Disks
      /\ \A i \in Ids : disk'[i] = IF i \in (Files(lower) \cup Files(upper)) \ handles
                                   THEN Absent ELSE disk[i]
  BY <1>1, <1>2, WithoutFiles
<1>4. ~careless => Present(disk') = {}
  <2> SUFFICES ASSUME ~careless PROVE Present(disk') = {}  OBVIOUS
  <2>1. Present(disk) \subseteq Files(lower) \cup Files(upper)  BY <1>1 DEF IInv, TempFiles
  <2>2. ASSUME NEW i \in Temporary, disk'[i] # Absent  PROVE FALSE
    <3>1. i \in Ids /\ i \notin handles  BY <1>2, Identifiers
    <3>2. i \notin Files(lower) \cup Files(upper) /\ disk[i] # Absent
      BY <1>3, <2>2, <3>1
    <3> QED  BY <2>1, <3>2, PresentFiles
  <2> QED  BY <2>2, PresentFiles
<1>5. TypeOK'  BY <1>1, <1>2, <1>3, DiskIsTyped DEF TypeOK
<1>6. Stages'  BY <1>1 DEF IInv, Stages, Running
<1>7. HashFiles(drive, handles, disk, lower, upper, hashed, finish)'
  <2>1. HashFiles(drive, handles, disk, lower, upper, hashed, finish)  BY DEF IInv
  <2>2. \A i \in handles : disk'[i] = i
    <3>1. \A i \in handles : i \in Ids  BY <1>2, Basics
    <3> QED  BY <1>3, <2>1, <3>1 DEF HashFiles
  <2>3. ASSUME NEW i \in Hashes \ {0}, disk'[i] # Absent  PROVE disk'[i] = i /\ i \in handles
    <3>1. i \in Ids  BY Identifiers
    <3>2. disk'[i] = disk[i] /\ (i \in handles \/ i \notin Files(lower))
      BY <1>3, <2>3, <3>1
    <3> QED  BY <2>1, <2>3, <3>2 DEF HashFiles
  <2> QED  BY <1>1, <2>1, <2>2, <2>3 DEF HashFiles
<1>8. Opened(upper, managed, open, job, finish)'  BY <1>1 DEF IInv, Opened
<1>9. Torrents(drive, handles, disk, lower, chain)'  BY <1>1 DEF IInv, Torrents
<1>10. TempFiles(disk, lower, upper, hashed, chain, finish, careless)'
  BY <1>1, <1>4 DEF TempFiles
<1> QED  BY <1>1, <1>2, <1>5, <1>6, <1>7, <1>8, <1>9, <1>10 DEF IInv

LEMMA CloseFilesStep ==
    ASSUME IInv, CloseFiles
    PROVE  IInv'
<1>1. /\ finish = "close" /\ finish' = "closing" /\ open' = {}
      /\ UNCHANGED <<drive, handles, disk, lower, upper, lowerSize, upperSize, managed,
                     iterating, job, hashed, chain, interrupted, tasks, careless>>
  BY DEF CloseFiles
<1>2. ~Running /\ ~Running'  BY <1>1 DEF Running
<1>3. TypeOK'  BY <1>1 DEF IInv, TypeOK
<1>4. Stages'  BY <1>1, <1>2 DEF IInv, Stages
<1>5. HashFiles(drive, handles, disk, lower, upper, hashed, finish)'
  BY <1>1 DEF IInv, HashFiles
<1>6. TempFiles(disk, lower, upper, hashed, chain, finish, careless)'  BY <1>1 DEF IInv, TempFiles
<1>7. Opened(upper, managed, open, job, finish)'
  <2>1. job.op = "none"  BY <1>2 DEF IInv, Stages
  <2> QED  BY <1>1, <2>1 DEF Opened
<1> QED  BY <1>1, <1>2, <1>3, <1>4, <1>5, <1>6, <1>7 DEF IInv

LEMMA ClearSandboxStep ==
    ASSUME IInv, ClearSandbox
    PROVE  IInv'
<1>1. /\ finish = "closing" /\ finish' = "cleared"
      /\ UNCHANGED <<drive, handles, disk, lower, upper, lowerSize, upperSize, managed,
                     open, iterating, job, hashed, chain, interrupted, tasks, careless>>
  BY DEF ClearSandbox
<1>2. ~Running /\ ~Running'  BY <1>1 DEF Running
<1>3. TypeOK'  BY <1>1 DEF IInv, TypeOK
<1>4. Stages'  BY <1>1, <1>2 DEF IInv, Stages
<1>5. HashFiles(drive, handles, disk, lower, upper, hashed, finish)'
  BY <1>1 DEF IInv, HashFiles
<1>6. TempFiles(disk, lower, upper, hashed, chain, finish, careless)'  BY <1>1 DEF IInv, TempFiles
<1>7. Opened(upper, managed, open, job, finish)'  BY <1>1 DEF IInv, Opened
<1> QED  BY <1>1, <1>2, <1>3, <1>4, <1>5, <1>6, <1>7 DEF IInv

LEMMA TaskIsFinishedStep ==
    ASSUME IInv, TaskIsFinished
    PROVE  IInv'
<1>1. /\ finish = "cleared" /\ chain # "swap"
      /\ finish' = "over" /\ lower' = NoTree /\ upper' = NoTree
      /\ lowerSize' = 0 /\ upperSize' = 0 /\ managed' = {}
      /\ iterating' = FALSE /\ hashed' = FALSE /\ interrupted' = FALSE
      /\ UNCHANGED <<drive, handles, disk, open, job, chain, tasks, careless>>
  BY DEF TaskIsFinished
<1>2. ~Running /\ ~Running'  BY <1>1 DEF Running
<1>3. 0 \in 0..MaxSize  BY Identifiers
<1>4. TypeOK'  BY <1>1, <1>3 DEF IInv, TypeOK
<1>5. Stages'  BY <1>1, <1>2 DEF IInv, Stages
<1>6. Torrents(drive, handles, disk, lower, chain)'
  <2>1. chain # "add"  BY <1>1 DEF IInv, Stages
  <2> QED  BY <1>1, <2>1, NoFiles DEF IInv, Torrents
<1>7. HashFiles(drive, handles, disk, lower, upper, hashed, finish)'
  BY <1>1 DEF IInv, HashFiles
<1>8. TempFiles(disk, lower, upper, hashed, chain, finish, careless)'  BY <1>1 DEF IInv, TempFiles
<1>9. Opened(upper, managed, open, job, finish)'
  <2>1. job.op = "none" /\ open = {}  BY <1>1, <1>2 DEF IInv, Stages, Opened
  <2> QED  BY <1>1, <2>1 DEF Opened
<1> QED  BY <1>1, <1>2, <1>4, <1>5, <1>6, <1>7, <1>8, <1>9 DEF IInv

LEMMA RunStep ==
    ASSUME IInv, Run
    PROVE  IInv'
<1>1. /\ finish = "over" /\ chain = "none" /\ tasks < MaxTasks /\ tasks' = tasks + 1
      /\ finish' = "running" /\ lower' = drive
      /\ UNCHANGED <<drive, handles, disk, upper, lowerSize, upperSize, managed, open,
                     iterating, job, hashed, chain, interrupted, careless>>
  BY DEF Run
<1>2. /\ upper = NoTree /\ ~hashed /\ ~interrupted /\ lowerSize = 0 /\ job.op = "none"
      /\ job = NoJob /\ managed = {}
  BY <1>1 DEF IInv, Stages, Running
<1>3. tasks' \in 0..MaxTasks
  BY <1>1, ManualModificationsAssumption DEF IInv, TypeOK
<1>4. drive \in Trees /\ drive # NoTree  BY TreeType DEF IInv, TypeOK
<1>5. TypeOK'  BY <1>1, <1>3, <1>4 DEF IInv, TypeOK
<1>6. Stages'  BY <1>1, <1>2, <1>4 DEF IInv, Stages, Running
<1>7. Torrents(drive, handles, disk, lower, chain)'  BY <1>1 DEF IInv, Torrents
<1>8. drive \in [Names -> Hashes \cup {Absent}]  BY DEF IInv, HashFiles
<1>9. Files(drive) \cap Temporary = {} /\ OneName(drive)
  <2>1. \A n \in Names : drive[n] \notin Temporary
    <3>1. Absent \notin Temporary  BY Identifiers
    <3> QED  BY <1>8, <3>1, Identifiers
  <2>2. Files(drive) \cap Temporary = {}  BY <1>4, <2>1, TreeType
  <2> QED  BY <1>4, <2>1, <2>2, TreeType DEF OneName
<1>10. Files(drive) \ {0} \subseteq handles  BY <1>1 DEF IInv, Torrents
<1>11. HashFiles(drive, handles, disk, lower, upper, hashed, finish)'
  BY <1>1, <1>2, <1>10, NoFiles DEF IInv, HashFiles
<1>12. (~careless => Present(disk) = {}) /\ Temps(lower') = {}
  BY <1>1, <1>9 DEF IInv, TempFiles, Temps
<1>13. TempFiles(disk, lower, upper, hashed, chain, finish, careless)'
  <2>1. OneName(NoTree)  BY DEF OneName, NoTree
  <2> QED  BY <1>1, <1>2, <1>9, <1>12, <2>1 DEF TempFiles
<1>14. Opened(upper, managed, open, job, finish)'
  <2>1. open = {}  BY <1>2 DEF IInv, Opened
  <2> QED  BY <1>1, <1>2, <2>1 DEF Opened
<1>15. LowerSize(disk, lower, lowerSize, careless)'
  <2>1. Total(disk, {}) = 0  BY Basics, TotalOfNone DEF IInv
  <2> QED  BY <1>1, <1>2, <1>12, <2>1 DEF LowerSize, Covers
<1> QED
  BY <1>1, <1>2, <1>5, <1>6, <1>7, <1>11, <1>13, <1>14, <1>15 DEF IInv

------------------------------------------------------------------------------
(* The end of the batch *)

\* While the storage is applied nothing is written any more.
LEMMA AtChain ==
    ASSUME IInv, chain # "none"
    PROVE  /\ upper = NoTree /\ job = NoJob /\ job.op = "none" /\ open = {} /\ managed = {}
           /\ Files(lower) \subseteq Hashes /\ Temps(lower) = {}
           /\ ~careless => Present(disk) = {}
           /\ finish # "over" => hashed /\ lower \in Trees
           /\ Running => OneName(lower)
<1>1. upper = NoTree /\ job = NoJob /\ job.op = "none" /\ managed = {}
  BY DEF IInv, Stages
<1>2. finish # "over" => hashed /\ lower \in Trees  BY DEF IInv, Stages, TypeOK
<1>3. (~careless => Present(disk) = {}) /\ (Running => OneName(lower))
  BY DEF IInv, TempFiles, Running
<1>4. Files(lower) \subseteq Hashes  BY DEF IInv, Torrents
<1>5. Temps(lower) = {}  BY <1>4, Identifiers DEF Temps
<1>6. open = {}  BY <1>1 DEF IInv, Opened
<1> QED  BY <1>1, <1>2, <1>3, <1>4, <1>5, <1>6

LEMMA AddNewTorrentsStep ==
    ASSUME IInv, AddNewTorrentsToSession
    PROVE  IInv'
<1>1. /\ chain = "add" /\ handles' = handles \cup (Files(lower) \ {0}) /\ chain' = "delete"
      /\ UNCHANGED <<drive, disk, lower, upper, lowerSize, upperSize, managed, open,
                     iterating, job, hashed, interrupted, finish, tasks, careless>>
  BY DEF AddNewTorrentsToSession
<1>2. upper = NoTree /\ Files(lower) \subseteq Hashes  BY <1>1, AtChain
<1>3. handles' \subseteq Hashes \ {0}  BY <1>1, <1>2 DEF IInv, TypeOK
<1>4. TypeOK'  BY <1>1, <1>3 DEF IInv, TypeOK
<1>5. Stages'  BY <1>1 DEF IInv, Stages, Running
<1>6. Torrents(drive, handles, disk, lower, chain)'  BY <1>1, <1>2 DEF IInv, Torrents
<1>7. HashFiles(drive, handles, disk, lower, upper, hashed, finish)'
  <2>1. HashFiles(drive, handles, disk, lower, upper, hashed, finish)  BY DEF IInv
  <2>2. \A i \in Files(lower) \ {0} : disk[i] = i  BY <1>1 DEF IInv, Torrents
  <2>3. \A i \in handles' : disk[i] = i  BY <1>1, <2>1, <2>2 DEF HashFiles
  <2> QED  BY <1>1, <2>1, <2>3 DEF HashFiles
<1>8. TempFiles(disk, lower, upper, hashed, chain, finish, careless)'
  BY <1>1 DEF IInv, TempFiles
<1> QED  BY <1>1, <1>2, <1>4, <1>5, <1>6, <1>7, <1>8 DEF IInv, Running

LEMMA TorrentsDeletedStep ==
    ASSUME IInv, OnUnusedTorrentsDeleted \/ AppliedTooLate
    PROVE  IInv'
<1>1. /\ chain = "delete"
      /\ \/ chain' = "swap" /\ finish # "over"
         \/ chain' = "none" /\ finish \in {"cleared", "over"}
      /\ UNCHANGED <<drive, handles, disk, lower, upper, lowerSize, upperSize, managed, open,
                     iterating, job, hashed, interrupted, finish, tasks, careless>>
  BY DEF OnUnusedTorrentsDeleted, AppliedTooLate
<1>2. upper = NoTree  BY <1>1, AtChain
<1>3. TypeOK'  BY <1>1 DEF IInv, TypeOK
<1>4. Stages'  BY <1>1 DEF IInv, Stages, Running
<1>5. Torrents(drive, handles, disk, lower, chain)'  BY <1>1 DEF IInv, Torrents
<1>6. TempFiles(disk, lower, upper, hashed, chain, finish, careless)'
  BY <1>1 DEF IInv, TempFiles
<1> QED  BY <1>1, <1>2, <1>3, <1>4, <1>5, <1>6 DEF IInv, Running

LEMMA AppliedStorageStep ==
    ASSUME IInv, OnAppliedStorageModifications
    PROVE  IInv'
<1>1. /\ chain = "swap" /\ drive' = lower /\ lower' = NoTree /\ chain' = "none"
      /\ finish' = (IF finish = "running" THEN "trash" ELSE finish)
      /\ UNCHANGED <<handles, disk, upper, lowerSize, upperSize, managed, open,
                     iterating, job, hashed, interrupted, tasks, careless>>
  BY DEF OnAppliedStorageModifications
<1>2. finish # "over" /\ finish' # "over" /\ ~Running'
  BY <1>1 DEF IInv, Stages, Running
<1>3. /\ upper = NoTree /\ Files(lower) \subseteq Hashes /\ lower \in Trees
      /\ ~careless => Present(disk) = {}
      /\ job.op = "none" /\ open = {}
  BY <1>1, <1>2, AtChain
<1>4. TypeOK'  BY <1>1, <1>3 DEF IInv, TypeOK
<1>5. Stages'  BY <1>1, <1>2, <1>3 DEF IInv, Stages
<1>6. Files(lower) \ {0} \subseteq handles  BY <1>1 DEF IInv, Torrents
<1>7. Torrents(drive, handles, disk, lower, chain)'  BY <1>1, <1>6 DEF Torrents
<1>8. lower \in [Names -> Hashes \cup {Absent}]
  <2>1. \A n \in Names : lower[n] \in Hashes \cup {Absent}  BY <1>3, TreeType
  <2> QED  BY <1>3, <2>1 DEF Trees
<1>9. HashFiles(drive, handles, disk, lower, upper, hashed, finish)'
  <2>1. HashFiles(drive, handles, disk, lower, upper, hashed, finish)  BY DEF IInv
  <2>2. \A i \in Hashes \ {0} : disk[i] # Absent => disk[i] = i /\ i \in handles
    BY <1>6, <2>1 DEF HashFiles
  <2> QED  BY <1>1, <1>2, <1>8, <2>1, <2>2 DEF HashFiles, Running
<1>10. TempFiles(disk, lower, upper, hashed, chain, finish, careless)'
  BY <1>1, <1>2, <1>3 DEF TempFiles, Running
<1>11. Opened(upper, managed, open, job, finish)'
  BY <1>1, <1>3 DEF Opened
<1> QED  BY <1>1, <1>2, <1>4, <1>5, <1>7, <1>9, <1>10, <1>11 DEF IInv

LEMMA ComputeHashStep ==
    ASSUME IInv, ComputeSandboxHash
    PROVE  IInv'
<1>1. PICK written : written = Files(lower) \cap Temporary  OBVIOUS
<1>2. PICK new : new = {disk[i] : i \in written} \ (handles \cup {0})  OBVIOUS
<1>3. /\ job.op = "hash" /\ job.stage = "background" /\ hashed' = TRUE
      /\ lower' = [n \in Names |-> IF lower[n] \in written THEN disk[lower[n]] ELSE lower[n]]
      /\ disk' = [i \in Ids |-> IF i \in written THEN Absent
                                ELSE IF i \in new THEN i ELSE disk[i]]
      /\ job' = [job EXCEPT !.stage = "session"]
      /\ UNCHANGED <<drive, handles, upper, lowerSize, upperSize, managed, open,
                     iterating, chain, interrupted, finish, tasks, careless>>
  BY <1>1, <1>2 DEF ComputeSandboxHash, OnBackground
<1>4. /\ job' \in Jobs /\ job'.op = "hash" /\ job'.stage = "session" /\ job'.size = job.size
      /\ job.size = 0
  <2>1. job \in Jobs /\ job.size \in Int /\ job.ok \in BOOLEAN  BY Basics DEF IInv
  <2> QED  BY <1>3, <2>1, JobGoesOn DEF IInv, Stages
<1>5. /\ Running /\ chain = "none" /\ upper = NoTree /\ ~hashed /\ managed = {}
      /\ lower # NoTree
  BY <1>3 DEF IInv, Stages
<1>6. TypeOK /\ lower \in Trees /\ disk \in Disks /\ handles \subseteq Hashes \ {0} /\ open = {}
  BY <1>5, Basics DEF IInv, TypeOK, Opened
<1>7. HashFiles(drive, handles, disk, lower, upper, hashed, finish)  BY DEF IInv
<1>8. written \subseteq Present(disk) /\ (~careless => Present(disk) \subseteq written)
  BY <1>1, <1>5 DEF IInv, TempFiles, Temps, Running
<1>9. \A i \in written : i \in Ids /\ i \in Temporary /\ disk[i] \in Hashes
  BY <1>1, <1>6, <1>8, Identifiers, DiskType, PresentFiles
<1>10. new \subseteq Hashes  BY <1>2, <1>9
<1>11. /\ disk' \in Disks
       /\ \A i \in Ids : disk'[i] = IF i \in written THEN Absent
                                    ELSE IF i \in new THEN i ELSE disk[i]
  <2>1. Absent \in -1..MaxSize /\ \A i \in Hashes : i \in -1..MaxSize
    BY Identifiers DEF Absent
  <2>2. \A i \in Ids : disk[i] \in -1..MaxSize  BY <1>6 DEF Disks
  <2> QED  BY <1>3, <1>10, <2>1, <2>2 DEF Disks
<1>12. /\ lower' \in [Names -> Hashes \cup {Absent}]
       /\ \A n \in Names : lower'[n] = IF lower[n] \in written THEN disk[lower[n]]
                                       ELSE lower[n]
  <2>1. \A n \in Names : lower[n] \in written \/ lower[n] \in Hashes \cup {Absent}
    BY <1>1, <1>6, TreeType, Identifiers
  <2> QED  BY <1>3, <1>9, <2>1
<1>13. lower' \in Trees /\ lower' # NoTree
  <2>1. lower' \in Trees  BY <1>12, Identifiers DEF Trees
  <2> QED  BY <2>1, TreeType
<1>14. Files(lower') \cap Temporary = {}
  <2>1. Absent \notin Temporary  BY Identifiers
  <2> QED  BY <1>12, <1>13, <2>1, TreeType, Identifiers
<1>15. \A i \in (Files(lower') \cap Hashes) \ {0} : disk'[i] = i
  <2> SUFFICES ASSUME NEW i \in Files(lower'), i \in Hashes, i # 0  PROVE disk'[i] = i
    OBVIOUS
  <2>1. PICK n \in Names : lower'[n] = i  BY <1>13, TreeType
  <2>2. i \in Ids /\ i \notin Temporary /\ i \notin written  BY <1>9, Identifiers
  <2>3. i \in new \/ i \in handles
    <3>1. CASE lower[n] \in written
      <4>1. i = disk[lower[n]]  BY <1>12, <2>1, <3>1
      <4> QED  BY <1>2, <3>1, <4>1
    <3>2. CASE lower[n] \notin written
      <4>1. lower[n] = i /\ i # Absent  BY <1>12, <2>1, <2>2, <3>2, Identifiers
      <4>2. i \in Files(lower)  BY <1>6, <4>1, TreeType
      <4> QED  BY <1>5, <1>7, <4>2 DEF HashFiles, Running
    <3> QED  BY <3>1, <3>2
  <2>4. i \in handles => disk[i] = i  BY <1>7 DEF HashFiles
  <2> QED  BY <1>11, <2>2, <2>3, <2>4
<1>16. ASSUME NEW i \in Hashes \ {0}, disk'[i] # Absent
       PROVE  disk'[i] = i /\ (i \in handles \/ i \in Files(lower'))
  <2>1. i \in Ids /\ i \notin written  BY <1>9, Identifiers
  <2>2. CASE i \in new
    <3>1. disk'[i] = i  BY <1>11, <2>1, <2>2
    <3>2. PICK w \in written : disk[w] = i  BY <1>2, <2>2
    <3>3. PICK n \in Names : lower[n] = w  BY <1>1, <1>6, TreeType
    <3>4. lower'[n] = i /\ i # Absent  BY <1>12, <3>2, <3>3, Identifiers
    <3>5. i \in Files(lower')  BY <1>13, <3>4, TreeType
    <3> QED  BY <3>1, <3>5
  <2>3. CASE i \notin new
    <3>1. disk'[i] = disk[i]  BY <1>11, <2>1, <2>3
    <3> QED  BY <1>5, <1>7, <1>16, <3>1 DEF HashFiles
  <2> QED  BY <2>2, <2>3
<1>17. \A i \in handles : disk'[i] = i
  <2> SUFFICES ASSUME NEW i \in handles  PROVE disk'[i] = i
    OBVIOUS
  <2>1. i \in Ids /\ i \notin written /\ i \notin new  BY <1>2, <1>6, <1>9, Identifiers
  <2> QED  BY <1>7, <1>11, <2>1 DEF HashFiles
<1>18. ~careless => Present(disk') = {}
  <2> SUFFICES ASSUME ~careless PROVE Present(disk') = {}  OBVIOUS
  <2>1. ASSUME NEW i \in Temporary, disk'[i] # Absent  PROVE FALSE
    <3>1. i \in Ids /\ i \notin new  BY <1>10, Identifiers
    <3>2. i \notin written /\ disk[i] # Absent  BY <1>11, <2>1, <3>1
    <3> QED  BY <1>8, <3>2, PresentFiles, <2>1
  <2> QED  BY <2>1, PresentFiles
<1>19. TypeOK'  BY <1>3, <1>4, <1>6, <1>11, <1>13, DiskIsTyped DEF TypeOK
<1>20. Stages'  BY <1>3, <1>4, <1>5, <1>13 DEF IInv, Stages, Running
<1>21. Torrents(drive, handles, disk, lower, chain)'
  BY <1>3, <1>5 DEF IInv, Torrents
<1>22. HashFiles(drive, handles, disk, lower, upper, hashed, finish)'
  <2>1. finish = "running"  BY <1>5 DEF Running
  <2> QED  BY <1>3, <1>5, <1>7, <1>15, <1>16, <1>17, <2>1, NoFiles DEF HashFiles
<1>23. TempFiles(disk, lower, upper, hashed, chain, finish, careless)'
  <2>1. finish = "running"  BY <1>5 DEF Running
  <2>2. Temps(lower') = {} /\ OneName(lower')
    <3>1. \A n \in Names : lower'[n] \notin Temporary  BY <1>12, Identifiers
    <3>2. DOMAIN lower' = Names  BY <1>13, TreeType
    <3> QED  BY <1>14, <3>1, <3>2 DEF Temps, OneName
  <2>3. OneName(upper)  BY <2>1 DEF IInv, TempFiles
  <2> QED  BY <1>3, <1>18, <2>1, <2>2, <2>3 DEF TempFiles
<1>24. Opened(upper, managed, open, job, finish)'
  BY <1>3, <1>4, <1>6 DEF Opened
<1> QED
  BY <1>3, <1>4, <1>5, <1>19, <1>20, <1>21, <1>22, <1>23, <1>24 DEF IInv

------------------------------------------------------------------------------
(* The files of a call *)

LEMMA Smallest ==
    ASSUME NEW S \in SUBSET Nat, S # {}
    PROVE  Min(S) \in S
<1>1. PICK W : W = OpToRel(<, Nat)  OBVIOUS
<1>2. IsWellFoundedOn(W, Nat)  BY <1>1, NatLessThanWellFounded, Zenon
<1>3. \A i, j \in Nat : <<i, j>> \in W <=> i < j  BY <1>1 DEF OpToRel
<1>4. PICK i \in S : \A j \in S : ~(<<j, i>> \in W)  BY <1>2, WFMin, Zenon
<1>5. \A j \in S : i <= j
  <2> SUFFICES ASSUME NEW j \in S  PROVE i <= j
    OBVIOUS
  <2>1. i \in Nat /\ j \in Nat /\ ~(j < i)  BY <1>3, <1>4
  <2> QED  BY <2>1
<1>6. \E x \in S : \A y \in S : x <= y  BY <1>5
<1> QED  BY <1>6 DEF Min

LEMMA InitiateStep ==
    ASSUME IInv, InitiateSandboxModifications
    PROVE  IInv'
<1>1. /\ BetweenCalls /\ ~hashed /\ upper' = lower /\ upperSize' = lowerSize
      /\ UNCHANGED <<drive, handles, disk, lower, lowerSize, managed, open, iterating,
                     job, hashed, chain, interrupted, finish, tasks, careless>>
  BY DEF InitiateSandboxModifications
<1>2. /\ Running /\ ~interrupted /\ chain = "none" /\ job = NoJob /\ upper = NoTree
      /\ lower # NoTree /\ managed = {} /\ job.op = "none"
  BY <1>1 DEF BetweenCalls, Accepts, IInv, Stages, Running
<1>3. lower \in Trees /\ TypeOK /\ open = {}  BY <1>2 DEF IInv, TypeOK, Opened
<1>4. TypeOK'  BY <1>1, <1>3 DEF TypeOK
<1>5. Stages'  BY <1>1, <1>2, <1>3 DEF IInv, Stages, Running
<1>6. HashFiles(drive, handles, disk, lower, upper, hashed, finish)'
  BY <1>1, <1>2 DEF IInv, HashFiles, Running
<1>7. /\ Temps(lower) \subseteq Present(disk) /\ OneName(lower)
      /\ ~careless => Present(disk) \subseteq Temps(lower)
  BY <1>2 DEF IInv, TempFiles, Running
<1>8. TempFiles(disk, lower, upper, hashed, chain, finish, careless)'
  BY <1>1, <1>2, <1>7 DEF TempFiles, Running
<1>9. Opened(upper, managed, open, job, finish)'
  BY <1>1, <1>2, <1>3 DEF Opened
<1>10. Plain(job)  BY <1>2, PlainJob
<1>11. CallFiles(disk, lower, upper, managed, job, careless)'
  BY <1>1, <1>2, <1>7, <1>10 DEF CallFiles, Plain
<1>12. Named(upper, open, job)'  BY <1>1, <1>2, <1>3 DEF Named
<1>13. LowerSize(disk, lower, lowerSize, careless)
  <2>1. ~Applied(job)  BY <1>10 DEF Plain
  <2> QED  BY <1>1, <1>2, <2>1 DEF IInv
<1>14. UpperSize(disk, lower, upper, upperSize, job, careless)'
  <2>1. Held(lower, lower, job) = Temps(lower)  BY <1>10 DEF Held, Plain
  <2>2. Total(disk, Temps(lower)) \in Nat
    <3>1. Temps(lower) \in SUBSET Ids  BY <1>3, Basics DEF Temps
    <3> QED  BY <1>3, <3>1, Basics, TotalType
  <2>3. Due(job) = 0  BY <1>2, NoJobFields DEF Due
  <2> QED  BY <1>1, <1>13, <2>1, <2>2, <2>3 DEF UpperSize, LowerSize
<1> QED
  BY <1>1, <1>4, <1>5, <1>6, <1>8, <1>9, <1>11, <1>12, <1>13, <1>14 DEF IInv, Running

\* A request changes the upper tree only.
LEMMA TreeRequest ==
    ASSUME IInv, InCall, TypeOK', Stages', job'.size \in Nat, upper' \in Trees,
           UNCHANGED <<drive, handles, disk, lower, upperSize, lowerSize, hashed, chain,
                       finish>>,
           careless => careless',
           Files(upper') \cap Hashes \subseteq Files(upper), OneName(upper'),
           Opened(upper', managed', open', job', finish),
           CallFiles(disk, lower, upper', managed', job', careless'),
           Present(disk) \cap Held(lower, upper', job') \subseteq Held(lower, upper, NoJob),
           Named(upper', open', job'), Due(job') = 0, ~Applied(job')
    PROVE  IInv'
<1>1. /\ Running /\ job = NoJob /\ upper # NoTree /\ ~hashed /\ Plain(job) /\ upper' # NoTree
      /\ CallFiles(disk, lower, upper, managed, job, careless)
      /\ Covers(upperSize, CallTotal(lower, upper, NoJob), careless)
      /\ chain = "none"
  BY AtCall, TreeType
<1>2. Torrents(drive, handles, disk, lower, chain)'  BY DEF IInv
<1>3. HashFiles(drive, handles, disk, lower, upper, hashed, finish)'
  BY DEF IInv, HashFiles
<1>4. TempFiles(disk, lower, upper, hashed, chain, finish, careless)'
  BY <1>1 DEF IInv, TempFiles, Running
<1>5. UpperSize(disk, lower, upper, upperSize, job, careless)'
  <2>1. PICK X : X = Held(lower, upper, NoJob)  OBVIOUS
  <2>2. PICK Y : Y = Held(lower, upper', job')  OBVIOUS
  <2>3. X \subseteq Temporary /\ X \in SUBSET Ids /\ Y \subseteq Temporary /\ Y \in SUBSET Ids
    BY <1>1, <2>1, <2>2, HeldFiles
  <2>4. disk \in Disks /\ upperSize \in Int  BY Basics, Identifiers DEF IInv, TypeOK
  <2>5. {i \in Y : disk[i] # Absent} \subseteq X  BY <2>1, <2>2, <2>3, PresentFiles
  <2>6. Total(disk, Y) <= Total(disk, X) /\ Total(disk, X) \in Nat /\ Total(disk, Y) \in Nat
    BY <2>3, <2>4, <2>5, TotalMonotone
  <2>7. ASSUME ~careless'  PROVE Total(disk, Y) = Total(disk, X)
    <3>1. Present(disk) \subseteq Y
      <4>1. Present(disk) \subseteq Temps(lower) \cup managed' \cup Doomed(job')
        BY <2>7 DEF CallFiles
      <4>2. managed' \subseteq Temps(upper')  BY DEF CallFiles
      <4> QED  BY <2>2, <4>1, <4>2 DEF Held
    <3>2. {i \in X : disk[i] # Absent} \subseteq Y  BY <2>3, <3>1, PresentFiles
    <3>3. Total(disk, X) <= Total(disk, Y)  BY <2>3, <2>4, <3>2, TotalMonotone
    <3> QED  BY <2>6, <3>3
  <2>8. Covers(upperSize, Total(disk, X), careless)  BY <1>1, <2>1 DEF CallTotal
  <2>9. Covers(upperSize, Total(disk, Y), careless')
    BY ONLY <2>4, <2>6, <2>7, <2>8, careless => careless' DEF Covers
  <2> QED  BY <2>2, <2>6, <2>9 DEF UpperSize
<1>6. LowerSize(disk, lower, lowerSize, careless)'
  BY <1>1 DEF IInv, Plain, LowerSize, Covers
<1> QED  BY <1>1, <1>2, <1>3, <1>4, <1>5, <1>6 DEF IInv, Running

LEMMA OpenToWriteStep ==
    ASSUME IInv, NEW n \in Names, OpenToWrite(n)
    PROVE  IInv'
<1>1. PICK new : new = {t \in Temporary : disk[t] = Absent /\ t \notin Files(upper)}  OBVIOUS
<1>2. PICK id : id = IF upper[n] \in managed THEN upper[n] ELSE Min(new)  OBVIOUS
<1>3. PICK file : file = [name |-> n, id |-> id, mode |-> "write"]  OBVIOUS
<1>4. /\ InCall /\ CheckUnlock(n) /\ (upper[n] \in managed \/ new # {})
      /\ upper' = [upper EXCEPT ![n] = id] /\ managed' = managed \cup {id}
      /\ job' = [Job("open") EXCEPT !.file = file]
      /\ UNCHANGED <<drive, handles, disk, lower, lowerSize, upperSize, open, iterating,
                     hashed, chain, interrupted, finish, tasks, careless>>
  BY <1>1, <1>2, <1>3 DEF OpenToWrite
<1>5. /\ Running /\ ~interrupted /\ chain = "none" /\ job = NoJob /\ upper # NoTree
      /\ ~hashed /\ upper \in Trees /\ lower \in Trees /\ Plain(job)
      /\ CallFiles(disk, lower, upper, managed, job, careless) /\ Named(upper, open, job)
      /\ Temps(lower) \cup managed \subseteq Present(disk)
      /\ ~careless => Present(disk) \subseteq Temps(lower) \cup managed
  BY <1>4, AtCall
<1>6. managed \subseteq Temps(upper) /\ managed \cap Files(lower) = {}
  BY <1>5 DEF CallFiles
<1>7. upper[n] \notin managed => id \in new
  <2>1. new \in SUBSET Nat  BY <1>1, Identifiers
  <2> QED  BY <1>2, <1>4, <2>1, Smallest
<1>8. id \in Temporary /\ id \in Ids /\ (upper[n] # id => id \notin Files(upper))
  BY <1>1, <1>2, <1>6, <1>7, Identifiers DEF Temps
<1>9. id \notin Files(lower)
  <2>1. CASE upper[n] \in managed  BY <1>2, <1>6, <2>1
  <2>2. CASE upper[n] \notin managed
    <3>1. disk[id] = Absent  BY <1>1, <1>7, <2>2
    <3>2. id \notin Present(disk)  BY <3>1, PresentFiles
    <3> QED  BY <1>5, <1>8, <3>2 DEF Temps
  <2> QED  BY <2>1, <2>2
<1>10. /\ upper' \in Trees
       /\ \A m \in Names : upper'[m] = IF m = n THEN id ELSE upper[m]
  BY <1>4, <1>5, <1>8 DEF Trees
<1>11. Files(upper') \subseteq Files(upper) \cup {id}
  BY <1>5, <1>10, TreeType, Identifiers
<1>12. id \in Files(upper')
  <2>1. upper'[n] = id /\ id # Absent  BY <1>8, <1>10, Identifiers
  <2> QED  BY <1>10, <2>1, TreeType
<1>13. managed \subseteq Files(upper')
  <2> SUFFICES ASSUME NEW i \in managed  PROVE i \in Files(upper')
    OBVIOUS
  <2>1. i \in Files(upper) /\ i \in Temporary  BY <1>6 DEF Temps
  <2>2. PICK m \in Names : upper[m] = i  BY <1>5, <2>1, TreeType
  <2>3. CASE m = n  BY <1>2, <1>12, <2>2, <2>3
  <2>4. CASE m # n
    <3>1. upper'[m] = i /\ i # Absent  BY <1>10, <2>1, <2>2, <2>4, Identifiers
    <3> QED  BY <1>10, <3>1, TreeType
  <2> QED  BY <2>3, <2>4
<1>14. OneName(upper')
  <2>1. OneName(upper)  BY <1>5 DEF IInv, TempFiles, Running
  <2>2. \A m, l \in Names : upper[m] = upper[l] /\ upper[m] \in Temporary => m = l
    BY <1>5, <2>1, TreeType DEF OneName
  <2>3. ASSUME NEW m \in Names, m # n, upper[m] = id  PROVE FALSE
    <3>1. id \in Files(upper)  BY <1>5, <1>8, <2>3, TreeType, Identifiers
    <3>2. upper[n] = id  BY <1>8, <3>1
    <3> QED  BY <1>8, <2>2, <2>3, <3>2
  <2>4. ASSUME NEW m \in Names, NEW l \in Names, upper'[m] = upper'[l], upper'[m] \in Temporary
        PROVE  m = l
    BY <1>10, <2>2, <2>3, <2>4
  <2>5. DOMAIN upper' = Names  BY <1>10, TreeType
  <2> QED  BY <2>4, <2>5 DEF OneName
<1>15. /\ file \in OpenFiles /\ file.name = n /\ file.id = id /\ file.mode = "write"
  BY <1>3, <1>8, OpenFileMade
<1>16. /\ job' \in Jobs /\ job'.op = "open" /\ job'.stage = "background" /\ job'.size = 0
       /\ job'.file = file
  <2>1. PICK op \in Operations : op = "open"  BY DEF Operations
  <2>2. IsJob(job', op, file, {}, TRUE)  BY <1>4, <1>15, <2>1, JobsMade
  <2> QED  BY <2>1, <2>2 DEF IsJob
<1>17. TypeOK'  BY <1>4, <1>8, <1>10, <1>16 DEF IInv, TypeOK
<1>18. upper' # NoTree  BY <1>10, TreeType
<1>19. Stages'  BY <1>4, <1>5, <1>16, <1>18 DEF IInv, Stages, Running
<1>20. Opened(upper', managed', open', job', finish)
  <2>1. Opened(upper, managed, open, job, finish)  BY DEF IInv
  <2> QED  BY <1>4, <1>5, <1>15, <1>16, <1>18, <2>1, NoJobFields DEF Opened, Running
<1>21. Pending(job') = {id} /\ Doomed(job') = {} /\ ~Applied(job') /\ Due(job') = 0
  BY <1>15, <1>16 DEF Pending, Doomed, Applied, Due, Writing
<1>22. CallFiles(disk, lower, upper', managed', job', careless')
  <2>1. managed' \subseteq Temps(upper') /\ managed' \cap Files(lower) = {}
    BY <1>4, <1>6, <1>8, <1>9, <1>12, <1>13 DEF Temps
  <2>2. ~careless => Temps(upper') \subseteq Temps(lower) \cup managed'
    <3>1. ~careless => Temps(upper) \subseteq Temps(lower) \cup managed
      BY <1>5 DEF CallFiles
    <3> QED  BY <1>4, <1>11, <3>1 DEF Temps
  <2>3. /\ Temps(lower) \cup managed' \subseteq Present(disk) \cup {id}
        /\ ~careless => Present(disk) \subseteq Temps(lower) \cup managed'
    BY <1>4, <1>5
  <2> QED  BY <1>4, <1>21, <2>1, <2>2, <2>3 DEF CallFiles
<1>23. Named(upper', open', job')
  <2>1. \A o \in open : o.name # n /\ o.name \in Names
    BY <1>4, OpenFile DEF CheckUnlock, IInv, TypeOK
  <2>2. \A o \in open : o.mode = "write" => upper'[o.name] = o.id
    BY <1>5, <1>10, <2>1 DEF Named
  <2>3. upper'[n] = id  BY <1>10
  <2> QED  BY <1>4, <1>15, <1>16, <2>2, <2>3 DEF Named
<1>24. Files(upper') \cap Hashes \subseteq Files(upper)  BY <1>8, <1>11, Identifiers
<1>25. InCall /\ upper' \in Trees /\ job'.size \in Nat /\ Due(job') = 0 /\ ~Applied(job')
  BY <1>4, <1>10, <1>16, <1>21
<1>26. UNCHANGED <<drive, handles, disk, lower, upperSize, lowerSize, hashed, chain, finish>>
  BY <1>4
<1>27. Present(disk) \cap Held(lower, upper', job') \subseteq Held(lower, upper, NoJob)
  <2>1. Temps(upper') \subseteq Temps(upper) \cup {id}  BY <1>11 DEF Temps
  <2>2. id \in Present(disk) => id \in managed
    <3>1. id \in new => disk[id] = Absent  BY <1>1
    <3> QED  BY <1>2, <1>7, <3>1, PresentFiles
  <2> QED  BY <1>6, <1>21, <2>1, <2>2 DEF Held
<1>28. careless => careless'  BY <1>4
<1> QED
  BY ONLY IInv, <1>14, <1>17, <1>19, <1>20, <1>22, <1>23, <1>24, <1>25, <1>26, <1>27, <1>28,
          TreeRequest

\* What is removed, or moved over, is forgotten and, if this call has created it,
\* to be removed.
LEMMA DropStep ==
    ASSUME IInv, InCall, NEW i \in Ids \cup {Absent}, upper' \in Trees,
           Files(upper') \subseteq Files(upper), Files(upper) \ {i} \subseteq Files(upper'),
           i \in Temporary /\ ~careless' => i \notin Files(upper'), OneName(upper'),
           careless => careless', careless' \in BOOLEAN,
           \A o \in open : upper'[o.name] = upper[o.name],
           i \in Temporary => \A o \in open : upper[o.name] # i,
           managed' = managed \ {i},
           job' = [Job("remove") EXCEPT !.files = {i} \cap managed],
           UNCHANGED <<drive, handles, disk, lower, lowerSize, upperSize, open, iterating,
                       hashed, chain, interrupted, finish, tasks>>
    PROVE  IInv'
<1>1. /\ Running /\ ~interrupted /\ chain = "none" /\ job = NoJob /\ upper # NoTree
      /\ ~hashed /\ upper \in Trees /\ lower \in Trees
      /\ CallFiles(disk, lower, upper, managed, job, careless) /\ Named(upper, open, job)
      /\ Temps(lower) \cup managed \subseteq Present(disk)
      /\ ~careless => Present(disk) \subseteq Temps(lower) \cup managed
  BY AtCall
<1>2. managed \subseteq Temporary /\ managed \in SUBSET Ids  BY Basics DEF IInv, TypeOK
<1>3. PICK files \in SUBSET Ids : files = {i} \cap managed  BY <1>2
<1>4. /\ job' \in Jobs /\ job'.op = "remove" /\ job'.stage = "background" /\ job'.size = 0
      /\ job'.files = files
  <2>1. PICK op \in Operations : op = "remove"  BY DEF Operations
  <2>2. IsJob(job', op, NoTree, files, TRUE)  BY <1>3, <2>1, JobsMade
  <2> QED  BY <2>1, <2>2 DEF IsJob
<1>5. TypeOK'  BY <1>2, <1>4 DEF IInv, TypeOK
<1>6. upper' # NoTree  BY TreeType
<1>7. Stages'  BY <1>1, <1>4, <1>6 DEF IInv, Stages, Running
<1>8. Named(upper', open', job')  BY <1>1, <1>4 DEF Named
<1>9. Opened(upper', managed', open', job', finish)
  <2>1. Opened(upper, managed, open, job, finish)  BY DEF IInv
  <2>2. ASSUME NEW o \in open, o.mode = "write"  PROVE o.id \in managed'
    <3>1. o.id \in managed /\ o.id = upper'[o.name]  BY <1>1, <2>1, <2>2 DEF Opened, Named
    <3>2. o.id # i  BY <1>2, <2>2, <3>1
    <3> QED  BY <3>1, <3>2
  <2> QED  BY <1>1, <1>4, <1>6, <2>1, <2>2, NoJobFields DEF Opened, Running
<1>10. Pending(job') = {} /\ Doomed(job') = files /\ ~Applied(job') /\ Due(job') = 0
  BY <1>4 DEF Pending, Doomed, Applied, Due, Writing
<1>11. CallFiles(disk, lower, upper', managed', job', careless')
  <2>1. /\ managed \subseteq Temps(upper) /\ managed \cap Files(lower) = {}
        /\ ~careless => Temps(upper) \subseteq Temps(lower) \cup managed
    BY <1>1 DEF CallFiles
  <2>2. managed' \subseteq Temps(upper') /\ managed' \cap Files(lower) = {}
    BY <2>1 DEF Temps
  <2>3. ~careless' => Temps(upper') \subseteq Temps(lower) \cup managed'
    BY <2>1 DEF Temps
  <2>4. /\ files \subseteq Temporary /\ files \cap (Files(lower) \cup managed') = {}
        /\ ~careless' => files \cap Files(upper') = {}
    BY <1>2, <1>3, <2>1
  <2>5. /\ Temps(lower) \cup managed' \subseteq Present(disk)
        /\ ~careless' => Present(disk) \subseteq Temps(lower) \cup managed' \cup files
    BY <1>1, <1>3
  <2> QED  BY <1>10, <2>2, <2>3, <2>4, <2>5 DEF CallFiles
<1>12. Files(upper') \cap Hashes \subseteq Files(upper)  OBVIOUS
<1>13. Present(disk) \cap Held(lower, upper', job') \subseteq Held(lower, upper, NoJob)
  <2>1. files \subseteq Temps(upper)  BY <1>1, <1>3 DEF CallFiles
  <2> QED  BY <1>10, <2>1 DEF Held, Temps
<1> QED  BY <1>4, <1>5, <1>7, <1>8, <1>9, <1>10, <1>11, <1>12, <1>13, TreeRequest

LEMMA RemoveStep ==
    ASSUME IInv, NEW n \in Names, RemoveFsTreeEntry(n)
    PROVE  IInv'
<1>1. /\ InCall /\ CheckUnlock(n) /\ upper' = [upper EXCEPT ![n] = Absent]
  BY DEF RemoveFsTreeEntry
<1>2. PICK i : i = upper[n]  OBVIOUS
<1>3. upper \in Trees /\ Running  BY <1>1, AtCall
<1>4. i \in Ids \cup {Absent}  BY <1>2, <1>3 DEF Trees
<1>5. /\ upper' \in Trees
      /\ \A m \in Names : upper'[m] = IF m = n THEN Absent ELSE upper[m]
  BY <1>1, <1>3 DEF Trees
<1>6. \A m, l \in Names : upper[m] = upper[l] /\ upper[m] \in Temporary => m = l
  BY <1>3, TreeType DEF IInv, TempFiles, Running, OneName
<1>7. Files(upper') \subseteq Files(upper) /\ (i \in Temporary => i \notin Files(upper'))
  <2> SUFFICES ASSUME NEW j \in Files(upper')
               PROVE  j \in Files(upper) /\ (i \in Temporary => j # i)
    OBVIOUS
  <2>1. PICK m \in Names : upper'[m] = j  BY <1>5, TreeType
  <2>2. j # Absent /\ m # n /\ upper[m] = j  BY <1>5, <2>1, TreeType, Identifiers
  <2> QED  BY <1>2, <1>3, <1>6, <2>2, TreeType
<1>8. Files(upper) \ {i} \subseteq Files(upper')
  <2> SUFFICES ASSUME NEW j \in Files(upper), j # i  PROVE j \in Files(upper')
    OBVIOUS
  <2>1. PICK m \in Names : upper[m] = j  BY <1>3, TreeType
  <2>2. upper'[m] = j /\ j # Absent  BY <1>2, <1>3, <1>5, <2>1, TreeType, Identifiers
  <2> QED  BY <1>5, <2>2, TreeType
<1>9. OneName(upper')
  <2>1. DOMAIN upper' = Names  BY <1>5, TreeType
  <2> QED  BY <1>5, <1>6, <2>1, Identifiers DEF OneName
<1>10. /\ \A o \in open : upper'[o.name] = upper[o.name]
       /\ i \in Temporary => \A o \in open : upper[o.name] # i
  <2>1. \A o \in open : o.name # n /\ o.name \in Names
    BY <1>1, OpenFile DEF CheckUnlock, IInv, TypeOK
  <2> QED  BY <1>2, <1>5, <1>6, <2>1
<1>11. /\ managed' = managed \ {i} /\ job' = [Job("remove") EXCEPT !.files = {i} \cap managed]
       /\ UNCHANGED <<drive, handles, disk, lower, lowerSize, upperSize, open, iterating,
                      hashed, chain, interrupted, finish, tasks, careless>>
  BY <1>2 DEF RemoveFsTreeEntry
<1>12. careless' \in BOOLEAN  BY <1>11 DEF IInv, TypeOK
<1> QED  BY <1>1, <1>4, <1>5, <1>7, <1>8, <1>9, <1>10, <1>11, <1>12, DropStep

LEMMA MoveOverStep ==
    ASSUME IInv, NEW n \in Names, NEW dst \in Names, MoveFsTreeEntry(n, dst),
           n # dst, upper[n] # Absent
    PROVE  IInv'
<1>1. /\ InCall /\ CheckUnlock(n) /\ CheckUnlock(dst)
      /\ upper' = [upper EXCEPT ![dst] = upper[n], ![n] = Absent]
  BY DEF MoveFsTreeEntry
<1>2. PICK i : i = upper[dst]  OBVIOUS
<1>3. upper \in Trees /\ Running  BY <1>1, AtCall
<1>4. i \in Ids \cup {Absent}  BY <1>2, <1>3 DEF Trees
<1>5. /\ upper' \in Trees
      /\ \A m \in Names : upper'[m] = IF m = n THEN Absent
                                      ELSE IF m = dst THEN upper[n] ELSE upper[m]
  BY <1>1, <1>3 DEF Trees
<1>6. \A m, l \in Names : upper[m] = upper[l] /\ upper[m] \in Temporary => m = l
  BY <1>3, TreeType DEF IInv, TempFiles, Running, OneName
<1>7. Files(upper') \subseteq Files(upper) /\ (i \in Temporary => i \notin Files(upper'))
  <2> SUFFICES ASSUME NEW j \in Files(upper')
               PROVE  j \in Files(upper) /\ (i \in Temporary => j # i)
    OBVIOUS
  <2>1. PICK m \in Names : upper'[m] = j  BY <1>5, TreeType
  <2>2. j # Absent /\ m # n  BY <1>5, <2>1, TreeType, Identifiers
  <2>3. PICK l \in Names : upper[l] = j /\ l # dst  BY <1>1, <1>5, <2>1, <2>2
  <2> QED  BY <1>2, <1>3, <1>6, <2>2, <2>3, TreeType
<1>8. Files(upper) \ {i} \subseteq Files(upper')
  <2> SUFFICES ASSUME NEW j \in Files(upper), j # i  PROVE j \in Files(upper')
    OBVIOUS
  <2>1. PICK m \in Names : upper[m] = j  BY <1>3, TreeType
  <2>2. j # Absent  BY <1>3, TreeType, Identifiers
  <2>3. \E l \in Names : upper'[l] = j
    <3>1. CASE m = n  BY <1>1, <1>5, <2>1, <3>1
    <3>2. CASE m # n  BY <1>2, <1>5, <2>1, <3>2
    <3> QED  BY <3>1, <3>2
  <2> QED  BY <1>5, <2>2, <2>3, TreeType
<1>9. OneName(upper')
  <2>1. DOMAIN upper' = Names  BY <1>5, TreeType
  <2>2. ASSUME NEW m \in Names, NEW l \in Names, upper'[m] = upper'[l], upper'[m] \in Temporary
        PROVE  m = l
    <3>1. m # n /\ l # n  BY <1>5, <2>2, Identifiers
    <3> QED  BY <1>5, <1>6, <2>2, <3>1
  <2> QED  BY <2>1, <2>2 DEF OneName
<1>10. /\ \A o \in open : upper'[o.name] = upper[o.name]
       /\ i \in Temporary => \A o \in open : upper[o.name] # i
  <2>1. \A o \in open : o.name # n /\ o.name # dst /\ o.name \in Names
    BY <1>1, OpenFile DEF CheckUnlock, IInv, TypeOK
  <2> QED  BY <1>2, <1>5, <1>6, <2>1
<1>11. /\ managed' = managed \ {i} /\ job' = [Job("remove") EXCEPT !.files = {i} \cap managed]
       /\ careless' = careless
       /\ UNCHANGED <<drive, handles, disk, lower, lowerSize, upperSize, open, iterating,
                      hashed, chain, interrupted, finish, tasks>>
  BY <1>2 DEF MoveFsTreeEntry, IInv, TypeOK
<1>12. careless' \in BOOLEAN  BY <1>11 DEF IInv, TypeOK
<1> QED  BY <1>1, <1>4, <1>5, <1>7, <1>8, <1>9, <1>10, <1>11, <1>12, DropStep

\* The careless moves: the file at the destination is given up though it stays in
\* the tree.
LEMMA CarelessMoveStep ==
    ASSUME IInv, NEW n \in Names, NEW dst \in Names, MoveFsTreeEntry(n, dst),
           n = dst \/ upper[n] = Absent
    PROVE  IInv'
<1>1. /\ InCall /\ CheckUnlock(n) /\ CheckUnlock(dst) /\ careless' = TRUE /\ upper' = upper
      /\ managed' = managed \ {upper[dst]}
      /\ UNCHANGED <<drive, handles, disk, lower, lowerSize, upperSize, open, iterating,
                     hashed, chain, interrupted, finish, tasks>>
  BY DEF MoveFsTreeEntry
<1>2. PICK i : i = upper[dst]  OBVIOUS
<1>3. /\ upper \in Trees /\ Running /\ job = NoJob /\ chain = "none" /\ ~interrupted
      /\ upper # NoTree /\ ~hashed
      /\ CallFiles(disk, lower, upper, managed, job, careless) /\ Named(upper, open, job)
      /\ Temps(lower) \cup managed \subseteq Present(disk)
  BY <1>1, AtCall
<1>4. i \in Ids \cup {Absent}  BY <1>2, <1>3 DEF Trees
<1>5. DOMAIN upper = Names /\ OneName(upper)
  BY <1>3, TreeType DEF IInv, TempFiles, Running
<1>6. i \in Temporary => \A o \in open : upper[o.name] # i
  <2>1. \A o \in open : o.name # dst /\ o.name \in Names
    BY <1>1, OpenFile DEF CheckUnlock, IInv, TypeOK
  <2> QED  BY <1>2, <1>5, <2>1 DEF OneName
<1>7. CASE upper[n] # Absent
  <2>1. job' = [Job("remove") EXCEPT !.files = {i} \cap managed]
    BY <1>2, <1>7 DEF MoveFsTreeEntry
  <2> QED  BY <1>1, <1>2, <1>3, <1>4, <1>5, <1>6, <2>1, DropStep
<1>8. CASE upper[n] = Absent
  <2>1. job' = NoJob  BY <1>3, <1>8 DEF MoveFsTreeEntry
  <2>2. Plain(NoJob) /\ NoJob \in Jobs /\ NoJob.op = "none" /\ NoJob.size = 0 /\ Due(NoJob) = 0
    BY NoJobFields, PlainJob DEF Due
  <2>3. TypeOK'  BY <1>1, <2>1, <2>2 DEF IInv, TypeOK
  <2>4. Stages'  BY <1>1, <1>3, <2>1 DEF IInv, Stages, Running
  <2>5. Opened(upper', managed', open', job', finish)
    <3>1. Opened(upper, managed, open, job, finish)  BY DEF IInv
    <3>2. ASSUME NEW o \in open, o.mode = "write"  PROVE o.id \in managed'
      <4>1. o.id \in managed /\ o.id = upper[o.name]  BY <1>3, <3>1, <3>2 DEF Opened, Named
      <4>2. managed \subseteq Temporary  BY DEF IInv, TypeOK
      <4> QED  BY <1>1, <1>2, <1>6, <3>2, <4>1, <4>2
    <3> QED  BY <1>1, <1>3, <2>1, <2>2, <3>1, <3>2 DEF Opened
  <2>6. CallFiles(disk, lower, upper', managed', job', careless')
    BY <1>1, <1>3, <2>1, <2>2 DEF CallFiles, Plain
  <2>7. Present(disk) \cap Held(lower, upper', job') \subseteq Held(lower, upper, NoJob)
    BY <1>1, <2>1
  <2>8. Named(upper', open', job')  BY <1>1, <1>3, <2>1
  <2>9. Due(job') = 0 /\ ~Applied(job') /\ job'.size \in Nat  BY <2>1, <2>2 DEF Plain
  <2> QED
    BY <1>1, <1>3, <1>5, <2>3, <2>4, <2>5, <2>6, <2>7, <2>8, <2>9, TreeRequest
<1> QED  BY <1>7, <1>8

LEMMA MoveStep ==
    ASSUME IInv, NEW n \in Names, NEW dst \in Names, MoveFsTreeEntry(n, dst)
    PROVE  IInv'
BY MoveOverStep, CarelessMoveStep

------------------------------------------------------------------------------
(* The background thread, for a call *)

\* The sums on two disks that have the same files but for one or some.
LEMMA TotalWithout ==
    ASSUME NEW d \in Disks, NEW e \in Disks, NEW X \in SUBSET Ids, NEW F \in SUBSET X,
           \A i \in X : e[i] = IF i \in F THEN Absent ELSE d[i]
    PROVE  Total(d, X) = Total(e, X) + Total(d, F)
<1>1. PICK Y \in SUBSET Ids : Y = X \ F  OBVIOUS
<1>2. X = Y \cup F /\ Y \cap F = {} /\ F \in SUBSET Ids  BY <1>1
<1>3. Total(d, X) = Total(d, Y) + Total(d, F)  BY <1>2, TotalOfBoth
<1>4. {i \in Y : d[i] # Absent} = {i \in X : e[i] # Absent}  BY <1>1
<1>5. Total(d, Y) = Total(e, X)  BY <1>1, <1>4, TotalOfSame
<1> QED  BY <1>3, <1>5

LEMMA TotalAlike ==
    ASSUME NEW d \in Disks, NEW e \in Disks, NEW X \in SUBSET Ids, \A i \in X : e[i] = d[i]
    PROVE  Total(d, X) = Total(e, X)
<1>1. {i \in X : d[i] # Absent} = {i \in X : e[i] # Absent}  OBVIOUS
<1> QED  BY <1>1, TotalOfSame

\* A job of a call changes temporary files only, and no file of the lower sandbox.
LEMMA CallWork ==
    ASSUME IInv, job.op \notin {"none", "hash"}, job.stage = "background",
           disk' \in Disks, \A i \in Hashes : disk'[i] = disk[i],
           \A i \in Temps(lower) : disk'[i] = disk[i] \/ (Applied(job') /\ job'.ok),
           job' \in Jobs, job'.op = job.op, job'.stage = "session", job'.file = job.file,
           job'.size \in Nat, job'.op \in {"open", "remove", "apply"} \/ job'.size = 0,
           CallFiles(disk', lower, upper, managed, job', careless),
           UpperSize(disk', lower, upper, upperSize, job', careless),
           UNCHANGED <<drive, handles, lower, upper, lowerSize, upperSize, managed, open,
                       iterating, hashed, chain, interrupted, finish, tasks, careless>>
    PROVE  IInv'
<1>1. TypeOK /\ Stages /\ Running /\ upper # NoTree /\ ~hashed /\ job.op # "none" /\ job.op # "hash"
      /\ chain = "none"
  BY DEF IInv, Stages
<1>2. TypeOK'  BY <1>1, DiskIsTyped DEF TypeOK
<1>3. Stages'  BY <1>1 DEF Stages, Running
<1>4. Torrents(drive, handles, disk, lower, chain)'  BY <1>1 DEF IInv, Torrents
<1>5. handles \subseteq Hashes  BY <1>1 DEF TypeOK
<1>6. HashFiles(drive, handles, disk, lower, upper, hashed, finish)'
  <2>1. HashFiles(drive, handles, disk, lower, upper, hashed, finish)  BY DEF IInv
  <2> QED  BY <1>5, <2>1 DEF HashFiles
<1>7. TempFiles(disk, lower, upper, hashed, chain, finish, careless)'
  BY <1>1 DEF IInv, TempFiles, Running
<1>8. Opened(upper, managed, open, job, finish)'
  <2>1. Opened(upper, managed, open, job, finish)  BY DEF IInv
  <2> QED  BY <2>1 DEF Opened
<1>9. Named(upper, open, job)'
  <2>1. Named(upper, open, job)  BY <1>1 DEF IInv
  <2> QED  BY <2>1 DEF Named
<1>10. UpperSize(disk, lower, upper, upperSize, job, careless)'  OBVIOUS
<1>11. ASSUME ~(Applied(job') /\ job'.ok)  PROVE LowerSize(disk, lower, lowerSize, careless)'
  <2>1. LowerSize(disk, lower, lowerSize, careless)
    <3>1. ~Applied(job)  BY DEF Applied
    <3> QED  BY <1>1, <3>1 DEF IInv
  <2>2. Temps(lower) \in SUBSET Ids /\ disk \in Disks  BY <1>1, Basics DEF Temps
  <2>3. \A i \in Temps(lower) : disk'[i] = disk[i]  BY <1>11
  <2>4. Total(disk, Temps(lower)) = Total(disk', Temps(lower))
    BY <2>2, <2>3, TotalAlike
  <2> QED  BY <2>1, <2>4 DEF LowerSize
<1>12. CallFiles(disk, lower, upper, managed, job, careless)'  OBVIOUS
<1> QED
  BY <1>1, <1>2, <1>3, <1>4, <1>6, <1>7, <1>8, <1>9, <1>10, <1>11, <1>12 DEF IInv, Running

\* A job of a call.
LEMMA AtCallWork ==
    ASSUME IInv, job.op \notin {"none", "hash"}, job.stage = "background"
    PROVE  /\ Running /\ upper # NoTree /\ ~hashed /\ disk \in Disks /\ job.size = 0
           /\ CallFiles(disk, lower, upper, managed, job, careless)
           /\ Temps(lower) \cup managed \subseteq Present(disk) \cup Pending(job)
           /\ ~careless => /\ Present(disk) \subseteq Temps(lower) \cup managed \cup Doomed(job)
                           /\ Temps(upper) \subseteq Temps(lower) \cup managed
           /\ Covers(upperSize, CallTotal(lower, upper, job)
                                  + (IF job.op = "write" THEN 1 ELSE 0), careless)
           /\ CallTotal(lower, upper, job) \in Nat
           /\ Held(lower, upper, job) \in SUBSET Ids /\ Held(lower, upper, job) \subseteq Temporary
           /\ managed \cap Files(lower) = {} /\ managed \subseteq Temps(upper)
           /\ Temporary \in SUBSET Ids /\ managed \in SUBSET Ids /\ TypeOK /\ job \in Jobs
<1>1. Running /\ upper # NoTree /\ ~hashed /\ job.size = 0
  BY DEF IInv, Stages
<1>2. CallFiles(disk, lower, upper, managed, job, careless) /\ UpperSize(disk, lower, upper, upperSize, job, careless)
  BY <1>1 DEF IInv
<1>3. ~Applied(job) /\ Due(job) = IF job.op = "write" THEN 1 ELSE 0
  BY <1>1 DEF Applied, Due
<1>4. /\ disk \in Disks /\ Temporary \in SUBSET Ids /\ managed \in SUBSET Ids /\ TypeOK
      /\ job \in Jobs
  BY Basics DEF IInv
<1>5. Held(lower, upper, job) \in SUBSET Ids /\ Held(lower, upper, job) \subseteq Temporary
  BY <1>2, HeldFiles
<1>6. CallTotal(lower, upper, job) \in Nat  BY <1>4, <1>5, TotalType DEF CallTotal
<1>7. Covers(upperSize, CallTotal(lower, upper, job)
                          + (IF job.op = "write" THEN 1 ELSE 0), careless)
  BY <1>2, <1>3 DEF UpperSize, CallTotal
<1> QED  BY <1>1, <1>2, <1>3, <1>4, <1>5, <1>6, <1>7 DEF CallFiles

\* What a job has come to when the session thread gets it.
LEMMA JobDone ==
    ASSUME NEW d, NEW size, NEW j, NEW ca, j.stage = "session",
           Covers(size, Total(d, Temps(lower) \cup Temps(upper)) + j.size, ca)
    PROVE  UpperSize(d, lower, upper, size, j, ca)
<1>1. Due(j) = j.size /\ Doomed(j) = {}  BY DEF Due, Doomed
<1>2. Held(lower, upper, j) = Temps(lower) \cup Temps(upper)  BY <1>1 DEF Held
<1> QED  BY <1>1, <1>2 DEF UpperSize

LEMMA CreateStreamStep ==
    ASSUME IInv, CreateStream
    PROVE  IInv'
<1>1. PICK id : id = job.file.id  OBVIOUS
<1>2. PICK write \in BOOLEAN : write = (job.file.mode = "write")  OBVIOUS
<1>3. PICK ok \in BOOLEAN : ok = (write \/ disk[id] # Absent)  OBVIOUS
<1>4. PICK size : size = IF write THEN SizeOnDisk({id}) ELSE 0  OBVIOUS
<1>5. /\ job.op = "open" /\ job.stage = "background"
      /\ disk' = IF write THEN [disk EXCEPT ![id] = 0] ELSE disk
      /\ job' = [job EXCEPT !.stage = "session", !.ok = ok, !.size = size]
      /\ UNCHANGED <<drive, handles, lower, upper, lowerSize, upperSize, managed, open,
                     iterating, hashed, chain, interrupted, finish, tasks, careless>>
  BY <1>1, <1>2, <1>3, <1>4 DEF CreateStream, OnBackground
<1>6. job.op \notin {"none", "hash"} /\ job.op # "write" /\ job.op # "remove"  BY <1>5
<1>7. /\ Running /\ upper # NoTree /\ disk \in Disks
      /\ CallFiles(disk, lower, upper, managed, job, careless)
      /\ Temps(lower) \cup managed \subseteq Present(disk) \cup Pending(job)
      /\ ~careless => /\ Present(disk) \subseteq Temps(lower) \cup managed \cup Doomed(job)
                      /\ Temps(upper) \subseteq Temps(lower) \cup managed
      /\ Covers(upperSize, CallTotal(lower, upper, job) + 0, careless)
      /\ CallTotal(lower, upper, job) \in Nat
      /\ Held(lower, upper, job) \in SUBSET Ids /\ Held(lower, upper, job) \subseteq Temporary
      /\ managed \cap Files(lower) = {} /\ managed \subseteq Temps(upper)
      /\ Temporary \in SUBSET Ids /\ managed \in SUBSET Ids /\ TypeOK /\ job \in Jobs
  BY <1>5, <1>6, AtCallWork
<1>8. Doomed(job) = {} /\ (write => Pending(job) = {id}) /\ (~write => Pending(job) = {})
  BY <1>1, <1>2, <1>5 DEF Doomed, Pending, Writing
<1>9. write => id \in managed
  BY <1>1, <1>2, <1>5 DEF IInv, Opened
<1>10. write => id \in Temporary /\ id \in Ids /\ id \notin Files(lower) /\ id \notin Hashes
  BY <1>7, <1>9, Identifiers DEF Temps
<1>11. size \in Nat /\ (write => size = SizeOf(disk, id)) /\ (~write => size = 0)
  <2>1. CASE write
    <3>1. size = Total(disk, {id})  BY <1>4, <2>1, SizeIsTotal
    <3> QED  BY <1>7, <1>10, <2>1, <3>1, TotalOfOne, SizeOfType
  <2>2. CASE ~write  BY <1>4, <2>2
  <2> QED  BY <2>1, <2>2
<1>12. /\ job' \in Jobs /\ job'.op = "open" /\ job'.stage = "session" /\ job'.size = size
       /\ job'.file = job.file
  <2>1. size \in Int /\ job \in Jobs /\ job.op = "open"  BY <1>5, <1>7, <1>11
  <2>2. job' = [job EXCEPT !.stage = "session", !.ok = ok, !.size = size]  BY <1>5
  <2> QED  BY ONLY <2>1, <2>2, ok \in BOOLEAN DEF Jobs
<1>13. /\ disk' \in Disks
       /\ \A i \in Ids : disk'[i] = IF write /\ i = id THEN 0 ELSE disk[i]
  <2>1. 0 \in -1..MaxSize  BY Identifiers
  <2> QED  BY <1>5, <1>7, <2>1 DEF Disks
<1>14. \A i \in Hashes : disk'[i] = disk[i]  BY <1>10, <1>13, Identifiers
<1>15. \A i \in Temps(lower) : disk'[i] = disk[i]
  BY <1>7, <1>10, <1>13 DEF Temps
<1>16. /\ Temps(lower) \cup managed \subseteq Present(disk')
       /\ ~careless => Present(disk') \subseteq Temps(lower) \cup managed
  <2>1. CASE write
    <3>1. Present(disk') = Present(disk) \cup {id}
      <4>1. \A i \in Temporary : disk'[i] # Absent <=> disk[i] # Absent \/ i = id
        BY <1>7, <1>13, <2>1 DEF Absent
      <4> QED  BY <1>10, <2>1, <4>1 DEF Present
    <3> QED  BY <1>7, <1>8, <1>9, <2>1, <3>1
  <2>2. CASE ~write
    <3>1. Present(disk') = Present(disk)  BY <1>5, <2>2
    <3> QED  BY <1>7, <1>8, <2>2, <3>1
  <2> QED  BY <2>1, <2>2
<1>17. Plain(job')  BY <1>12, PlainJob
<1>18. CallFiles(disk', lower, upper, managed, job', careless)
  BY <1>7, <1>16, <1>17 DEF CallFiles, Plain
<1>19. UpperSize(disk', lower, upper, upperSize, job', careless)
  <2>1. PICK H \in SUBSET Ids : H = Held(lower, upper, job)  BY <1>7
  <2>2. H = Temps(lower) \cup Temps(upper)  BY <1>8, <2>1 DEF Held
  <2>3. Total(disk, H) = Total(disk', H) + job'.size
    <3>1. CASE write
      <4>1. id \in H  BY <1>7, <1>9, <2>2, <3>1
      <4>2. PICK X \in SUBSET Ids : X = H \ {id}  BY <2>1
      <4>3. Total(disk, H) = SizeOf(disk, id) + Total(disk, X)
        BY <1>7, <2>1, <4>1, <4>2, TotalTake
      <4>4. Total(disk', H) = SizeOf(disk', id) + Total(disk', X)
        BY <1>13, <2>1, <4>1, <4>2, TotalTake
      <4>5. Total(disk, X) = Total(disk', X)
        <5>1. \A i \in X : disk'[i] = disk[i]  BY <1>13, <4>2
        <5> QED  BY <1>7, <1>13, <5>1, TotalAlike
      <4>6. SizeOf(disk', id) = 0
        <5>1. disk'[id] = 0  BY <1>10, <1>13, <3>1
        <5> QED  BY <5>1 DEF SizeOf
      <4>7. Total(disk', X) \in Nat /\ SizeOf(disk, id) \in Nat
        BY <1>7, <1>10, <1>13, <3>1, TotalType, SizeOfType
      <4>8. job'.size = SizeOf(disk, id)  BY <1>11, <1>12, <3>1
      <4> QED  BY ONLY <4>3, <4>4, <4>5, <4>6, <4>7, <4>8
    <3>2. CASE ~write
      <4>1. disk' = disk /\ job'.size = 0  BY <1>5, <1>11, <1>12, <3>2
      <4>2. Total(disk, H) \in Nat  BY <1>7, TotalType
      <4> QED  BY <4>1, <4>2
    <3> QED  BY <3>1, <3>2
  <2>4. Covers(upperSize, Total(disk', H) + job'.size, careless)
    BY <1>7, <2>1, <2>3 DEF CallTotal
  <2> QED  BY <1>12, <2>2, <2>4, JobDone
<1>20. job'.op = job.op /\ job'.size \in Nat  BY <1>5, <1>11, <1>12
<1> QED
  BY <1>5, <1>6, <1>12, <1>13, <1>14, <1>15, <1>18, <1>19, <1>20, CallWork

LEMMA UseStreamStep ==
    ASSUME IInv, UseStream
    PROVE  IInv'
<1>1. /\ job.op \in {"write", "query", "close", "streams"} /\ job.stage = "background"
      /\ disk' = IF job.op = "write" THEN [disk EXCEPT ![job.file.id] = @ + 1] ELSE disk
      /\ job' = [job EXCEPT !.stage = "session"]
      /\ UNCHANGED <<drive, handles, lower, upper, lowerSize, upperSize, managed, open,
                     iterating, hashed, chain, interrupted, finish, tasks, careless>>
  BY DEF UseStream, OnBackground
<1>2. job.op \notin {"none", "hash"} /\ job.op # "open" /\ job.op # "remove"  BY <1>1
<1>3. /\ Running /\ upper # NoTree /\ disk \in Disks /\ job.size = 0
      /\ CallFiles(disk, lower, upper, managed, job, careless)
      /\ Temps(lower) \cup managed \subseteq Present(disk) \cup Pending(job)
      /\ ~careless => /\ Present(disk) \subseteq Temps(lower) \cup managed \cup Doomed(job)
                      /\ Temps(upper) \subseteq Temps(lower) \cup managed
      /\ Covers(upperSize, CallTotal(lower, upper, job) + (IF job.op = "write" THEN 1 ELSE 0), careless)
      /\ CallTotal(lower, upper, job) \in Nat
      /\ Held(lower, upper, job) \in SUBSET Ids /\ Held(lower, upper, job) \subseteq Temporary
      /\ managed \cap Files(lower) = {} /\ managed \subseteq Temps(upper)
      /\ Temporary \in SUBSET Ids /\ managed \in SUBSET Ids /\ TypeOK /\ job \in Jobs
  BY <1>1, <1>2, AtCallWork
<1>4. Plain(job)  BY <1>1, PlainJob
<1>5. /\ Temps(lower) \cup managed \subseteq Present(disk)
      /\ ~careless => Present(disk) \subseteq Temps(lower) \cup managed
  BY <1>3, <1>4 DEF Plain
<1>6. /\ job' \in Jobs /\ job'.op = job.op /\ job'.stage = "session" /\ job'.size = 0
      /\ job'.file = job.file
  <2>1. job.size \in Int /\ job.ok \in BOOLEAN  BY Basics DEF IInv
  <2> QED  BY <1>1, <1>3, <2>1, JobGoesOn
<1>7. Plain(job')  BY <1>1, <1>6, PlainJob
<1> DEFINE H == Temps(lower) \cup Temps(upper)
<1>10. /\ H \in SUBSET Ids /\ Total(disk, H) \in Nat
       /\ Covers(upperSize, Total(disk, H) + (IF job.op = "write" THEN 1 ELSE 0), careless)
  BY <1>3, <1>4 DEF Held, Plain, CallTotal
<1>8. CASE job.op # "write"
  <2>1. disk' = disk  BY <1>1, <1>8
  <2>2. CallFiles(disk', lower, upper, managed, job', careless)
    BY <1>3, <1>5, <1>7, <2>1 DEF CallFiles, Plain
  <2>3. UpperSize(disk', lower, upper, upperSize, job', careless)
    BY <1>6, <1>8, <1>10, <2>1, JobDone
  <2> QED  BY <1>1, <1>2, <1>3, <1>6, <2>1, <2>2, <2>3, CallWork
<1>9. CASE job.op = "write"
  <2>1. PICK id : id = job.file.id  OBVIOUS
  <2>2. id \in managed
    <3>1. job.file \in open /\ job.file.mode = "write"  BY <1>9 DEF IInv, Opened
    <3> QED  BY <2>1, <3>1 DEF IInv, Opened
  <2>3. id \in Temporary /\ id \in Ids /\ id \notin Files(lower) /\ id \notin Hashes
    BY <1>3, <2>2, Identifiers DEF Temps
  <2>4. disk[id] # Absent /\ disk[id] \in Nat
    <3>1. id \in Present(disk)  BY <1>5, <2>2
    <3>2. disk[id] # Absent  BY <3>1, PresentFiles
    <3> QED  BY <1>3, <2>3, <3>2, SizeOfType
  <2>5. PICK X \in SUBSET Ids : X = H \ {id}  BY <1>10
  <2>6. id \in H /\ Total(disk, H) = disk[id] + Total(disk, X)
    <3>1. SizeOf(disk, id) = disk[id]  BY <1>3, <2>3, <2>4, SizeOfType
    <3>2. id \in H  BY <1>3, <2>2
    <3> QED  BY <1>3, <1>10, <2>5, <3>1, <3>2, TotalTake
  <2>7. Covers(upperSize, Total(disk, H) + 1, careless)  BY <1>9, <1>10
  <2>8. Total(disk, X) \in Nat  BY <1>3, TotalType
  <2>9. upperSize \in 0..MaxSize /\ MaxSize \in Nat  BY <1>3, Identifiers DEF TypeOK
  <2>10. PICK new : new = disk[id] + 1  OBVIOUS
  <2>11. new \in 0..MaxSize /\ new # Absent
    BY ONLY <2>4, <2>6, <2>7, <2>8, <2>9, <2>10 DEF Absent, Covers
  <2>12. disk' = [disk EXCEPT ![id] = new]  BY <1>1, <1>9, <2>1, <2>10
  <2>13. disk' \in Disks /\ \A i \in Ids : disk'[i] = IF i = id THEN new ELSE disk[i]
    <3>1. new \in -1..MaxSize  BY <2>9, <2>11
    <3> QED  BY <1>3, <2>12, <3>1 DEF Disks
  <2>14. \A i \in Hashes : disk'[i] = disk[i]  BY <2>3, <2>13, Identifiers
  <2>15. \A i \in Temps(lower) : disk'[i] = disk[i]  BY <1>3, <2>3, <2>13 DEF Temps
  <2>16. Present(disk') = Present(disk)
    <3>1. \A i \in Temporary : disk'[i] # Absent <=> disk[i] # Absent
      BY <1>3, <2>4, <2>11, <2>13
    <3> QED  BY <3>1 DEF Present
  <2>17. CallFiles(disk', lower, upper, managed, job', careless)
    BY <1>3, <1>5, <1>7, <2>16 DEF CallFiles, Plain
  <2>18. UpperSize(disk', lower, upper, upperSize, job', careless)
    <3>1. Total(disk', H) = SizeOf(disk', id) + Total(disk', X)
      BY <1>10, <2>5, <2>6, <2>13, TotalTake
    <3>2. Total(disk, X) = Total(disk', X)
      <4>1. \A i \in X : disk'[i] = disk[i]  BY <2>5, <2>13
      <4> QED  BY <1>3, <2>13, <4>1, TotalAlike
    <3>3. SizeOf(disk', id) = new
      <4>1. disk'[id] = new  BY <2>3, <2>13
      <4> QED  BY <2>11, <4>1 DEF SizeOf
    <3>4. Total(disk', H) + 0 = Total(disk, H) + 1
      BY ONLY <2>4, <2>6, <2>8, <2>10, <3>1, <3>2, <3>3
    <3> QED  BY <1>6, <2>7, <3>4, JobDone
  <2> QED
    BY <1>1, <1>2, <1>6, <2>13, <2>14, <2>15, <2>17, <2>18, CallWork
<1> QED  BY <1>8, <1>9

LEMMA RemoveUnusedStep ==
    ASSUME IInv, RemoveUnusedFiles
    PROVE  IInv'
<1>1. PICK files : files = job.files  OBVIOUS
<1>2. PICK size : size = SizeOnDisk(files)  OBVIOUS
<1>3. /\ job.op = "remove" /\ job.stage = "background" /\ disk' = Without(files)
      /\ job' = [job EXCEPT !.stage = "session", !.size = size]
      /\ UNCHANGED <<drive, handles, lower, upper, lowerSize, upperSize, managed, open,
                     iterating, hashed, chain, interrupted, finish, tasks, careless>>
  BY <1>1, <1>2 DEF RemoveUnusedFiles, OnBackground
<1>4. job.op \notin {"none", "hash"} /\ job.op # "write"  BY <1>3
<1>5. /\ Running /\ upper # NoTree /\ disk \in Disks
      /\ CallFiles(disk, lower, upper, managed, job, careless)
      /\ Temps(lower) \cup managed \subseteq Present(disk) \cup Pending(job)
      /\ ~careless => /\ Present(disk) \subseteq Temps(lower) \cup managed \cup Doomed(job)
                      /\ Temps(upper) \subseteq Temps(lower) \cup managed
      /\ Covers(upperSize, CallTotal(lower, upper, job) + 0, careless)
      /\ CallTotal(lower, upper, job) \in Nat
      /\ Held(lower, upper, job) \in SUBSET Ids /\ Held(lower, upper, job) \subseteq Temporary
      /\ managed \cap Files(lower) = {} /\ managed \subseteq Temps(upper)
      /\ Temporary \in SUBSET Ids /\ managed \in SUBSET Ids /\ TypeOK /\ job \in Jobs
  BY <1>3, <1>4, AtCallWork
<1>6. Doomed(job) = files /\ Pending(job) = {}
  BY <1>1, <1>3 DEF Doomed, Pending, Writing
<1>7. files \subseteq Temporary /\ files \cap (Files(lower) \cup managed) = {}
  BY <1>5, <1>6 DEF CallFiles
<1>8. files \in SUBSET Ids /\ files \cap Hashes = {} /\ Temporary \cap files = files
  BY <1>7, Identifiers
<1>9. size = Total(disk, files) /\ size \in Nat
  <2>1. size = Total(disk, files)  BY <1>2, SizeIsTotal
  <2> QED  BY <1>5, <1>8, <2>1, TotalType
<1>10. /\ job' \in Jobs /\ job'.op = "remove" /\ job'.stage = "session" /\ job'.size = size
       /\ job'.file = job.file
  <2>1. size \in Int /\ job \in Jobs /\ job.op = "remove"  BY <1>3, <1>5, <1>9
  <2>2. job' = [job EXCEPT !.stage = "session", !.size = size]  BY <1>3
  <2> QED  BY ONLY <2>1, <2>2 DEF Jobs
<1>11. /\ disk' \in Disks
       /\ \A i \in Ids : disk'[i] = IF i \in files THEN Absent ELSE disk[i]
  BY <1>3, <1>5, WithoutFiles
<1>12. \A i \in Hashes : disk'[i] = disk[i]  BY <1>8, <1>11, Identifiers
<1>13. \A i \in Temps(lower) : disk'[i] = disk[i]
  BY <1>5, <1>7, <1>11 DEF Temps
<1>14. /\ Temps(lower) \cup managed \subseteq Present(disk')
       /\ ~careless => Present(disk') \subseteq Temps(lower) \cup managed
  <2>1. \A i \in Temporary : disk'[i] # Absent <=> disk[i] # Absent /\ i \notin files
    BY <1>5, <1>11
  <2>2. Present(disk') = Present(disk) \ files  BY <2>1 DEF Present
  <2> QED  BY <1>5, <1>6, <1>7, <2>2 DEF Temps
<1>15. Plain(job')  BY <1>10, PlainJob
<1>16. CallFiles(disk', lower, upper, managed, job', careless)
  BY <1>5, <1>14, <1>15 DEF CallFiles, Plain
<1>17. UpperSize(disk', lower, upper, upperSize, job', careless)
  <2>1. PICK H \in SUBSET Ids : H = Held(lower, upper, job)  BY <1>5
  <2>2. PICK G \in SUBSET Ids : G = Temps(lower) \cup Temps(upper)
    BY <1>5 DEF Held
  <2>3. H = G \cup files  BY <1>6, <2>1, <2>2 DEF Held
  <2>4. Total(disk, H) = Total(disk', H) + Total(disk, files)
    <3>1. \A i \in H : disk'[i] = IF i \in files THEN Absent ELSE disk[i]
      BY <1>11, <2>1
    <3>2. files \in SUBSET H /\ disk \in Disks /\ disk' \in Disks
      BY <1>5, <1>11, <2>3
    <3> QED  BY ONLY <2>1, <3>1, <3>2, TotalWithout
  <2>5. Total(disk', G) = Total(disk', H)
    <3>1. \A i \in files : disk'[i] = Absent  BY <1>8, <1>11
    <3>2. {i \in G : disk'[i] # Absent} = {i \in H : disk'[i] # Absent}  BY <2>3, <3>1
    <3> QED  BY <1>11, <3>2, TotalOfSame
  <2>6. Total(disk, H) \in Nat  BY <1>5, TotalType
  <2>7. Covers(upperSize, Total(disk', G) + job'.size, careless)
    BY <1>5, <1>9, <1>10, <2>1, <2>4, <2>5, <2>6 DEF CallTotal
  <2> QED  BY <1>10, <2>2, <2>7, JobDone
<1>18. job'.op = job.op /\ job'.size \in Nat  BY <1>3, <1>9, <1>10
<1> QED
  BY <1>3, <1>4, <1>10, <1>11, <1>12, <1>13, <1>16, <1>17, <1>18, CallWork

LEMMA EndSandboxStep ==
    ASSUME IInv, EndSandboxModifications
    PROVE  IInv'
<1>1. PICK valid \in BOOLEAN :
         LET ok    == job.ok /\ valid
             files == IF ok THEN AcceptedFiles ELSE managed
         IN  /\ disk' = Without(files)
             /\ job' = [job EXCEPT !.stage = "session", !.ok = ok, !.size = SizeOnDisk(files)]
  BY DEF EndSandboxModifications
<1>2. PICK ok \in BOOLEAN : ok = (job.ok /\ valid)  OBVIOUS
<1>3. PICK files : files = IF ok THEN AcceptedFiles ELSE managed  OBVIOUS
<1>4. PICK size : size = SizeOnDisk(files)  OBVIOUS
<1>5. /\ job.op = "apply" /\ job.stage = "background" /\ disk' = Without(files)
      /\ job' = [job EXCEPT !.stage = "session", !.ok = ok, !.size = size]
      /\ UNCHANGED <<drive, handles, lower, upper, lowerSize, upperSize, managed, open,
                     iterating, hashed, chain, interrupted, finish, tasks, careless>>
  BY <1>1, <1>2, <1>3, <1>4 DEF EndSandboxModifications, OnBackground
<1>6. job.op \notin {"none", "hash"} /\ job.op # "write"  BY <1>5
<1>7. /\ Running /\ upper # NoTree /\ ~hashed /\ disk \in Disks
      /\ CallFiles(disk, lower, upper, managed, job, careless)
      /\ Temps(lower) \cup managed \subseteq Present(disk) \cup Pending(job)
      /\ ~careless => /\ Present(disk) \subseteq Temps(lower) \cup managed \cup Doomed(job)
                      /\ Temps(upper) \subseteq Temps(lower) \cup managed
      /\ Covers(upperSize, CallTotal(lower, upper, job) + 0, careless)
      /\ CallTotal(lower, upper, job) \in Nat
      /\ Held(lower, upper, job) \in SUBSET Ids /\ Held(lower, upper, job) \subseteq Temporary
      /\ managed \cap Files(lower) = {} /\ managed \subseteq Temps(upper)
      /\ Temporary \in SUBSET Ids /\ managed \in SUBSET Ids /\ TypeOK /\ job \in Jobs
  BY <1>5, <1>6, AtCallWork
<1>8. /\ Plain(job) /\ Temps(lower) \cup managed \subseteq Present(disk)
      /\ ~careless => Present(disk) \subseteq Temps(lower) \cup managed
  <2>1. Plain(job)  BY <1>5, PlainJob
  <2> QED  BY <1>7, <2>1 DEF Plain
<1>9. ok => files = Temps(lower) \ Files(upper)
  <2>1. \A i \in (Files(lower) \cap Hashes) \ {0} : i \in handles
    BY <1>7 DEF IInv, HashFiles, Running
  <2>2. handles \subseteq Hashes /\ Files(lower) \subseteq Ids  BY <1>7, Basics DEF TypeOK
  <2> QED  BY <1>3, <2>1, <2>2, Identifiers DEF AcceptedFiles, Temps
<1>10. files \subseteq Temporary /\ files \in SUBSET Ids /\ Temporary \cap files = files
       /\ files \cap Hashes = {}
  <2>1. files \subseteq Temporary  BY <1>3, <1>7, <1>9 DEF Temps
  <2> QED  BY <2>1, Identifiers
<1>11. size = Total(disk, files) /\ size \in Nat
  <2>1. size = Total(disk, files)  BY <1>4, SizeIsTotal
  <2> QED  BY <1>7, <1>10, <2>1, TotalType
<1>12. /\ job' \in Jobs /\ job'.op = "apply" /\ job'.stage = "session" /\ job'.size = size
       /\ job'.ok = ok /\ job'.file = job.file
  <2>1. size \in Int /\ job \in Jobs /\ job.op = "apply"  BY <1>5, <1>7, <1>11
  <2>2. job' = [job EXCEPT !.stage = "session", !.ok = ok, !.size = size]  BY <1>5
  <2> QED  BY ONLY <2>1, <2>2, ok \in BOOLEAN DEF Jobs
<1>13. /\ disk' \in Disks
       /\ \A i \in Ids : disk'[i] = IF i \in files THEN Absent ELSE disk[i]
  BY <1>5, <1>7, WithoutFiles
<1>14. \A i \in Hashes : disk'[i] = disk[i]  BY <1>10, <1>13, Identifiers
<1>15. Applied(job') /\ Pending(job') = {} /\ Doomed(job') = {}
  BY <1>12 DEF Applied, Pending, Doomed, Writing
<1>16. \A i \in Temps(lower) : disk'[i] = disk[i] \/ (Applied(job') /\ job'.ok)
  <2>1. ASSUME ~ok, NEW i \in Temps(lower)  PROVE disk'[i] = disk[i]
    <3>1. i \in Ids /\ i \notin files  BY <1>3, <1>7, <2>1 DEF Temps
    <3> QED  BY <1>13, <3>1
  <2> QED  BY <1>12, <1>15, <2>1
<1>17. /\ (IF ok THEN Temps(upper) ELSE Temps(lower)) \subseteq Present(disk')
       /\ ~careless => Present(disk') \subseteq IF ok THEN Temps(upper) ELSE Temps(lower)
  <2>1. \A i \in Temporary : disk'[i] # Absent <=> disk[i] # Absent /\ i \notin files
    BY <1>7, <1>13
  <2>2. Present(disk') = Present(disk) \ files  BY <2>1 DEF Present
  <2>3. ok => Temps(upper) \subseteq Present(disk)
    <3>1. ok => \A i \in Files(upper) : disk[i] # Absent
      BY <1>2 DEF EndSandboxModifications
    <3> QED  BY <3>1 DEF Temps, Present
  <2>4. CASE ok
    BY <1>7, <1>8, <1>9, <2>2, <2>3, <2>4 DEF Temps
  <2>5. CASE ~ok  BY <1>3, <1>7, <1>8, <2>2, <2>5 DEF Temps
  <2> QED  BY <2>4, <2>5
<1>18. CallFiles(disk', lower, upper, managed, job', careless)
  BY <1>7, <1>12, <1>15, <1>17 DEF CallFiles
<1>19. UpperSize(disk', lower, upper, upperSize, job', careless)
  <2>1. PICK H \in SUBSET Ids : H = Held(lower, upper, job)  BY <1>7
  <2>2. H = Temps(lower) \cup Temps(upper)  BY <1>8, <2>1 DEF Held, Plain
  <2>3. Total(disk, H) = Total(disk', H) + Total(disk, files)
    <3>1. \A i \in H : disk'[i] = IF i \in files THEN Absent ELSE disk[i]
      BY <1>13, <2>1
    <3>2. files \in SUBSET H
      BY <1>3, <1>7, <1>9, <2>2
    <3> QED  BY <1>7, <1>13, <2>1, <3>1, <3>2, TotalWithout
  <2>4. Covers(upperSize, Total(disk', H) + job'.size, careless)
    <3>1. Total(disk, H) \in Nat  BY <1>7, TotalType
    <3> QED  BY <1>7, <1>11, <1>12, <2>1, <2>3, <3>1 DEF CallTotal
  <2> QED  BY <1>12, <2>2, <2>4, JobDone
<1>20. job'.op = job.op /\ job'.size \in Nat /\ job'.op \in {"open", "remove", "apply"}
  BY <1>5, <1>11, <1>12
<1> QED
  BY <1>5, <1>6, <1>12, <1>13, <1>14, <1>16, <1>18, <1>19, <1>20, CallWork

LEMMA AppliedSandboxStep ==
    ASSUME IInv, OnAppliedSandboxModifications
    PROVE  IInv'
<1>1. PICK size : size = upperSize - job.size  OBVIOUS
<1>2. /\ job.op = "apply" /\ job.stage = "session" /\ ~interrupted
      /\ job.ok => lower' = upper /\ lowerSize' = size /\ upperSize' = size
      /\ ~job.ok => UNCHANGED <<lower, lowerSize>> /\ upperSize' = 0
      /\ upper' = NoTree /\ managed' = {} /\ job' = NoJob
      /\ UNCHANGED <<drive, handles, disk, open, iterating, hashed, chain, interrupted,
                     finish, tasks, careless>>
  BY <1>1 DEF OnAppliedSandboxModifications, OnSession
<1>3. /\ Running /\ chain = "none" /\ upper # NoTree /\ lower # NoTree /\ ~hashed /\ TypeOK
      /\ job.size \in Nat
  BY <1>2 DEF IInv, Stages
<1>4. upper \in Trees /\ lower \in Trees /\ open = {} /\ disk \in Disks
  BY <1>2, <1>3, Basics DEF IInv, TypeOK, Opened
<1>5. CallFiles(disk, lower, upper, managed, job, careless) /\ UpperSize(disk, lower, upper, upperSize, job, careless)
  BY <1>3 DEF IInv
<1>6. Applied(job) /\ Due(job) = job.size  BY <1>2 DEF Applied, Due
<1>7. /\ Temps(lower') \subseteq Present(disk)
      /\ ~careless => Present(disk) \subseteq Temps(lower')
  BY <1>2, <1>5, <1>6 DEF CallFiles
<1>8. /\ size \in 0..MaxSize
      /\ job.ok => Covers(size, Total(disk, Temps(lower')), careless)
  <2>1. PICK H \in SUBSET Ids : H = Held(lower, upper, job)  BY <1>5, HeldFiles
  <2>2. Covers(upperSize, Total(disk, H) + job.size, careless)
    BY <1>5, <1>6, <2>1 DEF UpperSize
  <2>3. Total(disk, H) \in Nat  BY <1>4, TotalType
  <2>4. upperSize \in 0..MaxSize /\ MaxSize \in Nat  BY <1>3, Identifiers DEF TypeOK
  <2>5. size \in 0..MaxSize /\ Covers(size, Total(disk, H), careless)
    BY ONLY <1>1, <1>3, <2>2, <2>3, <2>4 DEF Covers
  <2>6. ASSUME job.ok  PROVE Covers(size, Total(disk, Temps(lower')), careless)
    <3>1. PICK X \in SUBSET Ids : X = Temps(lower')
      <4>1. Temporary \in SUBSET Ids  BY <1>3, Basics
      <4> QED  BY <4>1 DEF Temps
    <3>2. X \subseteq H  BY <1>2, <2>1, <2>6, <3>1 DEF Held
    <3>3. Total(disk, X) <= Total(disk, H) /\ Total(disk, X) \in Nat
      BY <1>4, <2>1, <3>1, <3>2, TotalMonotone
    <3>4. ASSUME ~careless  PROVE Total(disk, H) <= Total(disk, X)
      <4>1. H \subseteq Temporary  BY <1>5, <2>1, HeldFiles
      <4>2. {i \in H : disk[i] # Absent} \subseteq X
        BY <1>7, <3>1, <3>4, <4>1, PresentFiles
      <4> QED  BY <1>4, <2>1, <3>1, <4>2, TotalMonotone
    <3> QED  BY <2>3, <2>5, <3>1, <3>3, <3>4 DEF Covers
  <2> QED  BY <2>5, <2>6
<1>9. lower' \in Trees /\ lower' # NoTree  BY <1>2, <1>3, <1>4
<1>10. lowerSize' \in 0..MaxSize /\ upperSize' \in 0..MaxSize
  <2>1. 0 \in 0..MaxSize  BY Identifiers
  <2> QED  BY <1>2, <1>3, <1>8, <2>1 DEF TypeOK
<1>11. TypeOK'  BY <1>2, <1>3, <1>9, <1>10, NoJobFields DEF TypeOK
<1>12. Stages'  BY <1>2, <1>3, <1>9, NoJobFields DEF IInv, Stages, Running
<1>13. Torrents(drive, handles, disk, lower, chain)'  BY <1>2, <1>3 DEF IInv, Torrents
<1>14. HashFiles(drive, handles, disk, lower, upper, hashed, finish)'
  <2>1. HashFiles(drive, handles, disk, lower, upper, hashed, finish)  BY DEF IInv
  <2>2. \A i \in (Files(lower') \cap Hashes) \ {0} : i \in handles
    BY <1>2, <1>3, <2>1 DEF HashFiles, Running
  <2> QED  BY <1>2, <1>3, <2>1, <2>2, NoFiles DEF HashFiles
<1>15. TempFiles(disk, lower, upper, hashed, chain, finish, careless)'
  <2>1. OneName(lower')  BY <1>2, <1>3 DEF IInv, TempFiles, Running
  <2>2. OneName(NoTree)  BY DEF OneName, NoTree
  <2>3. finish = "running"  BY <1>3 DEF Running
  <2> QED  BY <1>2, <1>3, <1>7, <2>1, <2>2, <2>3 DEF TempFiles
<1>16. Opened(upper, managed, open, job, finish)'
  BY <1>2, <1>4, NoJobFields DEF Opened
<1>17. LowerSize(disk, lower, lowerSize, careless)'
  <2>1. CASE job.ok  BY <1>2, <1>8, <2>1 DEF LowerSize
  <2>2. CASE ~job.ok
    <3>1. LowerSize(disk, lower, lowerSize, careless)  BY <1>3, <2>2 DEF IInv
    <3> QED  BY <1>2, <2>2, <3>1 DEF LowerSize
  <2> QED  BY <2>1, <2>2
<1> QED
  BY <1>2, <1>3, <1>11, <1>12, <1>13, <1>14, <1>15, <1>16, <1>17, NoJobFields DEF IInv

------------------------------------------------------------------------------
(* The theorems *)

LEMMA Initially ==
    ASSUME Init
    PROVE  IInv
<1>1. /\ drive \in [Names -> Hashes \cup {Absent}] /\ handles = Files(drive) \ {0}
      /\ disk = [i \in Ids |-> IF i \in handles \cup {0} THEN i ELSE Absent]
      /\ lower = NoTree /\ upper = NoTree /\ lowerSize = 0 /\ upperSize = 0
      /\ managed = {} /\ open = {} /\ iterating = FALSE /\ job = NoJob /\ hashed = FALSE
      /\ chain = "none" /\ interrupted = FALSE /\ finish = "over" /\ tasks = 0
      /\ careless = FALSE
  BY DEF Init
<1>2. drive \in Trees
  BY <1>1, Identifiers DEF Trees
<1>3. handles \subseteq Hashes \ {0}
  <2>1. \A i \in Files(drive) : i \in Hashes
    BY <1>1, <1>2, TreeType, Identifiers
  <2> QED  BY <1>1, <2>1
<1>4. /\ disk \in Disks
      /\ \A i \in Ids : disk[i] = IF i \in handles \cup {0} THEN i ELSE Absent
  <2>1. \A i \in handles \cup {0} : i \in -1..MaxSize  BY <1>3, Identifiers
  <2>2. Absent \in -1..MaxSize  BY Identifiers DEF Absent
  <2> QED  BY <1>1, <2>1, <2>2 DEF Disks
<1>5. 0 \in 0..MaxSize /\ 0 \in 0..MaxTasks
  BY Identifiers, ManualModificationsAssumption
<1>6. TypeOK
  BY <1>1, <1>2, <1>3, <1>4, <1>5, NoJobFields, DiskIsTyped DEF TypeOK
<1>7. Stages  BY <1>1, NoJobFields DEF Stages, Running
<1>8. Torrents(drive, handles, disk, lower, chain)  BY <1>1 DEF Torrents
<1>9. HashFiles(drive, handles, disk, lower, upper, hashed, finish)
  <2>1. \A i \in handles : disk[i] = i  BY <1>3, <1>4, Identifiers
  <2>2. \A i \in Hashes \ {0} : disk[i] # Absent => disk[i] = i /\ i \in handles
    BY <1>4, Identifiers
  <2> QED  BY <1>1, <2>1, <2>2 DEF HashFiles
<1>10. Present(disk) = {}
  <2>1. \A i \in Temporary : disk[i] = Absent  BY <1>3, <1>4, Identifiers
  <2> QED  BY <2>1 DEF Present
<1>11. TempFiles(disk, lower, upper, hashed, chain, finish, careless)  BY <1>1, <1>10 DEF TempFiles
<1>12. Opened(upper, managed, open, job, finish)  BY <1>1, NoJobFields DEF Opened
<1> QED
  BY <1>1, <1>6, <1>7, <1>8, <1>9, <1>11, <1>12, NoJobFields DEF IInv, Running

LEMMA Stutter ==
    ASSUME IInv, UNCHANGED vars
    PROVE  IInv'
<1>1. UNCHANGED <<drive, handles, disk, lower, upper, lowerSize, upperSize, managed, open,
                  iterating, job, hashed, chain, interrupted, finish, tasks, careless>>
  BY DEF vars, task
<1>2. TypeOK'  BY <1>1 DEF IInv, TypeOK
<1>3. Stages'  BY <1>1 DEF IInv, Stages, Running
<1> QED  BY <1>1, <1>2, <1>3 DEF IInv, Running

LEMMA Inductive ==
    ASSUME IInv, [Next]_vars
    PROVE  IInv'
<1>1. CASE Request
  <2>1. CASE InitiateSandboxModifications  BY <2>1, InitiateStep
  <2>2. CASE Query  BY <2>2, QueryStep
  <2>3. CASE FolderIteratorCreate \/ FolderIteratorDestroy  BY <2>3, FolderIteratorStep
  <2>4. ASSUME NEW n \in Names, OpenToRead(n)  PROVE IInv'  BY <2>4, OpenToReadStep
  <2>5. ASSUME NEW n \in Names, OpenToWrite(n)  PROVE IInv'  BY <2>5, OpenToWriteStep
  <2>6. ASSUME NEW n \in Names, RemoveFsTreeEntry(n)  PROVE IInv'  BY <2>6, RemoveStep
  <2>7. ASSUME NEW n \in Names, NEW dst \in Names, MoveFsTreeEntry(n, dst)  PROVE IInv'
    BY <2>7, MoveStep
  <2>8. ASSUME NEW o \in open, WriteFile(o)  PROVE IInv'  BY <2>8, WriteFileStep
  <2>9. ASSUME NEW o \in open, CloseFile(o)  PROVE IInv'  BY <2>9, CloseFileStep
  <2>10. ASSUME NEW success \in BOOLEAN, ApplySandboxModifications(success)  PROVE IInv'
    BY <2>10, ApplySandboxStep
  <2>11. ASSUME NEW success \in BOOLEAN, ApplyStorageModifications(success)  PROVE IInv'
    BY <2>11, ApplyStorageStep
  <2>12. CASE EvaluateStorageHash  BY <2>12, EvaluateStorageHashStep
  <2> QED
    BY <1>1, <2>1, <2>2, <2>3, <2>4, <2>5, <2>6, <2>7, <2>8, <2>9, <2>10, <2>11, <2>12
       DEF Request
<1>2. CASE Background
  BY <1>2, CreateStreamStep, UseStreamStep, RemoveUnusedStep, EndSandboxStep, ComputeHashStep,
     AddNewTorrentsStep, TorrentsDeletedStep, ClearTrashStep, ClearSandboxStep DEF Background
<1>3. CASE Session
  BY <1>3, InterruptedStep, AnswerStep, StreamsClosedStep, AppliedSandboxStep,
     AppliedStorageStep, CloseFilesStep, TaskIsFinishedStep DEF Session
<1>4. CASE Terminate  BY <1>4, TerminateStep
<1>5. CASE Run  BY <1>5, RunStep
<1>6. CASE UNCHANGED vars  BY <1>6, Stutter
<1> QED  BY <1>1, <1>2, <1>3, <1>4, <1>5, <1>6 DEF Next

LEMMA AlwaysGood == Spec => []IInv
<1>1. Init => IInv  BY Initially
<1>2. IInv /\ [Next]_vars => IInv'  BY Inductive
<1> QED  BY <1>1, <1>2, PTL DEF Spec

LEMMA GoodFilesStay ==
    ASSUME IInv
    PROVE  FilesStay
<1>1. HashFiles(drive, handles, disk, lower, upper, hashed, finish)  BY DEF IInv
<1>2. DriveFilesStay
  <2> SUFFICES ASSUME NEW i \in Files(drive) \ {0}  PROVE disk[i] = i
    BY DEF DriveFilesStay
  <2>1. i \in handles  BY DEF IInv, Torrents
  <2> QED  BY <1>1, <2>1 DEF HashFiles
<1>3. SandboxFilesExist
  <2> SUFFICES ASSUME finish = "running", job.op = "none",
                      NEW i \in (Files(lower) \cup Files(upper)) \ {0},
                      i \in Files(lower) \/ ~careless
               PROVE  disk[i] # Absent
    BY DEF SandboxFilesExist
  <2>1. Running /\ TypeOK  BY DEF IInv, Running
  <2>2. i \in Ids /\ i # Absent  BY <2>1, Basics, Identifiers
  <2>3. CASE i \in Hashes
    <3>1. i \in handles \/ disk[i] = i  BY <1>1, <2>3 DEF HashFiles
    <3> QED  BY <1>1, <2>2, <3>1 DEF HashFiles
  <2>4. CASE i \in Temporary
    <3>1. i \in Present(disk)
      <4>1. CASE upper = NoTree
        <5>1. i \in Temps(lower)  BY <2>4, <4>1, NoFiles DEF Temps
        <5> QED  BY <4>1, <5>1 DEF IInv, TempFiles
      <4>2. CASE upper # NoTree
        <5>1. CallFiles(disk, lower, upper, managed, job, careless)  BY <2>1, <4>2 DEF IInv
        <5>2. Plain(job)  BY PlainJob
        <5> QED  BY <2>4, <5>1, <5>2 DEF CallFiles, Plain, Temps
      <4> QED  BY <4>1, <4>2
    <3> QED  BY <3>1, PresentFiles
  <2> QED  BY <2>2, <2>3, <2>4, Identifiers
<1> QED  BY <1>2, <1>3 DEF FilesStay

\* Whatever the calls do, and whenever the task is terminated, also while the
\* storage is applied, the files of the drive stay as they are, and between two
\* queries all files of the lower sandbox are there, and of the upper one unless
\* the executor moved a file onto itself: obtainUnusedFiles,
\* acceptUpperSandboxModifications and clearTrash never remove a file in use.
THEOREM FilesStayTheorem == Spec => []FilesStay
<1>1. IInv => FilesStay  BY GoodFilesStay
<1>2. Spec => []IInv  BY AlwaysGood
<1> QED  BY <1>1, <1>2, PTL

LEMMA GoodSizes ==
    ASSUME IInv
    PROVE  SizesAreExact
<1> DEFINE size == IF upper = NoTree THEN lowerSize ELSE upperSize
           F == (Files(lower) \cup Files(upper)) \cap Temporary
           X == Ids \ (handles \cup {0})
<1> SUFFICES ASSUME finish = "running", job.op = "none", ~hashed
             PROVE  /\ SizeOnDisk(F) <= size
                    /\ ~careless => size = SizeOnDisk(X)
  BY DEF SizesAreExact
<1>1. Running /\ TypeOK /\ disk \in Disks /\ Temporary \in SUBSET Ids /\ job = NoJob
  BY Basics DEF IInv, Running, Stages
<1>2. SizeOnDisk(F) = Total(disk, F) /\ SizeOnDisk(X) = Total(disk, X)  BY SizeIsTotal
<1>3. F = Temps(lower) \cup Temps(upper) /\ F \in SUBSET Ids  BY <1>1 DEF Temps
<1>4. Covers(size, Total(disk, F), careless)
  <2>1. CASE upper # NoTree
    <3>1. UpperSize(disk, lower, upper, upperSize, job, careless)  BY <1>1, <2>1 DEF IInv
    <3>2. Due(job) = 0  BY <1>1, NoJobFields DEF Due
    <3>3. Held(lower, upper, job) = F
      <4>1. Plain(job)  BY <1>1, NoJobFields, PlainJob
      <4> QED  BY <1>3, <4>1 DEF Held, Plain
    <3>4. Total(disk, F) \in Nat  BY <1>1, <1>3, TotalType
    <3> QED  BY <2>1, <3>1, <3>2, <3>3, <3>4 DEF UpperSize
  <2>2. CASE upper = NoTree
    <3>1. ~Applied(job)  BY DEF Applied
    <3>2. LowerSize(disk, lower, lowerSize, careless)  BY <1>1, <3>1 DEF IInv
    <3>3. F = Temps(lower)  BY <1>3, <2>2, NoFiles DEF Temps
    <3> QED  BY <2>2, <3>2, <3>3 DEF LowerSize
  <2> QED  BY <2>1, <2>2
<1>5. ASSUME ~careless  PROVE Total(disk, X) = Total(disk, F)
  <2>1. \A i \in Ids : i \in X /\ disk[i] # Absent => i \in Present(disk)
    <3>1. \A i \in Hashes \ {0} : disk[i] # Absent => i \in handles  BY DEF IInv, HashFiles
    <3> QED  BY <3>1, PresentFiles, Identifiers
  <2>2. Present(disk) \subseteq F
    <3>1. CASE upper # NoTree
      <4>1. CallFiles(disk, lower, upper, managed, job, careless)  BY <1>1, <3>1 DEF IInv
      <4>2. Plain(job)  BY PlainJob
      <4> QED  BY <1>3, <1>5, <4>1, <4>2 DEF CallFiles, Plain
    <3>2. CASE upper = NoTree  BY <1>3, <1>5, <3>2 DEF IInv, TempFiles
    <3> QED  BY <3>1, <3>2
  <2>3. F \subseteq X
    <3>1. handles \subseteq Hashes  BY <1>1 DEF TypeOK
    <3> QED  BY <1>3, <3>1, Identifiers DEF Temps
  <2>4. X \in SUBSET Ids  OBVIOUS
  <2>5. {i \in X : disk[i] # Absent} = {i \in F : disk[i] # Absent}
    BY <2>1, <2>2, <2>3, <2>4
  <2> HIDE DEF X, F
  <2> QED  BY <1>1, <1>3, <2>4, <2>5, TotalOfSame
<1> HIDE DEF size, X, F
<1> QED  BY <1>2, <1>4, <1>5 DEF Covers

\* The sizes by which writeFile limits what a call may write never fall short of
\* the files that were written, also after a call was discarded, and are exact as
\* long as the executor moves no file onto itself and none that is not there.
THEOREM SizesAreExactTheorem == Spec => []SizesAreExact
<1>1. IInv => SizesAreExact  BY GoodSizes
<1>2. Spec => []IInv  BY AlwaysGood
<1> QED  BY <1>1, <1>2, PTL

LEMMA GoodEnd ==
    ASSUME IInv
    PROVE  NothingIsLeft
<1>1. TypeOK  BY DEF IInv
<1>2. Files(drive) \ {0} \subseteq handles  BY DEF IInv, Torrents
<1>3. ASSUME finish = "over", NEW i \in Ids, disk[i] # Absent
      PROVE  i \in handles \cup {0} \/ (careless /\ i \in Temporary)
  <2>1. CASE i \in Temporary
    <3>1. ~careless => Present(disk) = {}  BY <1>3 DEF IInv, TempFiles
    <3> QED  BY <1>3, <2>1, <3>1, PresentFiles
  <2>2. CASE i \in Hashes  BY <1>3, <2>2 DEF IInv, HashFiles
  <2> QED  BY <2>1, <2>2, Identifiers
<1> QED  BY <1>1, <1>2, <1>3 DEF NothingIsLeft

\* However a task ends, applied, refused or terminated at any moment, finishTask
\* leaves no file without a torrent but those of careless moves of the executor.
THEOREM NothingIsLeftTheorem == Spec => []NothingIsLeft
<1>1. IInv => NothingIsLeft  BY GoodEnd
<1>2. Spec => []IInv  BY AlwaysGood
<1> QED  BY <1>1, <1>2, PTL

------------------------------------------------------------------------------
(* The sandboxes implement the abstract storage: what it has, as a function  *)
(* of the trees, the disk and the stage, and its steps.                      *)

ContentOn(tree, d) ==
    [n \in Names |-> CASE tree[n] = Absent -> Absent
                       [] tree[n] = 0 -> 0
                       [] OTHER -> d[tree[n]]]

Committed(dr, lo, d, ch) == ContentOn(IF ch = "swap" THEN lo ELSE dr, d)

\* There is a batch until it is taken over or dropped.
Live(lo, ch, fi) == lo # NoTree /\ ch # "swap" /\ (fi = "running" \/ ch # "none")

Batch(lo, up, d, j, ch, fi) ==
    IF ~Live(lo, ch, fi) THEN NoTree
    ELSE ContentOn(IF Applied(j) /\ j.ok THEN up ELSE lo, d)

Call(lo, up, d, j, ch, fi) ==
    IF ~Live(lo, ch, fi) \/ up = NoTree \/ Applied(j) THEN NoTree
    ELSE ContentOn(up, d)

AllContents == [Names -> -1..MaxSize]

StorageStep(c, b, l, c2, b2, l2) ==
    \/ c2 = c /\ b2 = b /\ l2 = l
    \/ b = NoTree /\ l = NoTree /\ b2 = c /\ c2 = c /\ l2 = l
    \/ b # NoTree /\ l = NoTree /\ l2 = b /\ c2 = c /\ b2 = b
    \/ l # NoTree /\ l2 \in AllContents /\ c2 = c /\ b2 = b
    \/ l # NoTree /\ b2 \in {l, b} /\ l2 = NoTree /\ c2 = c
    \/ b # NoTree /\ l = NoTree /\ c2 = b /\ b2 = NoTree /\ l2 = l
    \/ b # NoTree /\ b2 = NoTree /\ l2 = NoTree /\ c2 = c

Mapped ==
    StorageStep(Committed(drive, lower, disk, chain),
                Batch(lower, upper, disk, job, chain, finish),
                Call(lower, upper, disk, job, chain, finish),
                Committed(drive', lower', disk', chain'),
                Batch(lower', upper', disk', job', chain', finish'),
                Call(lower', upper', disk', job', chain', finish'))

LEMMA ContentType ==
    ASSUME NEW tree \in Trees, NEW d \in Disks
    PROVE  ContentOn(tree, d) \in AllContents /\ ContentOn(tree, d) # NoTree
<1>1. \A n \in Names : tree[n] = Absent \/ tree[n] \in Ids  BY DEF Trees
<1>2. \A i \in Ids : d[i] \in -1..MaxSize  BY DEF Disks
<1>3. Absent \in -1..MaxSize /\ 0 \in -1..MaxSize  BY Identifiers DEF Absent
<1>4. ContentOn(tree, d) \in AllContents  BY <1>1, <1>2, <1>3 DEF ContentOn, AllContents
<1>5. DOMAIN ContentOn(tree, d) = Names  BY DEF ContentOn
<1>6. DOMAIN NoTree = {} /\ Names # {}  BY ManualModificationsAssumption DEF NoTree
<1> QED  BY <1>4, <1>5, <1>6

\* The content of a tree is that of its files.
LEMMA ContentAlike ==
    ASSUME NEW tree \in Trees, NEW d, NEW e, \A i \in Files(tree) \ {0} : e[i] = d[i]
    PROVE  ContentOn(tree, e) = ContentOn(tree, d)
<1>1. \A n \in Names : tree[n] = Absent \/ tree[n] = 0 \/ tree[n] \in Files(tree) \ {0}
  BY TreeType
<1>2. \A n \in Names : tree[n] # Absent /\ tree[n] # 0 => e[tree[n]] = d[tree[n]]
  BY <1>1
<1> QED  BY <1>2 DEF ContentOn

\* What the abstract storage has while a call runs ...
LEMMA CallRuns ==
    ASSUME NEW lo \in Trees, NEW up \in Trees, NEW d \in Disks, NEW j, NEW ch, NEW fi,
           fi = "running", ch # "swap", ~Applied(j)
    PROVE  /\ Batch(lo, up, d, j, ch, fi) = ContentOn(lo, d) /\ ContentOn(lo, d) # NoTree
           /\ Call(lo, up, d, j, ch, fi) = ContentOn(up, d) /\ ContentOn(up, d) # NoTree
           /\ ContentOn(up, d) \in AllContents
<1>1. lo # NoTree /\ up # NoTree  BY TreeType
<1>2. /\ ContentOn(lo, d) # NoTree /\ ContentOn(up, d) # NoTree
      /\ ContentOn(up, d) \in AllContents
  BY ContentType
<1> QED  BY <1>1, <1>2 DEF Batch, Call, Live

\* ... when a call is over ...
LEMMA CallOver ==
    ASSUME NEW lo \in Trees, NEW up, NEW d \in Disks, NEW j, NEW ch, NEW fi,
           fi = "running", ch # "swap", Applied(j), up \in Trees
    PROVE  /\ Call(lo, up, d, j, ch, fi) = NoTree
           /\ Batch(lo, up, d, j, ch, fi) = IF j.ok THEN ContentOn(up, d) ELSE ContentOn(lo, d)
           /\ Batch(lo, up, d, j, ch, fi) # NoTree
<1>1. lo # NoTree  BY TreeType
<1>2. ContentOn(lo, d) # NoTree /\ ContentOn(up, d) # NoTree  BY ContentType
<1> QED  BY <1>1, <1>2 DEF Batch, Call, Live

\* ... between two calls ...
LEMMA BetweenTwoCalls ==
    ASSUME NEW lo \in Trees, NEW d \in Disks, NEW j, NEW ch, NEW fi,
           fi = "running" \/ ch # "none", ch # "swap", ~Applied(j)
    PROVE  /\ Call(lo, NoTree, d, j, ch, fi) = NoTree
           /\ Batch(lo, NoTree, d, j, ch, fi) = ContentOn(lo, d) /\ ContentOn(lo, d) # NoTree
<1>1. lo # NoTree  BY TreeType
<1>2. ContentOn(lo, d) # NoTree  BY ContentType
<1> QED  BY <1>1, <1>2 DEF Batch, Call, Live

\* ... and when there is no batch.
LEMMA NoBatch ==
    ASSUME NEW lo, NEW up, NEW d, NEW j, NEW ch, NEW fi,
           (fi # "running" /\ ch = "none") \/ ch = "swap" \/ lo = NoTree
    PROVE  Batch(lo, up, d, j, ch, fi) = NoTree /\ Call(lo, up, d, j, ch, fi) = NoTree
BY DEF Batch, Call, Live

\* The drive is the same as long as its files are.
LEMMA DriveAlike ==
    ASSUME IInv, chain # "swap", chain' # "swap", drive' = drive,
           \A i \in handles : disk'[i] = disk[i]
    PROVE  Committed(drive', lower', disk', chain') = Committed(drive, lower, disk, chain)
<1>1. Files(drive) \ {0} \subseteq handles  BY DEF IInv, Torrents
<1>2. drive \in Trees  BY DEF IInv, TypeOK
<1>3. ContentOn(drive, disk') = ContentOn(drive, disk)  BY <1>1, <1>2, ContentAlike
<1> QED  BY <1>3 DEF Committed

LEMMA NothingChanged ==
    ASSUME UNCHANGED <<drive, disk, lower, upper, chain, finish>>,
           job' = job \/ (~Applied(job) /\ ~Applied(job'))
    PROVE  Mapped
<1>1. Committed(drive', lower', disk', chain') = Committed(drive, lower, disk, chain)
  OBVIOUS
<1>2. /\ Batch(lower', upper', disk', job', chain', finish')
           = Batch(lower, upper, disk, job, chain, finish)
      /\ Call(lower', upper', disk', job', chain', finish')
           = Call(lower, upper, disk, job, chain, finish)
  BY DEF Batch, Call
<1> QED  BY <1>1, <1>2 DEF Mapped, StorageStep

\* A request that only makes a job.
LEMMA JobMade ==
    ASSUME IInv, NEW op, NEW file, NEW files, NEW ok, IsJob(job', op, file, files, ok),
           job = NoJob \/ job.op = "streams",
           UNCHANGED <<drive, disk, lower, upper, chain, finish>>
    PROVE  Mapped
<1>1. ~Applied(job) /\ ~Applied(job')  BY NoJobFields DEF Applied, IsJob
<1> QED  BY <1>1, NothingChanged

LEMMA QueryMapped ==
    ASSUME IInv, Query \/ EvaluateStorageHash
    PROVE  Mapped
<1>1. PICK op \in Operations : job' = Job(op)
  BY DEF Query, EvaluateStorageHash, Operations
<1>2. IsJob(job', op, NoTree, {}, TRUE)  BY <1>1, JobsMade
<1>3. job = NoJob
  BY DEF Query, EvaluateStorageHash, InCall, BetweenCalls, Accepts, IInv, Stages
<1>4. UNCHANGED <<drive, disk, lower, upper, chain, finish>>
  BY DEF Query, EvaluateStorageHash
<1> QED  BY <1>2, <1>3, <1>4, JobMade

LEMMA IteratorMapped ==
    ASSUME FolderIteratorCreate \/ FolderIteratorDestroy
    PROVE  Mapped
<1>1. UNCHANGED <<drive, disk, lower, upper, chain, finish, job>>
  BY DEF FolderIteratorCreate, FolderIteratorDestroy
<1> QED  BY <1>1, NothingChanged

\* A request for a file.
LEMMA FileMapped ==
    ASSUME IInv, InCall, NEW op \in Operations, NEW file \in OpenFiles,
           job' = [Job(op) EXCEPT !.file = file],
           UNCHANGED <<drive, disk, lower, upper, chain, finish>>
    PROVE  Mapped
<1>1. IsJob(job', op, file, {}, TRUE)  BY JobsMade
<1>2. job = NoJob  BY AtCall
<1> QED  BY <1>1, <1>2, JobMade

LEMMA OpenToReadMapped ==
    ASSUME IInv, NEW n \in Names, OpenToRead(n)
    PROVE  Mapped
<1>1. PICK op \in Operations : op = "open"  BY DEF Operations
<1>2. upper[n] \in Ids
  <2>1. upper \in Trees  BY AtCall DEF OpenToRead
  <2> QED  BY <2>1, TreeType DEF OpenToRead
<1>3. PICK file \in OpenFiles : file = [name |-> n, id |-> upper[n], mode |-> "read"]
  BY <1>2, OpenFileMade
<1> QED  BY <1>1, <1>3, FileMapped DEF OpenToRead

LEMMA OpenFilesMapped ==
    ASSUME IInv, NEW o \in open, WriteFile(o) \/ CloseFile(o)
    PROVE  Mapped
<1>1. o \in OpenFiles  BY DEF IInv, TypeOK
<1>2. PICK op \in Operations : job' = [Job(op) EXCEPT !.file = o]
  BY DEF Operations, WriteFile, CloseFile
<1>3. InCall /\ UNCHANGED <<drive, disk, lower, upper, chain, finish>>
  BY DEF WriteFile, CloseFile
<1> QED  BY <1>1, <1>2, <1>3, FileMapped

LEMMA ApplySandboxMapped ==
    ASSUME IInv, NEW success \in BOOLEAN, ApplySandboxModifications(success)
    PROVE  Mapped
<1>1. PICK op \in Operations : op = "streams"  BY DEF Operations
<1>2. IsJob(job', op, NoTree, {}, success)  BY <1>1, JobsMade DEF ApplySandboxModifications
<1>3. job = NoJob  BY AtCall DEF ApplySandboxModifications
<1>4. UNCHANGED <<drive, disk, lower, upper, chain, finish>>  BY DEF ApplySandboxModifications
<1> QED  BY <1>2, <1>3, <1>4, JobMade

LEMMA StreamsClosedMapped ==
    ASSUME IInv, OnSandboxModificationStreamsClosed
    PROVE  Mapped
<1>1. PICK op \in Operations : op = "apply"  BY DEF Operations
<1>2. job.ok \in BOOLEAN  BY Basics DEF IInv
<1>3. IsJob(job', op, NoTree, {}, job.ok)
  BY <1>1, <1>2, JobsMade DEF OnSandboxModificationStreamsClosed
<1>4. job.op = "streams" /\ UNCHANGED <<drive, disk, lower, upper, chain, finish>>
  BY DEF OnSandboxModificationStreamsClosed, OnSession
<1> QED  BY <1>3, <1>4, JobMade

\* The answers.
LEMMA AnswerMapped ==
    ASSUME OnFileOpened \/ OnAnswer \/ OnFileClosed \/ OnRemoved
    PROVE  Mapped
<1>1. /\ job' = NoJob /\ job.op # "apply"
      /\ UNCHANGED <<drive, disk, lower, upper, chain, finish>>
  BY DEF OnFileOpened, OnAnswer, OnFileClosed, OnRemoved, OnSession
<1>2. ~Applied(job) /\ ~Applied(job')  BY <1>1, NoJobFields DEF Applied
<1> QED  BY <1>1, <1>2, NothingChanged

\* The call begins with the tree of the batch.
LEMMA InitiateMapped ==
    ASSUME IInv, InitiateSandboxModifications
    PROVE  Mapped
<1>1. /\ finish = "running" /\ chain = "none" /\ upper = NoTree /\ upper' = lower
      /\ job = NoJob /\ UNCHANGED <<drive, disk, lower, job, chain, finish>>
  BY DEF InitiateSandboxModifications, BetweenCalls, Accepts, IInv, Stages
<1>2. lower \in Trees /\ disk \in Disks  BY <1>1, Basics DEF IInv, TypeOK, Stages, Running
<1>3. ~Applied(job)  BY <1>1, NoJobFields DEF Applied
<1>4. /\ Call(lower, upper, disk, job, chain, finish) = NoTree
      /\ Batch(lower, upper, disk, job, chain, finish) = ContentOn(lower, disk)
      /\ ContentOn(lower, disk) # NoTree
  BY <1>1, <1>2, <1>3, BetweenTwoCalls
<1>5. /\ Call(lower, lower, disk, job, chain, finish) = ContentOn(lower, disk)
      /\ Batch(lower, lower, disk, job, chain, finish) = ContentOn(lower, disk)
  BY <1>1, <1>2, <1>3, CallRuns
<1> QED  BY <1>1, <1>4, <1>5 DEF Mapped, StorageStep

\* The call changes its tree or its files.
LEMMA CallModifies ==
    ASSUME IInv, IInv', finish = "running", chain = "none", upper # NoTree, upper' # NoTree,
           ~Applied(job), ~Applied(job'), UNCHANGED <<drive, handles, lower, chain, finish>>,
           \A i \in Files(lower) \ {0} : disk'[i] = disk[i]
    PROVE  Mapped
<1>1. lower \in Trees /\ upper \in Trees /\ disk \in Disks
  BY Basics DEF IInv, TypeOK, Stages, Running
<1>2. upper' \in Trees /\ disk' \in Disks  BY DiskIsTyped DEF IInv, TypeOK
<1>3. \A i \in handles : disk'[i] = disk[i]  BY DEF IInv, HashFiles
<1>4. Committed(drive', lower', disk', chain') = Committed(drive, lower, disk, chain)
  BY <1>3, DriveAlike
<1>5. ContentOn(lower, disk') = ContentOn(lower, disk)  BY <1>1, ContentAlike
<1>6. /\ Batch(lower, upper, disk, job, chain, finish) = ContentOn(lower, disk)
      /\ Call(lower, upper, disk, job, chain, finish) # NoTree
  BY <1>1, CallRuns
<1>7. /\ Batch(lower', upper', disk', job', chain', finish') = ContentOn(lower, disk')
      /\ Call(lower', upper', disk', job', chain', finish') \in AllContents
  BY <1>1, <1>2, CallRuns
<1> QED  BY <1>4, <1>5, <1>6, <1>7 DEF Mapped, StorageStep

LEMMA TreeRequestMapped ==
    ASSUME IInv, IInv', InCall, UNCHANGED <<drive, handles, disk, lower, chain, finish>>,
           upper' \in Trees, NEW op, NEW file, NEW files, IsJob(job', op, file, files, TRUE)
    PROVE  Mapped
<1>1. finish = "running" /\ chain = "none" /\ upper # NoTree /\ job = NoJob
  BY AtCall DEF Running
<1>2. ~Applied(job) /\ ~Applied(job')  BY <1>1, NoJobFields DEF Applied, IsJob
<1>3. upper' # NoTree  BY TreeType
<1> QED  BY <1>1, <1>2, <1>3, CallModifies

LEMMA OpenToWriteMapped ==
    ASSUME IInv, IInv', NEW n \in Names, OpenToWrite(n)
    PROVE  Mapped
<1>1. PICK new : new = {t \in Temporary : disk[t] = Absent /\ t \notin Files(upper)}  OBVIOUS
<1>2. PICK id : id = IF upper[n] \in managed THEN upper[n] ELSE Min(new)  OBVIOUS
<1>3. PICK file : file = [name |-> n, id |-> id, mode |-> "write"]  OBVIOUS
<1>4. /\ InCall /\ (upper[n] \in managed \/ new # {})
      /\ upper' = [upper EXCEPT ![n] = id] /\ job' = [Job("open") EXCEPT !.file = file]
      /\ UNCHANGED <<drive, handles, disk, lower, chain, finish>>
  BY <1>1, <1>2, <1>3 DEF OpenToWrite
<1>5. id \in Ids
  <2>1. managed \in SUBSET Ids /\ new \in SUBSET Nat /\ new \in SUBSET Ids
    BY <1>1, Basics, Identifiers DEF IInv
  <2>2. new # {} => Min(new) \in new  BY <2>1, Smallest
  <2> QED  BY <1>2, <1>4, <2>1, <2>2
<1>6. upper' \in Trees
  <2>1. upper \in Trees  BY <1>4, AtCall
  <2> QED  BY <1>4, <1>5, <2>1 DEF Trees
<1>7. PICK op \in Operations : op = "open"  BY DEF Operations
<1>8. file \in OpenFiles  BY <1>3, <1>5, OpenFileMade
<1>9. IsJob(job', op, file, {}, TRUE)  BY <1>4, <1>7, <1>8, JobsMade
<1> QED  BY <1>4, <1>6, <1>9, TreeRequestMapped

LEMMA DropMapped ==
    ASSUME IInv, IInv', NEW n \in Names, NEW dst \in Names,
           \/ RemoveFsTreeEntry(n)
           \/ MoveFsTreeEntry(n, dst) /\ upper[n] # Absent
    PROVE  Mapped
<1>1. InCall /\ UNCHANGED <<drive, handles, disk, lower, chain, finish>>
  BY DEF RemoveFsTreeEntry, MoveFsTreeEntry
<1>2. upper \in Trees  BY <1>1, AtCall
<1>3. upper' \in Trees
  <2>1. upper[n] \in Ids \cup {Absent} /\ Absent \in Ids \cup {Absent}  BY <1>2 DEF Trees
  <2>2. CASE RemoveFsTreeEntry(n)
    <3>1. upper' = [upper EXCEPT ![n] = Absent]  BY <2>2 DEF RemoveFsTreeEntry
    <3> QED  BY <1>2, <3>1 DEF Trees
  <2>3. CASE MoveFsTreeEntry(n, dst) /\ upper[n] # Absent
    <3>1. upper' = IF n = dst THEN upper
                   ELSE [upper EXCEPT ![dst] = upper[n], ![n] = Absent]
      BY <2>3 DEF MoveFsTreeEntry
    <3> QED  BY <1>2, <2>1, <3>1 DEF Trees
  <2> QED  BY <2>2, <2>3
<1>4. PICK files \in SUBSET Ids : job' = [Job("remove") EXCEPT !.files = files]
  <2>1. managed \in SUBSET Ids  BY Basics DEF IInv
  <2>2. CASE RemoveFsTreeEntry(n)
    <3>1. job' = [Job("remove") EXCEPT !.files = {upper[n]} \cap managed]
      BY <2>2 DEF RemoveFsTreeEntry
    <3>2. {upper[n]} \cap managed \in SUBSET Ids  BY <2>1
    <3> QED  BY <3>1, <3>2
  <2>3. CASE MoveFsTreeEntry(n, dst) /\ upper[n] # Absent
    <3>1. job' = [Job("remove") EXCEPT !.files = {upper[dst]} \cap managed]
      BY <2>3 DEF MoveFsTreeEntry
    <3>2. {upper[dst]} \cap managed \in SUBSET Ids  BY <2>1
    <3> QED  BY <3>1, <3>2
  <2> QED  BY <2>2, <2>3
<1>5. PICK op \in Operations : op = "remove"  BY DEF Operations
<1>6. IsJob(job', op, NoTree, files, TRUE)  BY <1>4, <1>5, JobsMade
<1> QED  BY <1>1, <1>3, <1>6, TreeRequestMapped

LEMMA MoveMapped ==
    ASSUME IInv, IInv', NEW n \in Names, NEW dst \in Names, MoveFsTreeEntry(n, dst)
    PROVE  Mapped
<1>1. CASE upper[n] # Absent  BY <1>1, DropMapped
<1>2. CASE upper[n] = Absent
  <2>1. UNCHANGED <<drive, disk, lower, upper, chain, finish, job>>
    BY <1>2 DEF MoveFsTreeEntry
  <2> QED  BY <2>1, NothingChanged
<1> QED  BY <1>1, <1>2

\* The jobs of a call that runs.
LEMMA WorkMapped ==
    ASSUME IInv, IInv', job.op \in {"open", "write", "query", "close", "streams", "remove"},
           job.stage = "background", job'.op = job.op,
           UNCHANGED <<drive, handles, lower, upper, chain, finish>>,
           \A i \in Files(lower) \ {0} : disk'[i] = disk[i]
    PROVE  Mapped
<1>1. finish = "running" /\ chain = "none" /\ upper # NoTree
  BY DEF IInv, Stages, Running
<1>2. ~Applied(job) /\ ~Applied(job')  BY DEF Applied
<1> QED  BY <1>1, <1>2, CallModifies

LEMMA CreateStreamMapped ==
    ASSUME IInv, IInv', CreateStream
    PROVE  Mapped
<1>1. PICK id : id = job.file.id  OBVIOUS
<1>2. PICK write \in BOOLEAN : write = (job.file.mode = "write")  OBVIOUS
<1>3. PICK ok \in BOOLEAN : ok = (write \/ disk[id] # Absent)  OBVIOUS
<1>4. PICK size : size = IF write THEN SizeOnDisk({id}) ELSE 0  OBVIOUS
<1>5. /\ job.op = "open" /\ job.stage = "background"
      /\ disk' = IF write THEN [disk EXCEPT ![id] = 0] ELSE disk
      /\ job' = [job EXCEPT !.stage = "session", !.ok = ok, !.size = size]
      /\ UNCHANGED <<drive, handles, lower, upper, chain, finish>>
  BY <1>1, <1>2, <1>3, <1>4 DEF CreateStream, OnBackground
<1>6. /\ disk \in Disks /\ managed \cap Files(lower) = {} /\ managed \in SUBSET Ids
      /\ job \in Jobs /\ Files(lower) \in SUBSET Ids
  BY <1>5, AtCallWork, Basics
<1>7. write => id \in managed  BY <1>1, <1>2, <1>5 DEF IInv, Opened
<1>8. \A i \in Files(lower) \ {0} : disk'[i] = disk[i]
  BY <1>5, <1>6, <1>7 DEF Disks
<1>9. job'.op = job.op
  <2>1. job' = [job EXCEPT !.stage = "session", !.ok = ok, !.size = size]  BY <1>5
  <2> QED  BY ONLY <1>6, <2>1 DEF Jobs
<1> QED  BY <1>5, <1>8, <1>9, WorkMapped

LEMMA UseStreamMapped ==
    ASSUME IInv, IInv', UseStream
    PROVE  Mapped
<1>1. /\ job.op \in {"write", "query", "close", "streams"} /\ job.stage = "background"
      /\ disk' = IF job.op = "write" THEN [disk EXCEPT ![job.file.id] = @ + 1] ELSE disk
      /\ job' = [job EXCEPT !.stage = "session"]
      /\ UNCHANGED <<drive, handles, lower, upper, chain, finish>>
  BY DEF UseStream, OnBackground
<1>2. /\ disk \in Disks /\ managed \cap Files(lower) = {} /\ managed \in SUBSET Ids
      /\ job \in Jobs /\ Files(lower) \in SUBSET Ids
  <2>1. job.op \notin {"none", "hash"}  BY <1>1
  <2> QED  BY <1>1, <2>1, AtCallWork, Basics
<1>3. PICK id : id = job.file.id  OBVIOUS
<1>4. PICK new : new = disk[id] + 1  OBVIOUS
<1>5. job.op = "write" => id \in managed
  <2>1. job.op = "write" => job.file \in open /\ job.file.mode = "write"  BY DEF IInv, Opened
  <2> QED  BY <1>3, <2>1 DEF IInv, Opened
<1>6. disk' = disk \/ (id \in managed /\ disk' = [disk EXCEPT ![id] = new])
  BY <1>1, <1>3, <1>4, <1>5
<1>7. \A i \in Files(lower) \ {0} : disk'[i] = disk[i]
  BY <1>2, <1>6 DEF Disks
<1>8. job'.op = job.op  BY ONLY <1>1, <1>2 DEF Jobs
<1>9. job.op \in {"open", "write", "query", "close", "streams", "remove"}  BY <1>1
<1> QED  BY <1>1, <1>7, <1>8, <1>9, WorkMapped

LEMMA RemoveUnusedMapped ==
    ASSUME IInv, IInv', RemoveUnusedFiles
    PROVE  Mapped
<1>1. PICK files : files = job.files  OBVIOUS
<1>2. PICK size : size = SizeOnDisk(files)  OBVIOUS
<1>3. /\ job.op = "remove" /\ job.stage = "background" /\ disk' = Without(files)
      /\ job' = [job EXCEPT !.stage = "session", !.size = size]
      /\ UNCHANGED <<drive, handles, lower, upper, chain, finish>>
  BY <1>1, <1>2 DEF RemoveUnusedFiles, OnBackground
<1>4. /\ CallFiles(disk, lower, upper, managed, job, careless) /\ job \in Jobs /\ TypeOK
      /\ Files(lower) \in SUBSET Ids
  <2>1. job.op \notin {"none", "hash"}  BY <1>3
  <2> QED  BY <1>3, <2>1, AtCallWork, Basics
<1>5. files \cap Files(lower) = {}
  BY <1>1, <1>3, <1>4 DEF CallFiles, Doomed
<1>6. \A i \in Files(lower) \ {0} : disk'[i] = disk[i]
  BY <1>3, <1>4, <1>5, WithoutFiles
<1>7. job'.op = job.op
  <2>1. job' = [job EXCEPT !.stage = "session", !.size = size]  BY <1>3
  <2> QED  BY ONLY <1>4, <2>1 DEF Jobs
<1> QED  BY <1>3, <1>6, <1>7, WorkMapped

\* The end of the call takes its tree over, or drops it.
LEMMA EndSandboxMapped ==
    ASSUME IInv, IInv', EndSandboxModifications
    PROVE  Mapped
<1>1. PICK valid \in BOOLEAN :
         LET ok    == job.ok /\ valid
             files == IF ok THEN AcceptedFiles ELSE managed
         IN  /\ disk' = Without(files)
             /\ job' = [job EXCEPT !.stage = "session", !.ok = ok, !.size = SizeOnDisk(files)]
  BY DEF EndSandboxModifications
<1>2. PICK ok \in BOOLEAN : ok = (job.ok /\ valid)  OBVIOUS
<1>3. PICK files : files = IF ok THEN AcceptedFiles ELSE managed  OBVIOUS
<1>4. PICK size : size = SizeOnDisk(files)  OBVIOUS
<1>5. /\ job.op = "apply" /\ job.stage = "background" /\ disk' = Without(files)
      /\ job' = [job EXCEPT !.stage = "session", !.ok = ok, !.size = size]
      /\ UNCHANGED <<drive, handles, lower, upper, chain, finish>>
  BY <1>1, <1>2, <1>3, <1>4 DEF EndSandboxModifications, OnBackground
<1>6. job.op \notin {"none", "hash"}  BY <1>5
<1>7. /\ finish = "running" /\ upper # NoTree /\ disk \in Disks /\ managed \cap Files(lower) = {}
      /\ TypeOK /\ job \in Jobs
  BY <1>5, <1>6, AtCallWork DEF Running
<1>8. chain = "none" /\ lower \in Trees /\ upper \in Trees /\ disk' \in Disks
  BY <1>5, <1>7, DiskIsTyped DEF IInv, TypeOK, Stages, Running
<1>9. job'.op = "apply" /\ job'.stage = "session" /\ job'.ok = ok
  <2>1. job' = [job EXCEPT !.stage = "session", !.ok = ok, !.size = size]  BY <1>5
  <2> QED  BY ONLY <1>5, <1>7, <2>1 DEF Jobs
<1>10. ~Applied(job) /\ Applied(job')  BY <1>5, <1>9 DEF Applied
<1>11. \A i \in Ids : i \notin files => disk'[i] = disk[i]  BY <1>5, <1>7, WithoutFiles
<1>12. \A i \in handles : disk'[i] = disk[i]  BY <1>5 DEF IInv, HashFiles
<1>13. Committed(drive', lower', disk', chain') = Committed(drive, lower, disk, chain)
  BY <1>5, <1>8, <1>12, DriveAlike
<1>14. /\ Batch(lower, upper, disk, job, chain, finish) = ContentOn(lower, disk)
       /\ Call(lower, upper, disk, job, chain, finish) = ContentOn(upper, disk)
       /\ ContentOn(upper, disk) # NoTree
  BY <1>7, <1>8, <1>10, CallRuns
<1>15. /\ Call(lower', upper', disk', job', chain', finish') = NoTree
       /\ Batch(lower', upper', disk', job', chain', finish')
            = IF job'.ok THEN ContentOn(upper, disk') ELSE ContentOn(lower, disk')
  <2>1. /\ Call(lower, upper, disk', job', chain, finish) = NoTree
        /\ Batch(lower, upper, disk', job', chain, finish)
             = IF job'.ok THEN ContentOn(upper, disk') ELSE ContentOn(lower, disk')
    <3>1. chain # "swap"  BY <1>8
    <3> QED  BY ONLY <1>7, <1>8, <1>10, <3>1, CallOver
  <2> QED  BY <1>5, <2>1
<1>16. CASE ok
  <2>1. \A i \in Files(upper) \ {0} : disk'[i] = disk[i]
    BY <1>3, <1>7, <1>11, <1>16, Basics DEF AcceptedFiles
  <2>2. ContentOn(upper, disk') = ContentOn(upper, disk)  BY <1>8, <2>1, ContentAlike
  <2> QED  BY <1>9, <1>13, <1>14, <1>15, <1>16, <2>2 DEF Mapped, StorageStep
<1>17. CASE ~ok
  <2>1. \A i \in Files(lower) \ {0} : disk'[i] = disk[i]
    BY <1>3, <1>7, <1>11, <1>17, Basics
  <2>2. ContentOn(lower, disk') = ContentOn(lower, disk)  BY <1>8, <2>1, ContentAlike
  <2> QED  BY <1>9, <1>13, <1>14, <1>15, <1>17, <2>2 DEF Mapped, StorageStep
<1> QED  BY <1>16, <1>17

\* Then only the sandboxes are exchanged.
LEMMA AppliedSandboxMapped ==
    ASSUME IInv, OnAppliedSandboxModifications
    PROVE  Mapped
<1>1. /\ job.op = "apply" /\ job.stage = "session"
      /\ lower' = (IF job.ok THEN upper ELSE lower)
      /\ upper' = NoTree /\ job' = NoJob /\ UNCHANGED <<drive, disk, chain, finish>>
  BY DEF OnAppliedSandboxModifications, OnSession
<1>2. /\ finish = "running" /\ chain = "none" /\ lower \in Trees /\ upper \in Trees
      /\ disk \in Disks
  BY <1>1, Basics DEF IInv, TypeOK, Stages, Running
<1>3. Applied(job) /\ ~Applied(job')  BY <1>1, NoJobFields DEF Applied
<1>4. /\ Call(lower, upper, disk, job, chain, finish) = NoTree
      /\ Batch(lower, upper, disk, job, chain, finish)
           = IF job.ok THEN ContentOn(upper, disk) ELSE ContentOn(lower, disk)
  BY <1>2, <1>3, CallOver
<1>5. lower' \in Trees  BY <1>1, <1>2
<1>6. /\ Call(lower', NoTree, disk, job', chain, finish) = NoTree
      /\ Batch(lower', NoTree, disk, job', chain, finish) = ContentOn(lower', disk)
  BY <1>2, <1>3, <1>5, BetweenTwoCalls
<1>7. Committed(drive', lower', disk', chain') = Committed(drive, lower, disk, chain)
  BY <1>1, <1>2 DEF Committed
<1> QED  BY <1>1, <1>4, <1>6, <1>7 DEF Mapped, StorageStep

\* The files of the batch get their hashes and keep their contents.
LEMMA ComputeHashMapped ==
    ASSUME IInv, IInv', ComputeSandboxHash
    PROVE  Mapped
<1>1. PICK written : written = Files(lower) \cap Temporary  OBVIOUS
<1>2. /\ job.op = "hash" /\ job.stage = "background" /\ hashed' = TRUE
      /\ lower' = [n \in Names |-> IF lower[n] \in written THEN disk[lower[n]] ELSE lower[n]]
      /\ job' = [job EXCEPT !.stage = "session"]
      /\ UNCHANGED <<drive, handles, upper, chain, finish>>
  BY <1>1 DEF ComputeSandboxHash, OnBackground
<1>3. /\ finish = "running" /\ chain = "none" /\ upper = NoTree /\ ~hashed
      /\ lower \in Trees /\ disk \in Disks
  BY <1>2, Basics DEF IInv, TypeOK, Stages, Running
<1>4. lower' \in Trees /\ disk' \in Disks
  BY <1>2, <1>3, DiskIsTyped DEF IInv, TypeOK, Stages, Running
<1>5. ~Applied(job) /\ ~Applied(job')
  <2>1. job \in Jobs  BY Basics DEF IInv
  <2>2. job'.op = job.op  BY ONLY <1>2, <2>1 DEF Jobs
  <2> QED  BY <1>2, <2>2 DEF Applied
<1>6. \A i \in handles : disk[i] = i /\ disk'[i] = i
  BY <1>2 DEF IInv, HashFiles
<1>7. Committed(drive', lower', disk', chain') = Committed(drive, lower, disk, chain)
  BY <1>2, <1>3, <1>6, DriveAlike
<1>8. \A i \in (Files(lower') \cap Hashes) \ {0} : disk'[i] = i
  <2>1. HashFiles(drive, handles, disk, lower, upper, hashed, finish)'  BY DEF IInv
  <2> QED  BY <1>2, <1>3, <2>1 DEF HashFiles
<1>9. \A i \in written : disk[i] \in Hashes /\ i # 0 /\ i # Absent
  <2>1. written \subseteq Present(disk)
    BY <1>1, <1>3 DEF IInv, TempFiles, Temps, Running
  <2>2. \A i \in written : i \in Ids /\ i \in Temporary /\ disk[i] # Absent
    BY <1>1, <2>1, Identifiers, PresentFiles
  <2> QED  BY <1>3, <2>2, DiskType, Identifiers
<1>10. ContentOn(lower', disk') = ContentOn(lower, disk)
  <2> DEFINE C(tree, d, n) == CASE tree[n] = Absent -> Absent
                                [] tree[n] = 0 -> 0
                                [] OTHER -> d[tree[n]]
  <2>1. ASSUME NEW n \in Names  PROVE C(lower', disk', n) = C(lower, disk, n)
    <3>1. lower'[n] = IF lower[n] \in written THEN disk[lower[n]] ELSE lower[n]  BY <1>2
    <3>2. CASE lower[n] \in written
      <4>1. lower'[n] = disk[lower[n]] /\ lower'[n] \in Hashes /\ lower'[n] # Absent
        BY <1>9, <3>1, <3>2, Identifiers
      <4>2. lower'[n] # 0 => disk'[lower'[n]] = lower'[n]
        BY <1>4, <1>8, <4>1, TreeType
      <4> QED  BY <1>9, <3>2, <4>1, <4>2
    <3>3. CASE lower[n] \notin written
      <4>1. lower'[n] = lower[n]  BY <3>1, <3>3
      <4>2. ASSUME lower[n] # Absent, lower[n] # 0  PROVE disk'[lower[n]] = disk[lower[n]]
        <5>1. lower[n] \in Files(lower) /\ lower[n] \in Hashes
          BY <1>1, <1>3, <3>3, <4>2, TreeType, Identifiers
        <5>2. lower[n] \in handles
          BY <1>3, <4>2, <5>1 DEF IInv, HashFiles
        <5> QED  BY <1>6, <5>2
      <4> QED  BY <4>1, <4>2
    <3> QED  BY <3>2, <3>3
  <2> HIDE DEF C
  <2>2. [n \in Names |-> C(lower', disk', n)] = [n \in Names |-> C(lower, disk, n)]  BY <2>1
  <2>3. /\ ContentOn(lower', disk') = [n \in Names |-> C(lower', disk', n)]
        /\ ContentOn(lower, disk) = [n \in Names |-> C(lower, disk, n)]
    BY DEF ContentOn, C
  <2> QED  BY <2>2, <2>3
<1>11. /\ Call(lower, NoTree, disk, job, chain, finish) = NoTree
       /\ Batch(lower, NoTree, disk, job, chain, finish) = ContentOn(lower, disk)
  BY <1>3, <1>5, BetweenTwoCalls
<1>12. /\ Call(lower', NoTree, disk', job', chain, finish) = NoTree
       /\ Batch(lower', NoTree, disk', job', chain, finish) = ContentOn(lower', disk')
  BY <1>3, <1>4, <1>5, BetweenTwoCalls
<1> QED  BY <1>2, <1>3, <1>7, <1>10, <1>11, <1>12 DEF Mapped, StorageStep

\* The torrents of the batch come ...
LEMMA AddNewTorrentsMapped ==
    ASSUME AddNewTorrentsToSession
    PROVE  Mapped
<1>1. /\ chain = "add" /\ chain' = "delete"
      /\ UNCHANGED <<drive, disk, lower, upper, job, finish>>
  BY DEF AddNewTorrentsToSession
<1>2. Committed(drive', lower', disk', chain') = Committed(drive, lower, disk, chain)
  BY <1>1 DEF Committed
<1>3. /\ Batch(lower', upper', disk', job', chain', finish')
           = Batch(lower, upper, disk, job, chain, finish)
      /\ Call(lower', upper', disk', job', chain', finish')
           = Call(lower, upper, disk, job, chain, finish)
  BY <1>1 DEF Batch, Call, Live
<1> QED  BY <1>2, <1>3 DEF Mapped, StorageStep

\* ... those of the drive go, and the batch is committed ...
LEMMA TorrentsDeletedMapped ==
    ASSUME IInv, OnUnusedTorrentsDeleted
    PROVE  Mapped
<1>1. /\ chain = "delete" /\ chain' = "swap" /\ finish # "over"
      /\ UNCHANGED <<drive, disk, lower, upper, job, finish>>
  BY DEF OnUnusedTorrentsDeleted
<1>2. upper = NoTree /\ lower \in Trees /\ job = NoJob  BY <1>1, AtChain
<1>3. disk \in Disks  BY Basics DEF IInv
<1>4. ~Applied(job)  BY <1>2, NoJobFields DEF Applied
<1>5. /\ Call(lower, NoTree, disk, job, chain, finish) = NoTree
      /\ Batch(lower, NoTree, disk, job, chain, finish) = ContentOn(lower, disk)
      /\ ContentOn(lower, disk) # NoTree
  <2>1. chain # "none" /\ chain # "swap"  BY <1>1
  <2> QED  BY <1>2, <1>3, <1>4, <2>1, BetweenTwoCalls
<1>6. /\ Call(lower', upper', disk', job', chain', finish') = NoTree
      /\ Batch(lower', upper', disk', job', chain', finish') = NoTree
  BY <1>1, NoBatch
<1>7. Committed(drive', lower', disk', chain') = ContentOn(lower, disk)
  BY <1>1 DEF Committed
<1> QED  BY <1>1, <1>2, <1>5, <1>6, <1>7 DEF Mapped, StorageStep

\* ... unless the task has ended, and the batch is dropped ...
LEMMA BatchDropped ==
    ASSUME IInv, IInv', chain # "none", chain # "swap", drive' = drive, disk' = disk, chain' # "swap",
           (finish' # "running" /\ chain' = "none") \/ lower' = NoTree
    PROVE  Mapped
<1>1. Committed(drive', lower', disk', chain') = Committed(drive, lower, disk, chain)
  BY DEF Committed
<1>2. /\ Batch(lower', upper', disk', job', chain', finish') = NoTree
      /\ Call(lower', upper', disk', job', chain', finish') = NoTree
  BY NoBatch
<1>3. CASE lower = NoTree
  <2>1. /\ Batch(lower, upper, disk, job, chain, finish) = NoTree
        /\ Call(lower, upper, disk, job, chain, finish) = NoTree
    BY <1>3, NoBatch
  <2> QED  BY <1>1, <1>2, <2>1 DEF Mapped, StorageStep
<1>4. CASE lower # NoTree
  <2>1. lower \in Trees /\ disk \in Disks  BY <1>4, Basics DEF IInv, TypeOK
  <2>2. upper = NoTree /\ ~Applied(job)  BY AtChain DEF Applied
  <2>3. Batch(lower, upper, disk, job, chain, finish) # NoTree
    BY <2>1, <2>2, BetweenTwoCalls
  <2> QED  BY <1>1, <1>2, <2>3 DEF Mapped, StorageStep
<1> QED  BY <1>3, <1>4

LEMMA AppliedTooLateMapped ==
    ASSUME IInv, IInv', AppliedTooLate
    PROVE  Mapped
<1>1. /\ chain = "delete" /\ chain' = "none" /\ finish \in {"cleared", "over"}
      /\ UNCHANGED <<drive, disk, finish>>
  BY DEF AppliedTooLate
<1>2. finish' # "running"  BY <1>1
<1> QED  BY <1>1, <1>2, BatchDropped

\* ... before its tree becomes that of the drive.
LEMMA AppliedStorageMapped ==
    ASSUME OnAppliedStorageModifications
    PROVE  Mapped
<1>1. /\ chain = "swap" /\ chain' = "none" /\ drive' = lower /\ disk' = disk
      /\ lower' = NoTree
  BY DEF OnAppliedStorageModifications
<1>2. Committed(drive', lower', disk', chain') = Committed(drive, lower, disk, chain)
  BY <1>1 DEF Committed
<1>3. /\ Batch(lower, upper, disk, job, chain, finish) = NoTree
      /\ Call(lower, upper, disk, job, chain, finish) = NoTree
      /\ Batch(lower', upper', disk', job', chain', finish') = NoTree
      /\ Call(lower', upper', disk', job', chain', finish') = NoTree
  BY <1>1, NoBatch
<1> QED  BY <1>2, <1>3 DEF Mapped, StorageStep

\* A batch begins with the tree of the drive.
LEMMA RunMapped ==
    ASSUME IInv, Run
    PROVE  Mapped
<1>1. /\ finish = "over" /\ chain = "none" /\ finish' = "running" /\ lower' = drive
      /\ UNCHANGED <<drive, disk, upper, job, chain>>
  BY DEF Run
<1>2. upper = NoTree /\ job = NoJob /\ drive \in Trees /\ disk \in Disks
  BY <1>1, Basics DEF IInv, TypeOK, Stages, Running
<1>3. ~Applied(job)  BY <1>2, NoJobFields DEF Applied
<1>4. /\ Batch(lower, upper, disk, job, chain, finish) = NoTree
      /\ Call(lower, upper, disk, job, chain, finish) = NoTree
  BY <1>1, NoBatch
<1>5. /\ Call(drive, NoTree, disk, job, chain, finish') = NoTree
      /\ Batch(drive, NoTree, disk, job, chain, finish') = ContentOn(drive, disk)
  BY <1>1, <1>2, <1>3, BetweenTwoCalls
<1>6. /\ Committed(drive, lower, disk, chain) = ContentOn(drive, disk)
      /\ Committed(drive', lower', disk', chain') = ContentOn(drive, disk)
  BY <1>1 DEF Committed
<1> QED  BY <1>1, <1>2, <1>4, <1>5, <1>6 DEF Mapped, StorageStep

\* The end of a task that ran drops the batch and the call.
LEMMA Aborted ==
    ASSUME IInv, finish = "running", chain = "none", finish' # "running",
           UNCHANGED <<drive, disk, chain>>
    PROVE  Mapped
<1>1. Committed(drive', lower', disk', chain') = Committed(drive, lower, disk, chain)
  BY DEF Committed
<1>2. /\ lower \in Trees /\ disk \in Disks /\ (Applied(job) => upper \in Trees)
      /\ upper \in Trees \cup {NoTree}
  BY Basics DEF IInv, TypeOK, Stages, Running, Applied
<1>3. Batch(lower, upper, disk, job, chain, finish) # NoTree
  <2>1. /\ ContentOn(lower, disk) # NoTree
        /\ Applied(job) => ContentOn(upper, disk) # NoTree
    BY <1>2, ContentType
  <2>2. lower # NoTree  BY <1>2, TreeType
  <2> QED  BY <2>1, <2>2 DEF Batch, Live
<1>4. /\ Batch(lower', upper', disk', job', chain', finish') = NoTree
      /\ Call(lower', upper', disk', job', chain', finish') = NoTree
  BY NoBatch
<1> QED  BY <1>1, <1>3, <1>4 DEF Mapped, StorageStep

LEMMA InterruptedMapped ==
    ASSUME IInv, Interrupted
    PROVE  Mapped
<1>1. /\ job.op # "none" /\ finish' = "trash" /\ UNCHANGED <<drive, disk, chain>>
  BY DEF Interrupted
<1>2. finish = "running" /\ chain = "none"  BY <1>1 DEF IInv, Stages, Running
<1> QED  BY <1>1, <1>2, Aborted

LEMMA TerminateMapped ==
    ASSUME IInv, Terminate
    PROVE  Mapped
<1>1. /\ UNCHANGED <<drive, disk, lower, upper, job, chain>>
      /\ finish' = finish \/ (finish = "running" /\ finish' = "trash")
  BY DEF Terminate
<1>2. CASE finish' = finish  BY <1>1, <1>2, NothingChanged
<1>3. CASE finish = "running" /\ finish' = "trash" /\ chain = "none"
  BY <1>1, <1>3, Aborted
<1>4. CASE chain # "none"
  <2>1. /\ Batch(lower', upper', disk', job', chain', finish')
             = Batch(lower, upper, disk, job, chain, finish)
        /\ Call(lower', upper', disk', job', chain', finish')
             = Call(lower, upper, disk, job, chain, finish)
    BY <1>1, <1>4 DEF Batch, Call, Live
  <2>2. Committed(drive', lower', disk', chain') = Committed(drive, lower, disk, chain)
    BY <1>1 DEF Committed
  <2> QED  BY <2>1, <2>2 DEF Mapped, StorageStep
<1> QED  BY <1>1, <1>2, <1>3, <1>4

LEMMA ApplyStorageMapped ==
    ASSUME IInv, NEW success \in BOOLEAN, ApplyStorageModifications(success)
    PROVE  Mapped
<1>1. /\ finish = "running" /\ chain = "none"
      /\ UNCHANGED <<drive, disk, lower, upper, job>>
  BY DEF ApplyStorageModifications, BetweenCalls, Accepts
<1>2. CASE success
  <2>1. chain' # "swap" /\ finish' = finish  BY <1>2 DEF ApplyStorageModifications
  <2>2. Committed(drive', lower', disk', chain') = Committed(drive, lower, disk, chain)
    BY <1>1, <2>1 DEF Committed
  <2>3. /\ Batch(lower', upper', disk', job', chain', finish')
             = Batch(lower, upper, disk, job, chain, finish)
        /\ Call(lower', upper', disk', job', chain', finish')
             = Call(lower, upper, disk, job, chain, finish)
    BY <1>1, <2>1 DEF Batch, Call, Live
  <2> QED  BY <2>2, <2>3 DEF Mapped, StorageStep
<1>3. CASE ~success
  <2>1. finish' = "trash" /\ chain' = chain  BY <1>3 DEF ApplyStorageModifications
  <2> QED  BY <1>1, <2>1, Aborted
<1> QED  BY <1>2, <1>3

\* The clean-up of a task leaves the files of the drive alone, and those of a batch
\* that is being applied.
LEMMA ClearTrashMapped ==
    ASSUME IInv, IInv', ClearTrash
    PROVE  Mapped
<1>1. /\ finish = "trash" /\ finish' = "close" /\ chain # "add"
      /\ disk' = Without((Files(lower) \cup Files(upper)) \ handles)
      /\ UNCHANGED <<drive, handles, lower, upper, job, chain>>
  BY DEF ClearTrash
<1>2. TypeOK /\ handles \in SUBSET Ids /\ disk \in Disks  BY Basics DEF IInv
<1>3. \A i \in handles : disk'[i] = disk[i]  BY <1>1, <1>2, WithoutFiles
<1>4. disk' \in Disks  BY <1>1, <1>2, WithoutFiles
<1>5. ASSUME chain # "none"
      PROVE  lower \in Trees /\ ContentOn(lower, disk') = ContentOn(lower, disk)
  <2>1. lower \in Trees  BY <1>1, <1>5, AtChain
  <2>2. Files(lower) \ {0} \subseteq handles
    <3>1. chain \in {"delete", "swap"}  BY <1>1, <1>2, <1>5 DEF TypeOK
    <3> QED  BY <3>1 DEF IInv, Torrents
  <2> QED  BY <1>3, <2>1, <2>2, ContentAlike
<1>6. Committed(drive', lower', disk', chain') = Committed(drive, lower, disk, chain)
  <2>1. CASE chain = "swap"
    <3>1. chain # "none"  BY <2>1
    <3>2. ContentOn(lower, disk') = ContentOn(lower, disk)  BY <1>5, <3>1
    <3> QED  BY <1>1, <2>1, <3>2 DEF Committed
  <2>2. CASE chain # "swap"
    <3>1. chain' # "swap"  BY <1>1, <2>2
    <3> QED  BY <1>1, <1>3, <2>2, <3>1, DriveAlike
  <2> QED  BY <2>1, <2>2
<1>7. CASE chain \in {"none", "swap"}
  <2>1. finish # "running" /\ finish' # "running"  BY <1>1
  <2>2. /\ Batch(lower, upper, disk, job, chain, finish) = NoTree
        /\ Call(lower, upper, disk, job, chain, finish) = NoTree
    BY <1>7, <2>1, NoBatch
  <2>3. /\ Batch(lower', upper', disk', job', chain', finish') = NoTree
        /\ Call(lower', upper', disk', job', chain', finish') = NoTree
    BY <1>1, <1>7, <2>1, NoBatch
  <2> QED  BY <1>6, <2>2, <2>3 DEF Mapped, StorageStep
<1>8. CASE chain \notin {"none", "swap"}
  <2>1. chain # "none" /\ chain # "swap"  BY <1>8
  <2>2. upper = NoTree /\ ~Applied(job)  BY <2>1, AtChain DEF Applied
  <2>3. lower \in Trees /\ ContentOn(lower, disk') = ContentOn(lower, disk)  BY <1>5, <2>1
  <2>4. /\ Call(lower, NoTree, disk, job, chain, finish) = NoTree
        /\ Batch(lower, NoTree, disk, job, chain, finish) = ContentOn(lower, disk)
    BY <1>2, <2>1, <2>2, <2>3, BetweenTwoCalls
  <2>5. /\ Call(lower, NoTree, disk', job, chain, finish') = NoTree
        /\ Batch(lower, NoTree, disk', job, chain, finish') = ContentOn(lower, disk')
    BY <1>4, <2>1, <2>2, <2>3, BetweenTwoCalls
  <2> QED  BY <1>1, <1>6, <2>2, <2>3, <2>4, <2>5 DEF Mapped, StorageStep
<1> QED  BY <1>7, <1>8

LEMMA CloseFilesMapped ==
    ASSUME CloseFiles \/ ClearSandbox
    PROVE  Mapped
<1>1. /\ finish # "running" /\ finish' # "running"
      /\ UNCHANGED <<drive, disk, lower, upper, job, chain>>
  BY DEF CloseFiles, ClearSandbox
<1>2. Committed(drive', lower', disk', chain') = Committed(drive, lower, disk, chain)
  BY <1>1 DEF Committed
<1>3. /\ Batch(lower', upper', disk', job', chain', finish')
           = Batch(lower, upper, disk, job, chain, finish)
      /\ Call(lower', upper', disk', job', chain', finish')
           = Call(lower, upper, disk, job, chain, finish)
  BY <1>1 DEF Batch, Call, Live
<1> QED  BY <1>2, <1>3 DEF Mapped, StorageStep

LEMMA TaskIsFinishedMapped ==
    ASSUME IInv, IInv', TaskIsFinished
    PROVE  Mapped
<1>1. /\ finish = "cleared" /\ finish' = "over" /\ chain # "swap" /\ lower' = NoTree
      /\ UNCHANGED <<drive, disk, chain>>
  BY DEF TaskIsFinished
<1>2. CASE chain # "none"
  <2>1. chain' # "swap"  BY <1>1
  <2> QED  BY <1>1, <1>2, <2>1, BatchDropped
<1>3. CASE chain = "none"
  <2>1. Committed(drive', lower', disk', chain') = Committed(drive, lower, disk, chain)
    BY <1>1, <1>3 DEF Committed
  <2>2. finish # "running"  BY <1>1
  <2>3. /\ Batch(lower, upper, disk, job, chain, finish) = NoTree
        /\ Call(lower, upper, disk, job, chain, finish) = NoTree
    BY <1>3, <2>2, NoBatch
  <2>4. /\ Batch(lower', upper', disk', job', chain', finish') = NoTree
        /\ Call(lower', upper', disk', job', chain', finish') = NoTree
    BY <1>1, NoBatch
  <2> QED  BY <2>1, <2>3, <2>4 DEF Mapped, StorageStep
<1> QED  BY <1>2, <1>3

LEMMA EveryStepMapped ==
    ASSUME IInv, IInv', [Next]_vars
    PROVE  Mapped
<1>1. CASE Request
  <2>1. CASE InitiateSandboxModifications  BY <2>1, InitiateMapped
  <2>2. CASE Query \/ EvaluateStorageHash  BY <2>2, QueryMapped
  <2>3. CASE FolderIteratorCreate \/ FolderIteratorDestroy  BY <2>3, IteratorMapped
  <2>4. ASSUME NEW n \in Names, OpenToRead(n)  PROVE Mapped  BY <2>4, OpenToReadMapped
  <2>5. ASSUME NEW n \in Names, OpenToWrite(n)  PROVE Mapped  BY <2>5, OpenToWriteMapped
  <2>6. ASSUME NEW n \in Names, RemoveFsTreeEntry(n)  PROVE Mapped
    <3>1. PICK dst \in Names : dst = n  OBVIOUS
    <3> QED  BY <2>6, <3>1, DropMapped
  <2>7. ASSUME NEW n \in Names, NEW dst \in Names, MoveFsTreeEntry(n, dst)  PROVE Mapped
    BY <2>7, MoveMapped
  <2>8. ASSUME NEW o \in open, WriteFile(o) \/ CloseFile(o)  PROVE Mapped
    BY <2>8, OpenFilesMapped
  <2>9. ASSUME NEW success \in BOOLEAN, ApplySandboxModifications(success)  PROVE Mapped
    BY <2>9, ApplySandboxMapped
  <2>10. ASSUME NEW success \in BOOLEAN, ApplyStorageModifications(success)  PROVE Mapped
    BY <2>10, ApplyStorageMapped
  <2> QED
    BY <1>1, <2>1, <2>2, <2>3, <2>4, <2>5, <2>6, <2>7, <2>8, <2>9, <2>10 DEF Request
<1>2. CASE Background
  BY <1>2, CreateStreamMapped, UseStreamMapped, RemoveUnusedMapped, EndSandboxMapped,
     ComputeHashMapped, AddNewTorrentsMapped, TorrentsDeletedMapped, AppliedTooLateMapped,
     ClearTrashMapped, CloseFilesMapped DEF Background
<1>3. CASE Session
  BY <1>3, InterruptedMapped, AnswerMapped, StreamsClosedMapped, AppliedSandboxMapped,
     AppliedStorageMapped, CloseFilesMapped, TaskIsFinishedMapped DEF Session
<1>4. CASE Terminate  BY <1>4, TerminateMapped
<1>5. CASE Run  BY <1>5, RunMapped
<1>6. CASE UNCHANGED vars
  <2>1. UNCHANGED <<drive, disk, lower, upper, chain, finish, job>>  BY <1>6 DEF vars, task
  <2> QED  BY <2>1, NothingChanged
<1> QED  BY <1>1, <1>2, <1>3, <1>4, <1>5, <1>6 DEF Next

\* These are the values the refinement mapping of the model has.
MappingValues ==
    /\ Content(IF chain = "swap" THEN lower ELSE drive) = Committed(drive, lower, disk, chain)
    /\ (IF ~InBatch THEN NoTree ELSE Content(IF Accepted THEN upper ELSE lower))
         = Batch(lower, upper, disk, job, chain, finish)
    /\ (IF ~InBatch \/ upper = NoTree \/ Accepted \/ Discarded THEN NoTree ELSE Content(upper))
         = Call(lower, upper, disk, job, chain, finish)

LEMMA MappingIsExact == MappingValues
<1>1. Content(drive) = ContentOn(drive, disk) /\ Content(lower) = ContentOn(lower, disk)
      /\ Content(upper) = ContentOn(upper, disk)
  BY DEF Content, ContentOn
<1>2. (Accepted <=> Applied(job) /\ job.ok) /\ (Accepted \/ Discarded <=> Applied(job))
  BY DEF Accepted, Discarded, Applied, OnSession
<1>3. Content(IF chain = "swap" THEN lower ELSE drive) = Committed(drive, lower, disk, chain)
  BY <1>1 DEF Committed
<1>4. (IF ~InBatch THEN NoTree ELSE Content(IF Accepted THEN upper ELSE lower))
        = Batch(lower, upper, disk, job, chain, finish)
  BY <1>1, <1>2 DEF Batch, Live, InBatch
<1>5. (IF ~InBatch \/ upper = NoTree \/ Accepted \/ Discarded THEN NoTree ELSE Content(upper))
        = Call(lower, upper, disk, job, chain, finish)
  BY <1>1, <1>2 DEF Call, Live, InBatch
<1> QED  BY <1>3, <1>4, <1>5 DEF MappingValues

\* The two sandboxes and the drive, although they share one folder, implement
\* three separate copies of a tree: a call changes its own copy only, and the
\* end of a call or of a batch takes a copy over as a whole or drops it, also
\* when the task is terminated while the storage is applied, and whatever the
\* executor moves onto what (acceptUpperSandboxModifications, discardUpperSandboxModifications,
\* computeSandboxHash, onUnusedTorrentsDeleted, onAppliedStorageModifications).
THEOREM SandboxedStorageTheorem == Spec => ImplementsSandboxedStorage
<1>1. Init => Storage!Init
  <2> SUFFICES ASSUME Init  PROVE Storage!Init
    OBVIOUS
  <2>1. IInv /\ finish = "over" /\ chain = "none"  BY Initially DEF Init
  <2>2. Committed(drive, lower, disk, chain) \in AllContents
    <3>1. drive \in Trees /\ disk \in Disks  BY <2>1, Basics DEF IInv, TypeOK
    <3> QED  BY <2>1, <3>1, ContentType DEF Committed
  <2>3. /\ Batch(lower, upper, disk, job, chain, finish) = NoTree
        /\ Call(lower, upper, disk, job, chain, finish) = NoTree
    BY <2>1, NoBatch
  <2> QED  BY <2>2, <2>3, MappingIsExact DEF MappingValues, Storage!Init, AllContents
<1>2. IInv /\ IInv' /\ [Next]_vars => [Storage!Next]_(Storage!vars)
  <2> SUFFICES ASSUME IInv, IInv', [Next]_vars  PROVE [Storage!Next]_(Storage!vars)
    OBVIOUS
  <2>1. Mapped  BY EveryStepMapped
  <2>2. MappingValues /\ MappingValues'  BY MappingIsExact, PTL
  <2> QED
    BY <2>1, <2>2
       DEF MappingValues, Mapped, StorageStep, AllContents, Storage!Next, Storage!vars,
           Storage!BeginBatch, Storage!BeginCall, Storage!Modify, Storage!EndCall,
           Storage!Commit, Storage!Abort
<1>3. Spec => []IInv  BY AlwaysGood
<1> QED  BY <1>1, <1>2, <1>3, PTL DEF Spec, ImplementsSandboxedStorage, Storage!Spec

==============================================================================
