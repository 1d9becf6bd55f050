-------------------------------- MODULE Sums --------------------------------
(***************************************************************************)
(* Sums over the arguments of a function, and induction.                    *)
(*                                                                         *)
(* A set of numbers that has 0, and n + 1 whenever it has n, has them all:   *)
(* that the numbers are well-founded is a fact about their relation, so that *)
(* an induction goes over a set.  With it the recursion of the community     *)
(* modules' folds has one solution, and a sum is what one expects.           *)
(***************************************************************************)
EXTENDS Integers, FiniteSets, FiniteSetsExt, WellFoundedInduction, FiniteSetTheorems, TLAPS

LEMMA LeastNumber ==
    ASSUME NEW T, T \subseteq Nat, T # {}
    PROVE  \E x \in T : \A y \in T : x <= y
<1> DEFINE R == {ss \in Nat \X Nat : ss[1] < ss[2]}
<1>1. IsWellFoundedOn(R, Nat)  BY NatLessThanWellFounded, Zenon DEF OpToRel
<1> HIDE DEF R
<1>2. \E x \in T : \A y \in T : ~ (<<y, x>> \in R)
  BY ONLY <1>1, WFMin, T \subseteq Nat, T # {}, Zenon
<1>3. ASSUME NEW x \in Nat, NEW y \in Nat, y < x  PROVE <<y, x>> \in R
  <2>1. <<y, x>> \in Nat \X Nat  OBVIOUS
  <2>2. <<y, x>>[1] < <<y, x>>[2]  BY <1>3
  <2> QED  BY ONLY <2>1, <2>2 DEF R
<1>4. PICK x \in T : \A y \in T : ~ (<<y, x>> \in R)  BY <1>2
<1>5. ASSUME NEW y \in T  PROVE x <= y
  <2>1. x \in Nat /\ y \in Nat  OBVIOUS
  <2>2. ~(y < x)  BY <1>3, <1>4, <2>1
  <2> QED  BY ONLY <2>1, <2>2
<1> QED  BY <1>5

LEMMA Counting ==
    ASSUME NEW S, 0 \in S, \A n \in Nat : n \in S => n + 1 \in S
    PROVE  Nat \subseteq S
<1> SUFFICES ASSUME Nat \ S # {} PROVE FALSE  OBVIOUS
<1>1. PICK x \in Nat \ S : \A y \in Nat \ S : x <= y  BY LeastNumber
<1>2. x - 1 \in Nat /\ x - 1 \in S  BY <1>1
<1> QED  BY <1>1, <1>2


SumOf(f) == MapThenSumSet(LAMBDA x : f[x], DOMAIN f)

(* A sum over the sets of arguments of f, whatever argument comes off first. *)
SumsOf(g, f) ==
    /\ g \in [SUBSET DOMAIN f -> Int]
    /\ g[{}] = 0
    /\ \A s \in SUBSET DOMAIN f : \A x \in s : g[s] = f[x] + g[s \ {x}]

One(s) == CHOOSE x \in s : TRUE

(* The recursion of the fold, up to a number of arguments. *)
SumsUpTo(g, f, n) ==
    g = [s \in {s \in SUBSET DOMAIN f : Cardinality(s) <= n} |->
            IF s = {} THEN 0 ELSE f[One(s)] + g[s \ {One(s)}]]

LEMMA OneOff ==
    ASSUME NEW s, IsFiniteSet(s), NEW x \in s
    PROVE  /\ IsFiniteSet(s \ {x}) /\ Cardinality(s \ {x}) = Cardinality(s) - 1
           /\ Cardinality(s) \in Nat /\ Cardinality(s) > 0
<1>1. IsFiniteSet(s \ {x}) /\ Cardinality(s \ {x}) = Cardinality(s) - 1  BY FS_RemoveElement
<1>2. Cardinality(s) \in Nat /\ Cardinality(s \ {x}) \in Nat  BY <1>1, FS_CardinalityType
<1> QED  BY ONLY <1>1, <1>2

LEMMA FoldsExist ==
    ASSUME NEW f, IsFiniteSet(DOMAIN f)
    PROVE  \A n \in Nat : \E g : SumsUpTo(g, f, n)
<1> DEFINE All == SUBSET DOMAIN f
           Upto(n) == {s \in All : Cardinality(s) <= n}
           S == {n \in Nat : \E g : SumsUpTo(g, f, n)}
<1>0. \A s \in All : IsFiniteSet(s) /\ Cardinality(s) \in Nat  BY FS_Subset, FS_CardinalityType
<1>1. 0 \in S
  <2> DEFINE g == [s \in Upto(0) |-> 0]
  <2>1. \A s \in Upto(0) : s = {}
    <3> SUFFICES ASSUME NEW s \in Upto(0) PROVE s = {}  OBVIOUS
    <3>1. IsFiniteSet(s) /\ Cardinality(s) \in Nat /\ Cardinality(s) <= 0  BY <1>0
    <3>2. Cardinality(s) = 0  BY ONLY <3>1
    <3> QED  BY <3>1, <3>2, FS_EmptySet
  <2>2. g = [s \in Upto(0) |-> IF s = {} THEN 0 ELSE f[One(s)] + g[s \ {One(s)}]]
    BY ONLY <2>1, Zenon
  <2>3. SumsUpTo(g, f, 0)  BY <2>2 DEF SumsUpTo
  <2> QED  BY <2>3
<1>2. ASSUME NEW n \in Nat, n \in S  PROVE n + 1 \in S
  <2>1. PICK g : SumsUpTo(g, f, n)  BY <1>2
  <2> DEFINE h == [s \in Upto(n + 1) |-> IF s = {} THEN 0 ELSE f[One(s)] + g[s \ {One(s)}]]
  <2>2. \A s \in Upto(n) : g[s] = h[s]
    <3> SUFFICES ASSUME NEW s \in Upto(n) PROVE g[s] = h[s]  OBVIOUS
    <3>1. s \in Upto(n + 1)  BY <1>0
    <3>2. g[s] = IF s = {} THEN 0 ELSE f[One(s)] + g[s \ {One(s)}]  BY <2>1 DEF SumsUpTo
    <3> QED  BY <3>1, <3>2
  <2>3. \A s \in Upto(n + 1) : s # {} => g[s \ {One(s)}] = h[s \ {One(s)}]
    <3> SUFFICES ASSUME NEW s \in Upto(n + 1), s # {} PROVE s \ {One(s)} \in Upto(n)  BY <2>2
    <3>1. One(s) \in s  BY DEF One
    <3>2. Cardinality(s \ {One(s)}) = Cardinality(s) - 1  BY <1>0, <3>1, OneOff
    <3>3. Cardinality(s) \in Nat /\ Cardinality(s) <= n + 1  BY <1>0
    <3>4. Cardinality(s \ {One(s)}) <= n  BY ONLY <3>2, <3>3, n \in Nat
    <3> QED  BY <3>4
  <2>4. \A s \in Upto(n + 1) : h[s] = IF s = {} THEN 0 ELSE f[One(s)] + h[s \ {One(s)}]
    BY <2>3
  <2> HIDE DEF Upto
  <2>5. h = [s \in Upto(n + 1) |-> h[s]]  OBVIOUS
  <2> HIDE DEF h
  <2>6. h = [s \in Upto(n + 1) |-> IF s = {} THEN 0 ELSE f[One(s)] + h[s \ {One(s)}]]
    BY ONLY <2>4, <2>5, Zenon
  <2>7. SumsUpTo(h, f, n + 1)  BY <2>6 DEF SumsUpTo, Upto
  <2> QED  BY <2>7
<1> HIDE DEF S
<1>3. Nat \subseteq S  BY ONLY <1>1, <1>2, Counting
<1> QED  BY <1>3 DEF S


(* The recursion of the fold.                                                *)
FoldOf(g, f) == g = [s \in SUBSET DOMAIN f |-> IF s = {} THEN 0 ELSE f[One(s)] + g[s \ {One(s)}]]

LEMMA FoldExists ==
    ASSUME NEW f, IsFiniteSet(DOMAIN f)
    PROVE  \E g : FoldOf(g, f)
<1> DEFINE All == SUBSET DOMAIN f
<1>0. \A s \in All : IsFiniteSet(s) /\ Cardinality(s) \in Nat  BY FS_Subset, FS_CardinalityType
<1>1. PICK n \in Nat : n = Cardinality(DOMAIN f)  BY <1>0
<1>2. All = {s \in All : Cardinality(s) <= n}
  <2> SUFFICES ASSUME NEW s \in All PROVE Cardinality(s) <= n  OBVIOUS
  <2> QED  BY <1>1, FS_Subset
<1>3. PICK g : SumsUpTo(g, f, n)  BY FoldsExist
<1>4. g = [s \in {s \in All : Cardinality(s) <= n} |-> IF s = {} THEN 0 ELSE f[One(s)] + g[s \ {One(s)}]]
  BY <1>3 DEF SumsUpTo
<1>5. g = [s \in All |-> IF s = {} THEN 0 ELSE f[One(s)] + g[s \ {One(s)}]]  BY ONLY <1>2, <1>4, Zenon
<1> QED  BY <1>5 DEF FoldOf

LEMMA FoldIsSum ==
    ASSUME NEW f, IsFiniteSet(DOMAIN f), \A x \in DOMAIN f : f[x] \in Int, NEW g, FoldOf(g, f)
    PROVE  SumsOf(g, f)
<1> DEFINE All == SUBSET DOMAIN f
<1>0. \A s \in All : IsFiniteSet(s) /\ Cardinality(s) \in Nat  BY FS_Subset, FS_CardinalityType
<1>3. g = [s \in All |-> IF s = {} THEN 0 ELSE f[One(s)] + g[s \ {One(s)}]]  BY DEF FoldOf
<1>4. \A s \in All : g[s] = IF s = {} THEN 0 ELSE f[One(s)] + g[s \ {One(s)}]  BY <1>3, Zenon
<1>5. \A s \in All : s # {} => One(s) \in s /\ One(s) \in DOMAIN f /\ s \ {One(s)} \in All  BY DEF One
<1> DEFINE T == {n \in Nat : \A s \in All : Cardinality(s) = n => g[s] \in Int}
<1>6. \A s \in All : g[s] \in Int
  <2>1. 0 \in T
    <3> SUFFICES ASSUME NEW s \in All, Cardinality(s) = 0  PROVE g[s] \in Int  OBVIOUS
    <3>1. s = {}  BY <1>0, FS_EmptySet
    <3>2. g[s] = 0  BY <1>4, <3>1
    <3> QED  BY ONLY <3>2
  <2>2. ASSUME NEW n \in Nat, n \in T  PROVE n + 1 \in T
    <3> SUFFICES ASSUME NEW s \in All, Cardinality(s) = n + 1  PROVE g[s] \in Int  OBVIOUS
    <3>1. s # {}
      <4>1. Cardinality({}) = 0  BY FS_EmptySet
      <4> QED  BY ONLY <4>1, Cardinality(s) = n + 1, n \in Nat
    <3>2. PICK c \in s : g[s] = f[c] + g[s \ {c}]  BY <1>4, <1>5, <3>1
    <3>3. s \ {c} \in All /\ Cardinality(s \ {c}) = n
      <4>1. Cardinality(s \ {c}) = Cardinality(s) - 1  BY <1>0, OneOff
      <4> QED  BY <4>1
    <3>4. g[s \ {c}] \in Int /\ f[c] \in Int  BY <2>2, <3>3
    <3> QED  BY ONLY <3>2, <3>4
  <2> HIDE DEF T
  <2>3. Nat \subseteq T  BY ONLY <2>1, <2>2, Counting
  <2> QED  BY <1>0, <2>3 DEF T
<1> DEFINE S == {n \in Nat : \A s \in All : Cardinality(s) = n => \A x \in s : g[s] = f[x] + g[s \ {x}]}
<1>7. 0 \in S
  <2> SUFFICES ASSUME NEW s \in All, Cardinality(s) = 0  PROVE s = {}  OBVIOUS
  <2> QED  BY <1>0, FS_EmptySet
<1>8. ASSUME NEW n \in Nat, n \in S  PROVE n + 1 \in S
  <2> SUFFICES ASSUME NEW s \in All, Cardinality(s) = n + 1, NEW x \in s  PROVE g[s] = f[x] + g[s \ {x}]
    OBVIOUS
  <2>1. PICK c \in s : g[s] = f[c] + g[s \ {c}]  BY <1>4, <1>5
  <2>2. \A y \in s : s \ {y} \in All /\ Cardinality(s \ {y}) = n
    <3> SUFFICES ASSUME NEW y \in s PROVE Cardinality(s \ {y}) = n  OBVIOUS
    <3>1. Cardinality(s \ {y}) = Cardinality(s) - 1  BY <1>0, OneOff
    <3> QED  BY <3>1
  <2>3. CASE x = c  BY <2>1, <2>3
  <2>4. CASE x # c
    <3> DEFINE both == (s \ {c}) \ {x}
    <3>1. (s \ {x}) \ {c} = both /\ both \in All  OBVIOUS
    <3>2. g[s \ {c}] = f[x] + g[both]  BY <1>8, <2>2, <2>4
    <3>3. g[s \ {x}] = f[c] + g[both]  BY <1>8, <2>2, <2>4, <3>1
    <3>4. g[both] \in Int /\ f[x] \in Int /\ f[c] \in Int  BY <1>6, <3>1
    <3> HIDE DEF both
    <3> QED  BY ONLY <2>1, <3>2, <3>3, <3>4
  <2> QED  BY <2>3, <2>4
<1> HIDE DEF S
<1>10. Nat \subseteq S  BY ONLY <1>7, <1>8, Counting
<1>9. SumsOf(g, f)
  <2>1. \A s \in All : g[s] \in Int /\ \A x \in s : g[s] = f[x] + g[s \ {x}]  BY <1>0, <1>6, <1>10 DEF S
  <2>2. g = [s \in All |-> g[s]]  BY <1>3
  <2>3. g \in [All -> Int]  BY ONLY <2>1, <2>2, Zenon
  <2> QED  BY <1>4, <2>1, <2>3 DEF SumsOf
<1> QED  BY <1>9

LEMMA SumsExist ==
    ASSUME NEW f, IsFiniteSet(DOMAIN f), \A x \in DOMAIN f : f[x] \in Int
    PROVE  \E g : SumsOf(g, f) /\ SumOf(f) = g[DOMAIN f]
<1> DEFINE iter == CHOOSE g : g = [s \in SUBSET DOMAIN f |-> IF s = {} THEN 0 ELSE f[One(s)] + g[s \ {One(s)}]]
<1>1. SumOf(f) = iter[DOMAIN f]  BY DEF SumOf, MapThenSumSet, MapThenFoldSet, One
<1>2. \E g : g = [s \in SUBSET DOMAIN f |-> IF s = {} THEN 0 ELSE f[One(s)] + g[s \ {One(s)}]]
  BY FoldExists DEF FoldOf
<1>3. iter = [s \in SUBSET DOMAIN f |-> IF s = {} THEN 0 ELSE f[One(s)] + iter[s \ {One(s)}]]  BY <1>2, Zenon
<1> HIDE DEF iter
<1>4. FoldOf(iter, f)  BY <1>3 DEF FoldOf
<1> QED  BY <1>1, <1>4, FoldIsSum

(* To reach every subset of a finite set, it is enough to add one element. *)
LEMMA SetsByOne ==
    ASSUME NEW D, IsFiniteSet(D), NEW S, {} \in S,
           \A s \in SUBSET D : \A x \in s : s \ {x} \in S => s \in S
    PROVE  SUBSET D \subseteq S
<1> DEFINE N == {n \in Nat : \A s \in SUBSET D : Cardinality(s) = n => s \in S}
<1>0. \A s \in SUBSET D : IsFiniteSet(s) /\ Cardinality(s) \in Nat  BY FS_Subset, FS_CardinalityType
<1>1. 0 \in N
  <2> SUFFICES ASSUME NEW s \in SUBSET D, Cardinality(s) = 0  PROVE s \in S  OBVIOUS
  <2>1. s = {}  BY <1>0, FS_EmptySet
  <2> QED  BY <2>1
<1>2. ASSUME NEW n \in Nat, n \in N  PROVE n + 1 \in N
  <2> SUFFICES ASSUME NEW s \in SUBSET D, Cardinality(s) = n + 1  PROVE s \in S  OBVIOUS
  <2>1. s # {}
    <3>1. Cardinality({}) = 0  BY FS_EmptySet
    <3> QED  BY ONLY <3>1, Cardinality(s) = n + 1, n \in Nat
  <2>2. PICK x \in s : TRUE  BY <2>1
  <2>3. Cardinality(s \ {x}) = Cardinality(s) - 1  BY <1>0, OneOff
  <2>4. s \ {x} \in SUBSET D /\ Cardinality(s \ {x}) = n  BY <2>3
  <2>5. s \ {x} \in S  BY <1>2, <2>4
  <2> QED  BY <2>5
<1> HIDE DEF N
<1>3. Nat \subseteq N  BY ONLY <1>1, <1>2, Counting
<1> QED  BY <1>0, <1>3 DEF N

LEMMA SumsAgree ==
    ASSUME NEW f, IsFiniteSet(DOMAIN f), NEW g, SumsOf(g, f), NEW h, SumsOf(h, f)
    PROVE  \A s \in SUBSET DOMAIN f : g[s] = h[s]
<1>0. PICK D : D = DOMAIN f  OBVIOUS
<1> DEFINE S == {s \in SUBSET D : g[s] = h[s]}
<1>1. {} \in S  BY <1>0 DEF SumsOf
<1>2. ASSUME NEW s \in SUBSET D, NEW x \in s, s \ {x} \in S  PROVE s \in S
  <2>1. g[s \ {x}] = h[s \ {x}]  BY <1>2
  <2>2. g[s] = f[x] + g[s \ {x}] /\ h[s] = f[x] + h[s \ {x}]  BY <1>0 DEF SumsOf
  <2> QED  BY <2>1, <2>2
<1> HIDE DEF S
<1>3. IsFiniteSet(D)  BY <1>0
<1>4. SUBSET D \subseteq S  BY ONLY <1>1, <1>2, SetsByOne, <1>3
<1> QED  BY <1>0, <1>4 DEF S

LEMMA SumIs ==
    ASSUME NEW f, IsFiniteSet(DOMAIN f), \A x \in DOMAIN f : f[x] \in Int, NEW g, SumsOf(g, f)
    PROVE  SumOf(f) = g[DOMAIN f]
<1>1. PICK h : SumsOf(h, f) /\ SumOf(f) = h[DOMAIN f]  BY SumsExist
<1>2. \A s \in SUBSET DOMAIN f : g[s] = h[s]  BY <1>1, SumsAgree
<1> QED  BY <1>1, <1>2

(* Sums are numbers, and not negative when nothing in them is. *)
LEMMA SumType ==
    ASSUME NEW f, IsFiniteSet(DOMAIN f), \A x \in DOMAIN f : f[x] \in Int
    PROVE  /\ SumOf(f) \in Int
           /\ (\A x \in DOMAIN f : f[x] \in Nat) => SumOf(f) \in Nat
<1>1. PICK g : SumsOf(g, f) /\ SumOf(f) = g[DOMAIN f]  BY SumsExist
<1>2. \A s \in SUBSET DOMAIN f : g[s] \in Int  BY <1>1 DEF SumsOf
<1>3. ASSUME \A x \in DOMAIN f : f[x] \in Nat  PROVE SumOf(f) \in Nat
  <2>0. PICK D : D = DOMAIN f  OBVIOUS
  <2> DEFINE S == {s \in SUBSET D : g[s] \in Nat}
  <2>1. {} \in S  BY <1>1, <2>0 DEF SumsOf
  <2>2. ASSUME NEW s \in SUBSET D, NEW x \in s, s \ {x} \in S  PROVE s \in S
    <3>1. g[s] = f[x] + g[s \ {x}]  BY <1>1, <2>0 DEF SumsOf
    <3>2. g[s \ {x}] \in Nat /\ f[x] \in Nat  BY <1>3, <2>0, <2>2
    <3>3. g[s] \in Nat  BY ONLY <3>1, <3>2
    <3> QED  BY <3>3
  <2> HIDE DEF S
  <2>3. IsFiniteSet(D)  BY <2>0
  <2>4. SUBSET D \subseteq S  BY ONLY <2>1, <2>2, SetsByOne, <2>3
  <2> QED  BY <1>1, <2>0, <2>4 DEF S
<1> QED  BY <1>1, <1>2, <1>3

(* A sum of sums. *)
LEMMA SumOfSums ==
    ASSUME NEW D, IsFiniteSet(D), NEW f, DOMAIN f = D, NEW h, DOMAIN h = D, NEW e, DOMAIN e = D,
           \A x \in D : f[x] \in Int /\ h[x] \in Int /\ e[x] = f[x] + h[x]
    PROVE  SumOf(e) = SumOf(f) + SumOf(h)
<1>1. PICK g : SumsOf(g, f) /\ SumOf(f) = g[D]  BY SumsExist
<1>2. PICK k : SumsOf(k, h) /\ SumOf(h) = k[D]  BY SumsExist
<1> DEFINE j == [s \in SUBSET D |-> g[s] + k[s]]
<1>3. SumsOf(j, e)
  <2>1. \A s \in SUBSET D : g[s] \in Int /\ k[s] \in Int  BY <1>1, <1>2 DEF SumsOf
  <2>2. j \in [SUBSET D -> Int]  BY <2>1
  <2>3. j[{}] = 0  BY <1>1, <1>2 DEF SumsOf
  <2>4. ASSUME NEW s \in SUBSET D, NEW x \in s  PROVE j[s] = e[x] + j[s \ {x}]
    <3>1. g[s] = f[x] + g[s \ {x}] /\ k[s] = h[x] + k[s \ {x}]  BY <1>1, <1>2 DEF SumsOf
    <3>2. g[s \ {x}] \in Int /\ k[s \ {x}] \in Int /\ f[x] \in Int /\ h[x] \in Int /\ e[x] = f[x] + h[x]  BY <2>1
    <3>3. j[s] = g[s] + k[s] /\ j[s \ {x}] = g[s \ {x}] + k[s \ {x}]  OBVIOUS
    <3> HIDE DEF j
    <3> QED  BY ONLY <3>1, <3>2, <3>3
  <2> QED  BY <2>2, <2>3, <2>4 DEF SumsOf
<1>4. SumOf(e) = j[D]  BY <1>3, SumIs
<1> QED  BY <1>1, <1>2, <1>4

LEMMA SumOfMultiples ==
    ASSUME NEW D, IsFiniteSet(D), NEW f, DOMAIN f = D, NEW e, DOMAIN e = D, NEW k \in Int,
           \A x \in D : f[x] \in Int /\ e[x] = k * f[x]
    PROVE  SumOf(e) = k * SumOf(f)
<1>1. PICK g : SumsOf(g, f) /\ SumOf(f) = g[D]  BY SumsExist
<1> DEFINE j == [s \in SUBSET D |-> k * g[s]]
<1>3. SumsOf(j, e)
  <2>1. \A s \in SUBSET D : g[s] \in Int  BY <1>1 DEF SumsOf
  <2>2. j \in [SUBSET D -> Int]  BY <2>1
  <2>3. j[{}] = 0  BY <1>1 DEF SumsOf
  <2>4. ASSUME NEW s \in SUBSET D, NEW x \in s  PROVE j[s] = e[x] + j[s \ {x}]
    <3>1. g[s] = f[x] + g[s \ {x}]  BY <1>1 DEF SumsOf
    <3>2. g[s \ {x}] \in Int /\ f[x] \in Int /\ e[x] = k * f[x]  BY <2>1
    <3>3. j[s] = k * g[s] /\ j[s \ {x}] = k * g[s \ {x}]  OBVIOUS
    <3> HIDE DEF j
    <3> QED  BY ONLY <3>1, <3>2, <3>3, k \in Int
  <2> QED  BY <2>2, <2>3, <2>4 DEF SumsOf
<1>4. \A x \in DOMAIN e : e[x] \in Int  OBVIOUS
<1>5. SumOf(e) = j[D]  BY <1>3, <1>4, SumIs
<1> QED  BY <1>1, <1>5

(* Sums are compared argument by argument. *)
LEMMA SumsCompare ==
    ASSUME NEW D, IsFiniteSet(D), NEW f, DOMAIN f = D, NEW h, DOMAIN h = D,
           \A x \in D : f[x] \in Int /\ h[x] \in Int /\ f[x] <= h[x]
    PROVE  /\ SumOf(f) <= SumOf(h)
           /\ (\E x \in D : f[x] < h[x]) => SumOf(f) < SumOf(h)
<1>1. PICK g : SumsOf(g, f) /\ SumOf(f) = g[D]  BY SumsExist
<1>2. PICK k : SumsOf(k, h) /\ SumOf(h) = k[D]  BY SumsExist
<1>3. \A s \in SUBSET D : g[s] \in Int /\ k[s] \in Int  BY <1>1, <1>2 DEF SumsOf
<1> DEFINE S == {s \in SUBSET D : g[s] <= k[s]}
<1>4. {} \in S  BY <1>1, <1>2 DEF SumsOf
<1>5. \A s \in SUBSET D : \A x \in s : g[s] = f[x] + g[s \ {x}] /\ k[s] = h[x] + k[s \ {x}]
  BY <1>1, <1>2 DEF SumsOf
<1>6. ASSUME NEW s \in SUBSET D, NEW x \in s, s \ {x} \in S  PROVE s \in S
  <2>1. g[s] = f[x] + g[s \ {x}] /\ k[s] = h[x] + k[s \ {x}]  BY <1>5
  <2>2. g[s \ {x}] \in Int /\ k[s \ {x}] \in Int /\ f[x] \in Int /\ h[x] \in Int /\ f[x] <= h[x]  BY <1>3
  <2>3. g[s \ {x}] <= k[s \ {x}]  BY <1>6
  <2>4. g[s] <= k[s]  BY ONLY <2>1, <2>2, <2>3
  <2> QED  BY <2>4
<1> HIDE DEF S
<1>7. SUBSET D \subseteq S  BY ONLY <1>4, <1>6, SetsByOne, IsFiniteSet(D)
<1>8. SumOf(f) <= SumOf(h)  BY <1>1, <1>2, <1>7 DEF S
<1>9. ASSUME NEW x \in D, f[x] < h[x]  PROVE SumOf(f) < SumOf(h)
  <2>1. g[D \ {x}] <= k[D \ {x}]  BY <1>7 DEF S
  <2>2. g[D] = f[x] + g[D \ {x}] /\ k[D] = h[x] + k[D \ {x}]  BY <1>5
  <2>3. g[D \ {x}] \in Int /\ k[D \ {x}] \in Int /\ f[x] \in Int /\ h[x] \in Int  BY <1>3
  <2>4. g[D] < k[D]  BY ONLY <1>9, <2>1, <2>2, <2>3
  <2> QED  BY <1>1, <1>2, <2>4
<1> QED  BY <1>8, <1>9

(* What is nothing may be left out. *)
LEMMA SumOfSome ==
    ASSUME NEW f, IsFiniteSet(DOMAIN f), NEW e, DOMAIN e \subseteq DOMAIN f,
           \A x \in DOMAIN f : f[x] \in Int /\ (IF x \in DOMAIN e THEN e[x] = f[x] ELSE f[x] = 0)
    PROVE  SumOf(e) = SumOf(f)
<1>0. PICK D, E : D = DOMAIN f /\ E = DOMAIN e  OBVIOUS
<1>1. PICK g : SumsOf(g, f) /\ SumOf(f) = g[D]  BY <1>0, SumsExist
<1>2. IsFiniteSet(E)  BY <1>0, FS_Subset
<1>3. \A x \in E : e[x] \in Int  BY <1>0
<1> DEFINE j == [s \in SUBSET E |-> g[s]]
<1>4. SumsOf(j, e)
  <2>1. \A s \in SUBSET E : g[s] \in Int  BY <1>0, <1>1 DEF SumsOf
  <2>2. j \in [SUBSET E -> Int]  BY <2>1
  <2>3. j[{}] = 0  BY <1>0, <1>1 DEF SumsOf
  <2>4. ASSUME NEW s \in SUBSET E, NEW x \in s  PROVE j[s] = e[x] + j[s \ {x}]
    <3>1. g[s] = f[x] + g[s \ {x}]  BY <1>0, <1>1 DEF SumsOf
    <3>2. e[x] = f[x]  BY <1>0
    <3> QED  BY <3>1, <3>2
  <2> QED  BY <1>0, <2>2, <2>3, <2>4 DEF SumsOf
<1>5. SumOf(e) = g[E]  BY <1>0, <1>2, <1>3, <1>4, SumIs
<1> DEFINE S == {s \in SUBSET D : g[E \cup s] = g[E]}
<1>6. {} \in S
  <2>1. E \cup {} = E  OBVIOUS
  <2> QED  BY <2>1
<1>7. ASSUME NEW s \in SUBSET D, NEW x \in s, s \ {x} \in S  PROVE s \in S
  <2>1. CASE x \in E
    <3>1. E \cup (s \ {x}) = E \cup s  BY <2>1
    <3> QED  BY <1>7, <3>1
  <2>2. CASE x \notin E
    <3>0. E \subseteq D  BY <1>0
    <3>1. (E \cup s) \ {x} = E \cup (s \ {x}) /\ E \cup s \in SUBSET D  BY ONLY <2>2, <3>0, s \in SUBSET D, x \in s
    <3>7. \A r \in SUBSET D : \A y \in r : g[r] = f[y] + g[r \ {y}]  BY <1>0, <1>1 DEF SumsOf
    <3>6. g[E \cup s] = f[x] + g[(E \cup s) \ {x}]  BY ONLY <3>1, <3>7, x \in s
    <3>2. g[E \cup s] = f[x] + g[E \cup (s \ {x})]  BY <3>1, <3>6
    <3>3. f[x] = 0 /\ g[E] \in Int  BY <1>0, <1>1, <2>2 DEF SumsOf
    <3>4. g[E \cup (s \ {x})] = g[E]  BY <1>7
    <3>5. g[E \cup s] = g[E]  BY ONLY <3>2, <3>3, <3>4
    <3> QED  BY <3>5
  <2> QED  BY <2>1, <2>2
<1> HIDE DEF S
<1>10. IsFiniteSet(D)  BY <1>0
<1>8. SUBSET D \subseteq S  BY ONLY <1>6, <1>7, SetsByOne, <1>10
<1>9. g[E \cup D] = g[E] /\ E \cup D = D  BY <1>0, <1>8 DEF S
<1> QED  BY <1>1, <1>5, <1>9

(* A count is a sum of ones. *)
LEMMA SumOfOnes ==
    ASSUME NEW D, IsFiniteSet(D), NEW C, NEW e, e = [x \in D |-> IF x \in C THEN 1 ELSE 0]
    PROVE  SumOf(e) = Cardinality(D \cap C)
<1> DEFINE j == [s \in SUBSET D |-> Cardinality(s \cap C)]
<1>0. \A s \in SUBSET D : IsFiniteSet(s \cap C) /\ Cardinality(s \cap C) \in Nat  BY FS_Subset, FS_CardinalityType
<1>1. SumsOf(j, e)
  <2>2. j \in [SUBSET D -> Int]  BY <1>0
  <2>3. j[{}] = 0
    <3>1. {} \cap C = {}  OBVIOUS
    <3>2. Cardinality({}) = 0  BY FS_EmptySet
    <3> QED  BY <3>1, <3>2
  <2>4. ASSUME NEW s \in SUBSET D, NEW x \in s  PROVE j[s] = e[x] + j[s \ {x}]
    <3>1. CASE x \in C
      <4>1. (s \ {x}) \cap C = (s \cap C) \ {x} /\ x \in s \cap C  BY <3>1
      <4>2. Cardinality((s \cap C) \ {x}) = Cardinality(s \cap C) - 1  BY <1>0, <4>1, OneOff
      <4>3. e[x] = 1  BY <3>1
      <4>4. j[s] = Cardinality(s \cap C) /\ j[s \ {x}] = Cardinality((s \cap C) \ {x})  BY <4>1
      <4>5. Cardinality(s \cap C) \in Nat  BY <1>0
      <4> HIDE DEF j
      <4> QED  BY ONLY <4>2, <4>3, <4>4, <4>5
    <3>2. CASE x \notin C
      <4>1. (s \ {x}) \cap C = s \cap C  BY <3>2
      <4>2. e[x] = 0 /\ Cardinality(s \cap C) \in Nat  BY <1>0, <3>2
      <4>3. j[s] = Cardinality(s \cap C) /\ j[s \ {x}] = Cardinality(s \cap C)  BY <4>1
      <4> HIDE DEF j
      <4> QED  BY ONLY <4>2, <4>3
    <3> QED  BY <3>1, <3>2
  <2> QED  BY <2>2, <2>3, <2>4 DEF SumsOf
<1>2. DOMAIN e = D /\ \A x \in DOMAIN e : e[x] \in Int  OBVIOUS
<1>3. SumOf(e) = j[D]  BY <1>1, <1>2, SumIs
<1> QED  BY <1>3

(* A sum of which one term changes. *)
LEMMA SumOfAllButOne ==
    ASSUME NEW D, IsFiniteSet(D), NEW d \in D, NEW f, DOMAIN f = D, NEW h, DOMAIN h = D,
           \A x \in D : f[x] \in Int /\ h[x] \in Int /\ (x # d => h[x] = f[x])
    PROVE  SumOf(h) = SumOf(f) + (h[d] - f[d])
<1> DEFINE v == h[d] - f[d]
           one == [x \in D |-> IF x \in {d} THEN 1 ELSE 0]
           e == [x \in D |-> v * one[x]]
<1>1. v \in Int /\ \A x \in D : one[x] \in Int /\ one[x] = IF x = d THEN 1 ELSE 0  OBVIOUS
<1>2. SumOf(one) = 1
  <2>1. SumOf(one) = Cardinality(D \cap {d})  BY SumOfOnes
  <2>2. D \cap {d} = {d}  OBVIOUS
  <2> QED  BY <2>1, <2>2, FS_Singleton
<1> HIDE DEF v
<1>3. DOMAIN one = D /\ DOMAIN e = D  OBVIOUS
<1>4. \A x \in D : e[x] = v * one[x]  OBVIOUS
<1>5. v = h[d] - f[d]  BY DEF v
<1> HIDE DEF one, e
<1>6. SumOf(e) = v * SumOf(one)  BY <1>1, <1>3, <1>4, SumOfMultiples
<1>7. \A x \in D : e[x] \in Int /\ h[x] = f[x] + e[x]
  <2> SUFFICES ASSUME NEW x \in D PROVE e[x] \in Int /\ h[x] = f[x] + e[x]  OBVIOUS
  <2>1. CASE x = d
    <3>1. e[x] = v  BY <1>1, <1>4, <2>1
    <3> QED  BY <1>1, <1>5, <2>1, <3>1
  <2>2. CASE x # d
    <3>1. e[x] = 0  BY <1>1, <1>4, <2>2
    <3> QED  BY <2>2, <3>1
  <2> QED  BY <2>1, <2>2
<1>8. SumOf(h) = SumOf(f) + SumOf(e)  BY <1>3, <1>7, SumOfSums
<1>9. SumOf(e) = v  BY <1>1, <1>2, <1>6
<1> QED  BY <1>5, <1>8, <1>9

-----------------------------------------------------------------------------
(* How a quantity is divided by weights that are numbers.                   *)
LEMMA Portion ==
    ASSUME NEW g \in Nat, NEW w \in Nat, NEW n \in Nat \ {0}
    PROVE  /\ (g * w) \div n \in Nat
           /\ n * ((g * w) \div n) <= g * w /\ g * w < n * ((g * w) \div n) + n
<1>1. g * w \in Nat  OBVIOUS
<1> DEFINE a == g * w
<1>2. a \in Nat  BY <1>1
<1> HIDE DEF a
<1>3. a \div n \in Nat /\ a % n \in 0..n - 1 /\ a = n * (a \div n) + (a % n)  BY <1>2
<1> DEFINE q == a \div n
<1>4. q \in Nat /\ \E r \in Int : 0 <= r /\ r < n /\ a = n * q + r  BY <1>3
<1> HIDE DEF q
<1>5. n * q \in Int  BY <1>4
<1>6. n * q <= a /\ a < n * q + n  BY <1>2, <1>4, <1>5
<1> QED  BY <1>4, <1>6 DEF a, q

LEMMA Cancel ==
    ASSUME NEW a \in Int, NEW b \in Int, NEW n \in Nat \ {0}
    PROVE  /\ n * a <= n * b => a <= b
           /\ n * a < n * b => a < b
<1>1. ASSUME a > b PROVE n * a > n * b
  <2>1. n * (a - b) > 0  BY <1>1
  <2> QED  BY <2>1
<1>2. ASSUME a >= b PROVE n * a >= n * b
  <2>1. n * (a - b) >= 0  BY <1>2
  <2> QED  BY <2>1
<1> QED  BY <1>1, <1>2

(* Shares by weight: together they are what there is, but for less than a   *)
(* unit for each.                                                           *)
LEMMA Portions ==
    ASSUME NEW D, IsFiniteSet(D), D # {}, NEW w, DOMAIN w = D, \A x \in D : w[x] \in Nat, SumOf(w) # 0,
           NEW g \in Nat, NEW e, DOMAIN e = D, \A x \in D : e[x] = (g * w[x]) \div SumOf(w)
    PROVE  /\ \A x \in D : e[x] \in Nat
           /\ SumOf(e) \in Nat /\ SumOf(e) <= g /\ g < SumOf(e) + Cardinality(D)
<1>1. PICK n : n = SumOf(w)  OBVIOUS
<1>2. n \in Nat \ {0}  BY <1>1, SumType
<1>3. \A x \in D : e[x] \in Nat /\ n * e[x] <= g * w[x] /\ g * w[x] < n * e[x] + n  BY <1>1, <1>2, Portion
<1>4. SumOf(e) \in Nat  BY <1>3, SumType
<1>5. PICK c : c = Cardinality(D)  OBVIOUS
<1>6. c \in Nat  BY <1>5, FS_CardinalityType
<1> DEFINE whole == [x \in D |-> g * w[x]]  low == [x \in D |-> n * e[x]]
           ones == [x \in D |-> IF x \in D THEN 1 ELSE 0]  units == [x \in D |-> n * ones[x]]
           high == [x \in D |-> low[x] + units[x]]
<1>7. SumOf(whole) = g * n
  <2>1. DOMAIN whole = D /\ \A x \in D : w[x] \in Int /\ whole[x] = g * w[x]  OBVIOUS
  <2> HIDE DEF whole
  <2> QED  BY <1>1, <2>1, SumOfMultiples
<1>8. SumOf(low) = n * SumOf(e)
  <2>1. DOMAIN low = D /\ \A x \in D : e[x] \in Int /\ low[x] = n * e[x]  BY <1>3
  <2> HIDE DEF low
  <2> QED  BY <1>2, <2>1, SumOfMultiples
<1>9. SumOf(ones) = c
  <2>1. D \cap D = D  OBVIOUS
  <2> QED  BY <1>5, <2>1, SumOfOnes
<1>10. SumOf(units) = n * c
  <2>1. DOMAIN ones = D /\ DOMAIN units = D /\ \A x \in D : ones[x] \in Int /\ units[x] = n * ones[x]  OBVIOUS
  <2> HIDE DEF ones, units
  <2> QED  BY <1>2, <1>9, <2>1, SumOfMultiples
<1>11. \A x \in D : low[x] \in Int /\ units[x] = n /\ units[x] \in Int /\ whole[x] \in Int /\ high[x] \in Int
                 /\ low[x] <= whole[x] /\ whole[x] < high[x]
  <2> SUFFICES ASSUME NEW x \in D
               PROVE  /\ low[x] \in Int /\ units[x] = n /\ units[x] \in Int /\ whole[x] \in Int /\ high[x] \in Int
                      /\ low[x] <= whole[x] /\ whole[x] < high[x]
    OBVIOUS
  <2>1. low[x] = n * e[x] /\ units[x] = n * ones[x] /\ ones[x] = 1 /\ whole[x] = g * w[x] /\ high[x] = low[x] + units[x]
    OBVIOUS
  <2>2. e[x] \in Nat /\ n * e[x] <= g * w[x] /\ g * w[x] < n * e[x] + n  BY <1>3
  <2>3. n * e[x] \in Int /\ g * w[x] \in Int /\ n * 1 = n  BY <1>2, <2>2
  <2> HIDE DEF low, units, ones, whole, high
  <2> QED  BY ONLY <1>2, <2>1, <2>2, <2>3
<1>12. DOMAIN whole = D /\ DOMAIN low = D /\ DOMAIN units = D /\ DOMAIN high = D /\ \A x \in D : high[x] = low[x] + units[x]
  OBVIOUS
<1> HIDE DEF whole, low, ones, units, high
<1>13. SumOf(low) <= SumOf(whole)  BY <1>11, <1>12, SumsCompare
<1>14. SumOf(whole) < SumOf(high)  BY <1>11, <1>12, SumsCompare
<1>15. SumOf(high) = SumOf(low) + SumOf(units)  BY <1>11, <1>12, SumOfSums
<1>16. PICK z \in Nat : z = SumOf(e)  BY <1>4
<1>17. n * z <= n * g  BY <1>2, <1>7, <1>8, <1>13, <1>16
<1>18. n * g < n * (z + c)
  <2>1. g * n < n * z + n * c  BY <1>7, <1>8, <1>10, <1>14, <1>15, <1>16
  <2>2. n * (z + c) = n * z + n * c /\ g * n = n * g  BY <1>2, <1>6
  <2> QED  BY <2>1, <2>2
<1>19. z <= g /\ g < z + c
  <2>1. z + c \in Int  BY <1>6
  <2> QED  BY <1>2, <1>17, <1>18, <2>1, Cancel
<1> QED  BY <1>3, <1>4, <1>5, <1>16, <1>19

(* Larger weights give larger portions,                                     *)
LEMMA PortionGrows ==
    ASSUME NEW g \in Nat, NEW n \in Nat \ {0}, NEW a \in Nat, NEW b \in Nat, a <= b
    PROVE  (g * a) \div n <= (g * b) \div n
<1>1. PICK p, q : p = (g * a) \div n /\ q = (g * b) \div n  OBVIOUS
<1>2. p \in Nat /\ n * p <= g * a /\ q \in Nat /\ g * b < n * q + n  BY <1>1, Portion
<1>3. g * a <= g * b
  <2>1. g * (b - a) >= 0  OBVIOUS
  <2> QED  BY <2>1
<1>4. n * (q + 1) = n * q + n /\ n * p \in Int /\ n * q \in Int /\ g * a \in Int /\ g * b \in Int  BY <1>2
<1>5. n * p < n * (q + 1)  BY <1>2, <1>3, <1>4
<1>6. p < q + 1
  <2>1. q + 1 \in Int  BY <1>2
  <2> QED  BY <1>2, <1>5, <2>1, Cancel
<1> QED  BY <1>1, <1>2, <1>6

LEMMA OneMoreIn ==
    ASSUME NEW D, IsFiniteSet(D), NEW A \in SUBSET D, NEW B \in SUBSET D, A \subseteq B, NEW s \in B, s \notin A
    PROVE  Cardinality(B) >= Cardinality(A) + 1
<1>1. IsFiniteSet(A) /\ IsFiniteSet(B) /\ Cardinality(A) \in Nat /\ Cardinality(B) \in Nat
  BY FS_Subset, FS_CardinalityType
<1>2. A \cup {s} \subseteq B /\ Cardinality(A \cup {s}) = Cardinality(A) + 1  BY <1>1, FS_AddElement
<1>3. Cardinality(A \cup {s}) <= Cardinality(B)  BY <1>1, <1>2, FS_Subset
<1> QED  BY <1>1, <1>2, <1>3

LEMMA PartOfTotal ==
    ASSUME NEW D, IsFiniteSet(D), NEW f, DOMAIN f = D, \A x \in D : f[x] \in Nat, NEW d \in D
    PROVE  SumOf(f) \in Nat /\ f[d] <= SumOf(f)
<1> DEFINE h == [x \in D |-> IF x = d THEN 0 ELSE f[x]]
<1>1. DOMAIN h = D /\ h[d] = 0 /\ \A x \in D : f[x] \in Int /\ h[x] \in Nat /\ (x # d => h[x] = f[x])  OBVIOUS
<1> HIDE DEF h
<1>2. \A x \in D : f[x] \in Int /\ h[x] \in Int /\ (x # d => h[x] = f[x])  BY <1>1
<1>3. SumOf(h) = SumOf(f) + (h[d] - f[d])  BY <1>1, <1>2, SumOfAllButOne
<1>4. SumOf(h) \in Nat /\ SumOf(f) \in Nat  BY <1>1, SumType
<1>5. PICK y, z \in Nat : y = SumOf(h) /\ z = SumOf(f)  BY <1>4
<1>6. PICK a \in Nat : a = f[d]  OBVIOUS
<1>7. y = z + (0 - a)  BY <1>1, <1>3, <1>5, <1>6
<1>8. a <= z  BY ONLY <1>7, y \in Nat, z \in Nat, a \in Nat
<1> QED  BY <1>4, <1>5, <1>6, <1>8
=============================================================================
