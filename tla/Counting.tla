------------------------------ MODULE Counting ------------------------------
(***************************************************************************)
(* Facts about finite sets and natural numbers that the proofs about the   *)
(* event queue and about the kernels need.                                 *)
(***************************************************************************)
EXTENDS Integers, FiniteSets, FiniteSetTheorems, Functions, TLAPS

(* A non-empty set of natural numbers has a least element. *)
LEMMA LeastNumber ==
    ASSUME NEW S \in SUBSET Nat, S # {}
    PROVE  \E m \in S : \A n \in S : m <= n
<1> DEFINE R == OpToRel(<, Nat)
<1>1. IsWellFoundedOn(R, Nat)
  BY NatLessThanWellFounded, Zenon
<1>2. \E x \in S : \A y \in S : ~ (<<y, x>> \in R)
  <2> HIDE DEF R
  <2> QED
    BY <1>1, WFMin
<1>3. \A x, y \in Nat : y < x => <<y, x>> \in R
  BY DEF OpToRel
<1> HIDE DEF R
<1>4. PICK x \in S : \A y \in S : ~ (<<y, x>> \in R)
  BY <1>2
<1>5. \A y \in S : x \in Nat /\ y \in Nat /\ ~(y < x)
  BY <1>3, <1>4
<1>6. \A y \in S : x <= y
  BY <1>5
<1> QED
  BY <1>6

(* A set that can be told apart by the members of another is no larger.     *)
LEMMA CountAtMost ==
    ASSUME NEW S, NEW T, IsFiniteSet(T), NEW f \in [S -> T],
           \A a, b \in S : f[a] = f[b] => a = b
    PROVE  /\ IsFiniteSet(S)
           /\ Cardinality(S) \in Nat /\ Cardinality(T) \in Nat
           /\ Cardinality(S) <= Cardinality(T)
<1>1. f \in Injection(S, T)
  BY DEF Injection, IsInjective
<1>2. IsFiniteSet(S) /\ Cardinality(S) <= Cardinality(T)
  BY <1>1, FS_Injection
<1> QED
  BY <1>2, FS_CardinalityType

(* Disjoint sets are counted one by one. *)
LEMMA CountDisjoint ==
    ASSUME NEW S, NEW T, IsFiniteSet(S), IsFiniteSet(T), S \cap T = {}
    PROVE  /\ IsFiniteSet(S \cup T)
           /\ Cardinality(S) \in Nat /\ Cardinality(T) \in Nat
           /\ Cardinality(S \cup T) = Cardinality(S) + Cardinality(T)
<1>1. /\ IsFiniteSet(S \cup T)
      /\ Cardinality(S \cup T)
            = Cardinality(S) + Cardinality(T) - Cardinality(S \cap T)
  BY FS_Union
<1>2. Cardinality(S) \in Nat /\ Cardinality(T) \in Nat
  BY FS_CardinalityType
<1>3. Cardinality(S \cap T) = 0
  BY FS_EmptySet
<1> QED
  BY <1>1, <1>2, <1>3

(* A part is no larger than the whole. *)
LEMMA CountPart ==
    ASSUME NEW T, IsFiniteSet(T), NEW S, S \subseteq T
    PROVE  /\ IsFiniteSet(S)
           /\ Cardinality(S) \in Nat /\ Cardinality(T) \in Nat
           /\ Cardinality(S) <= Cardinality(T)
<1>1. S \in SUBSET T
  OBVIOUS
<1>2. IsFiniteSet(S) /\ Cardinality(S) <= Cardinality(T)
  BY <1>1, FS_Subset
<1> QED
  BY <1>2, FS_CardinalityType

(* When every member of a finite set knows which members come before it, in *)
(* a total order, the numbers of those before tell their places.            *)
LEMMA PlacesInOrder ==
    ASSUME NEW S, IsFiniteSet(S), NEW before \in [S -> SUBSET S],
           \A x \in S : x \notin before[x],
           \A x, y \in S : x = y \/ x \in before[y] \/ y \in before[x],
           \A x, y \in S : x \in before[y] => before[x] \subseteq before[y]
    PROVE  /\ \A x \in S : Cardinality(before[x]) + 1 \in 1..Cardinality(S)
           /\ \A i \in 1..Cardinality(S) :
                 \E x \in S : Cardinality(before[x]) + 1 = i
           /\ \A x, y \in S : x \in before[y]
                 => Cardinality(before[x]) < Cardinality(before[y])
<1>0. Cardinality(S) \in Nat
  BY FS_CardinalityType
<1>1. ASSUME NEW x \in S
      PROVE  /\ IsFiniteSet(before[x]) /\ Cardinality(before[x]) \in Nat
             /\ Cardinality(before[x]) < Cardinality(S)
  <2>1. before[x] \subseteq S /\ before[x] # S
    OBVIOUS
  <2>2. IsFiniteSet(before[x]) /\ Cardinality(before[x]) \in Nat
        /\ Cardinality(before[x]) <= Cardinality(S)
    BY <2>1, CountPart
  <2>3. Cardinality(S) # Cardinality(before[x])
    BY <2>1, FS_Subset
  <2> QED
    BY <1>0, <2>2, <2>3
<1>2. ASSUME NEW x \in S, NEW y \in S, x \in before[y]
      PROVE  Cardinality(before[x]) < Cardinality(before[y])
  <2>1. before[x] \subseteq before[y] /\ before[x] # before[y]
    BY <1>2
  <2>2. Cardinality(before[x]) <= Cardinality(before[y])
    BY <1>1, <2>1, CountPart
  <2>3. Cardinality(before[y]) # Cardinality(before[x])
    BY <1>1, <2>1, FS_Subset
  <2> QED
    BY <1>1, <2>2, <2>3
<1> DEFINE place == [x \in S |-> Cardinality(before[x]) + 1]
           T == 1..Cardinality(S)
<1>3. place \in [S -> T]
  BY <1>0, <1>1
<1>4. \A x, y \in S : place[x] = place[y] => x = y
  <2> SUFFICES ASSUME NEW x \in S, NEW y \in S, x # y
               PROVE  Cardinality(before[x]) + 1 # Cardinality(before[y]) + 1
    OBVIOUS
  <2>1. /\ Cardinality(before[x]) \in Nat /\ Cardinality(before[y]) \in Nat
        /\ \/ Cardinality(before[x]) < Cardinality(before[y])
           \/ Cardinality(before[y]) < Cardinality(before[x])
    BY <1>1, <1>2
  <2> QED
    BY <2>1
<1>5. IsFiniteSet(T) /\ Cardinality(T) = Cardinality(S)
  BY <1>0, FS_Interval
<1> HIDE DEF place, T
<1>6. place \in Injection(S, T)
  BY <1>3, <1>4 DEF Injection, IsInjective
<1>7. place \in Surjection(S, T)
  BY <1>5, <1>6, FS_Injection
<1>8. \A i \in 1..Cardinality(S) : \E x \in S : Cardinality(before[x]) + 1 = i
  BY <1>7 DEF Surjection, place, T
<1> QED
  BY <1>0, <1>1, <1>2, <1>8

(* What a sequence has before its place i. *)
EarlierIn(s, i) == {s[j] : j \in 1..i-1}

(* The members of a sequence without repetitions, as many as the set has,   *)
(* are the set, and the first i of them are i.                              *)
LEMMA ListsAll ==
    ASSUME NEW S, IsFiniteSet(S), NEW s \in [1..Cardinality(S) -> S],
           \A i, j \in 1..Cardinality(S) : s[i] = s[j] => i = j
    PROVE  /\ \A x \in S : \E i \in 1..Cardinality(S) : s[i] = x
           /\ \A i \in 1..Cardinality(S) :
                 Cardinality(EarlierIn(s, i)) = i - 1
<1> DEFINE n == Cardinality(S)
<1>1. n \in Nat
  BY FS_CardinalityType
<1>2. IsFiniteSet(1..n) /\ Cardinality(1..n) = n
  BY <1>1, FS_Interval
<1>3. s \in Injection(1..n, S)
  BY DEF Injection, IsInjective
<1>4. s \in Surjection(1..n, S)
  BY <1>2, <1>3, FS_Injection
<1>5. \A x \in S : \E i \in 1..n : s[i] = x
  BY <1>4 DEF Surjection
<1> HIDE DEF n
<1>6. ASSUME NEW i \in 1..n
      PROVE  Cardinality(EarlierIn(s, i)) = i - 1
  <2> DEFINE P == 1..i-1
             F == {s[j] : j \in P}
             g == [j \in P |-> s[j]]
  <2>1. IsFiniteSet(P) /\ Cardinality(P) = i - 1
    BY <1>1, FS_Interval
  <2>2. P \subseteq 1..n
    BY <1>1
  <2>3. g \in Injection(P, F) /\ g \in Surjection(P, F)
    <3>1. g \in [P -> F] /\ \A j, k \in P : g[j] = g[k] => j = k
      BY <2>2 DEF n
    <3> HIDE DEF g, P, F
    <3>2. \A x \in F : \E j \in P : g[j] = x
      BY DEF g, F
    <3> QED
      BY <3>1, <3>2 DEF Injection, IsInjective, Surjection
  <2> HIDE DEF g, P, F
  <2>4. ExistsBijection(P, F)
    BY <2>3 DEF ExistsBijection, Bijection
  <2>5. IsFiniteSet(F) /\ Cardinality(F) = Cardinality(P)
    BY <2>1, <2>4, FS_Bijection
  <2> QED
    BY <2>1, <2>5 DEF F, P, EarlierIn
<1> QED
  BY <1>5, <1>6 DEF n

-----------------------------------------------------------------------------
(* What SumFunctionOnSet (Functions) adds up, whatever the order in which it *)
(* takes the members of the set.                                             *)

(* The member of s that is taken first. *)
AnyOf(s) == CHOOSE x \in s : TRUE

(* g adds up f over the sets of S. *)
AddsUp(g, f, S) ==
    g = [s \in S |-> IF s = {} THEN 0 ELSE f[AnyOf(s)] + g[s \ {AnyOf(s)}]]

(* The subsets of T of at most n members. *)
UpTo(T, n) == {s \in SUBSET T : Cardinality(s) <= n}

(* A set without the member taken first is smaller by one. *)
LEMMA PickOne ==
    ASSUME NEW s, s # {}, IsFiniteSet(s)
    PROVE  /\ AnyOf(s) \in s /\ IsFiniteSet(s \ {AnyOf(s)})
           /\ Cardinality(s) \in Nat
           /\ Cardinality(s \ {AnyOf(s)}) = Cardinality(s) - 1
           /\ Cardinality(s) > 0
<1>1. AnyOf(s) \in s
  BY DEF AnyOf
<1>2. /\ IsFiniteSet(s \ {AnyOf(s)})
      /\ Cardinality(s \ {AnyOf(s)}) = Cardinality(s) - 1
  BY <1>1, FS_RemoveElement
<1>3. Cardinality(s) \in Nat /\ Cardinality(s \ {AnyOf(s)}) \in Nat
  BY <1>2, FS_CardinalityType
<1> QED
  BY <1>1, <1>2, <1>3

(* Sums are defined for the subsets of a finite set. *)
LEMMA SumsExist ==
    ASSUME NEW f, NEW T, IsFiniteSet(T)
    PROVE  \E g : AddsUp(g, f, SUBSET T)
<1>0. \A s \in SUBSET T : IsFiniteSet(s) /\ Cardinality(s) \in Nat
                         /\ Cardinality(s) <= Cardinality(T)
  BY CountPart
<1> DEFINE Bad == {n \in Nat : ~\E g : AddsUp(g, f, UpTo(T, n))}
<1>1. Bad = {}
  <2> SUFFICES ASSUME Bad # {} PROVE FALSE
    OBVIOUS
  <2>1. PICK k \in Bad : \A m \in Bad : k <= m
    <3>1. Bad \in SUBSET Nat
      OBVIOUS
    <3> HIDE DEF Bad
    <3> QED
      BY <3>1, LeastNumber
  <2>2. k \in Nat
    BY <2>1
  <2>3. CASE k = 0
    <3> DEFINE g == [s \in UpTo(T, 0) |-> 0]
    <3>1. \A s \in UpTo(T, 0) : s = {}
      <4>1. \A s \in SUBSET T : s # {} => Cardinality(s) > 0
        BY <1>0, PickOne
      <4> QED
        BY <1>0, <4>1 DEF UpTo
    <3>2. AddsUp(g, f, UpTo(T, 0))
      BY <3>1 DEF AddsUp
    <3> QED
      BY <2>1, <2>3, <3>2
  <2>4. CASE k # 0
    <3>1. k - 1 \in Nat /\ k - 1 \notin Bad
      <4> HIDE DEF Bad
      <4>1. k - 1 \in Nat /\ ~(k <= k - 1)
        BY <2>2, <2>4
      <4> QED
        BY <2>1, <4>1
    <3>2. PICK g : AddsUp(g, f, UpTo(T, k - 1))
      BY <3>1
    <3> DEFINE Below == UpTo(T, k - 1)
               Added(s) == IF s = {} THEN 0 ELSE f[AnyOf(s)] + g[s \ {AnyOf(s)}]
               h == [s \in UpTo(T, k) |-> IF s \in Below THEN g[s] ELSE Added(s)]
    <3>3. \A s \in UpTo(T, k) : s # {} => s \ {AnyOf(s)} \in Below
                                          /\ s \ {AnyOf(s)} \in UpTo(T, k)
      <4> SUFFICES ASSUME NEW s \in SUBSET T, Cardinality(s) <= k, s # {}
                   PROVE  s \ {AnyOf(s)} \in Below /\ s \ {AnyOf(s)} \in UpTo(T, k)
        BY DEF UpTo
      <4> DEFINE r == s \ {AnyOf(s)}
      <4>1. /\ Cardinality(s) \in Nat /\ Cardinality(r) = Cardinality(s) - 1
            /\ r \in SUBSET T
        BY <1>0, PickOne
      <4> HIDE DEF r
      <4>2. Cardinality(r) <= k - 1 /\ Cardinality(r) <= k
        BY <2>2, <4>1
      <4> QED
        BY <4>1, <4>2 DEF UpTo, r
    <3>4. \A s \in Below : g[s] = Added(s)
      BY <3>2 DEF AddsUp
    <3>5. \A s \in UpTo(T, k) : h[s] = Added(s)
      BY <3>4
    <3>6. \A s \in UpTo(T, k) : s # {} => h[s \ {AnyOf(s)}] = g[s \ {AnyOf(s)}]
      BY <3>3
    <3>7. AddsUp(h, f, UpTo(T, k))
      <4>1. \A s \in UpTo(T, k) :
               h[s] = IF s = {} THEN 0 ELSE f[AnyOf(s)] + h[s \ {AnyOf(s)}]
        BY <3>5, <3>6
      <4>2. h = [s \in UpTo(T, k) |-> h[s]]
        OBVIOUS
      <4> HIDE DEF h
      <4> QED
        BY <4>1, <4>2 DEF AddsUp
    <3> HIDE DEF h
    <3> QED
      BY <2>1, <3>7
  <2> QED
    BY <2>3, <2>4
<1>2. PICK n \in Nat : n = Cardinality(T)
  BY FS_CardinalityType
<1>3. \E g : AddsUp(g, f, UpTo(T, n))
  BY <1>1
<1>4. UpTo(T, n) = SUBSET T
  BY <1>0, <1>2 DEF UpTo
<1> QED
  BY <1>3, <1>4

(* SumFunctionOnSet is the value at T of a function that adds up f. *)
LEMMA SumIsAdded ==
    ASSUME NEW f, NEW T, NEW g, AddsUp(g, f, SUBSET T)
    PROVE  \E h : AddsUp(h, f, SUBSET T) /\ SumFunctionOnSet(f, T) = h[T]
<1> DEFINE sum == CHOOSE h : h = [s \in SUBSET T |->
                      IF s = {} THEN 0
                      ELSE f[CHOOSE x \in s : TRUE] + h[s \ {CHOOSE x \in s : TRUE}]]
<1>1. SumFunctionOnSet(f, T) = sum[T]
  BY DEF SumFunctionOnSet, FoldFunctionOnSet, MapThenFoldSet
<1>2. AddsUp(sum, f, SUBSET T)
  BY DEF AddsUp, AnyOf
<1> QED
  BY <1>1, <1>2
(* A smallest set, among those of S, that is one of the bad ones. *)
LEMMA SmallestSet ==
    ASSUME NEW T, IsFiniteSet(T), NEW Bad, Bad \subseteq SUBSET T, Bad # {}
    PROVE  \E s \in Bad : \A r \in Bad : Cardinality(s) <= Cardinality(r)
<1> DEFINE Sizes == {Cardinality(s) : s \in Bad}
<1>1. Sizes \in SUBSET Nat /\ Sizes # {}
  <2>1. \A s \in Bad : Cardinality(s) \in Nat
    BY CountPart
  <2> QED
    BY <2>1
<1>2. PICK n \in Sizes : \A m \in Sizes : n <= m
  <2> HIDE DEF Sizes
  <2> QED
    BY <1>1, LeastNumber
<1> QED
  BY <1>2

(* To show of all sets in S what holds of a set when it holds of the        *)
(* smaller ones.                                                            *)
LEMMA BySize ==
    ASSUME NEW T, IsFiniteSet(T), NEW Good,
           \A s \in SUBSET T :
              (\A r \in SUBSET T : Cardinality(r) < Cardinality(s) => r \in Good)
                 => s \in Good
    PROVE  SUBSET T \subseteq Good
<1> DEFINE Bad == (SUBSET T) \ Good
<1>1. SUFFICES ASSUME Bad # {} PROVE FALSE
  OBVIOUS
<1>2. PICK s \in Bad : \A r \in Bad : Cardinality(s) <= Cardinality(r)
  <2>1. Bad \subseteq SUBSET T
    OBVIOUS
  <2> HIDE DEF Bad
  <2> QED
    BY <1>1, <2>1, SmallestSet
<1>3. ASSUME NEW r \in SUBSET T, Cardinality(r) < Cardinality(s)
      PROVE  r \in Good
  <2>1. Cardinality(r) \in Nat /\ Cardinality(s) \in Nat
    BY <1>2, CountPart
  <2>2. ~(Cardinality(s) <= Cardinality(r))
    BY <1>3, <2>1
  <2> QED
    BY <1>2, <2>2
<1>4. s \in SUBSET T /\ s \notin Good
  BY <1>2
<1> HIDE DEF Bad
<1> QED
  BY <1>3, <1>4

(* What a sum is of, once the others are known. *)
LEMMA SumStep ==
    ASSUME NEW f, NEW T, IsFiniteSet(T), NEW g, AddsUp(g, f, SUBSET T),
           NEW s \in SUBSET T, s # {}
    PROVE  /\ AnyOf(s) \in s /\ AnyOf(s) \in T
           /\ s \ {AnyOf(s)} \in SUBSET T
           /\ Cardinality(s \ {AnyOf(s)}) < Cardinality(s)
           /\ g[s] = f[AnyOf(s)] + g[s \ {AnyOf(s)}]
<1>1. IsFiniteSet(s)
  BY CountPart
<1>2. /\ AnyOf(s) \in s /\ Cardinality(s) \in Nat
      /\ Cardinality(s \ {AnyOf(s)}) = Cardinality(s) - 1
  BY <1>1, PickOne
<1>3. Cardinality(s \ {AnyOf(s)}) < Cardinality(s)
  BY <1>2
<1> QED
  BY <1>2, <1>3 DEF AddsUp

(* g[s] is what f has for some member of s, and what g has for the rest. *)
AddsOne(g, f, T) ==
    \A s \in SUBSET T : s # {} =>
        \E x \in s : \E r \in SUBSET T :
           /\ r = s \ {x} /\ Cardinality(r) < Cardinality(s)
           /\ x \in T /\ g[s] = f[x] + g[r]

(* Every sum is a member of its set and the sum of a smaller set. *)
LEMMA SumPicks ==
    ASSUME NEW f, NEW T, IsFiniteSet(T), NEW g, AddsUp(g, f, SUBSET T)
    PROVE  AddsOne(g, f, T)
<1> SUFFICES ASSUME NEW s \in SUBSET T, s # {}
             PROVE  \E x \in s : \E r \in SUBSET T :
                       /\ r = s \ {x} /\ Cardinality(r) < Cardinality(s)
                       /\ x \in T /\ g[s] = f[x] + g[r]
  BY DEF AddsOne
<1>1. /\ AnyOf(s) \in s /\ AnyOf(s) \in T
      /\ s \ {AnyOf(s)} \in SUBSET T
      /\ Cardinality(s \ {AnyOf(s)}) < Cardinality(s)
      /\ g[s] = f[AnyOf(s)] + g[s \ {AnyOf(s)}]
  BY SumStep
<1> QED
  BY <1>1, Zenon

(* Sums of integers are integers. *)
LEMMA SumsAreNumbers ==
    ASSUME NEW f, NEW T, IsFiniteSet(T), \A x \in T : f[x] \in Int,
           NEW g, AddsUp(g, f, SUBSET T)
    PROVE  \A s \in SUBSET T : g[s] \in Int
<1>3. AddsOne(g, f, T)
  BY SumPicks
<1> DEFINE Good == {s \in SUBSET T : g[s] \in Int}
<1>1. ASSUME NEW s \in SUBSET T,
             \A r \in SUBSET T : Cardinality(r) < Cardinality(s) => r \in Good
      PROVE  s \in Good
  <2>1. CASE s = {}
    BY <2>1 DEF AddsUp
  <2>2. CASE s # {}
    <3>1. PICK x \in s, r \in SUBSET T :
             /\ x \in T /\ Cardinality(r) < Cardinality(s)
             /\ g[s] = f[x] + g[r]
      BY <1>3, <2>2 DEF AddsOne
    <3>2. f[x] \in Int /\ g[r] \in Int
      BY <1>1, <3>1
    <3> QED
      BY <3>1, <3>2
  <2> QED
    BY <2>1, <2>2
<1>2. SUBSET T \subseteq Good
  <2> HIDE DEF Good
  <2> QED
    BY <1>1, BySize
<1> QED
  BY <1>2

(* Any member may be taken first. *)
LEMMA SumsTake ==
    ASSUME NEW f, NEW T, IsFiniteSet(T), \A x \in T : f[x] \in Int,
           NEW g, AddsUp(g, f, SUBSET T)
    PROVE  \A s \in SUBSET T : \A y \in s : g[s] = f[y] + g[s \ {y}]
<1>0. \A s \in SUBSET T : g[s] \in Int
  BY SumsAreNumbers
<1>3. AddsOne(g, f, T)
  BY SumPicks
<1> DEFINE Good == {s \in SUBSET T : \A y \in s : g[s] = f[y] + g[s \ {y}]}
<1>1. ASSUME NEW s \in SUBSET T,
             \A r \in SUBSET T : Cardinality(r) < Cardinality(s) => r \in Good
      PROVE  s \in Good
  <2>1. CASE s = {}
    BY <2>1
  <2>2. CASE s # {}
    <3>1. PICK x \in s, r \in SUBSET T :
             /\ r = s \ {x} /\ Cardinality(r) < Cardinality(s)
             /\ x \in T /\ g[s] = f[x] + g[r]
      BY <1>3, <2>2 DEF AddsOne
    <3>2. r \in Good
      BY <1>1, <3>1
    <3> SUFFICES ASSUME NEW y \in s PROVE g[s] = f[y] + g[s \ {y}]
      OBVIOUS
    <3>3. CASE x = y
      BY <3>1, <3>3
    <3>4. CASE x # y
      <4>1. g[s \ {x}] = f[y] + g[(s \ {x}) \ {y}]
        BY <3>1, <3>2, <3>4
      <4>2. s \ {y} \in Good
        <5>1. IsFiniteSet(s) /\ IsFiniteSet(s \ {y})
          BY CountPart
        <5>2. Cardinality(s \ {y}) = Cardinality(s) - 1 /\ Cardinality(s) \in Nat
          BY <5>1, FS_RemoveElement, FS_CardinalityType
        <5>3. Cardinality(s \ {y}) < Cardinality(s)
          BY <5>2
        <5> QED
          BY <1>1, <5>3
      <4>3. g[s \ {y}] = f[x] + g[(s \ {y}) \ {x}]
        BY <3>1, <3>2, <3>4, <4>2
      <4>4. (s \ {x}) \ {y} = (s \ {y}) \ {x}
        OBVIOUS
      <4>5. /\ f[x] \in Int /\ f[y] \in Int /\ g[(s \ {x}) \ {y}] \in Int
        BY <1>0, <3>1, <3>2
      <4>6. /\ g[s] = f[x] + (f[y] + g[(s \ {x}) \ {y}])
            /\ g[s \ {y}] = f[x] + g[(s \ {x}) \ {y}]
        BY <3>1, <3>2, <4>1, <4>3, <4>4
      <4> QED
        BY <4>5, <4>6
    <3> QED
      BY <3>3, <3>4
  <2> QED
    BY <2>1, <2>2
<1>2. SUBSET T \subseteq Good
  <2> HIDE DEF Good
  <2> QED
    BY <1>1, BySize
<1> QED
  BY <1>2

(* The sum depends on what is added only, also within a larger set. *)
LEMMA SumsAgree ==
    ASSUME NEW T, IsFiniteSet(T), NEW U \in SUBSET T,
           NEW f, NEW g, AddsUp(g, f, SUBSET T),
           NEW e, NEW h, AddsUp(h, e, SUBSET U), \A x \in U : e[x] = f[x]
    PROVE  \A s \in SUBSET U : h[s] = g[s]
<1>0. IsFiniteSet(U)
  BY CountPart
<1> DEFINE Good == {s \in SUBSET U : h[s] = g[s]}
<1>1. ASSUME NEW s \in SUBSET U,
             \A r \in SUBSET U : Cardinality(r) < Cardinality(s) => r \in Good
      PROVE  s \in Good
  <2>1. CASE s = {}
    BY <2>1 DEF AddsUp
  <2>2. CASE s # {}
    <3>1. h[s] = e[AnyOf(s)] + h[s \ {AnyOf(s)}]
      BY <1>0, <2>2, SumStep
    <3>2. /\ AnyOf(s) \in U /\ s \ {AnyOf(s)} \in SUBSET U
          /\ Cardinality(s \ {AnyOf(s)}) < Cardinality(s)
      BY <1>0, <2>2, SumStep
    <3>3. s \in SUBSET T
      OBVIOUS
    <3>4. g[s] = f[AnyOf(s)] + g[s \ {AnyOf(s)}]
      BY <2>2, <3>3, SumStep
    <3> QED
      BY <1>1, <3>1, <3>2, <3>4
  <2> QED
    BY <2>1, <2>2
<1>2. SUBSET U \subseteq Good
  <2> HIDE DEF Good
  <2> QED
    BY <1>0, <1>1, BySize
<1> QED
  BY <1>2

(* A function that adds up over T has the sums of the parts of T. *)
LEMMA SumOfPart ==
    ASSUME NEW T, IsFiniteSet(T), NEW U \in SUBSET T,
           NEW f, NEW g, AddsUp(g, f, SUBSET T)
    PROVE  SumFunctionOnSet(f, U) = g[U]
<1>1. IsFiniteSet(U)
  BY CountPart
<1>2. PICK h : AddsUp(h, f, SUBSET U) /\ SumFunctionOnSet(f, U) = h[U]
  BY <1>1, SumsExist, SumIsAdded
<1>3. \A s \in SUBSET U : h[s] = g[s]
  BY <1>2, SumsAgree, SMTT(60)
<1> QED
  BY <1>2, <1>3

(* SumFunctionOnSet is the sum of what f has for one member and of what it  *)
(* has for the others.                                                      *)
LEMMA SumTakesOne ==
    ASSUME NEW f, NEW T, IsFiniteSet(T), \A x \in T : f[x] \in Int, NEW y \in T
    PROVE  /\ SumFunctionOnSet(f, T \ {y}) \in Int
           /\ SumFunctionOnSet(f, T) = f[y] + SumFunctionOnSet(f, T \ {y})
<1>1. T \ {y} \in SUBSET T /\ T \in SUBSET T
  OBVIOUS
<1>2. PICK g : AddsUp(g, f, SUBSET T)
  BY SumsExist
<1>3. \A U \in SUBSET T : SumFunctionOnSet(f, U) = g[U]
  BY <1>2, SumOfPart
<1>4. g[T] = f[y] + g[T \ {y}] /\ g[T \ {y}] \in Int
  BY <1>1, <1>2, SumsTake, SumsAreNumbers
<1> QED
  BY <1>1, <1>3, <1>4

(* The same, of SumFunctionOnSet. *)
LEMMA SumIsNumber ==
    ASSUME NEW f, NEW T, IsFiniteSet(T), \A x \in T : f[x] \in Int
    PROVE  SumFunctionOnSet(f, T) \in Int
<1>1. PICK g : AddsUp(g, f, SUBSET T) /\ SumFunctionOnSet(f, T) = g[T]
  BY SumsExist, SumIsAdded
<1> QED
  BY <1>1, SumsAreNumbers

(* The sum of nothing. *)
LEMMA SumOfNone ==
    ASSUME NEW f
    PROVE  SumFunctionOnSet(f, {}) = 0
<1>1. PICK g : AddsUp(g, f, SUBSET {}) /\ SumFunctionOnSet(f, {}) = g[{}]
  BY SumsExist, SumIsAdded, FS_EmptySet
<1> QED
  BY <1>1 DEF AddsUp

(* Equal terms have equal sums. *)
LEMMA SumOfSame ==
    ASSUME NEW f, NEW e, NEW T, IsFiniteSet(T), \A x \in T : e[x] = f[x]
    PROVE  SumFunctionOnSet(e, T) = SumFunctionOnSet(f, T)
<1>1. PICK g : AddsUp(g, f, SUBSET T) /\ SumFunctionOnSet(f, T) = g[T]
  BY SumsExist, SumIsAdded
<1>2. PICK h : AddsUp(h, e, SUBSET T) /\ SumFunctionOnSet(e, T) = h[T]
  BY SumsExist, SumIsAdded
<1>3. T \in SUBSET T
  OBVIOUS
<1>4. h[T] = g[T]
  BY <1>1, <1>2, <1>3, SumsAgree
<1> QED
  BY <1>1, <1>2, <1>4

(* A sum of zeros is zero. *)
LEMMA SumOfZeros ==
    ASSUME NEW f, NEW T, IsFiniteSet(T), \A x \in T : f[x] = 0
    PROVE  SumFunctionOnSet(f, T) = 0
<1>1. PICK g : AddsUp(g, f, SUBSET T) /\ SumFunctionOnSet(f, T) = g[T]
  BY SumsExist, SumIsAdded
<1>4. AddsOne(g, f, T)
  BY <1>1, SumPicks
<1> DEFINE Good == {s \in SUBSET T : g[s] = 0}
<1>2. ASSUME NEW s \in SUBSET T,
             \A r \in SUBSET T : Cardinality(r) < Cardinality(s) => r \in Good
      PROVE  s \in Good
  <2>1. CASE s = {}
    BY <1>1, <2>1 DEF AddsUp
  <2>2. CASE s # {}
    <3>1. PICK x \in s, r \in SUBSET T :
             /\ x \in T /\ Cardinality(r) < Cardinality(s)
             /\ g[s] = f[x] + g[r]
      BY <1>4, <2>2 DEF AddsOne
    <3>2. f[x] = 0 /\ g[r] = 0
      BY <1>2, <3>1
    <3> QED
      BY <3>1, <3>2
  <2> QED
    BY <2>1, <2>2
<1>3. SUBSET T \subseteq Good
  <2> HIDE DEF Good
  <2> QED
    BY <1>2, BySize
<1> QED
  BY <1>1, <1>3

(* A sum of natural numbers is one. *)
LEMMA SumOfNaturals ==
    ASSUME NEW f, NEW T, IsFiniteSet(T), \A x \in T : f[x] \in Nat
    PROVE  SumFunctionOnSet(f, T) \in Nat
<1>1. PICK g : AddsUp(g, f, SUBSET T) /\ SumFunctionOnSet(f, T) = g[T]
  BY SumsExist, SumIsAdded
<1>2. AddsOne(g, f, T)
  BY <1>1, SumPicks
<1> DEFINE Good == {s \in SUBSET T : g[s] \in Nat}
<1>3. ASSUME NEW s \in SUBSET T,
             \A r \in SUBSET T : Cardinality(r) < Cardinality(s) => r \in Good
      PROVE  s \in Good
  <2>1. CASE s = {}
    BY <1>1, <2>1 DEF AddsUp
  <2>2. CASE s # {}
    <3>1. PICK x \in s, r \in SUBSET T :
             /\ x \in T /\ Cardinality(r) < Cardinality(s)
             /\ g[s] = f[x] + g[r]
      BY <1>2, <2>2 DEF AddsOne
    <3>2. f[x] \in Nat /\ g[r] \in Nat
      BY <1>3, <3>1
    <3> QED
      BY <3>1, <3>2
  <2> QED
    BY <2>1, <2>2
<1>4. SUBSET T \subseteq Good
  <2> HIDE DEF Good
  <2> QED
    BY <1>3, BySize
<1> QED
  BY <1>1, <1>4

(* A change of one term changes the sum by as much. *)
LEMMA SumOfChanged ==
    ASSUME NEW f, NEW e, NEW T, IsFiniteSet(T), \A x \in T : f[x] \in Int,
           NEW y \in T, e[y] \in Int, \A x \in T : x # y => e[x] = f[x]
    PROVE  SumFunctionOnSet(e, T) = SumFunctionOnSet(f, T) + (e[y] - f[y])
<1> DEFINE U == T \ {y}
<1>1. SumFunctionOnSet(f, T) = f[y] + SumFunctionOnSet(f, U)
      /\ SumFunctionOnSet(f, U) \in Int
  BY SumTakesOne, ZenonT(40)
<1>2. \A x \in T : e[x] \in Int
  OBVIOUS
<1>3. SumFunctionOnSet(e, T) = e[y] + SumFunctionOnSet(e, U)
  BY <1>2, SumTakesOne
<1>4. SumFunctionOnSet(e, U) = SumFunctionOnSet(f, U)
  <2>1. IsFiniteSet(U) /\ \A x \in U : e[x] = f[x]
    BY FS_RemoveElement
  <2> HIDE DEF U
  <2> QED
    BY <2>1, SumOfSame
<1>5. f[y] \in Int
  OBVIOUS
<1> HIDE DEF U
<1> QED
  BY <1>1, <1>3, <1>4, <1>5

(* An interval is finite, an empty one too. *)
LEMMA IntervalIsFinite == ASSUME NEW n \in Int PROVE IsFiniteSet(1..n)
BY FS_Interval

(* Sums over an interval. *)
LEMMA SumUpTo ==
    ASSUME NEW f, NEW k \in Int, k >= 1, \A i \in 1..k : f[i] \in Int
    PROVE  /\ SumFunctionOnSet(f, 1..k) = f[k] + SumFunctionOnSet(f, 1..(k - 1))
           /\ SumFunctionOnSet(f, 1..(k - 1)) \in Int
<1>1. PICK T : T = 1..k
  OBVIOUS
<1>2. IsFiniteSet(T)
  BY <1>1, IntervalIsFinite
<1>3. k \in T /\ T \ {k} = 1..(k - 1)
  BY <1>1
<1>4. \A x \in T : f[x] \in Int
  BY <1>1
<1>5. \A y \in T : /\ SumFunctionOnSet(f, T \ {y}) \in Int
                    /\ SumFunctionOnSet(f, T) = f[y] + SumFunctionOnSet(f, T \ {y})
  BY <1>2, <1>4, SumTakesOne
<1>6. SumFunctionOnSet(f, T \ {k}) \in Int
      /\ SumFunctionOnSet(f, T) = f[k] + SumFunctionOnSet(f, T \ {k})
  BY <1>3, <1>5, Zenon
<1> QED
  BY <1>1, <1>3, <1>6, Zenon

(* The same from the other end. *)
LEMMA SumFrom ==
    ASSUME NEW f, NEW k \in Int, NEW n \in Int, k <= n,
           \A i \in k..n : f[i] \in Int
    PROVE  SumFunctionOnSet(f, k..n) = f[k] + SumFunctionOnSet(f, (k + 1)..n)
<1>1. PICK T : T = k..n
  OBVIOUS
<1>2. IsFiniteSet(T)
  BY <1>1, FS_Interval
<1>3. k \in T /\ T \ {k} = (k + 1)..n
  BY <1>1
<1>4. \A x \in T : f[x] \in Int
  BY <1>1
<1>5. \A y \in T :
         SumFunctionOnSet(f, T) = f[y] + SumFunctionOnSet(f, T \ {y})
  BY <1>2, <1>4, SumTakesOne
<1>6. SumFunctionOnSet(f, T) = f[k] + SumFunctionOnSet(f, T \ {k})
  BY <1>3, <1>5, Zenon
<1> QED
  BY <1>1, <1>3, <1>6, Zenon

(* The sums of what the first of those who wait ask for exist. *)
LEMMA SumExists ==
    ASSUME NEW b, NEW n \in Nat
    PROVE  \E f : f = [j \in 0..n |-> IF j = 0 THEN 0 ELSE f[j - 1] + b[j].nr]
<1> DEFINE Sums(k, f) == f = [j \in 0..k |-> IF j = 0 THEN 0 ELSE f[j - 1] + b[j].nr]
           Bad == {k \in Nat : ~\E f : Sums(k, f)}
<1> SUFFICES Bad = {}
  BY Zenon
<1> SUFFICES ASSUME Bad # {} PROVE FALSE
  OBVIOUS
<1>1. PICK k \in Bad : \A m \in Bad : k <= m
  <2>1. Bad \in SUBSET Nat
    OBVIOUS
  <2> HIDE DEF Bad
  <2> QED
    BY <2>1, LeastNumber
<1>2. k # 0
  <2> DEFINE g == [j \in 0..0 |-> 0]
  <2>1. Sums(0, g)
    BY \A j \in 0..0 : j = 0
  <2> QED
    BY <1>1, <2>1
<1>3. k - 1 \in Nat /\ k - 1 \notin Bad /\ k \in Nat
  <2>1. k \in Nat
    BY <1>1
  <2> HIDE DEF Bad
  <2>2. k - 1 \in Nat /\ ~(k <= k - 1)
    BY <1>2, <2>1
  <2> QED
    BY <1>1, <2>1, <2>2
<1>4. PICK g : Sums(k - 1, g)
  BY <1>3
<1> DEFINE h == [j \in 0..k |-> IF j < k THEN g[j] ELSE g[k - 1] + b[k].nr]
<1>5. Sums(k, h)
  <2>1. ASSUME NEW j \in 0..k
        PROVE  h[j] = IF j = 0 THEN 0 ELSE h[j - 1] + b[j].nr
    <3>1. CASE j = 0
      <4>1. 0 \in 0..(k - 1) /\ 0 \in 0..k /\ 0 < k
        BY <1>2, <1>3
      <4> QED
        BY <1>4, <3>1, <4>1
    <3>2. CASE j # 0 /\ j < k
      <4>1. /\ j \in 0..(k - 1) /\ j - 1 \in 0..(k - 1) /\ j - 1 \in 0..k
            /\ j - 1 < k
        BY <1>3, <3>2
      <4>2. g[j] = g[j - 1] + b[j].nr
        BY <1>4, <3>2, <4>1
      <4>3. h[j] = g[j] /\ h[j - 1] = g[j - 1]
        BY <3>2, <4>1
      <4> QED
        BY <3>2, <4>2, <4>3
    <3>3. CASE j = k
      <4>1. k - 1 \in 0..k /\ k - 1 < k /\ ~(k < k) /\ k \in 0..k
        BY <1>2, <1>3
      <4> QED
        BY <1>2, <3>3, <4>1
    <3> QED
      BY <1>3, <3>1, <3>2, <3>3
  <2> QED
    BY <2>1
<1> QED
  BY <1>1, <1>5
=============================================================================
