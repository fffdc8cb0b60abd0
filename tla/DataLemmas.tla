------------------------------ MODULE DataLemmas ------------------------------
(***************************************************************************)
(* Induction over data: the naturals as a set that is closed, the maximum  *)
(* and minimum of finite sets, and what the sums of Functions are for      *)
(* every finite domain.  The induction theorems of the library have an     *)
(* operator as a parameter; here a property is the set of what has it.     *)
(***************************************************************************)
EXTENDS Integers, SequencesExt, FiniteSetTheorems, WellFoundedInduction, TLAPS

\* What has zero, and with a number its successor, is all of Nat: otherwise
\* take the smallest number that is missing.
LEMMA Induction ==
    ASSUME NEW P \in SUBSET Nat, 0 \in P, \A n \in P : n + 1 \in P
    PROVE  P = Nat
<1> DEFINE Bad == Nat \ P
           Less == OpToRel(<, Nat)
<1>1. SUFFICES ASSUME Bad # {} PROVE FALSE
    OBVIOUS
<1>2. IsWellFoundedOn(Less, Nat) /\ Bad \subseteq Nat
    BY NatLessThanWellFounded
<1>3. \A a, b \in Nat : a < b => <<a, b>> \in Less
    BY DEF OpToRel
<1> HIDE DEF Less
<1>4. PICK n \in Bad : \A k \in Bad : <<k, n>> \notin Less
    BY <1>1, <1>2, WFMin
<1>5. n # 0 /\ n - 1 \in Nat /\ n - 1 < n
    OBVIOUS
<1>6. n - 1 \in P
    BY <1>3, <1>4, <1>5
<1>7. QED
    BY <1>4, <1>5, <1>6

\* What has a set whenever it has all that lack one of its elements (so that it
\* has the empty set) has every finite set.
LEMMA FiniteInduction ==
    ASSUME NEW S, IsFiniteSet(S), NEW Q \in SUBSET SUBSET S,
           \A T \in SUBSET S : (\A x \in T : T \ {x} \in Q) => T \in Q
    PROVE  Q = SUBSET S
<1> DEFINE P == {n \in Nat : \A T \in SUBSET S : Cardinality(T) = n => T \in Q}
<1>1. \A T \in SUBSET S : IsFiniteSet(T) /\ Cardinality(T) \in Nat /\ (Cardinality(T) = 0 <=> T = {})
    BY FS_Subset, FS_CardinalityType, FS_EmptySet
<1>2. 0 \in P
    BY <1>1
<1>3. ASSUME NEW n \in P PROVE n + 1 \in P
    <2>1. ASSUME NEW T \in SUBSET S, Cardinality(T) = n + 1 PROVE T \in Q
        <3>1. ASSUME NEW x \in T PROVE T \ {x} \in Q
            <4>1. Cardinality(T \ {x}) = Cardinality(T) - 1 /\ n \in Nat
                BY <1>1, FS_RemoveElement
            <4>2. Cardinality(T \ {x}) = n
                BY <2>1, <4>1
            <4>3. QED
                BY <4>2
        <3>2. QED
            BY <3>1
    <2>2. QED
        BY <2>1
<1> HIDE DEF P
<1>4. P = Nat
    BY <1>2, <1>3, Induction DEF P
<1>5. QED
    BY <1>1, <1>4 DEF P

\* One element more.
LEMMA OneMore ==
    ASSUME NEW S, NEW x, IsFiniteSet(S)
    PROVE  IsFiniteSet(S \cup {x}) /\ Cardinality(S \cup {x}) <= Cardinality(S) + 1
<1>1. Cardinality(S) \in Nat
    BY FS_CardinalityType
<1>2. /\ IsFiniteSet(S \cup {x})
      /\ Cardinality(S \cup {x}) = Cardinality(S) \/ Cardinality(S \cup {x}) = Cardinality(S) + 1
    BY FS_AddElement
<1>3. QED
    BY <1>1, <1>2

-----------------------------------------------------------------------------
(* The extremes of finite sets of integers                                 *)

LEMMA Maximum ==
    ASSUME NEW S \in SUBSET Int, IsFiniteSet(S), S # {}
    PROVE  Max(S) \in S /\ \A x \in S : x <= Max(S)
<1> DEFINE Has(T) == T # {} => \E m \in T : \A x \in T : m >= x
           Q == {T \in SUBSET S : Has(T)}
<1>1. ASSUME NEW T \in SUBSET S, \A x \in T : T \ {x} \in Q PROVE T \in Q
    <2>1. CASE T = {}
        BY <2>1
    <2>2. CASE T # {}
        <3>1. PICK y : y \in T
            BY <2>2
        <3>2. T \ {y} = {} \/ \E m \in T \ {y} : \A x \in T \ {y} : m >= x
            BY <1>1, <3>1
        <3>3. y \in Int /\ T \subseteq Int
            BY <3>1
        <3>4. \E m \in T : \A x \in T : m >= x
            BY <3>1, <3>2, <3>3
        <3>5. QED
            BY <3>4
    <2>3. QED
        BY <2>1, <2>2
<1> HIDE DEF Q
<1>2. Q \in SUBSET SUBSET S
    BY DEF Q
<1>3. Q = SUBSET S
    BY <1>1, <1>2, FiniteInduction
<1>4. QED
    BY <1>3 DEF Q, Max

LEMMA Minimum ==
    ASSUME NEW S \in SUBSET Int, IsFiniteSet(S), S # {}
    PROVE  Min(S) \in S /\ \A x \in S : Min(S) <= x
<1> DEFINE Has(T) == T # {} => \E m \in T : \A x \in T : m <= x
           Q == {T \in SUBSET S : Has(T)}
<1>1. ASSUME NEW T \in SUBSET S, \A x \in T : T \ {x} \in Q PROVE T \in Q
    <2>1. CASE T = {}
        BY <2>1
    <2>2. CASE T # {}
        <3>1. PICK y : y \in T
            BY <2>2
        <3>2. T \ {y} = {} \/ \E m \in T \ {y} : \A x \in T \ {y} : m <= x
            BY <1>1, <3>1
        <3>3. y \in Int /\ T \subseteq Int
            BY <3>1
        <3>4. \E m \in T : \A x \in T : m <= x
            BY <3>1, <3>2, <3>3
        <3>5. QED
            BY <3>4
    <2>3. QED
        BY <2>1, <2>2
<1> HIDE DEF Q
<1>2. Q \in SUBSET SUBSET S
    BY DEF Q
<1>3. Q = SUBSET S
    BY <1>1, <1>2, FiniteInduction
<1>4. QED
    BY <1>3 DEF Q, Min

\* A set of naturals that is not empty has one, finite or not.
LEMMA MinOfNaturals ==
    ASSUME NEW S \in SUBSET Nat, S # {}
    PROVE  Min(S) \in S
<1> DEFINE Less == OpToRel(<, Nat)
<1>1. \A a, b \in Nat : a < b => <<a, b>> \in Less
    BY DEF OpToRel
<1>2. IsWellFoundedOn(Less, Nat)
    BY NatLessThanWellFounded
<1> HIDE DEF Less
<1>3. PICK m \in S : \A x \in S : <<x, m>> \notin Less
    BY <1>2, WFMin
<1>4. ASSUME NEW x \in S PROVE m =< x
    <2>1. x \in Nat /\ m \in Nat /\ ~(x < m)
        BY <1>1, <1>3
    <2>2. QED
        BY <2>1
<1>5. QED
    BY <1>4 DEF Min

-----------------------------------------------------------------------------
(* Sums                                                                    *)

\* The order in which SumFunctionOnSet takes the elements of a set.
Pick(s) == CHOOSE x \in s : TRUE

\* Functions that are the sums of f on the sets of a family.
Sums(D, f, h) ==
    \A s \in D : h[s] = IF s = {} THEN 0 ELSE f[Pick(s)] + h[s \ {Pick(s)}]

\* The recursion of SumFunctionOnSet has a solution: it has one on the sets of
\* at most n elements, for every n.
LEMMA SumsExist ==
    ASSUME NEW S, IsFiniteSet(S), NEW f \in [S -> Int]
    PROVE  \E h \in [SUBSET S -> Int] : Sums(SUBSET S, f, h)
<1> DEFINE Small(n) == {s \in SUBSET S : Cardinality(s) <= n}
           P == {n \in Nat : \E h \in [Small(n) -> Int] : Sums(Small(n), f, h)}
<1>1. \A s \in SUBSET S : /\ IsFiniteSet(s) /\ Cardinality(s) \in Nat
                          /\ Cardinality(s) = 0 <=> s = {}
    BY FS_Subset, FS_CardinalityType, FS_EmptySet
<1>2. \A s \in SUBSET S : s # {} => Pick(s) \in s
    BY DEF Pick
<1>3. \A s \in SUBSET S : s # {} => /\ s \ {Pick(s)} \in SUBSET S
                                    /\ Cardinality(s \ {Pick(s)}) = Cardinality(s) - 1
    BY <1>1, <1>2, FS_RemoveElement
<1>4. 0 \in P
    <2> DEFINE h == [s \in Small(0) |-> 0]
    <2>1. Small(0) = {{}}
        BY <1>1
    <2>2. h \in [Small(0) -> Int] /\ Sums(Small(0), f, h)
        BY <2>1 DEF Sums
    <2>3. QED
        BY <2>2
<1>5. ASSUME NEW n \in P PROVE n + 1 \in P
    <2>1. n \in Nat
        OBVIOUS
    <2>2. PICK h \in [Small(n) -> Int] : Sums(Small(n), f, h)
        OBVIOUS
    <2> DEFINE g == [s \in Small(n + 1) |-> IF s = {} THEN 0 ELSE f[Pick(s)] + h[s \ {Pick(s)}]]
    <2>3. \A s \in Small(n + 1) : s # {} => s \ {Pick(s)} \in Small(n) /\ Pick(s) \in S
        BY <1>1, <1>2, <1>3, <2>1
    <2>4. \A s \in Small(n) : s \in Small(n + 1) /\ g[s] = h[s]
        BY <1>1, <2>1, <2>2 DEF Sums
    <2>5. g \in [Small(n + 1) -> Int]
        BY <2>2, <2>3
    <2>6. Sums(Small(n + 1), f, g)
        BY <2>3, <2>4 DEF Sums
    <2> HIDE DEF g
    <2>7. \E x \in [Small(n + 1) -> Int] : Sums(Small(n + 1), f, x)
        BY <2>5, <2>6
    <2> HIDE DEF Small
    <2>8. QED
        BY <2>1, <2>7
<1>6. P = Nat
    <2> HIDE DEF P
    <2>1. QED
        BY <1>4, <1>5, Induction DEF P
<1>7. Small(Cardinality(S)) = SUBSET S
    BY <1>1, FS_Subset
<1>8. Cardinality(S) \in P
    BY <1>6, <1>1
<1>9. QED
    BY <1>7, <1>8

LEMMA SumsAreIntegers ==
    ASSUME NEW S, IsFiniteSet(S), NEW f \in [S -> Int], NEW h, Sums(SUBSET S, f, h)
    PROVE  \A s \in SUBSET S : h[s] \in Int
<1> DEFINE Q == {s \in SUBSET S : h[s] \in Int}
<1>1. ASSUME NEW T \in SUBSET S, \A x \in T : T \ {x} \in Q PROVE T \in Q
    <2>1. CASE T = {}
        <3>1. h[{}] = 0
            BY DEF Sums
        <3>2. QED
            BY <2>1, <3>1
    <2>2. CASE T # {}
        <3>1. Pick(T) \in T
            BY <2>2 DEF Pick
        <3>2. h[T \ {Pick(T)}] \in Int /\ f[Pick(T)] \in Int
            BY <1>1, <3>1
        <3>3. h[T] = f[Pick(T)] + h[T \ {Pick(T)}]
            BY <2>2 DEF Sums
        <3>4. QED
            BY <3>2, <3>3
    <2>3. QED
        BY <2>1, <2>2
<1> HIDE DEF Q
<1>2. Q \in SUBSET SUBSET S
    BY DEF Q
<1>3. Q = SUBSET S
    BY <1>1, <1>2, FiniteInduction
<1>4. QED
    BY <1>3 DEF Q

\* SumFunctionOnSet is one of its sums.
LEMMA SumIs ==
    ASSUME NEW S, IsFiniteSet(S), NEW f \in [S -> Int]
    PROVE  \E h \in [SUBSET S -> Int] : Sums(SUBSET S, f, h) /\ SumFunctionOnSet(f, S) = h[S]
<1> DEFINE Solves(h) == h = [s \in SUBSET S |-> IF s = {} THEN 0 ELSE f[Pick(s)] + h[s \ {Pick(s)}]]
           sum == CHOOSE h : Solves(h)
<1>1. SumFunctionOnSet(f, S) = sum[S]
    BY DEF SumFunctionOnSet, FoldFunctionOnSet, MapThenFoldSet, Pick
<1>2. \E h : Solves(h)
    <2>1. PICK h \in [SUBSET S -> Int] : Sums(SUBSET S, f, h)
        BY SumsExist
    <2>2. Solves(h)
        BY <2>1 DEF Sums
    <2>3. QED
        BY <2>2
<1>3. Solves(sum)
    BY <1>2
<1> HIDE DEF sum
<1>4. DOMAIN sum = SUBSET S /\ Sums(SUBSET S, f, sum)
    BY <1>3 DEF Sums
<1>5. \A s \in SUBSET S : sum[s] \in Int
    BY <1>4, SumsAreIntegers
<1>6. QED
    BY <1>1, <1>3, <1>4, <1>5

\* Terms in a proportion have their sums in it.
LEMMA SumsCompare ==
    ASSUME NEW S, IsFiniteSet(S), NEW f \in [S -> Int], NEW g \in [S -> Int], NEW a \in Int, NEW b \in Int,
           \A x \in S : a * f[x] <= b * g[x]
    PROVE  /\ SumFunctionOnSet(f, S) \in Int /\ SumFunctionOnSet(g, S) \in Int
           /\ a * SumFunctionOnSet(f, S) <= b * SumFunctionOnSet(g, S)
<1>1. PICK h \in [SUBSET S -> Int] : Sums(SUBSET S, f, h) /\ SumFunctionOnSet(f, S) = h[S]
    BY SumIs
<1>2. PICK k \in [SUBSET S -> Int] : Sums(SUBSET S, g, k) /\ SumFunctionOnSet(g, S) = k[S]
    BY SumIs
<1> DEFINE Q == {s \in SUBSET S : a * h[s] <= b * k[s]}
<1>3. ASSUME NEW T \in SUBSET S, \A x \in T : T \ {x} \in Q PROVE T \in Q
    <2>1. CASE T = {}
        <3>1. h[{}] = 0 /\ k[{}] = 0
            BY <1>1, <1>2 DEF Sums
        <3>2. QED
            BY <2>1, <3>1
    <2>2. CASE T # {}
        <3> DEFINE x == Pick(T)
                   U == T \ {x}
        <3>1. x \in T
            BY <2>2 DEF Pick
        <3>2. h[T] = f[x] + h[U] /\ k[T] = g[x] + k[U]
            BY <1>1, <1>2, <2>2 DEF Sums
        <3>3. a * f[x] <= b * g[x] /\ a * h[U] <= b * k[U] /\ U \in SUBSET S
            BY <1>3, <3>1
        <3>4. f[x] \in Int /\ g[x] \in Int /\ h[U] \in Int /\ k[U] \in Int
            BY <1>1, <1>2, <3>1, <3>3
        <3> HIDE DEF x, U
        <3>5. a * (f[x] + h[U]) = a * f[x] + a * h[U] /\ a * f[x] \in Int /\ a * h[U] \in Int
            BY <3>4
        <3>6. b * (g[x] + k[U]) = b * g[x] + b * k[U] /\ b * g[x] \in Int /\ b * k[U] \in Int
            BY <3>4
        <3>7. a * (f[x] + h[U]) <= b * (g[x] + k[U])
            BY <3>3, <3>5, <3>6
        <3>8. QED
            BY <3>2, <3>7
    <2>3. QED
        BY <2>1, <2>2
<1>4. Q \in SUBSET SUBSET S
    OBVIOUS
<1> HIDE DEF Q
<1>5. Q = SUBSET S
    BY <1>3, <1>4, FiniteInduction
<1>6. QED
    BY <1>1, <1>2, <1>5 DEF Q

\* A sum of terms that are at least one is positive.
LEMMA SumPositive ==
    ASSUME NEW S, IsFiniteSet(S), S # {}, NEW f \in [S -> Int], \A x \in S : f[x] >= 1
    PROVE  SumFunctionOnSet(f, S) >= 1
<1>1. PICK h \in [SUBSET S -> Int] : Sums(SUBSET S, f, h) /\ SumFunctionOnSet(f, S) = h[S]
    BY SumIs
<1> DEFINE Q == {s \in SUBSET S : s = {} \/ h[s] >= 1}
<1>2. ASSUME NEW T \in SUBSET S, \A x \in T : T \ {x} \in Q, T # {} PROVE h[T] >= 1
    <2> DEFINE x == Pick(T)
               U == T \ {x}
    <2>1. x \in T
        BY <1>2 DEF Pick
    <2>2. h[T] = f[x] + h[U] /\ U \in SUBSET S /\ U \in Q /\ f[x] >= 1 /\ f[x] \in Int
        BY <1>1, <1>2, <2>1 DEF Sums
    <2>3. h[{}] = 0 /\ h[U] \in Int
        BY <1>1, <2>2 DEF Sums
    <2>4. U = {} \/ h[U] >= 1
        BY <2>2
    <2> HIDE DEF x, U
    <2>5. h[U] >= 0
        <3>1. CASE U = {}
            BY <2>3, <3>1
        <3>2. CASE h[U] >= 1
            BY <2>3, <3>2
        <3>3. QED
            BY <2>4, <3>1, <3>2
    <2>6. h[T] = f[x] + h[U] /\ f[x] >= 1 /\ f[x] \in Int /\ h[U] \in Int
        BY <2>2, <2>3
    <2>7. QED
        BY <2>5, <2>6
<1>3. Q \in SUBSET SUBSET S /\ \A T \in SUBSET S : (\A x \in T : T \ {x} \in Q) => T \in Q
    BY <1>2
<1> HIDE DEF Q
<1>4. Q = SUBSET S
    BY <1>3, FiniteInduction
<1>5. QED
    BY <1>1, <1>4 DEF Q
==============================================================================
