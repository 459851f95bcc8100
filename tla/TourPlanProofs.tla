--------------------------- MODULE TourPlanProofs ---------------------------
(***************************************************************************)
(* The tour that a visitor is answered, for every catalogue, every table   *)
(* of events, every request and every preferences: it fits, nothing that   *)
(* fits is left out, its schedule is the visit, and its events are met.    *)
(***************************************************************************)
EXTENDS TourPlan, FiniteSetTheorems, WellFoundedInduction, TLAPS

-----------------------------------------------------------------------------
(* Smallest elements, for the inductions over numbers and over finite sets. *)
LEMMA SmallestNumber ==
    ASSUME NEW T, T \subseteq Nat, T # {}
    PROVE  \E n \in T : \A m \in T : n <= m
<1> DEFINE R == OpToRel(<, Nat)
<1>1. \A m, n \in Nat : m < n => <<m, n>> \in R
  BY DEF OpToRel
<1>2. IsWellFoundedOn(R, Nat)
  BY NatLessThanWellFounded
<1> HIDE DEF R
<1>3. PICK n \in T : \A m \in T : ~(<<m, n>> \in R)
  BY <1>2, WFMin
<1>4. \A m \in T : ~(m < n)
  BY <1>1, <1>3
<1> QED
  BY <1>4

(* A nonempty collection of subsets of a finite set has a smallest one.     *)
LEMMA SmallestSet ==
    ASSUME NEW S, IsFiniteSet(S), NEW T, T \subseteq SUBSET S, T # {}
    PROVE  \E X \in T : \A Y \in T : Y \subseteq X => Y = X
<1>1. IsWellFoundedOn(StrictSubsetOrdering(S), SUBSET S)
  BY FS_StrictSubsetOrderingWellFounded, FS_FiniteSubsetsOfFinite
<1>2. PICK X \in T : \A Y \in T : ~(<<Y, X>> \in StrictSubsetOrdering(S))
  BY <1>1, WFMin
<1>3. \A Y \in T : Y \subseteq X /\ Y # X => <<Y, X>> \in StrictSubsetOrdering(S)
  BY DEF StrictSubsetOrdering
<1>4. \A Y \in T : Y \subseteq X => Y = X
  BY <1>2, <1>3
<1> QED
  BY <1>4

(* Induction, with the set of the good numbers or of the good subsets.      *)
LEMMA NumberInduction ==
    ASSUME NEW T, T \subseteq Nat, 0 \in T, \A n \in T : n + 1 \in T
    PROVE  T = Nat
<1> DEFINE Bad == Nat \ T
<1>1. Bad \subseteq Nat
  OBVIOUS
<1>2. CASE Bad # {}
  <2> HIDE DEF Bad
  <2>1. PICK n \in Bad : \A m \in Bad : n <= m
    BY <1>1, <1>2, SmallestNumber
  <2> USE DEF Bad
  <2>2. n \in Nat /\ n # 0
    BY <2>1
  <2>3. n - 1 \in Nat /\ n - 1 \notin Bad
    BY <2>1, <2>2
  <2>4. n - 1 \in T /\ n - 1 + 1 = n
    BY <2>2, <2>3
  <2>5. n - 1 + 1 \in T
    BY <2>4
  <2> QED
    BY <2>1, <2>4, <2>5
<1> QED
  BY <1>1, <1>2

(* What holds of {}, and still does with one more element, holds of all.    *)
LEMMA SetInduction ==
    ASSUME NEW S, IsFiniteSet(S), NEW T, T \subseteq SUBSET S, {} \in T,
           \A X \in T : \A x \in S \ X : X \cup {x} \in T
    PROVE  T = SUBSET S
<1> DEFINE Bad == (SUBSET S) \ T
<1>1. Bad \subseteq SUBSET S
  OBVIOUS
<1>2. CASE Bad # {}
  <2> HIDE DEF Bad
  <2>1. PICK X \in Bad : \A Y \in Bad : Y \subseteq X => Y = X
    BY <1>1, <1>2, SmallestSet
  <2> USE DEF Bad
  <2>2. PICK x \in X : TRUE
    BY <2>1
  <2> DEFINE Y == X \ {x}
  <2>3. Y \in SUBSET S /\ Y \subseteq X /\ Y # X /\ Y \cup {x} = X /\ x \in S \ Y
    BY <2>1, <2>2
  <2>4. Y \in T
    BY <2>1, <2>3
  <2> HIDE DEF Y
  <2>5. Y \cup {x} \in T
    BY <2>3, <2>4
  <2> QED
    BY <2>1, <2>3, <2>5
<1> QED
  BY <1>1, <1>2

-----------------------------------------------------------------------------
(* Duration: the sum of the minutes of a set of works.                      *)
LEMMA MinutesType == \A w \in Catalogue : Minutes(w) \in Nat
BY TourAssumption DEF Minutes

Choice(s) == CHOOSE x \in s : TRUE
SumOn(U) == CHOOSE g : g = [s \in SUBSET U |->
                IF s = {} THEN 0 ELSE Minutes(Choice(s)) + g[s \ {Choice(s)}]]
IsSum(g, U) ==
    /\ g \in [U -> Nat]
    /\ \A s \in U : g[s] = IF s = {} THEN 0 ELSE Minutes(Choice(s)) + g[s \ {Choice(s)}]
IsSumUpTo(g, U) == IsSum(g, SUBSET U)

LEMMA DurationIsSum == \A S : Duration(S) = SumOn(S)[S]
BY DEF Duration, SumOn, Choice, MapThenSumSet, MapThenFoldSet

(* The recursion has a solution on the subsets of a finite set of works ... *)
LEMMA SumExists ==
    ASSUME NEW U \in SUBSET Catalogue
    PROVE  \E g : IsSumUpTo(g, U)
<1> DEFINE Low(n) == {s \in SUBSET U : Cardinality(s) <= n}
           Has(n) == \E g : IsSum(g, Low(n))
<1>1. /\ IsFiniteSet(U) /\ Cardinality(U) \in Nat
      /\ \A s \in SUBSET U : /\ IsFiniteSet(s) /\ Cardinality(s) \in Nat
                             /\ Cardinality(s) <= Cardinality(U)
  BY TourAssumption, FS_Subset, FS_CardinalityType
<1>2. \A s \in SUBSET U : s # {} => /\ Choice(s) \in s /\ s \ {Choice(s)} \in SUBSET U
                                    /\ Cardinality(s \ {Choice(s)}) = Cardinality(s) - 1
                                    /\ Minutes(Choice(s)) \in Nat
  <2> SUFFICES ASSUME NEW s \in SUBSET U, s # {}
               PROVE  /\ Choice(s) \in s /\ s \ {Choice(s)} \in SUBSET U
                      /\ Cardinality(s \ {Choice(s)}) = Cardinality(s) - 1
                      /\ Minutes(Choice(s)) \in Nat
    OBVIOUS
  <2>1. Choice(s) \in s
    BY DEF Choice
  <2>2. Cardinality(s \ {Choice(s)}) = Cardinality(s) - 1
    BY <1>1, <2>1, FS_RemoveElement
  <2> QED
    BY <2>1, <2>2, MinutesType
<1>3. Has(0)
  <2> DEFINE g == [s \in Low(0) |-> 0]
  <2>1. \A s \in Low(0) : s = {}
    BY <1>1, FS_EmptySet
  <2>2. IsSum(g, Low(0))
    BY <2>1 DEF IsSum
  <2> QED
    BY <2>2
<1>4. ASSUME NEW n \in Nat, Has(n) PROVE Has(n + 1)
  <2>1. PICK g : IsSum(g, Low(n))
    BY <1>4
  <2> DEFINE next(s) == IF s = {} THEN 0 ELSE Minutes(Choice(s)) + g[s \ {Choice(s)}]
             h == [s \in Low(n + 1) |-> next(s)]
  <2>2. \A s \in Low(n + 1) : s # {} => s \ {Choice(s)} \in Low(n)
    BY <1>1, <1>2
  <2>3. \A s \in Low(n) : s \in Low(n + 1) /\ g[s] = next(s) /\ h[s] = g[s]
    <3>1. \A s \in Low(n) : s \in Low(n + 1)
      BY <1>1
    <3> HIDE DEF Low
    <3>2. \A s \in Low(n) : g[s] = next(s)
      BY <2>1 DEF IsSum
    <3> QED
      BY <3>1, <3>2
  <2>4. \A s \in Low(n + 1) : next(s) \in Nat
    BY <1>2, <2>1, <2>2 DEF IsSum
  <2>5. ASSUME NEW s \in Low(n + 1), s # {}
        PROVE  h[s \ {Choice(s)}] = g[s \ {Choice(s)}]
    BY <2>2, <2>3, <2>5
  <2> HIDE DEF Low
  <2>6. IsSum(h, Low(n + 1))
    BY <2>4, <2>5 DEF IsSum
  <2> QED
    BY <2>6
<1>6. Low(Cardinality(U)) = SUBSET U
  BY <1>1
<1> HIDE DEF Low, Has
<1>5. \A n \in Nat : Has(n)
  <2> DEFINE Good == {n \in Nat : Has(n)}
  <2>1. Good \subseteq Nat /\ 0 \in Good /\ \A n \in Good : n + 1 \in Good
    BY <1>3, <1>4
  <2> HIDE DEF Good
  <2>2. Good = Nat
    BY <2>1, NumberInduction
  <2> QED
    BY <2>2 DEF Good
<1> QED
  BY <1>1, <1>5, <1>6 DEF Has, IsSumUpTo

(* ... which does not depend on the set that it is solved on ...            *)
LEMMA SumsAgree ==
    ASSUME NEW U, NEW V, NEW g, NEW h, U \subseteq Catalogue, V \subseteq U,
           IsSumUpTo(g, U), IsSumUpTo(h, V)
    PROVE  \A s \in SUBSET V : g[s] = h[s]
<1> DEFINE Bad == {s \in SUBSET V : g[s] # h[s]}
<1>1. Bad \subseteq SUBSET V /\ IsFiniteSet(V)
  BY TourAssumption, FS_Subset
<1>2. ASSUME Bad # {} PROVE FALSE
  <2> HIDE DEF Bad
  <2>1. PICK s \in Bad : \A r \in Bad : r \subseteq s => r = s
    BY <1>1, <1>2, SmallestSet
  <2> DEFINE c == Choice(s)
             r == s \ {c}
  <2>2. s \in SUBSET U /\ s \in SUBSET V /\ g[s] # h[s]
    BY <2>1 DEF Bad
  <2>3. /\ g[s] = IF s = {} THEN 0 ELSE Minutes(c) + g[r]
        /\ h[s] = IF s = {} THEN 0 ELSE Minutes(c) + h[r]
    BY <2>2 DEF IsSum, IsSumUpTo
  <2>4. c \in s
    BY <2>2, <2>3 DEF Choice
  <2>5. r \in SUBSET V /\ r # s /\ r \subseteq s
    BY <2>2, <2>4
  <2> HIDE DEF r, c
  <2>6. g[r] = h[r]
    BY <2>1, <2>5 DEF Bad
  <2> QED
    BY <2>2, <2>3, <2>6
<1> QED
  BY <1>2

(* ... so the function that Duration chooses is that solution.              *)
LEMMA SumOnIsSum ==
    ASSUME NEW U \in SUBSET Catalogue
    PROVE  IsSumUpTo(SumOn(U), U)
<1> DEFINE F(g) == [s \in SUBSET U |->
                      IF s = {} THEN 0 ELSE Minutes(Choice(s)) + g[s \ {Choice(s)}]]
<1>1. PICK g : IsSumUpTo(g, U)
  BY SumExists
<1>2. g = F(g)
  BY <1>1 DEF IsSum, IsSumUpTo
<1>3. SumOn(U) = F(SumOn(U))
  BY <1>2 DEF SumOn
<1> DEFINE f == SumOn(U)
<1> HIDE DEF f
<1>4. f = [s \in SUBSET U |-> IF s = {} THEN 0 ELSE Minutes(Choice(s)) + f[s \ {Choice(s)}]]
  BY <1>3 DEF f
<1> HIDE DEF F
<1>5. \A s \in SUBSET U : f[s] = IF s = {} THEN 0 ELSE Minutes(Choice(s)) + f[s \ {Choice(s)}]
  BY <1>4
<1>6. \A s \in SUBSET U : f[s] \in Nat
  <2> DEFINE Bad == {s \in SUBSET U : f[s] \notin Nat}
  <2>1. Bad \subseteq SUBSET U /\ IsFiniteSet(U)
    BY TourAssumption, FS_Subset
  <2>2. ASSUME Bad # {} PROVE FALSE
    <3> HIDE DEF Bad
    <3>1. PICK s \in Bad : \A r \in Bad : r \subseteq s => r = s
      BY <2>1, <2>2, SmallestSet
    <3> DEFINE c == Choice(s)
               r == s \ {c}
    <3>2. s \in SUBSET U /\ f[s] \notin Nat
      BY <3>1 DEF Bad
    <3>3. f[s] = IF s = {} THEN 0 ELSE Minutes(c) + f[r]
      BY <1>5, <3>2
    <3>4. c \in s
      BY <3>2, <3>3 DEF Choice
    <3>5. r \in SUBSET U /\ r # s /\ r \subseteq s /\ Minutes(c) \in Nat
      BY <3>2, <3>4, MinutesType
    <3> HIDE DEF r, c
    <3>6. f[r] \in Nat
      BY <3>1, <3>5 DEF Bad
    <3> QED
      BY <3>2, <3>3, <3>5, <3>6
  <2> QED
    BY <2>2
<1>7. f \in [SUBSET U -> Nat]
  BY <1>4, <1>6
<1> QED
  BY <1>5, <1>7 DEF IsSum, IsSumUpTo, f

(* The equation of the recursion, with the element that CHOOSE takes out,   *)
LEMMA DurationEquation ==
    ASSUME NEW S \in SUBSET Catalogue
    PROVE  /\ Duration(S) \in Nat
           /\ S = {} => Duration(S) = 0
           /\ S # {} => /\ Choice(S) \in S
                        /\ Duration(S) = Minutes(Choice(S)) + Duration(S \ {Choice(S)})
<1>1. IsSumUpTo(SumOn(S), S) /\ S \in SUBSET S
  BY SumOnIsSum
<1>2. Duration(S) = SumOn(S)[S]
  BY DurationIsSum
<1>3. Duration(S) \in Nat /\ (S = {} => Duration(S) = 0)
  BY <1>1, <1>2 DEF IsSum, IsSumUpTo
<1>4. ASSUME S # {}
      PROVE  /\ Choice(S) \in S
             /\ Duration(S) = Minutes(Choice(S)) + Duration(S \ {Choice(S)})
  <2> DEFINE r == S \ {Choice(S)}
  <2>1. Choice(S) \in S
    BY <1>4 DEF Choice
  <2>2. SumOn(S)[S] = Minutes(Choice(S)) + SumOn(S)[r]
    BY <1>1, <1>4 DEF IsSum, IsSumUpTo
  <2>3. r \in SUBSET S /\ r \in SUBSET r /\ r \in SUBSET Catalogue
    OBVIOUS
  <2> HIDE DEF r
  <2>4. IsSumUpTo(SumOn(r), r)
    BY <2>3, SumOnIsSum
  <2>5. SumOn(S)[r] = SumOn(r)[r]
    <3>1. S \subseteq Catalogue /\ r \subseteq S
      BY <2>3
    <3>2. \A s \in SUBSET r : SumOn(S)[s] = SumOn(r)[s]
      BY <1>1, <2>4, <3>1, SumsAgree
    <3> QED
      BY <2>3, <3>2
  <2>6. Duration(r) = SumOn(r)[r]
    BY DurationIsSum
  <2>7. Duration(S) = Minutes(Choice(S)) + Duration(r)
    BY <1>2, <2>2, <2>5, <2>6
  <2> USE DEF r
  <2> QED
    BY <2>1, <2>7
<1> QED
  BY <1>3, <1>4

(* and with any other element.                                              *)
LEMMA OneWorkLess ==
    ASSUME NEW S \in SUBSET Catalogue, NEW w \in S
    PROVE  Duration(S) = Minutes(w) + Duration(S \ {w})
<1> DEFINE Bad == {T \in SUBSET S : \E v \in T : Duration(T) # Minutes(v) + Duration(T \ {v})}
<1>1. Bad \subseteq SUBSET S /\ IsFiniteSet(S)
  BY TourAssumption, FS_Subset
<1>2. ASSUME Bad # {} PROVE FALSE
  <2> HIDE DEF Bad
  <2>1. PICK T \in Bad : \A R \in Bad : R \subseteq T => R = T
    BY <1>1, <1>2, SmallestSet
  <2>2. T \in SUBSET S
    BY <1>1, <2>1
  <2>3. PICK v \in T : Duration(T) # Minutes(v) + Duration(T \ {v})
    BY <2>1 DEF Bad
  <2> DEFINE c == Choice(T)
             T1 == T \ {c}
             T2 == T \ {v}
             T3 == T1 \ {v}
  <2>4. c \in T /\ Duration(T) = Minutes(c) + Duration(T1)
    BY <2>2, <2>3, DurationEquation
  <2>5. c # v
    BY <2>3, <2>4
  <2>6. /\ T1 \in SUBSET S /\ T1 \subseteq T /\ T1 # T
        /\ T2 \in SUBSET S /\ T2 \subseteq T /\ T2 # T
        /\ v \in T1 /\ c \in T2 /\ T3 = T1 \ {v} /\ T3 = T2 \ {c} /\ T3 \in SUBSET Catalogue
        /\ c \in Catalogue /\ v \in Catalogue
    BY <2>2, <2>3, <2>4, <2>5
  <2>7. T2 = T \ {v}
    OBVIOUS
  <2> HIDE DEF c, T1, T2, T3
  <2>8. T1 \notin Bad /\ T2 \notin Bad
    BY <2>1, <2>6
  <2>9. Duration(T1) = Minutes(v) + Duration(T3)
    BY <2>6, <2>8 DEF Bad
  <2>10. Duration(T2) = Minutes(c) + Duration(T3)
    BY <2>6, <2>8 DEF Bad
  <2>11. Minutes(c) \in Nat /\ Minutes(v) \in Nat
    BY <2>6, MinutesType
  <2>12. Duration(T3) \in Nat
    BY <2>6, DurationEquation
  <2>13. Duration(T) = Minutes(v) + Duration(T2)
    BY <2>4, <2>9, <2>10, <2>11, <2>12
  <2> QED
    BY <2>3, <2>7, <2>13
<1>3. S \in SUBSET S /\ S \notin Bad
  BY <1>2
<1> QED
  BY <1>3

LEMMA OneWorkMore ==
    ASSUME NEW S \in SUBSET Catalogue, NEW w \in Catalogue, w \notin S
    PROVE  Duration(S \cup {w}) = Duration(S) + Minutes(w)
<1> DEFINE R == S \cup {w}
<1>1. R \ {w} = S /\ R \in SUBSET Catalogue /\ w \in R
  OBVIOUS
<1> HIDE DEF R
<1>2. Duration(R) = Minutes(w) + Duration(S)
  BY <1>1, OneWorkLess
<1>3. Duration(S) \in Nat
  BY DurationEquation
<1>4. Minutes(w) \in Nat
  BY MinutesType
<1>5. Duration(R) = Duration(S) + Minutes(w)
  BY <1>2, <1>3, <1>4
<1> QED
  BY <1>5 DEF R

(* The minutes of two disjoint sets of works add up.                        *)
LEMMA DurationOfUnion ==
    ASSUME NEW A \in SUBSET Catalogue, NEW B \in SUBSET Catalogue, A \cap B = {}
    PROVE  Duration(A \cup B) = Duration(A) + Duration(B)
<1> DEFINE Good == {T \in SUBSET B : Duration(A \cup T) = Duration(A) + Duration(T)}
<1>1. Good \subseteq SUBSET B /\ IsFiniteSet(B)
  BY TourAssumption, FS_Subset
<1>2. {} \in Good
  <2>1. A \cup {} = A
    OBVIOUS
  <2>2. Duration({}) = 0
    BY DurationEquation
  <2>3. Duration(A) \in Nat
    BY DurationEquation
  <2>4. Duration(A) = Duration(A) + Duration({})
    BY <2>2, <2>3
  <2> QED
    BY <2>1, <2>4
<1>3. ASSUME NEW T \in Good, NEW c \in B \ T
      PROVE  T \cup {c} \in Good
  <2>1. /\ Duration(A \cup T) = Duration(A) + Duration(T) /\ T \in SUBSET B
    OBVIOUS
  <2> HIDE DEF Good
  <2> DEFINE AT == A \cup T
             T1 == T \cup {c}
  <2>2. /\ AT \in SUBSET Catalogue /\ c \notin AT /\ c \in Catalogue /\ T \in SUBSET Catalogue
        /\ A \cup T1 = AT \cup {c} /\ c \notin T /\ T1 \in SUBSET B
    BY <2>1
  <2> HIDE DEF AT
  <2>3. Duration(AT \cup {c}) = Duration(AT) + Minutes(c)
    BY <2>2, OneWorkMore
  <2>4. Duration(T1) = Duration(T) + Minutes(c)
    BY <2>2, OneWorkMore
  <2>5. Duration(A) \in Nat
    BY DurationEquation
  <2>6. Duration(T) \in Nat
    BY <2>2, DurationEquation
  <2>7. Minutes(c) \in Nat
    BY <2>2, MinutesType
  <2>8. Duration(AT) = Duration(A) + Duration(T)
    BY <2>1 DEF AT
  <2>11. Duration(A \cup T1) = Duration(AT \cup {c})
    BY <2>2, Zenon
  <2> HIDE DEF T1
  <2>9. Duration(A \cup T1) = Duration(A) + Duration(T1)
    BY <2>3, <2>4, <2>5, <2>6, <2>7, <2>8, <2>11
  <2>10. T1 \in Good
    BY <2>2, <2>9 DEF Good
  <2> QED
    BY <2>10 DEF T1
<1> HIDE DEF Good
<1>4. Good = SUBSET B
  BY <1>1, <1>2, <1>3, SetInduction
<1> QED
  BY <1>4 DEF Good

(* Fewer works take no longer.                                              *)
LEMMA DurationGrows ==
    ASSUME NEW A \in SUBSET Catalogue, NEW B \in SUBSET A
    PROVE  Duration(B) <= Duration(A)
<1> DEFINE C == A \ B
<1>1. B \in SUBSET Catalogue /\ C \in SUBSET Catalogue /\ B \cap C = {} /\ B \cup C = A
  OBVIOUS
<1> HIDE DEF C
<1>2. Duration(A) = Duration(B) + Duration(C)
  BY <1>1, DurationOfUnion
<1>3. Duration(B) \in Nat
  BY <1>1, DurationEquation
<1>4. Duration(C) \in Nat
  BY <1>1, DurationEquation
<1> QED
  BY <1>2, <1>3, <1>4

-----------------------------------------------------------------------------
(* Sorting: keys are compared as tuples of one length.                      *)
Keys(n) == [1..n -> Int]

(* Less is a strict total order on the keys of one length.                  *)
LEMMA LessIrreflexive ==
    ASSUME NEW n \in Nat, NEW s \in Keys(n)
    PROVE  ~Less(s, s)
BY DEF Less, Keys

LEMMA LessTotal ==
    ASSUME NEW n \in Nat, NEW s \in Keys(n), NEW t \in Keys(n), s # t
    PROVE  Less(s, t) \/ Less(t, s)
<1> DEFINE D == {i \in 1..n : s[i] # t[i]}
<1>1. D \subseteq Nat /\ D # {} /\ DOMAIN s = 1..n /\ DOMAIN t = 1..n
  <2>1. s = [i \in 1..n |-> s[i]] /\ t = [i \in 1..n |-> t[i]]
    BY DEF Keys
  <2>2. \E i \in 1..n : s[i] # t[i]
    <3> SUFFICES ASSUME \A i \in 1..n : s[i] = t[i] PROVE FALSE
      OBVIOUS
    <3>1. [i \in 1..n |-> s[i]] = [i \in 1..n |-> t[i]]
      OBVIOUS
    <3> QED
      BY <2>1, <3>1
  <2>3. DOMAIN s = 1..n /\ DOMAIN t = 1..n
    BY DEF Keys
  <2>4. D # {}
    BY <2>2
  <2>5. D \subseteq Nat
    OBVIOUS
  <2> QED
    BY <2>3, <2>4, <2>5
<1> HIDE DEF D
<1>2. PICK i \in D : \A j \in D : i <= j
  BY <1>1, SmallestNumber
<1>3. i \in 1..n /\ s[i] # t[i]
  BY <1>2 DEF D
<1>6. s[i] \in Int /\ t[i] \in Int
  BY <1>3 DEF Keys
<1>4. \A j \in 1..(i - 1) : s[j] = t[j]
  BY <1>2, <1>3 DEF D
<1>5. s[i] < t[i] \/ t[i] < s[i]
  BY <1>3, <1>6
<1> QED
  BY <1>1, <1>3, <1>4, <1>5 DEF Less

LEMMA LessTransitive ==
    ASSUME NEW n \in Nat, NEW s \in Keys(n), NEW t \in Keys(n), NEW u \in Keys(n),
           Less(s, t), Less(t, u)
    PROVE  Less(s, u)
<1>1. DOMAIN s = 1..n /\ DOMAIN t = 1..n
  BY DEF Keys
<1>2. PICK i \in 1..n : s[i] < t[i] /\ \A j \in 1..(i - 1) : s[j] = t[j]
  BY <1>1 DEF Less
<1>3. PICK k \in 1..n : t[k] < u[k] /\ \A j \in 1..(k - 1) : t[j] = u[j]
  BY <1>1 DEF Less
<1>4. \A j \in 1..n : s[j] \in Int /\ t[j] \in Int /\ u[j] \in Int
  BY DEF Keys
<1> DEFINE l == IF i < k THEN i ELSE k
<1>5. l \in 1..n /\ l <= i /\ l <= k /\ (l = i \/ l = k)
  OBVIOUS
<1>6. \A j \in 1..(l - 1) : j \in 1..(i - 1) /\ j \in 1..(k - 1)
  BY <1>5
<1>7. \A j \in 1..(l - 1) : s[j] = u[j]
  BY <1>2, <1>3, <1>6
<1>8. s[l] < u[l]
  <2>1. CASE i < k
    <3>1. i \in 1..(k - 1) /\ l = i
      BY <2>1
    <3> QED
      BY <1>2, <1>3, <1>4, <3>1
  <2>2. CASE i = k
    BY <1>2, <1>3, <1>4, <2>2
  <2>3. CASE k < i
    <3>1. k \in 1..(i - 1) /\ l = k
      BY <2>3
    <3> QED
      BY <1>2, <1>3, <1>4, <3>1
  <2> QED
    BY <2>1, <2>2, <2>3
<1> HIDE DEF l
<1> QED
  BY <1>1, <1>5, <1>7, <1>8 DEF Less

(* The pairs stand at their ranks, so that they come in the order of their  *)
(* keys, each one once.                                                     *)
LEMMA SortedPairs ==
    ASSUME NEW n \in Nat, NEW P, IsFiniteSet(P), \A p \in P : p[1] \in Keys(n),
           \A p, q \in P : p[1] = q[1] => p = q
    PROVE  \E f \in [1..Cardinality(P) -> P] :
              /\ \A i \in 1..Cardinality(P) : Sorted(P)[i] = f[i][2]
              /\ Sorted(P) = [i \in 1..Cardinality(P) |-> f[i][2]]
              /\ \A p \in P : \E i \in 1..Cardinality(P) : f[i] = p
              /\ \A i, j \in 1..Cardinality(P) : i < j => Less(f[i][1], f[j][1])
<1> DEFINE N == Cardinality(P)
           rank == [p \in P |-> Cardinality(Before(P, p))]
<1>1. N \in Nat
  BY FS_CardinalityType
<1>2. \A p \in P : /\ Before(P, p) \in SUBSET P /\ IsFiniteSet(Before(P, p))
                   /\ Cardinality(Before(P, p)) \in Nat
  <2>1. \A p \in P : Before(P, p) \in SUBSET P
    BY DEF Before
  <2>2. \A p \in P : IsFiniteSet(Before(P, p))
    BY <2>1, FS_Subset
  <2> QED
    BY <2>1, <2>2, FS_CardinalityType
<1>3. ASSUME NEW p \in P, NEW q \in P, Less(p[1], q[1])
      PROVE  Cardinality(Before(P, p)) < Cardinality(Before(P, q))
  <2>1. Before(P, p) \subseteq Before(P, q)
    <3> SUFFICES ASSUME NEW r \in Before(P, p) PROVE r \in Before(P, q)
      OBVIOUS
    <3>1. r \in P /\ Less(r[1], p[1])
      BY DEF Before
    <3>2. Less(r[1], q[1])
      BY <1>3, <3>1, LessTransitive
    <3> QED
      BY <3>1, <3>2 DEF Before
  <2>2. p \in Before(P, q) /\ p \notin Before(P, p)
    BY <1>3, LessIrreflexive DEF Before
  <2> DEFINE A == Before(P, p)
             B == Before(P, q)
  <2>3. A \in SUBSET B /\ A # B /\ IsFiniteSet(B) /\ Cardinality(A) \in Nat /\ Cardinality(B) \in Nat
    BY <1>2, <2>1, <2>2
  <2> HIDE DEF A, B
  <2>4. Cardinality(A) <= Cardinality(B) /\ Cardinality(A) # Cardinality(B)
    BY <2>3, FS_Subset
  <2>5. Cardinality(A) < Cardinality(B)
    BY <2>3, <2>4
  <2> QED
    BY <2>5 DEF A, B
<1>4. \A p \in P : Cardinality(Before(P, p)) < N
  <2> SUFFICES ASSUME NEW p \in P PROVE Cardinality(Before(P, p)) < N
    OBVIOUS
  <2>1. p \notin Before(P, p)
    BY LessIrreflexive DEF Before
  <2> DEFINE A == Before(P, p)
  <2>2. A \in SUBSET P /\ A # P /\ Cardinality(A) \in Nat
    BY <1>2, <2>1
  <2> HIDE DEF A
  <2>3. Cardinality(A) <= Cardinality(P) /\ Cardinality(A) # Cardinality(P)
    BY <2>2, FS_Subset
  <2>4. Cardinality(A) < N
    BY <1>1, <2>2, <2>3
  <2> QED
    BY <2>4 DEF A
<1>5. \A p, q \in P : rank[p] = rank[q] => p = q
  <2> SUFFICES ASSUME NEW p \in P, NEW q \in P, p # q PROVE rank[p] # rank[q]
    OBVIOUS
  <2>1. Less(p[1], q[1]) \/ Less(q[1], p[1])
    BY LessTotal
  <2>2. rank[p] \in Nat /\ rank[q] \in Nat
    BY <1>2
  <2>3. rank[p] < rank[q] \/ rank[q] < rank[p]
    BY <1>3, <2>1
  <2> QED
    BY <2>2, <2>3
<1>6. \A k \in 0..(N - 1) : \E p \in P : Cardinality(Before(P, p)) = k
  <2> DEFINE R == 0..(N - 1)
  <2>1. rank \in [P -> R]
    BY <1>1, <1>2, <1>4
  <2>2. IsFiniteSet(R) /\ Cardinality(R) = N
    <3> DEFINE m == N - 1
    <3>1. m \in Int /\ (0 > m => N = 0) /\ m - 0 + 1 = N
      BY <1>1
    <3> HIDE DEF m
    <3>2. IsFiniteSet(0..m) /\ Cardinality(0..m) = IF 0 > m THEN 0 ELSE m - 0 + 1
      BY <3>1, FS_Interval
    <3>3. R = 0..m
      BY DEF m
    <3> QED
      BY <3>1, <3>2, <3>3
  <2> HIDE DEF R, rank
  <2>3. rank \in Injection(P, R)
    BY <1>5, <2>1 DEF Injection, IsInjective
  <2>4. rank \in Surjection(P, R)
    BY <2>2, <2>3, FS_Injection
  <2>5. \A k \in R : \E p \in P : rank[p] = k
    BY <2>4 DEF Surjection
  <2> QED
    BY <2>5 DEF R, rank
<1> DEFINE f == [i \in 1..N |-> CHOOSE p \in P : Cardinality(Before(P, p)) = i - 1]
<1>7. \A i \in 1..N : f[i] \in P /\ Cardinality(Before(P, f[i])) = i - 1
  <2> SUFFICES ASSUME NEW i \in 1..N PROVE f[i] \in P /\ Cardinality(Before(P, f[i])) = i - 1
    OBVIOUS
  <2>1. i - 1 \in 0..(N - 1)
    BY <1>1
  <2> QED
    BY <1>6, <2>1
<1>8. f \in [1..N -> P]
  BY <1>7
<1>9. Sorted(P) = [i \in 1..N |-> f[i][2]]
  <2> DEFINE t == [i \in 1..N |-> (CHOOSE p \in P : Cardinality(Before(P, p)) = i - 1)[2]]
  <2>1. Sorted(P) = <<>> \o t
    BY DEF Sorted
  <2>2. t = [i \in 1..N |-> f[i][2]]
    OBVIOUS
  <2>3. t \in Seq({t[i] : i \in 1..N})
    <3> DEFINE T == {t[i] : i \in 1..N}
    <3>1. \A i \in 1..N : t[i] \in T
      OBVIOUS
    <3> HIDE DEF t, T, f, N
    <3>2. t \in [1..N -> T]
      BY <2>2, <3>1
    <3>3. t \in Seq(T)
      BY <1>1, <3>2
    <3> QED
      BY <3>3 DEF T
  <2> HIDE DEF t
  <2>4. <<>> \o t = t
    BY <2>3
  <2> QED
    BY <2>1, <2>2, <2>4
<1> HIDE DEF f
<1>10. \A p \in P : \E i \in 1..N : f[i] = p
  <2> SUFFICES ASSUME NEW p \in P PROVE \E i \in 1..N : f[i] = p
    OBVIOUS
  <2> DEFINE i == rank[p] + 1
  <2>1. rank[p] \in 0..(N - 1)
    BY <1>1, <1>2, <1>4
  <2> HIDE DEF rank
  <2>2. i \in 1..N /\ i - 1 = rank[p]
    BY <1>1, <2>1
  <2> HIDE DEF i
  <2> USE DEF rank
  <2>3. f[i] \in P /\ rank[f[i]] = rank[p]
    BY <1>7, <2>2
  <2>4. f[i] = p
    BY <1>5, <2>3
  <2> QED
    BY <2>2, <2>4
<1>11. ASSUME NEW i \in 1..N, NEW j \in 1..N, i < j
       PROVE  Less(f[i][1], f[j][1])
  <2>1. f[i] \in P /\ f[j] \in P /\ f[i] # f[j]
    BY <1>7, <1>11
  <2>2. Less(f[i][1], f[j][1]) \/ Less(f[j][1], f[i][1])
    BY <2>1, LessTotal
  <2>3. ASSUME Less(f[j][1], f[i][1]) PROVE FALSE
    <3>1. Cardinality(Before(P, f[j])) < Cardinality(Before(P, f[i]))
      BY <1>3, <2>1, <2>3
    <3> QED
      BY <1>7, <1>11, <3>1
  <2> QED
    BY <2>2, <2>3
<1>12. \A i \in 1..N : Sorted(P)[i] = f[i][2]
  BY <1>9
<1> QED
  BY <1>8, <1>9, <1>10, <1>11, <1>12

(* A set arranged in a sequence by a key that its elements do not share.    *)
Arranged(s, S) ==
    /\ IsFiniteSet(S) /\ Len(s) = Cardinality(S) /\ Len(s) \in Nat
    /\ s \in [1..Len(s) -> S]
    /\ \A w \in S : \E i \in 1..Len(s) : s[i] = w
    /\ \A i, j \in 1..Len(s) : s[i] = s[j] => i = j

Pairs(S, k) == {<<k[w], w>> : w \in S}

(* The same for works, or rooms, with a key that tells them apart.          *)
LEMMA SortedByKey ==
    ASSUME NEW n \in Nat, NEW S, IsFiniteSet(S), NEW k \in [S -> Keys(n)],
           \A v, w \in S : k[v] = k[w] => v = w,
           NEW s, s = Sorted(Pairs(S, k))
    PROVE  /\ Arranged(s, S)
           /\ \A i, j \in 1..Len(s) : i < j => Less(k[s[i]], k[s[j]])
<1> DEFINE P == Pairs(S, k)
<1> USE DEF Pairs
<1> DEFINE b == [w \in S |-> <<k[w], w>>]
<1>1. b \in Bijection(S, P)
  <2>1. b \in [S -> P]
    OBVIOUS
  <2>2. \A v, w \in S : b[v] = b[w] => v = w
    OBVIOUS
  <2>3. \A p \in P : \E w \in S : b[w] = p
    OBVIOUS
  <2> HIDE DEF b
  <2> QED
    BY <2>1, <2>2, <2>3 DEF Bijection, Injection, Surjection, IsInjective
<1>2. IsFiniteSet(P) /\ Cardinality(P) = Cardinality(S)
  BY <1>1, FS_Bijection DEF ExistsBijection
<1>3. \A p \in P : p[1] \in Keys(n) /\ p[2] \in S /\ p[1] = k[p[2]] /\ p = <<p[1], p[2]>>
  OBVIOUS
<1>12. \A p, q \in P : p[1] = q[1] => p = q
  BY <1>3
<1>13. \A p \in P : p[1] \in Keys(n)
  BY <1>3
<1> HIDE DEF P
<1> DEFINE N == Cardinality(P)
<1>4. PICK f \in [1..N -> P] :
              /\ \A i \in 1..N : Sorted(P)[i] = f[i][2]
              /\ Sorted(P) = [i \in 1..N |-> f[i][2]]
              /\ \A p \in P : \E i \in 1..N : f[i] = p
              /\ \A i, j \in 1..N : i < j => Less(f[i][1], f[j][1])
  <2>1. IsFiniteSet(P)
    BY <1>2
  <2> QED
    BY <1>12, <1>13, <2>1, SortedPairs
<1>5. N \in Nat
  BY <1>2, FS_CardinalityType
<1>14. s = Sorted(P)
  BY DEF P
<1>6. s \in [1..N -> S] /\ Len(s) = N
  <2>1. \A i \in 1..N : f[i][2] \in S
    BY <1>3
  <2>2. s \in [1..N -> S]
    BY <1>4, <1>14, <2>1
  <2> HIDE DEF N
  <2> QED
    BY <1>5, <2>2
<1>7. \A i \in 1..N : f[i][1] = k[s[i]] /\ s[i] \in S /\ k[s[i]] \in Keys(n)
  BY <1>3, <1>4, <1>14
<1>8. \A i, j \in 1..N : i < j => Less(k[s[i]], k[s[j]])
  BY <1>4, <1>7
<1>9. \A w \in S : \E i \in 1..N : s[i] = w
  <2> SUFFICES ASSUME NEW w \in S PROVE \E i \in 1..N : s[i] = w
    OBVIOUS
  <2> DEFINE p == <<k[w], w>>
  <2>1. p \in P /\ p[2] = w
    BY DEF P
  <2> HIDE DEF p
  <2>2. PICK i \in 1..N : f[i] = p
    BY <1>4, <2>1
  <2> QED
    BY <1>4, <1>14, <2>1, <2>2
<1>10. \A i, j \in 1..N : s[i] = s[j] => i = j
  <2> SUFFICES ASSUME NEW i \in 1..N, NEW j \in 1..N, i < j PROVE s[i] # s[j]
    BY <1>5
  <2>1. Less(k[s[i]], k[s[j]])
    BY <1>8
  <2>2. ~Less(k[s[i]], k[s[i]])
    BY <1>7, LessIrreflexive
  <2> QED
    BY <2>1, <2>2
<1> HIDE DEF N
<1>11. Arranged(s, S)
  BY <1>2, <1>5, <1>6, <1>9, <1>10 DEF Arranged, N
<1> QED
  BY <1>6, <1>8, <1>11

LEMMA MinIsSmallest ==
    ASSUME NEW T, T \subseteq Nat, T # {}
    PROVE  Min(T) \in T /\ \A m \in T : Min(T) <= m
<1>1. PICK n \in T : \A m \in T : n <= m
  BY SmallestNumber
<1> QED
  BY <1>1 DEF Min

-----------------------------------------------------------------------------
(* The order of the visit, of the candidates and of the rooms.              *)
LEMMA PlaceType ==
    ASSUME NEW w \in Catalogue
    PROVE  Place(w) \in Keys(4) /\ Alphabetical[room_name(w)] = Room(w)
<1>1. room_name(w) \in Int /\ Alphabetical[room_name(w)] = Room(w)
  <2>1. \E i \in DOMAIN Alphabetical : Alphabetical[i] = Room(w)
    BY RoomsAssumption
  <2>2. room_name(w) \in DOMAIN Alphabetical /\ Alphabetical[room_name(w)] = Room(w)
    BY <2>1 DEF room_name
  <2>3. DOMAIN Alphabetical \subseteq Int
    BY RoomsAssumption
  <2> QED
    BY <2>2, <2>3
<1>2. room_rank(w) \in Int
  BY DEF room_rank, ROOM_ORDER
<1>3. w.year \in Int /\ w.id \in Int
  BY TourAssumption
<1>4. (IF w.year > 0 THEN w.year ELSE 9999) \in Int
  BY <1>3
<1> QED
  BY <1>1, <1>2, <1>3, <1>4 DEF Place, Keys

(* Two works have different places, because of their ids.                   *)
LEMMA PlaceIsUnique ==
    ASSUME NEW v \in Catalogue, NEW w \in Catalogue, Place(v) = Place(w)
    PROVE  v = w
<1>1. Place(v)[4] = v.id /\ Place(w)[4] = w.id
  BY DEF Place
<1> QED
  BY <1>1, TourAssumption

LEMMA LessFromTheLeft ==
    ASSUME NEW s \in Keys(4), NEW t \in Keys(4), Less(s, t)
    PROVE  s[1] < t[1] \/ (s[1] = t[1] /\ s[2] <= t[2])
<1>1. PICK i \in 1..4 : s[i] < t[i] /\ \A j \in 1..(i - 1) : s[j] = t[j]
  BY DEF Less, Keys
<1>2. \A j \in 1..4 : s[j] \in Int /\ t[j] \in Int
  BY DEF Keys
<1>3. CASE i = 1
  BY <1>1, <1>3
<1>4. CASE i = 2
  <2>1. 1 \in 1..(i - 1)
    BY <1>4
  <2> QED
    BY <1>1, <1>2, <1>4, <2>1
<1>5. CASE i > 2
  <2>1. 1 \in 1..(i - 1) /\ 2 \in 1..(i - 1)
    BY <1>5
  <2>2. s[1] = t[1] /\ s[2] = t[2]
    BY <1>1, <2>1
  <2> QED
    BY <1>2, <2>2
<1> QED
  BY <1>3, <1>4, <1>5

(* The works of a room are visited one after the other.                     *)
Grouped(s) ==
    \A i, j, l \in 1..Len(s) :
        i <= j /\ j <= l /\ Room(s[i]) = Room(s[l]) => Room(s[j]) = Room(s[i])

(* The visit has each work once, and the works of a room without a break.   *)
LEMMA TourOrder ==
    ASSUME NEW S \in SUBSET Catalogue, NEW s, s = order_tour(S)
    PROVE  Arranged(s, S) /\ Grouped(s)
<1> DEFINE k == [w \in S |-> Place(w)]
<1>1. k \in [S -> Keys(4)]
  BY PlaceType
<1>2. \A v, w \in S : k[v] = k[w] => v = w
  BY PlaceIsUnique
<1>3. IsFiniteSet(S)
  BY TourAssumption, FS_Subset
<1>4. {<<Place(w), w>> : w \in S} = Pairs(S, k)
  BY DEF Pairs
<1>5. s = Sorted(Pairs(S, k))
  BY <1>4, Zenon DEF order_tour
<1>6. \A w \in S : k[w] = Place(w)
  OBVIOUS
<1> HIDE DEF k
<1>7. /\ Arranged(s, S)
      /\ \A i, j \in 1..Len(s) : i < j => Less(k[s[i]], k[s[j]])
  BY <1>1, <1>2, <1>3, <1>5, SortedByKey
<1>8. \A i \in 1..Len(s) : s[i] \in S /\ k[s[i]] = Place(s[i]) /\ Place(s[i]) \in Keys(4)
  BY <1>6, <1>7, PlaceType DEF Arranged
<1>9. ASSUME NEW i \in 1..Len(s), NEW j \in 1..Len(s), NEW l \in 1..Len(s),
             i < j, j < l, Room(s[i]) = Room(s[l])
      PROVE  Room(s[j]) = Room(s[i])
  <2> DEFINE p(m) == Place(s[m])
  <2>1. p(i) \in Keys(4) /\ p(j) \in Keys(4) /\ p(l) \in Keys(4)
    BY <1>8
  <2>2. Less(p(i), p(j)) /\ Less(p(j), p(l))
    BY <1>7, <1>8, <1>9
  <2>3. p(i)[1] = p(l)[1] /\ p(i)[2] = p(l)[2]
    <3>1. room_rank(s[i]) = room_rank(s[l]) /\ room_name(s[i]) = room_name(s[l])
      BY <1>9, Zenon DEF room_rank, room_name
    <3> QED
      BY <3>1 DEF Place
  <2>4. p(j)[2] = room_name(s[j]) /\ p(i)[2] = room_name(s[i])
    BY DEF Place
  <2> HIDE DEF p
  <2>5. /\ p(i)[1] < p(j)[1] \/ (p(i)[1] = p(j)[1] /\ p(i)[2] <= p(j)[2])
        /\ p(j)[1] < p(l)[1] \/ (p(j)[1] = p(l)[1] /\ p(j)[2] <= p(l)[2])
    BY <2>1, <2>2, LessFromTheLeft
  <2>6. \A q \in Keys(4) : q[1] \in Int /\ q[2] \in Int
    BY DEF Keys
  <2>7. p(j)[2] = p(i)[2]
    BY <2>1, <2>3, <2>5, <2>6
  <2>8. s[i] \in Catalogue /\ s[j] \in Catalogue
    BY <1>8
  <2> QED
    BY <2>4, <2>7, <2>8, PlaceType
<1>10. Len(s) \in Nat
  BY <1>7 DEF Arranged
<1>11. Grouped(s)
  BY <1>9, <1>10 DEF Grouped
<1> QED
  BY <1>7, <1>11

LEMMA ScoreType ==
    ASSUME NEW w \in Catalogue, NEW f, NEW p
    PROVE  relevance_score(w, f, p) \in Int
<1>1. ASSUME NEW g PROVE TopicMatches(w, g) \in Nat
  <2> DEFINE names == {Normalized[t] : t \in w.topics}
             name == [t \in w.topics |-> Normalized[t]]
  <2>1. IsFiniteSet(w.topics)
    BY TourAssumption
  <2>2. name \in Surjection(w.topics, names)
    BY DEF Surjection
  <2> HIDE DEF name, names
  <2>3. IsFiniteSet(names)
    BY <2>1, <2>2, FS_Surjection
  <2>4. IsFiniteSet(names \cap g.topics)
    BY <2>3, FS_Intersection
  <2>5. Cardinality(names \cap g.topics) \in Nat
    BY <2>4, FS_CardinalityType
  <2> QED
    BY <2>5 DEF TopicMatches, names
<1>2. /\ TopicMatches(w, f) \in Nat /\ TopicMatches(w, p) \in Nat
      /\ EraMatch(w, f) \in Nat /\ EraMatch(w, p) \in Nat
      /\ TechniqueMatch(w, f) \in Nat /\ TechniqueMatch(w, p) \in Nat
  BY <1>1 DEF EraMatch, TechniqueMatch
<1>3. preference_score(w, p) \in Nat
  BY <1>2 DEF preference_score
<1> QED
  BY <1>2, <1>3 DEF relevance_score

(* The candidates are the matching works, each one once.                    *)
LEMMA CandidatesOrder ==
    ASSUME NEW ws \in SUBSET Catalogue, NEW f, NEW p, NEW c, c = Candidates(ws, f, p)
    PROVE  Arranged(c, Matching(ws, f))
<1> DEFINE S == Matching(ws, f)
           k == [w \in S |-> Priority(w, f, p)]
<1>1. S \in SUBSET Catalogue
  BY DEF Matching
<1> HIDE DEF S
<1>2. k \in [S -> Keys(3)]
  <2> SUFFICES ASSUME NEW w \in S PROVE Priority(w, f, p) \in Keys(3)
    OBVIOUS
  <2>1. relevance_score(w, f, p) \in Int /\ Minutes(w) \in Int /\ w.id \in Int
    BY <1>1, ScoreType, MinutesType, TourAssumption
  <2> QED
    BY <2>1 DEF Priority, Keys
<1>3. \A v, w \in S : k[v] = k[w] => v = w
  <2> SUFFICES ASSUME NEW v \in S, NEW w \in S, Priority(v, f, p) = Priority(w, f, p)
               PROVE  v = w
    OBVIOUS
  <2>1. Priority(v, f, p)[3] = v.id /\ Priority(w, f, p)[3] = w.id
    BY DEF Priority
  <2> QED
    BY <1>1, <2>1, TourAssumption
<1>4. IsFiniteSet(S)
  BY <1>1, TourAssumption, FS_Subset
<1>5. {<<Priority(w, f, p), w>> : w \in S} = Pairs(S, k)
  BY DEF Pairs
<1>6. c = Sorted(Pairs(S, k))
  BY <1>5, Zenon DEF Candidates, S
<1> HIDE DEF k
<1>7. Arranged(c, S)
  BY <1>2, <1>3, <1>4, <1>6, SortedByKey
<1> QED
  BY <1>7 DEF S

LEMMA RoomsFinite ==
    ASSUME NEW S, IsFiniteSet(S)
    PROVE  IsFiniteSet(Rooms(S)) /\ Cardinality(Rooms(S)) \in Nat
<1> DEFINE f == [w \in S |-> Room(w)]
<1>1. f \in Surjection(S, Rooms(S))
  BY DEF Surjection, Rooms
<1> HIDE DEF f
<1>2. IsFiniteSet(Rooms(S))
  BY <1>1, FS_Surjection
<1> QED
  BY <1>2, FS_CardinalityType

LEMMA ElementsOfArranged ==
    ASSUME NEW S, NEW s, Arranged(s, S)
    PROVE  ToSet(s) = S /\ DOMAIN s = 1..Len(s) /\ (s = <<>> <=> S = {})
<1>1. DOMAIN s = 1..Len(s) /\ \A i \in 1..Len(s) : s[i] \in S
  BY DEF Arranged
<1>2. ToSet(s) = S
  BY <1>1 DEF Arranged, ToSet
<1>3. s = <<>> <=> Len(s) = 0
  BY DEF Arranged
<1>4. Len(s) = 0 <=> S = {}
  BY FS_EmptySet DEF Arranged
<1> QED
  BY <1>1, <1>2, <1>3, <1>4

(* The rooms come in the order in which the visitor enters them.            *)
Entry(s, r) == Min({i \in DOMAIN s : Room(s[i]) = r})

(* A room is entered with the first of its works.                           *)
LEMMA EntryIsFirst ==
    ASSUME NEW S, NEW s, Arranged(s, S), NEW r \in Rooms(S)
    PROVE  /\ Entry(s, r) \in 1..Len(s) /\ Room(s[Entry(s, r)]) = r
           /\ \A i \in 1..Len(s) : Room(s[i]) = r => Entry(s, r) <= i
<1> DEFINE T == {i \in DOMAIN s : Room(s[i]) = r}
<1>1. DOMAIN s = 1..Len(s) /\ Len(s) \in Nat
  BY ElementsOfArranged DEF Arranged
<1>2. PICK w \in S : Room(w) = r
  BY DEF Rooms
<1>3. T \subseteq Nat /\ T # {}
  BY <1>1, <1>2 DEF Arranged
<1> HIDE DEF T
<1>4. Min(T) \in T /\ \A m \in T : Min(T) <= m
  BY <1>3, MinIsSmallest
<1> QED
  BY <1>1, <1>4 DEF Entry, T

(* The rooms of a tour, each one once, in the order of their entries.       *)
LEMMA RoomsOrder ==
    ASSUME NEW S, NEW s, Arranged(s, S), NEW rooms, rooms = tour_rooms(s)
    PROVE  /\ Arranged(rooms, Rooms(S))
           /\ \A a, b \in 1..Len(rooms) : a < b => Entry(s, rooms[a]) < Entry(s, rooms[b])
<1> DEFINE R == Rooms(S)
           k == [r \in R |-> <<Entry(s, r)>>]
<1>1. \A r \in R : Entry(s, r) \in Int /\ Room(s[Entry(s, r)]) = r
  BY EntryIsFirst
<1>2. k \in [R -> Keys(1)]
  <2> SUFFICES ASSUME NEW r \in R PROVE <<Entry(s, r)>> \in Keys(1)
    OBVIOUS
  <2> QED
    BY <1>1 DEF Keys
<1>3. \A q, r \in R : k[q] = k[r] => q = r
  <2> SUFFICES ASSUME NEW q \in R, NEW r \in R, <<Entry(s, q)>> = <<Entry(s, r)>> PROVE q = r
    OBVIOUS
  <2>1. Entry(s, q) = Entry(s, r)
    OBVIOUS
  <2> QED
    BY <1>1, <2>1
<1>4. IsFiniteSet(R)
  BY RoomsFinite DEF Arranged
<1>5. {<<<<Entry(s, r)>>, r>> : r \in R} = Pairs(R, k)
  BY DEF Pairs
<1>6. rooms = Sorted({<<<<Entry(s, r)>>, r>> : r \in R})
  BY ElementsOfArranged, Zenon DEF tour_rooms, Entry
<1>7. rooms = Sorted(Pairs(R, k))
  BY <1>5, <1>6
<1>8. \A r \in R : k[r] = <<Entry(s, r)>>
  OBVIOUS
<1> HIDE DEF k, R
<1>9. /\ Arranged(rooms, R)
      /\ \A a, b \in 1..Len(rooms) : a < b => Less(k[rooms[a]], k[rooms[b]])
  BY <1>2, <1>3, <1>4, <1>7, SortedByKey
<1>10. ASSUME NEW a \in 1..Len(rooms), NEW b \in 1..Len(rooms), a < b
       PROVE  Entry(s, rooms[a]) < Entry(s, rooms[b])
  <2>1. rooms[a] \in R /\ rooms[b] \in R
    BY <1>9 DEF Arranged
  <2>2. Less(<<Entry(s, rooms[a])>>, <<Entry(s, rooms[b])>>)
    BY <1>8, <1>9, <1>10, <2>1
  <2> QED
    BY <2>2 DEF Less
<1> QED
  BY <1>9, <1>10 DEF R

-----------------------------------------------------------------------------
(* The recursive functions of the planner and of the clock are total, and   *)
(* so have the values that their definitions give them.                     *)
IsClock(g, start, spans, n) ==
    /\ g \in [1..(n + 1) -> Int] /\ g[1] = start
    /\ \A i \in 1..n : g[i + 1] = g[i] + spans[i]

(* The recursive function of Clock has the values that its equation gives.  *)
LEMMA ClockValues ==
    ASSUME NEW start \in Int, NEW n \in Nat, NEW spans \in [1..n -> Int]
    PROVE  IsClock(Clock(start, spans), start, spans, n)
<1> DEFINE F(g) == [i \in 1..(n + 1) |-> IF i = 1 THEN start ELSE g[i - 1] + spans[i - 1]]
           Good == {m \in Nat : m <= n => \E g : IsClock(g, start, spans, m)}
<1>1. 0 \in Good
  <2> DEFINE g == [i \in 1..1 |-> start]
  <2>1. IsClock(g, start, spans, 0)
    BY DEF IsClock
  <2> QED
    BY <2>1
<1>2. ASSUME NEW m \in Good PROVE m + 1 \in Good
  <2>1. CASE m + 1 <= n
    <3>1. PICK g : IsClock(g, start, spans, m)
      BY <2>1
    <3> HIDE DEF Good
    <3>2. m \in Nat /\ spans[m + 1] \in Int /\ m + 1 \in 1..(m + 1)
      BY <2>1 DEF Good
    <3> DEFINE h == [i \in 1..(m + 2) |-> IF i = m + 2 THEN g[m + 1] + spans[m + 1] ELSE g[i]]
    <3>3. g \in [1..(m + 1) -> Int] /\ g[1] = start /\ \A i \in 1..m : g[i + 1] = g[i] + spans[i]
      BY <3>1 DEF IsClock
    <3>4. g[m + 1] \in Int
      BY <3>2, <3>3
    <3>5. h \in [1..(m + 2) -> Int] /\ h[1] = start
      BY <3>2, <3>3, <3>4
    <3>6. ASSUME NEW i \in 1..(m + 1) PROVE h[i + 1] = h[i] + spans[i]
      <4>1. CASE i = m + 1
        BY <3>2, <4>1
      <4>2. CASE i # m + 1
        <5>1. i \in 1..m /\ i + 1 \in 1..(m + 2) /\ i + 1 # m + 2 /\ i # m + 2 /\ i \in 1..(m + 2)
          BY <3>2, <4>2
        <5>2. h[i + 1] = g[i + 1] /\ h[i] = g[i]
          BY <5>1
        <5> QED
          BY <3>3, <5>1, <5>2
      <4> QED
        BY <4>1, <4>2
    <3>7. m + 2 = (m + 1) + 1
      BY <3>2
    <3> HIDE DEF h
    <3>8. IsClock(h, start, spans, m + 1)
      BY <3>5, <3>6, <3>7 DEF IsClock
    <3> QED
      BY <3>2, <3>8 DEF Good
  <2>2. CASE ~(m + 1 <= n)
    BY <2>2
  <2> QED
    BY <2>1, <2>2
<1>3. Good \subseteq Nat
  OBVIOUS
<1> HIDE DEF Good
<1>4. Good = Nat
  BY <1>1, <1>2, <1>3, NumberInduction
<1>5. PICK g : IsClock(g, start, spans, n)
  <2>1. n \in Good /\ n <= n
    BY <1>4
  <2> QED
    BY <2>1 DEF Good
<1>6. g = F(g)
  <2>1. \A i \in 1..(n + 1) : g[i] = IF i = 1 THEN start ELSE g[i - 1] + spans[i - 1]
    <3> SUFFICES ASSUME NEW i \in 1..(n + 1), i # 1 PROVE g[i] = g[i - 1] + spans[i - 1]
      BY <1>5 DEF IsClock
    <3>1. i - 1 \in 1..n /\ (i - 1) + 1 = i
      OBVIOUS
    <3> QED
      BY <1>5, <3>1 DEF IsClock
  <2> QED
    BY <1>5, <2>1 DEF IsClock
<1>7. Len(spans) = n
  OBVIOUS
<1> DEFINE c == Clock(start, spans)
<1>8. c = F(c)
  <2>1. Clock(start, spans) = CHOOSE a : a = F(a)
    BY <1>7 DEF Clock
  <2> QED
    BY <1>6, <2>1
<1> HIDE DEF c
<1>9. DOMAIN c = 1..(n + 1) /\ c[1] = start
  BY <1>8
<1>10. \A i \in 1..n : c[i + 1] = c[i] + spans[i]
  <2> SUFFICES ASSUME NEW i \in 1..n PROVE c[i + 1] = c[i] + spans[i]
    OBVIOUS
  <2>1. i + 1 \in 1..(n + 1) /\ i + 1 # 1 /\ (i + 1) - 1 = i
    OBVIOUS
  <2> QED
    BY <1>8, <2>1
<1> DEFINE Typed == {m \in Nat : m <= n => c[m + 1] \in Int}
<1>11. Typed \subseteq Nat /\ 0 \in Typed
  BY <1>9
<1>12. \A m \in Typed : m + 1 \in Typed
  <2> SUFFICES ASSUME NEW m \in Typed, m + 1 <= n PROVE c[m + 1 + 1] \in Int
    OBVIOUS
  <2>1. m + 1 \in 1..n /\ c[m + 1] \in Int
    OBVIOUS
  <2> QED
    BY <1>10, <2>1
<1> HIDE DEF Typed
<1>13. Typed = Nat
  BY <1>11, <1>12, NumberInduction
<1>14. \A i \in 1..(n + 1) : c[i] \in Int
  <2> SUFFICES ASSUME NEW i \in 1..(n + 1) PROVE c[i] \in Int
    OBVIOUS
  <2>1. i - 1 \in Typed /\ i - 1 <= n /\ (i - 1) + 1 = i
    BY <1>13
  <2> QED
    BY <2>1 DEF Typed
<1> HIDE DEF F
<1>15. c = [i \in 1..(n + 1) |-> c[i]]
  BY <1>8 DEF F
<1>16. c \in [1..(n + 1) -> Int]
  BY <1>14, <1>15
<1>17. IsClock(c, start, spans, n)
  BY <1>9, <1>10, <1>16 DEF IsClock
<1> QED
  BY <1>17 DEF c

IsTaking(g, c, limits, n) ==
    /\ g[0] = NothingTaken
    /\ \A i \in 1..n : g[i] = Take(g[i - 1], c[i], limits)

(* And so has the one of plan_tour.                                         *)
LEMMA TakingValues ==
    ASSUME NEW ws, NEW f, NEW p, NEW limits, NEW c, c = Candidates(ws, f, p), Len(c) \in Nat
    PROVE  \E t : /\ IsTaking(t, c, limits, Len(c))
                  /\ plan_tour(ws, f, p, limits) = order_tour(t[Len(c)].works)
<1> DEFINE n == Len(c)
           F(g) == [i \in 0..n |-> IF i = 0 THEN NothingTaken ELSE Take(g[i - 1], c[i], limits)]
           Good == {m \in Nat : \E g : DOMAIN g = 0..m /\ g = [i \in 0..m |-> g[i]]
                                       /\ IsTaking(g, c, limits, m)}
<1>1. 0 \in Good
  <2> DEFINE g == [i \in 0..0 |-> NothingTaken]
  <2>1. g = [i \in 0..0 |-> g[i]] /\ DOMAIN g = 0..0
    OBVIOUS
  <2>2. IsTaking(g, c, limits, 0)
    BY DEF IsTaking
  <2> HIDE DEF g
  <2> QED
    BY <2>1, <2>2
<1>2. ASSUME NEW m \in Good PROVE m + 1 \in Good
  <2>1. PICK g : IsTaking(g, c, limits, m)
    OBVIOUS
  <2>2. m \in Nat
    OBVIOUS
  <2> DEFINE h == [i \in 0..(m + 1) |-> IF i = m + 1 THEN Take(g[m], c[m + 1], limits) ELSE g[i]]
  <2>3. g[0] = NothingTaken /\ \A i \in 1..m : g[i] = Take(g[i - 1], c[i], limits)
    BY <2>1 DEF IsTaking
  <2>4. h[0] = NothingTaken
    BY <2>2, <2>3
  <2>5. ASSUME NEW i \in 1..(m + 1) PROVE h[i] = Take(h[i - 1], c[i], limits)
    <3>1. CASE i = m + 1
      <4>1. h[i] = Take(g[m], c[m + 1], limits)
        BY <2>2, <3>1
      <4>2. h[i - 1] = g[m] /\ c[i] = c[m + 1]
        BY <2>2, <3>1
      <4> QED
        BY <4>1, <4>2
    <3>2. CASE i # m + 1
      <4>1. i \in 1..m /\ i \in 0..(m + 1) /\ i - 1 \in 0..(m + 1) /\ i - 1 # m + 1
        BY <2>2, <3>2
      <4>2. h[i] = g[i] /\ h[i - 1] = g[i - 1]
        BY <3>2, <4>1
      <4> QED
        BY <2>3, <4>1, <4>2
    <3> QED
      BY <3>1, <3>2
  <2>6. DOMAIN h = 0..(m + 1) /\ h = [i \in 0..(m + 1) |-> h[i]]
    OBVIOUS
  <2> HIDE DEF h
  <2>7. IsTaking(h, c, limits, m + 1)
    BY <2>4, <2>5 DEF IsTaking
  <2> QED
    BY <2>2, <2>6, <2>7
<1>3. Good \subseteq Nat /\ n \in Nat
  OBVIOUS
<1> HIDE DEF Good, n
<1>4. Good = Nat
  BY <1>1, <1>2, <1>3, NumberInduction
<1>5. n \in Good
  BY <1>3, <1>4
<1>6. PICK g : g = [i \in 0..n |-> g[i]] /\ IsTaking(g, c, limits, n)
  BY <1>5 DEF Good
<1>7. \A i \in 0..n : g[i] = IF i = 0 THEN NothingTaken ELSE Take(g[i - 1], c[i], limits)
  BY <1>3, <1>6 DEF IsTaking
<1>8. g = F(g)
  BY <1>6, <1>7
<1> DEFINE t == CHOOSE a : a = F(a)
<1>9. t = F(t)
  BY <1>8
<1>10. plan_tour(ws, f, p, limits) = order_tour(t[n].works)
  BY DEF plan_tour, n
<1> HIDE DEF t
<1>11. IsTaking(t, c, limits, n)
  <2>1. t[0] = NothingTaken
    BY <1>3, <1>9
  <2>2. \A i \in 1..n : t[i] = Take(t[i - 1], c[i], limits)
    BY <1>3, <1>9
  <2> QED
    BY <2>1, <2>2 DEF IsTaking
<1> QED
  BY <1>10, <1>11 DEF n

-----------------------------------------------------------------------------
(* What the planner takes.                                                  *)
LEMMA RoomsOfOneMore ==
    ASSUME NEW S, IsFiniteSet(S), NEW w
    PROVE  /\ Rooms(S \cup {w}) = Rooms(S) \cup {Room(w)}
           /\ Cardinality(Rooms(S)) \in Nat
           /\ Cardinality(Rooms(S \cup {w})) =
                IF Room(w) \in Rooms(S) THEN Cardinality(Rooms(S)) ELSE Cardinality(Rooms(S)) + 1
           /\ Rooms(S) = {} <=> S = {}
<1>1. Rooms(S \cup {w}) = Rooms(S) \cup {Room(w)}
  BY DEF Rooms
<1>2. IsFiniteSet(Rooms(S)) /\ Cardinality(Rooms(S)) \in Nat
  BY RoomsFinite
<1>3. Cardinality(Rooms(S \cup {w})) = Cardinality(Rooms(S) \cup {Room(w)})
  BY <1>1, Zenon
<1> DEFINE R == Rooms(S)
<1> HIDE DEF R
<1>4. Cardinality(R \cup {Room(w)}) = IF Room(w) \in R THEN Cardinality(R) ELSE Cardinality(R) + 1
  BY <1>2, FS_AddElement DEF R
<1>5. Rooms(S) = {} <=> S = {}
  BY DEF Rooms
<1> QED
  BY <1>1, <1>2, <1>3, <1>4, <1>5 DEF R

(* The cost that Take adds is what the total of the tour grows by.          *)
LEMMA TotalOfOneMore ==
    ASSUME NEW S \in SUBSET Catalogue, NEW w \in Catalogue, w \notin S
    PROVE  calculate_total_duration(S \cup {w}) =
             calculate_total_duration(S) + Minutes(w)
                + (IF Rooms(S) # {} /\ Room(w) \notin Rooms(S) THEN TransitionMinutes ELSE 0)
<1> DEFINE n == Cardinality(Rooms(S))
           m == Cardinality(Rooms(S \cup {w}))
           T == TransitionMinutes
           R == S \cup {w}
           extra == IF Rooms(S) # {} /\ Room(w) \notin Rooms(S) THEN TransitionMinutes ELSE 0
<1> SUFFICES calculate_total_duration(R) = calculate_total_duration(S) + Minutes(w) + extra
  OBVIOUS
<1>1. IsFiniteSet(S)
  BY TourAssumption, FS_Subset
<1>2. /\ n \in Nat /\ m = (IF Room(w) \in Rooms(S) THEN n ELSE n + 1)
      /\ Rooms(S) = {} <=> S = {}
  BY <1>1, RoomsOfOneMore
<1>3. T \in Nat
  BY TourAssumption
<1>4. Duration(R) = Duration(S) + Minutes(w)
  BY OneWorkMore
<1>5. Duration(S) \in Nat
  BY DurationEquation
<1>6. Minutes(w) \in Nat
  BY MinutesType
<1>7. R # {}
  OBVIOUS
<1>8. calculate_total_duration(R) = Duration(R) + (m - 1) * T
  BY <1>7 DEF calculate_total_duration
<1>9. CASE S = {}
  <2>1. n = 0
    <3>1. Rooms(S) = {}
      BY <1>9 DEF Rooms
    <3> QED
      BY <3>1, FS_EmptySet
  <2>2. m = 1 /\ Rooms(S) = {}
    BY <1>2, <1>9, <2>1
  <2>3. (m - 1) * T = 0
    BY <1>3, <2>2
  <2>4. calculate_total_duration(S) = 0 /\ Duration(S) = 0
    BY <1>9, DurationEquation DEF calculate_total_duration
  <2>6. extra = 0
    BY <2>2
  <2> HIDE DEF R, T, m, n, extra
  <2>5. calculate_total_duration(R) = Minutes(w)
    BY <1>4, <1>6, <1>8, <2>3, <2>4
  <2> QED
    BY <1>6, <2>4, <2>5, <2>6
<1>10. CASE S # {}
  <2>1. calculate_total_duration(S) = Duration(S) + (n - 1) * T
    BY <1>10 DEF calculate_total_duration
  <2>2. Rooms(S) # {}
    BY <1>2, <1>10
  <2> HIDE DEF T, m, n, R
  <2>3. (n + 1 - 1) * T = (n - 1) * T + T /\ (n - 1) * T \in Int
    BY <1>2, <1>3
  <2>4. CASE Room(w) \in Rooms(S)
    <3>1. m = n /\ extra = 0
      BY <1>2, <2>4
    <3> HIDE DEF extra
    <3> QED
      BY <1>4, <1>5, <1>6, <1>8, <2>1, <2>3, <3>1
  <2>5. CASE Room(w) \notin Rooms(S)
    <3>1. m = n + 1 /\ extra = T
      BY <1>2, <2>2, <2>5 DEF T
    <3> HIDE DEF extra
    <3>2. (m - 1) * T = (n - 1) * T + T
      <4>1. \A k \in Int : (k + 1) * T = k * T + T
        BY <1>3
      <4>2. m - 1 = (n - 1) + 1 /\ n - 1 \in Int
        BY <1>2, <3>1
      <4> QED
        BY <4>1, <4>2, Zenon
    <3> DEFINE x == (n - 1) * T
               y == (m - 1) * T
    <3>3. y = x + T /\ x \in Int
      BY <2>3, <3>2
    <3> HIDE DEF x, y
    <3>4. Duration(R) + y = Duration(S) + x + Minutes(w) + extra
      BY <1>3, <1>4, <1>5, <1>6, <3>1, <3>3
    <3> QED
      BY <1>8, <2>1, <3>4 DEF x, y
  <2> QED
    BY <2>4, <2>5
<1> QED
  BY <1>9, <1>10

LEMMA TotalType ==
    ASSUME NEW S \in SUBSET Catalogue
    PROVE  calculate_total_duration(S) \in Nat
<1> DEFINE Good == {X \in SUBSET S : calculate_total_duration(X) \in Nat}
<1>1. Good \subseteq SUBSET S /\ IsFiniteSet(S)
  BY TourAssumption, FS_Subset
<1>2. {} \in Good
  BY DEF calculate_total_duration
<1>3. ASSUME NEW X \in Good, NEW w \in S \ X PROVE X \cup {w} \in Good
  <2>1. X \in SUBSET Catalogue /\ w \in Catalogue /\ w \notin X /\ calculate_total_duration(X) \in Nat
    OBVIOUS
  <2>2. Minutes(w) \in Nat /\ TransitionMinutes \in Nat
    BY <2>1, MinutesType, TourAssumption
  <2> DEFINE Y == X \cup {w}
  <2>3. calculate_total_duration(Y) =
             calculate_total_duration(X) + Minutes(w)
                + (IF Rooms(X) # {} /\ Room(w) \notin Rooms(X) THEN TransitionMinutes ELSE 0)
    BY <2>1, TotalOfOneMore
  <2>4. Y \in SUBSET S
    OBVIOUS
  <2> HIDE DEF Y, Good
  <2>5. calculate_total_duration(Y) \in Nat
    BY <2>1, <2>2, <2>3
  <2>6. Y \in Good
    BY <2>4, <2>5 DEF Good
  <2> QED
    BY <2>6 DEF Y
<1> HIDE DEF Good
<1>4. Good = SUBSET S
  BY <1>1, <1>2, <1>3, SetInduction
<1>5. S \in Good
  BY <1>4
<1> QED
  BY <1>5 DEF Good

(* A work alone takes no longer than a tour that has it.                    *)
LEMMA TotalGrows ==
    ASSUME NEW S \in SUBSET Catalogue, NEW w \in S
    PROVE  calculate_total_duration({w}) <= calculate_total_duration(S)
<1>1. w \in Catalogue /\ {w} \in SUBSET Catalogue
  OBVIOUS
<1>2. Duration({w}) <= Duration(S)
  BY DurationGrows
<1> DEFINE n == Cardinality(Rooms(S))
<1>3. n \in Nat /\ n # 0
  <2>1. IsFiniteSet(S)
    BY TourAssumption, FS_Subset
  <2>2. IsFiniteSet(Rooms(S)) /\ n \in Nat
    BY <2>1, RoomsFinite
  <2>3. Rooms(S) # {}
    BY DEF Rooms
  <2> QED
    BY <2>2, <2>3, FS_EmptySet
<1>4. Cardinality(Rooms({w})) = 1
  <2>1. Rooms({w}) = {Room(w)}
    BY DEF Rooms
  <2>2. Cardinality({Room(w)}) = 1
    BY FS_Singleton
  <2> QED
    BY <2>1, <2>2
<1>5. calculate_total_duration({w}) = Duration({w}) + (1 - 1) * TransitionMinutes
  BY <1>4 DEF calculate_total_duration
<1>6. calculate_total_duration(S) = Duration(S) + (n - 1) * TransitionMinutes
  BY DEF calculate_total_duration
<1>7. Duration({w}) \in Nat
  BY <1>1, DurationEquation
<1>8. Duration(S) \in Nat
  BY DurationEquation
<1>9. TransitionMinutes \in Nat
  BY TourAssumption
<1> DEFINE D == Duration({w})
           x == (n - 1) * TransitionMinutes
           y == (1 - 1) * TransitionMinutes
<1>10. x \in Nat /\ y = 0
  <2>1. n - 1 \in Nat
    BY <1>3
  <2> HIDE DEF n
  <2> QED
    BY <1>9, <2>1
<1> HIDE DEF n, D, x, y
<1>11. D + y <= Duration(S) + x
  <2>1. D <= Duration(S) /\ D \in Nat
    BY <1>2, <1>7 DEF D
  <2> QED
    BY <1>8, <1>10, <2>1
<1> QED
  BY <1>5, <1>6, <1>11 DEF D, x, y

(* A set of works chosen from M: it respects the limits, and every work     *)
(* that is not in it would break one of them.                               *)
Chosen(W, M, limits) ==
    /\ W \subseteq M
    /\ limits.works > 0 => Cardinality(W) <= limits.works
    /\ limits.minutes > 0 => calculate_total_duration(W) <= limits.minutes
    /\ \A w \in M \ W :
         \/ limits.works > 0 /\ Cardinality(W) >= limits.works
         \/ limits.minutes > 0 /\ calculate_total_duration(W \cup {w}) > limits.minutes

AreLimits(limits) == limits.minutes \in Nat /\ limits.works \in Nat

(* After the first i candidates, what is taken is chosen from them.         *)
LEMMA TakeKeepsChosen ==
    ASSUME NEW M \in SUBSET Catalogue, NEW w \in Catalogue, w \notin M,
           NEW limits, AreLimits(limits),
           NEW W, Chosen(W, M, limits), NEW u,
           u = Take([works |-> W, rooms |-> Rooms(W), minutes |-> calculate_total_duration(W)],
                    w, limits)
    PROVE  \E V : /\ Chosen(V, M \cup {w}, limits)
                  /\ u = [works |-> V, rooms |-> Rooms(V), minutes |-> calculate_total_duration(V)]
<1> DEFINE t == [works |-> W, rooms |-> Rooms(W), minutes |-> calculate_total_duration(W)]
           V == W \cup {w}
           T(S) == calculate_total_duration(S)
           M1 == M \cup {w}
<1>1. W \in SUBSET Catalogue /\ w \notin W /\ W \subseteq M /\ V \in SUBSET Catalogue
  BY DEF Chosen
<1>2. IsFiniteSet(W) /\ Cardinality(W) \in Nat /\ Cardinality(V) = Cardinality(W) + 1
      /\ Cardinality(V) \in Nat
  <2>1. IsFiniteSet(W)
    BY <1>1, TourAssumption, FS_Subset
  <2>2. Cardinality(W) \in Nat
    BY <2>1, FS_CardinalityType
  <2>3. Cardinality(V) = Cardinality(W) + 1
    BY <1>1, <2>1, FS_AddElement
  <2> QED
    BY <2>1, <2>2, <2>3
<1>3. T(V) = T(W) + Cost(t, w)
  <2>1. Cost(t, w) = Minutes(w)
            + (IF Rooms(W) # {} /\ Room(w) \notin Rooms(W) THEN TransitionMinutes ELSE 0)
    BY DEF Cost
  <2>2. T(V) = T(W) + Minutes(w)
            + (IF Rooms(W) # {} /\ Room(w) \notin Rooms(W) THEN TransitionMinutes ELSE 0)
    BY <1>1, TotalOfOneMore
  <2>3. Minutes(w) \in Nat /\ TransitionMinutes \in Nat
    BY MinutesType, TourAssumption
  <2>4. T(W) \in Nat
    BY <1>1, TotalType
  <2> HIDE DEF T, V, t
  <2> QED
    BY <2>1, <2>2, <2>3, <2>4
<1>4. T(W) \in Nat /\ T(V) \in Nat
  BY <1>1, TotalType
<1>5. Rooms(V) = Rooms(W) \cup {Room(w)}
  BY DEF Rooms
<1>6. limits.minutes \in Nat /\ limits.works \in Nat
  BY DEF AreLimits
<1> DEFINE full == \/ limits.works > 0 /\ Cardinality(W) >= limits.works
                   \/ limits.minutes > 0 /\ T(V) > limits.minutes
<1>7. t.works = W /\ t.minutes = T(W) /\ t.rooms = Rooms(W)
  OBVIOUS
<1>8. u = IF full THEN t
          ELSE [works |-> V, rooms |-> Rooms(W) \cup {Room(w)}, minutes |-> T(V)]
  BY <1>3, <1>7 DEF Take
<1>9. /\ limits.works > 0 => Cardinality(W) <= limits.works
      /\ limits.minutes > 0 => T(W) <= limits.minutes
      /\ \A x \in M \ W : \/ limits.works > 0 /\ Cardinality(W) >= limits.works
                          \/ limits.minutes > 0 /\ T(W \cup {x}) > limits.minutes
  BY DEF Chosen
<1>10. CASE full
  <2>1. \A x \in M1 \ W : \/ limits.works > 0 /\ Cardinality(W) >= limits.works
                          \/ limits.minutes > 0 /\ T(W \cup {x}) > limits.minutes
    <3> SUFFICES ASSUME NEW x \in M1 \ W
                 PROVE  \/ limits.works > 0 /\ Cardinality(W) >= limits.works
                        \/ limits.minutes > 0 /\ T(W \cup {x}) > limits.minutes
      OBVIOUS
    <3>1. CASE x \in M
      BY <1>9, <3>1
    <3>2. CASE x \notin M
      <4>1. x = w
        BY <3>2
      <4> QED
        BY <1>10, <4>1
    <3> QED
      BY <3>1, <3>2
  <2>2. W \subseteq M1
    BY <1>1
  <2> HIDE DEF M1
  <2>3. Chosen(W, M1, limits)
    BY <1>9, <2>1, <2>2 DEF Chosen
  <2>4. u = t
    BY <1>8, <1>10
  <2> QED
    BY <2>3, <2>4 DEF M1
<1>11. CASE ~full
  <2>1. limits.works > 0 => Cardinality(V) <= limits.works
    BY <1>2, <1>6, <1>11
  <2>2. limits.minutes > 0 => T(V) <= limits.minutes
    BY <1>4, <1>6, <1>11
  <2>3. ASSUME NEW x \in M1 \ V
        PROVE  \/ limits.works > 0 /\ Cardinality(V) >= limits.works
               \/ limits.minutes > 0 /\ T(V \cup {x}) > limits.minutes
    <3>1. x \in M \ W
      OBVIOUS
    <3>2. CASE limits.works > 0 /\ Cardinality(W) >= limits.works
      BY <1>2, <1>6, <3>2
    <3>3. CASE limits.minutes > 0 /\ T(W \cup {x}) > limits.minutes
      <4> DEFINE Wx == W \cup {x}
                 Vx == V \cup {x}
      <4>1. /\ Wx \in SUBSET Catalogue /\ Vx = Wx \cup {w} /\ w \notin Wx
            /\ x \in Catalogue /\ w # x
        BY <1>1, <3>1
      <4>2. T(Wx) \in Nat
        BY <4>1, TotalType
      <4>3. Minutes(w) \in Nat /\ TransitionMinutes \in Nat
        BY MinutesType, TourAssumption
      <4> HIDE DEF Wx
      <4>4. T(Wx \cup {w}) = T(Wx) + Minutes(w)
                + (IF Rooms(Wx) # {} /\ Room(w) \notin Rooms(Wx) THEN TransitionMinutes ELSE 0)
        BY <4>1, TotalOfOneMore
      <4>5. T(Vx) = T(Wx \cup {w})
        BY <4>1, Zenon
      <4> HIDE DEF T, Vx
      <4>6. T(Vx) >= T(Wx) /\ T(Vx) \in Nat
        BY <4>2, <4>3, <4>4, <4>5
      <4>7. T(Wx) > limits.minutes /\ limits.minutes > 0
        BY <3>3 DEF Wx
      <4>8. T(Vx) > limits.minutes
        BY <1>6, <4>2, <4>6, <4>7
      <4> QED
        BY <4>7, <4>8 DEF Vx
    <3> QED
      BY <1>9, <3>1, <3>2, <3>3
  <2>4. V \subseteq M1
    BY <1>1
  <2>5. u = [works |-> V, rooms |-> Rooms(V), minutes |-> T(V)]
    BY <1>5, <1>8, <1>11
  <2> HIDE DEF V, M1
  <2>6. Chosen(V, M1, limits)
    BY <2>1, <2>2, <2>3, <2>4 DEF Chosen
  <2> QED
    BY <2>5, <2>6 DEF M1
<1> QED
  BY <1>10, <1>11

(* Hence the tour is chosen from all the works that match.                  *)
LEMMA TourIsChosen ==
    ASSUME NEW ws \in SUBSET Catalogue, NEW f, NEW p, NEW limits, AreLimits(limits)
    PROVE  \E W : /\ Chosen(W, Matching(ws, f), limits)
                  /\ plan_tour(ws, f, p, limits) = order_tour(W)
<1> DEFINE c == Candidates(ws, f, p)
           M == Matching(ws, f)
           n == Len(c)
           First(i) == {c[j] : j \in 1..i}
           State(W) == [works |-> W, rooms |-> Rooms(W), minutes |-> calculate_total_duration(W)]
<1>1. M \in SUBSET Catalogue
  BY DEF Matching
<1>2. Arranged(c, M)
  BY CandidatesOrder
<1> HIDE DEF c, M
<1>3. PICK t : IsTaking(t, c, limits, n) /\ plan_tour(ws, f, p, limits) = order_tour(t[n].works)
  <2>1. n \in Nat
    BY <1>2 DEF Arranged
  <2> QED
    BY <2>1, TakingValues DEF c
<1>4. n \in Nat /\ c \in [1..n -> M] /\ First(n) = M
  <2>1. n \in Nat /\ c \in [1..n -> M] /\ \A w \in M : \E i \in 1..n : c[i] = w
    BY <1>2 DEF Arranged
  <2> QED
    BY <2>1
<1>5. t[0] = NothingTaken /\ \A i \in 1..n : t[i] = Take(t[i - 1], c[i], limits)
  BY <1>3 DEF IsTaking
<1> DEFINE Good == {i \in Nat : i <= n => \E W : Chosen(W, First(i), limits) /\ t[i] = State(W)}
<1>6. 0 \in Good
  <2>1. First(0) = {}
    OBVIOUS
  <2>2. calculate_total_duration({}) = 0 /\ Rooms({}) = {}
    BY DEF calculate_total_duration, Rooms
  <2>3. t[0] = State({})
    BY <1>5, <2>2 DEF NothingTaken
  <2>4. Chosen({}, {}, limits)
    <3>1. Cardinality({}) = 0
      BY FS_EmptySet
    <3>2. limits.minutes \in Nat /\ limits.works \in Nat
      BY DEF AreLimits
    <3> QED
      BY <2>2, <3>1, <3>2 DEF Chosen
  <2>5. Chosen({}, First(0), limits)
    BY <2>1, <2>4
  <2> HIDE DEF First, State
  <2> QED
    BY <2>3, <2>5
<1>7. ASSUME NEW i \in Good PROVE i + 1 \in Good
  <2>1. CASE i + 1 <= n
    <3>2. i \in Nat /\ i <= n
      BY <1>4, <2>1
    <3> HIDE DEF First, State
    <3>1. PICK W : Chosen(W, First(i), limits) /\ t[i] = State(W)
      BY <3>2
    <3> HIDE DEF Good
    <3> USE DEF First, State
    <3>3. i + 1 \in 1..n /\ (i + 1) - 1 = i
      BY <2>1, <3>2
    <3> DEFINE w == c[i + 1]
               F == First(i)
    <3>4. First(i + 1) = F \cup {w}
      BY <3>2
    <3>5. F \in SUBSET Catalogue /\ w \in Catalogue
      BY <1>1, <1>4, <3>2, <3>3
    <3>6. w \notin F
      <4>1. \A j \in 1..i : j \in 1..n /\ j # i + 1
        BY <1>4, <3>2, <3>3
      <4> QED
        BY <1>2, <3>3, <4>1 DEF Arranged
    <3>7. t[i + 1] = Take(State(W), w, limits)
      BY <1>5, <3>1, <3>3
    <3> HIDE DEF w, F
    <3>8. Chosen(W, F, limits)
      BY <3>1 DEF F
    <3>9. PICK V : Chosen(V, F \cup {w}, limits) /\ t[i + 1] = State(V)
      BY <3>5, <3>6, <3>7, <3>8, TakeKeepsChosen
    <3> HIDE DEF First, State
    <3>10. Chosen(V, First(i + 1), limits)
      BY <3>4, <3>9
    <3> QED
      BY <3>2, <3>9, <3>10 DEF Good
  <2>2. CASE ~(i + 1 <= n)
    BY <2>2
  <2> QED
    BY <2>1, <2>2
<1>8. Good \subseteq Nat
  OBVIOUS
<1> HIDE DEF Good, First
<1>9. Good = Nat
  BY <1>6, <1>7, <1>8, NumberInduction
<1>10. PICK W : Chosen(W, First(n), limits) /\ t[n] = State(W)
  <2>1. n \in Good /\ n <= n
    BY <1>4, <1>9
  <2> QED
    BY <2>1 DEF Good
<1>11. Chosen(W, M, limits) /\ plan_tour(ws, f, p, limits) = order_tour(W)
  BY <1>3, <1>4, <1>10
<1> QED
  BY <1>11 DEF M

LEMMA EmptyTour == \A S \in SUBSET Catalogue : order_tour(S) = <<>> <=> S = {}
BY TourOrder, ElementsOfArranged

(* No tour at all: every work that matches is too long, even alone.         *)
Hopeless(M, limits) ==
    \A w \in M : limits.minutes > 0 /\ calculate_total_duration({w}) > limits.minutes

(* Nothing is chosen exactly when no work that matches fits alone.          *)
LEMMA NothingChosen ==
    ASSUME NEW M \in SUBSET Catalogue, NEW limits, AreLimits(limits), NEW W,
           Chosen(W, M, limits)
    PROVE  W = {} <=> Hopeless(M, limits)
<1>1. ASSUME W = {} PROVE Hopeless(M, limits)
  <2> SUFFICES ASSUME NEW w \in M
               PROVE  limits.minutes > 0 /\ calculate_total_duration({w}) > limits.minutes
    BY DEF Hopeless
  <2>1. \/ limits.works > 0 /\ Cardinality({}) >= limits.works
        \/ limits.minutes > 0 /\ calculate_total_duration({} \cup {w}) > limits.minutes
    BY <1>1 DEF Chosen
  <2>2. Cardinality({}) = 0 /\ limits.works \in Nat
    BY FS_EmptySet DEF AreLimits
  <2>3. {} \cup {w} = {w}
    OBVIOUS
  <2> QED
    BY <2>1, <2>2, <2>3
<1>2. ASSUME Hopeless(M, limits), W # {} PROVE FALSE
  <2>1. PICK w \in W : TRUE
    BY <1>2
  <2>2. W \in SUBSET Catalogue /\ w \in M /\ w \in Catalogue
    BY DEF Chosen
  <2>3. calculate_total_duration({w}) <= calculate_total_duration(W)
    BY <2>2, TotalGrows
  <2>4. limits.minutes > 0 /\ calculate_total_duration({w}) > limits.minutes
    BY <1>2, <2>2 DEF Hopeless
  <2>5. calculate_total_duration(W) <= limits.minutes
    BY <2>4 DEF Chosen
  <2>6. calculate_total_duration(W) \in Nat
    BY <2>2, TotalType
  <2>7. calculate_total_duration({w}) \in Nat
    <3>1. {w} \in SUBSET Catalogue
      BY <2>2
    <3> QED
      BY <3>1, TotalType
  <2>8. limits.minutes \in Nat
    BY DEF AreLimits
  <2> QED
    BY <2>3, <2>4, <2>5, <2>6, <2>7, <2>8
<1> QED
  BY <1>1, <1>2

-----------------------------------------------------------------------------
(* What is given up: the first attempt that is not hopeless, whatever the   *)
(* preferences are.                                                         *)
LEMMA AttemptsAreFew ==
    ASSUME NEW f
    PROVE  /\ \E k \in 1..3 : DOMAIN Attempts(f) = 1..k
           /\ Attempts(f) # <<>>
BY DEF Attempts

Open(ws, f, limits) ==
    {i \in DOMAIN Attempts(f) : ~Hopeless(Matching(ws, Relaxed(f, Attempts(f)[i])), limits)}
Note(ws, f, limits) ==
    IF Open(ws, f, limits) # {} THEN Attempts(f)[Min(Open(ws, f, limits))]
    ELSE IF f.topics # {} THEN "no topic" ELSE "nothing"

IsCriteria(f) == \E t, e, k : f = [topics |-> t, eras |-> e, techniques |-> k]

(* The last attempt keeps the topics only; so do the notes of no tour.      *)
LEMMA LastAttempt ==
    ASSUME NEW f, IsCriteria(f)
    PROVE  /\ \E i \in DOMAIN Attempts(f) :
                 Relaxed(f, Attempts(f)[i]) = [topics |-> f.topics, eras |-> {}, techniques |-> {}]
           /\ Relaxed(f, "no topic") = [topics |-> f.topics, eras |-> {}, techniques |-> {}]
           /\ Relaxed(f, "nothing") = [topics |-> f.topics, eras |-> {}, techniques |-> {}]
<1> DEFINE g == [topics |-> f.topics, eras |-> {}, techniques |-> {}]
<1>1. PICK t, e, k : f = [topics |-> t, eras |-> e, techniques |-> k]
  BY DEF IsCriteria
<1>2. g = [topics |-> t, eras |-> {}, techniques |-> {}]
  BY <1>1
<1>3. /\ Relaxed(f, "no topic") = g /\ Relaxed(f, "nothing") = g /\ Relaxed(f, "era") = g
      /\ Relaxed(f, "technique and era") = g
  <2> HIDE DEF g
  <2>1. \A note : note # "none" /\ note # "technique" => Relaxed(f, note) = g
    BY DEF Relaxed, g
  <2> QED
    BY <2>1
<1>4. CASE e = {} /\ k = {}
  <2>1. Attempts(f) = <<"none">>
    BY <1>1, <1>4 DEF Attempts
  <2>2. Relaxed(f, "none") = g
    BY <1>1, <1>2, <1>4 DEF Relaxed
  <2> HIDE DEF g
  <2>3. 1 \in DOMAIN Attempts(f) /\ Attempts(f)[1] = "none"
    BY <2>1
  <2> QED
    BY <1>3, <2>2, <2>3 DEF g
<1>5. CASE e # {} /\ k = {}
  <2>1. Attempts(f) = <<"none", "era">>
    BY <1>1, <1>5 DEF Attempts
  <2>2. 2 \in DOMAIN Attempts(f) /\ Attempts(f)[2] = "era"
    BY <2>1
  <2> QED
    BY <1>3, <2>2
<1>6. CASE e = {} /\ k # {}
  <2>1. Attempts(f) = <<"none", "technique">>
    BY <1>1, <1>6 DEF Attempts
  <2>2. Relaxed(f, "technique") = g
    BY <1>1, <1>2, <1>6 DEF Relaxed
  <2>3. 2 \in DOMAIN Attempts(f) /\ Attempts(f)[2] = "technique"
    BY <2>1
  <2> QED
    BY <1>3, <2>2, <2>3
<1>7. CASE e # {} /\ k # {}
  <2>1. Attempts(f) = <<"none", "technique", "technique and era">>
    BY <1>1, <1>7 DEF Attempts
  <2> DEFINE a == <<"none", "technique", "technique and era">>
  <2>3. 3 \in DOMAIN a /\ a[3] = "technique and era"
    OBVIOUS
  <2>2. 3 \in DOMAIN Attempts(f) /\ Attempts(f)[3] = "technique and era"
    BY <2>1, <2>3
  <2> QED
    BY <1>3, <2>2
<1> QED
  BY <1>4, <1>5, <1>6, <1>7

LEMMA MatchingType == \A ws \in SUBSET Catalogue : \A f : Matching(ws, f) \in SUBSET Catalogue
BY DEF Matching

(* The answer is the first attempt that is not hopeless; its note says so.  *)
LEMMA Fallback ==
    ASSUME NEW ws \in SUBSET Catalogue, NEW f, IsCriteria(f), NEW p, NEW limits, AreLimits(limits),
           NEW x, x = plan_tour_with_fallback(ws, f, p, limits)
    PROVE  /\ x.note = Note(ws, f, limits)
           /\ \E W : /\ x.works = order_tour(W)
                     /\ Chosen(W, Matching(ws, Relaxed(f, x.note)), limits)
           /\ \A i \in DOMAIN Attempts(f) :
                 (\A k \in 1..i : Attempts(f)[k] # x.note) =>
                     Hopeless(Matching(ws, Relaxed(f, Attempts(f)[i])), limits)
<1> DEFINE attempts == Attempts(f)
           D == DOMAIN attempts
           M(i) == Matching(ws, Relaxed(f, attempts[i]))
           plans == [i \in D |-> plan_tour(ws, Relaxed(f, attempts[i]), p, limits)]
           found == {i \in D : plans[i] # <<>>}
           open == {i \in D : ~Hopeless(M(i), limits)}
           other == [topics |-> f.topics, eras |-> {}, techniques |-> {}]
<1>1. PICK n \in 1..3 : D = 1..n
  BY AttemptsAreFew
<1>2. \A i \in D : \E W : Chosen(W, M(i), limits) /\ plans[i] = order_tour(W)
  <2> SUFFICES ASSUME NEW i \in D
               PROVE  \E W : Chosen(W, M(i), limits) /\ plans[i] = order_tour(W)
    OBVIOUS
  <2> DEFINE g == Relaxed(f, attempts[i])
  <2>1. plans[i] = plan_tour(ws, g, p, limits)
    OBVIOUS
  <2> HIDE DEF g, plans
  <2>2. \E W : Chosen(W, Matching(ws, g), limits) /\ plan_tour(ws, g, p, limits) = order_tour(W)
    BY TourIsChosen
  <2> QED
    BY <2>1, <2>2 DEF g
<1>3. \A i \in D : plans[i] = <<>> <=> Hopeless(M(i), limits)
  <2> SUFFICES ASSUME NEW i \in D PROVE plans[i] = <<>> <=> Hopeless(M(i), limits)
    OBVIOUS
  <2>1. PICK W : Chosen(W, M(i), limits) /\ plans[i] = order_tour(W)
    BY <1>2
  <2>2. M(i) \in SUBSET Catalogue
    BY MatchingType
  <2> HIDE DEF M, plans
  <2>3. W = {} <=> Hopeless(M(i), limits)
    BY <2>1, <2>2, NothingChosen
  <2>4. W \in SUBSET Catalogue
    BY <2>1, <2>2 DEF Chosen
  <2> QED
    BY <2>1, <2>3, <2>4, EmptyTour
<1>4. open = Open(ws, f, limits)
  BY DEF Open
<1>5. x = IF found # {} THEN [works |-> plans[Min(found)], note |-> attempts[Min(found)]]
          ELSE [works |-> <<>>, note |-> IF f.topics # {} THEN "no topic" ELSE "nothing"]
  BY DEF plan_tour_with_fallback
<1> HIDE DEF plans, M
<1>6. found = open
  BY <1>3
<1>7. CASE found # {}
  <2>1. found \subseteq Nat
    BY <1>1
  <2> DEFINE m == Min(found)
  <2> HIDE DEF found, open
  <2>2. m \in found /\ \A i \in found : m <= i
    BY <1>7, <2>1, MinIsSmallest
  <2>3. x.works = plans[m] /\ x.note = attempts[m]
    BY <1>5, <1>7
  <2> HIDE DEF m
  <2>4. x.note = Note(ws, f, limits)
    BY <1>4, <1>6, <1>7, <2>3 DEF Note, m
  <2>5. m \in D
    BY <2>2 DEF found
  <2>6. \E W : x.works = order_tour(W) /\ Chosen(W, Matching(ws, Relaxed(f, x.note)), limits)
    BY <1>2, <2>3, <2>5 DEF M
  <2>7. ASSUME NEW i \in D, \A k \in 1..i : attempts[k] # x.note
        PROVE  Hopeless(M(i), limits)
    <3>1. m \notin 1..i
      BY <2>3, <2>7
    <3>2. i < m
      BY <1>1, <2>5, <3>1
    <3>3. i \notin found
      BY <1>1, <2>1, <2>2, <3>2
    <3> QED
      BY <1>6, <3>3 DEF open
  <2> QED
    BY <2>4, <2>6, <2>7 DEF M
<1>8. CASE found = {}
  <2>1. \A i \in D : Hopeless(M(i), limits)
    BY <1>6, <1>8
  <2> HIDE DEF found, open
  <2> DEFINE none == IF f.topics # {} THEN "no topic" ELSE "nothing"
  <2>11. x = [works |-> <<>>, note |-> none]
    BY <1>5, <1>8, Zenon
  <2>2. x.works = <<>> /\ x.note = (IF f.topics # {} THEN "no topic" ELSE "nothing")
    <3> HIDE DEF none
    <3>1. x.works = <<>> /\ x.note = none
      BY <2>11
    <3> QED
      BY <3>1 DEF none
  <2>3. x.note = Note(ws, f, limits)
    <3>1. Open(ws, f, limits) = {}
      BY <1>4, <1>6, <1>8
    <3> QED
      BY <2>2, <3>1 DEF Note
  <2>4. Relaxed(f, x.note) = other
    <3>1. Relaxed(f, "no topic") = other /\ Relaxed(f, "nothing") = other
      BY LastAttempt, Zenon
    <3>2. x.note = "no topic" \/ x.note = "nothing"
      BY <2>2
    <3> HIDE DEF other
    <3> QED
      BY <3>1, <3>2
  <2>5. PICK i \in D : Relaxed(f, attempts[i]) = other
    BY LastAttempt, Zenon
  <2>6. Matching(ws, Relaxed(f, x.note)) = M(i) /\ M(i) \in SUBSET Catalogue
    BY <2>4, <2>5, MatchingType DEF M
  <2>7. PICK W : Chosen(W, M(i), limits) /\ plans[i] = order_tour(W)
    BY <1>2
  <2>8. W = {}
    BY <2>1, <2>6, <2>7, NothingChosen
  <2>9. order_tour(W) = <<>>
    BY <2>8, EmptyTour
  <2>10. \E V : x.works = order_tour(V) /\ Chosen(V, Matching(ws, Relaxed(f, x.note)), limits)
    BY <2>2, <2>6, <2>7, <2>9
  <2> QED
    BY <2>1, <2>3, <2>10 DEF M
<1> QED
  BY <1>7, <1>8

-----------------------------------------------------------------------------
(* The walk: what the visitor spends until he reaches a work, or leaves.    *)
IsVisit(s, S) == S \in SUBSET Catalogue /\ Arranged(s, S) /\ Grouped(s)
Change(s, i) ==
    IF i < Len(s) /\ Room(s[i + 1]) # Room(s[i]) THEN TransitionMinutes ELSE 0

LEMMA VisitType ==
    ASSUME NEW S, NEW s, IsVisit(s, S)
    PROVE  /\ Len(s) \in Nat /\ DOMAIN s = 1..Len(s) /\ TransitionMinutes \in Nat
           /\ \A i \in 1..Len(s) : s[i] \in S /\ s[i] \in Catalogue /\ Minutes(s[i]) \in Nat
                                   /\ Change(s, i) \in Nat
<1>1. Len(s) \in Nat /\ DOMAIN s = 1..Len(s) /\ \A i \in 1..Len(s) : s[i] \in S
  BY ElementsOfArranged DEF IsVisit, Arranged
<1>2. TransitionMinutes \in Nat
  BY TourAssumption
<1>3. \A i \in 1..Len(s) : s[i] \in Catalogue
  BY <1>1 DEF IsVisit
<1>4. \A i \in 1..Len(s) : Minutes(s[i]) \in Nat
  BY <1>3, MinutesType
<1>5. \A i \in 1..Len(s) : Change(s, i) \in Nat
  BY <1>2 DEF Change
<1> QED
  BY <1>1, <1>2, <1>3, <1>4, <1>5

(* The minute at which the visitor reaches the next work.                   *)
LEMMA WalkValues ==
    ASSUME NEW S, NEW s, IsVisit(s, S), NEW start \in Int, NEW w, w = Walk(s, start)
    PROVE  /\ w \in [1..(Len(s) + 1) -> Int] /\ w[1] = start
           /\ \A i \in 1..Len(s) : w[i + 1] = w[i] + (Minutes(s[i]) + Change(s, i))
<1> DEFINE n == Len(s)
           spans == [i \in 1..n |-> Minutes(s[i]) + Change(s, i)]
<1>1. n \in Nat /\ DOMAIN s = 1..n /\ \A i \in 1..n : Minutes(s[i]) \in Nat /\ Change(s, i) \in Nat
  BY VisitType
<1>2. spans \in [1..n -> Int] /\ \A i \in 1..n : spans[i] = Minutes(s[i]) + Change(s, i)
  BY <1>1
<1>3. w = Clock(start, spans)
  BY <1>1 DEF Walk, Change
<1> HIDE DEF spans, n
<1>4. IsClock(w, start, spans, n)
  BY <1>1, <1>2, <1>3, ClockValues
<1> QED
  BY <1>2, <1>4 DEF IsClock, n

First(s, i) == {s[j] : j \in 1..i}

(* The walk takes what calculate_total_duration says.                       *)
LEMMA WalkIsTotal ==
    ASSUME NEW S, NEW s, IsVisit(s, S), NEW start \in Int
    PROVE  Leaves(s, start) = start + calculate_total_duration(S)
<1> DEFINE n == Len(s)
           w == Walk(s, start)
           D(i) == Duration(First(s, i))
           rooms(i) == Cardinality(Rooms(First(s, i)))
           T == TransitionMinutes
<1>1. /\ n \in Nat /\ DOMAIN s = 1..n /\ T \in Nat
      /\ \A i \in 1..n : s[i] \in S /\ s[i] \in Catalogue /\ Minutes(s[i]) \in Nat
  BY VisitType
<1>2. /\ w \in [1..(n + 1) -> Int] /\ w[1] = start
      /\ \A i \in 1..n : w[i + 1] = w[i] + (Minutes(s[i]) + Change(s, i))
  BY WalkValues
<1>3. First(s, n) = S /\ First(s, 0) = {}
  BY <1>1 DEF First, IsVisit, Arranged
<1>4. \A i \in 0..n : First(s, i) \in SUBSET Catalogue /\ IsFiniteSet(First(s, i))
  <2>1. \A i \in 0..n : First(s, i) \in SUBSET Catalogue
    BY <1>1 DEF First
  <2> QED
    BY <2>1, TourAssumption, FS_Subset
<1>5. ASSUME NEW i \in 1..n
      PROVE  /\ First(s, i) = First(s, i - 1) \cup {s[i]} /\ s[i] \notin First(s, i - 1)
             /\ i - 1 \in 0..n
  <2>1. i - 1 \in 0..n /\ 1..i = 1..(i - 1) \cup {i}
    BY <1>1
  <2>2. First(s, i) = First(s, i - 1) \cup {s[i]}
    BY <2>1 DEF First
  <2>3. \A j \in 1..(i - 1) : j \in 1..n /\ j # i
    BY <1>1
  <2>4. s[i] \notin First(s, i - 1)
    BY <2>3 DEF First, IsVisit, Arranged
  <2> QED
    BY <2>1, <2>2, <2>4
<1> HIDE DEF w, D, rooms
<1>6. \A i \in 0..n : D(i) \in Nat /\ rooms(i) \in Nat
  BY <1>4, DurationEquation, RoomsFinite DEF D, rooms
<1>7. ASSUME NEW i \in 1..n PROVE D(i) = D(i - 1) + Minutes(s[i])
  <2> DEFINE F == First(s, i - 1)
  <2>1. F \in SUBSET Catalogue /\ s[i] \notin F /\ First(s, i) = F \cup {s[i]} /\ s[i] \in Catalogue
    BY <1>1, <1>4, <1>5
  <2> HIDE DEF F
  <2>2. Duration(F \cup {s[i]}) = Duration(F) + Minutes(s[i])
    BY <2>1, OneWorkMore
  <2>3. Duration(First(s, i)) = Duration(F \cup {s[i]})
    BY <2>1, Zenon
  <2> QED
    BY <2>2, <2>3 DEF D, F
<1>8. D(0) = 0 /\ rooms(0) = 0
  <2>1. Duration({}) = 0
    BY DurationEquation
  <2>2. Rooms({}) = {}
    BY DEF Rooms
  <2> QED
    BY <1>3, <2>1, <2>2, FS_EmptySet DEF D, rooms
<1>9. ASSUME NEW i \in 1..n
      PROVE  rooms(i) = IF \E j \in 1..(i - 1) : Room(s[j]) = Room(s[i]) THEN rooms(i - 1)
                        ELSE rooms(i - 1) + 1
  <2> DEFINE F == First(s, i - 1)
  <2>1. IsFiniteSet(F) /\ First(s, i) = F \cup {s[i]}
    BY <1>4, <1>5
  <2>2. Room(s[i]) \in Rooms(F) <=> \E j \in 1..(i - 1) : Room(s[j]) = Room(s[i])
    BY DEF Rooms, First
  <2> HIDE DEF F
  <2>3. Cardinality(Rooms(F \cup {s[i]})) =
           IF Room(s[i]) \in Rooms(F) THEN Cardinality(Rooms(F)) ELSE Cardinality(Rooms(F)) + 1
    BY <2>1, RoomsOfOneMore
  <2>4. rooms(i) = Cardinality(Rooms(F \cup {s[i]}))
    BY <2>1, Zenon DEF rooms
  <2>5. rooms(i - 1) = Cardinality(Rooms(F))
    BY DEF rooms, F
  <2> QED
    BY <2>2, <2>3, <2>4, <2>5
<1>10. ASSUME NEW i \in 1..n, i # 1
       PROVE  (\E j \in 1..(i - 1) : Room(s[j]) = Room(s[i])) <=> Room(s[i - 1]) = Room(s[i])
  <2>1. i - 1 \in 1..(i - 1) /\ i - 1 \in 1..n
    BY <1>1, <1>10
  <2>2. ASSUME NEW j \in 1..(i - 1), Room(s[j]) = Room(s[i]) PROVE Room(s[i - 1]) = Room(s[i])
    <3>1. j \in 1..n /\ j <= i - 1 /\ i - 1 <= i
      BY <1>1
    <3>2. Room(s[i - 1]) = Room(s[j])
      BY <2>1, <2>2, <3>1 DEF IsVisit, Grouped
    <3> QED
      BY <2>2, <3>2
  <2> QED
    BY <2>1, <2>2
<1>11. ASSUME NEW i \in 1..n, i + 1 <= n
       PROVE  /\ i + 1 \in 1..n /\ (i + 1) - 1 = i
              /\ Change(s, i) = (rooms(i + 1) - rooms(i)) * T
  <2>1. i + 1 \in 1..n /\ (i + 1) - 1 = i /\ i + 1 # 1 /\ i < n /\ i \in 0..n /\ i + 1 \in 0..n
    BY <1>1, <1>11
  <2>2. rooms(i + 1) = IF Room(s[i]) = Room(s[i + 1]) THEN rooms(i) ELSE rooms(i) + 1
    BY <1>9, <1>10, <2>1
  <2>3. Change(s, i) = IF Room(s[i]) = Room(s[i + 1]) THEN 0 ELSE T
    BY <2>1 DEF Change
  <2>4. rooms(i) \in Nat
    BY <1>6, <2>1
  <2>5. CASE Room(s[i]) = Room(s[i + 1])
    <3>1. rooms(i + 1) - rooms(i) = 0 /\ Change(s, i) = 0
      BY <2>2, <2>3, <2>4, <2>5
    <3> QED
      BY <1>1, <2>1, <3>1
  <2>6. CASE Room(s[i]) # Room(s[i + 1])
    <3>1. rooms(i + 1) - rooms(i) = 1 /\ Change(s, i) = T
      BY <2>2, <2>3, <2>4, <2>6
    <3> QED
      BY <1>1, <2>1, <3>1
  <2> QED
    BY <2>5, <2>6
<1>12. ASSUME n > 0 PROVE w[n] = start + D(n - 1) + (rooms(n) - 1) * T
  <2> DEFINE Good == {m \in Nat : m + 1 <= n =>
                         w[m + 1] = start + D(m) + (rooms(m + 1) - 1) * T}
  <2>1. 0 \in Good
    <3>1. 1 \in 1..n /\ ~(\E j \in 1..(1 - 1) : Room(s[j]) = Room(s[1])) /\ 1 - 1 = 0
      BY <1>1, <1>12
    <3>2. rooms(1) = 1
      BY <1>8, <1>9, <3>1
    <3>3. (rooms(1) - 1) * T = 0
      BY <1>1, <3>2
    <3>4. w[0 + 1] = start + D(0) + (rooms(0 + 1) - 1) * T
      BY <1>2, <1>8, <3>3
    <3> QED
      BY <3>4
  <2>2. ASSUME NEW m \in Good, m + 1 + 1 <= n
        PROVE  w[m + 1 + 1] = start + D(m + 1) + (rooms(m + 1 + 1) - 1) * T
    <3>1. m \in Nat /\ w[m + 1] = start + D(m) + (rooms(m + 1) - 1) * T
      BY <1>1, <2>2
    <3> DEFINE i == m + 1
    <3>2. /\ i \in 1..n /\ i + 1 <= n /\ i - 1 = m /\ i \in 0..n /\ i + 1 \in 0..n /\ m \in 0..n
          /\ w[i] = start + D(m) + (rooms(i) - 1) * T
      BY <1>1, <2>2, <3>1
    <3> HIDE DEF Good, i
    <3>3. Change(s, i) = (rooms(i + 1) - rooms(i)) * T
      BY <1>11, <3>2
    <3>4. w[i + 1] = w[i] + (Minutes(s[i]) + Change(s, i)) /\ Minutes(s[i]) \in Nat
      BY <1>1, <1>2, <3>2
    <3>5. D(i) = D(m) + Minutes(s[i])
      BY <1>7, <3>2
    <3>6. D(m) \in Nat /\ rooms(i) \in Nat /\ rooms(i + 1) \in Nat
      BY <1>6, <3>2
    <3>7. \A a, b \in Int : (a - 1) * T + (b - a) * T = (b - 1) * T
      BY <1>1
    <3>8. (rooms(i) - 1) * T + (rooms(i + 1) - rooms(i)) * T = (rooms(i + 1) - 1) * T
      <4>1. rooms(i) \in Int /\ rooms(i + 1) \in Int
        BY <3>6
      <4> QED
        BY <3>7, <4>1, Zenon
    <3> DEFINE x == (rooms(i) - 1) * T
               y == (rooms(i + 1) - rooms(i)) * T
               z == (rooms(i + 1) - 1) * T
    <3>9. x \in Int /\ y \in Int /\ x + y = z
      BY <1>1, <3>6, <3>8
    <3>10. w[i] = start + D(m) + x /\ Change(s, i) = y
      BY <3>2, <3>3
    <3> HIDE DEF x, y, z
    <3>11. w[i + 1] = start + D(i) + z
      BY <3>4, <3>5, <3>6, <3>9, <3>10
    <3> QED
      BY <3>11 DEF z, i
  <2>3. Good \subseteq Nat /\ \A m \in Good : m + 1 \in Good
    BY <2>2
  <2> HIDE DEF Good
  <2>4. Good = Nat
    BY <2>1, <2>3, NumberInduction
  <2>5. n - 1 \in Good /\ (n - 1) + 1 = n /\ n <= n
    BY <1>1, <1>12, <2>4
  <2> QED
    BY <2>5 DEF Good
<1>13. CASE n = 0
  <2>1. S = {}
    BY <1>3, <1>13
  <2>2. calculate_total_duration(S) = 0
    BY <2>1 DEF calculate_total_duration
  <2>3. w[n + 1] = start
    BY <1>2, <1>13
  <2> QED
    BY <2>2, <2>3 DEF Leaves, w
<1>14. CASE n > 0
  <2>1. n \in 1..n /\ n \in 0..n /\ n - 1 \in 0..n
    BY <1>1, <1>14
  <2>2. w[n + 1] = w[n] + (Minutes(s[n]) + 0)
    <3>1. Change(s, n) = 0
      BY <1>1 DEF Change
    <3> QED
      BY <1>2, <2>1, <3>1
  <2>3. D(n) = D(n - 1) + Minutes(s[n])
    BY <1>7, <2>1
  <2>4. S # {}
    BY <1>1, <2>1
  <2>5. calculate_total_duration(S) = D(n) + (rooms(n) - 1) * T
    BY <1>3, <2>4 DEF calculate_total_duration, D, rooms
  <2>6. D(n - 1) \in Nat /\ rooms(n) \in Nat /\ Minutes(s[n]) \in Nat
    BY <1>1, <1>6, <2>1
  <2> DEFINE x == (rooms(n) - 1) * T
  <2>7. x \in Int
    BY <1>1, <2>6
  <2>8. w[n] = start + D(n - 1) + x
    BY <1>12, <1>14
  <2> HIDE DEF x
  <2>9. w[n + 1] = start + (D(n) + x)
    BY <2>2, <2>3, <2>6, <2>7, <2>8
  <2>10. w[n + 1] = start + calculate_total_duration(S)
    BY <2>5, <2>9 DEF x
  <2> QED
    BY <2>10 DEF Leaves, w
<1> QED
  BY <1>1, <1>13, <1>14

-----------------------------------------------------------------------------
(* The schedule: the works of the a-th room are those from the one at which *)
(* the visitor enters it to the one before he enters the next room.         *)
Enter(s, rooms, a) == IF a <= Len(rooms) THEN Entry(s, rooms[a]) ELSE Len(s) + 1

(* The works of a room are those from its entry to the next entry.          *)
LEMMA RoomBlocks ==
    ASSUME NEW S, NEW s, IsVisit(s, S), NEW rooms, rooms = tour_rooms(s)
    PROVE  /\ Len(rooms) \in Nat /\ Len(rooms) = Cardinality(Rooms(S))
           /\ Enter(s, rooms, 1) = 1 /\ Enter(s, rooms, Len(rooms) + 1) = Len(s) + 1
           /\ \A a \in 1..Len(rooms) :
                 /\ Enter(s, rooms, a) \in 1..Len(s) /\ Enter(s, rooms, a + 1) \in 1..(Len(s) + 1)
                 /\ Enter(s, rooms, a) < Enter(s, rooms, a + 1)
                 /\ \A i \in 1..Len(s) : Room(s[i]) = rooms[a] <=>
                        Enter(s, rooms, a) <= i /\ i < Enter(s, rooms, a + 1)
<1> DEFINE n == Len(s)
           k == Len(rooms)
           E(a) == Enter(s, rooms, a)
<1>1. Arranged(s, S) /\ Grouped(s)
  BY DEF IsVisit
<1>2. /\ Arranged(rooms, Rooms(S))
      /\ \A a, b \in 1..k : a < b => Entry(s, rooms[a]) < Entry(s, rooms[b])
  BY <1>1, RoomsOrder
<1>3. /\ k \in Nat /\ k = Cardinality(Rooms(S)) /\ n \in Nat
      /\ \A a \in 1..k : rooms[a] \in Rooms(S)
      /\ \A a, b \in 1..k : rooms[a] = rooms[b] => a = b
  BY <1>1, <1>2 DEF Arranged
<1>4. \A a \in 1..k : /\ E(a) \in 1..n /\ Room(s[E(a)]) = rooms[a]
                      /\ \A i \in 1..n : Room(s[i]) = rooms[a] => E(a) <= i
  BY <1>1, <1>3, EntryIsFirst DEF Enter
<1>5. E(k + 1) = n + 1
  BY <1>3 DEF Enter
<1>6. \A a, b \in 1..k : a < b => E(a) < E(b)
  BY <1>2, <1>3 DEF Enter
<1>7. \A i \in 1..n : \E b \in 1..k : rooms[b] = Room(s[i])
  <2> SUFFICES ASSUME NEW i \in 1..n PROVE \E b \in 1..k : rooms[b] = Room(s[i])
    OBVIOUS
  <2>1. s[i] \in S
    BY <1>1 DEF Arranged
  <2>2. Room(s[i]) \in Rooms(S)
    BY <2>1 DEF Rooms
  <2> QED
    BY <1>2, <2>2 DEF Arranged
<1> HIDE DEF E, n, k
<1>8. E(1) = 1
  <2>1. CASE n = 0
    <3>1. k = 0
      BY <1>3, <1>4, <2>1
    <3> QED
      BY <1>5, <2>1, <3>1
  <2>2. CASE n # 0
    <3>1. 1 \in 1..n
      BY <1>3, <2>2
    <3>2. PICK b \in 1..k : rooms[b] = Room(s[1])
      BY <1>7, <3>1
    <3>3. E(b) \in 1..n /\ E(b) <= 1
      BY <1>4, <3>1, <3>2
    <3>4. 1 \in 1..k /\ E(1) \in 1..n
      BY <1>3, <1>4, <3>2
    <3>5. b = 1 \/ 1 < b
      BY <3>2
    <3>6. 1 < b => E(1) < E(b)
      BY <1>6, <3>2, <3>4
    <3> QED
      BY <1>3, <3>3, <3>4, <3>5, <3>6
  <2> QED
    BY <2>1, <2>2
<1>9. ASSUME NEW a \in 1..k
      PROVE  /\ E(a) \in 1..n /\ E(a + 1) \in 1..(n + 1) /\ E(a) < E(a + 1)
  <2>1. CASE a = k
    BY <1>3, <1>4, <1>5, <2>1
  <2>2. CASE a # k
    <3>1. a + 1 \in 1..k
      BY <1>3, <2>2
    <3>2. E(a) \in 1..n /\ E(a + 1) \in 1..n
      BY <1>4, <3>1
    <3>3. E(a) < E(a + 1)
      BY <1>6, <3>1
    <3> QED
      BY <1>3, <3>2, <3>3
  <2> QED
    BY <2>1, <2>2
<1>10. ASSUME NEW a \in 1..k, NEW i \in 1..n, Room(s[i]) = rooms[a]
       PROVE  E(a) <= i /\ i < E(a + 1)
  <2>1. E(a) <= i
    BY <1>4, <1>10
  <2>2. CASE a = k
    BY <1>3, <1>5, <2>1, <2>2
  <2>3. CASE a # k
    <3>1. a + 1 \in 1..k /\ a + 1 # a
      BY <1>3, <2>3
    <3>2. E(a) \in 1..n /\ E(a + 1) \in 1..n /\ E(a) < E(a + 1)
          /\ Room(s[E(a)]) = rooms[a] /\ Room(s[E(a + 1)]) = rooms[a + 1]
      BY <1>4, <1>9, <3>1
    <3>3. ASSUME E(a + 1) <= i PROVE FALSE
      <4>1. Room(s[E(a + 1)]) = Room(s[E(a)])
        <5>1. E(a) <= E(a + 1) /\ Room(s[E(a)]) = Room(s[i])
          BY <1>3, <1>10, <3>2
        <5> QED
          BY <1>1, <3>2, <3>3, <5>1 DEF Grouped, n
      <4>2. rooms[a + 1] = rooms[a]
        BY <3>2, <4>1
      <4> QED
        BY <1>3, <3>1, <4>2
    <3> QED
      BY <1>3, <2>1, <3>2, <3>3
  <2> QED
    BY <2>2, <2>3
<1>11. ASSUME NEW a \in 1..k, NEW i \in 1..n, E(a) <= i, i < E(a + 1)
       PROVE  Room(s[i]) = rooms[a]
  <2>1. PICK b \in 1..k : rooms[b] = Room(s[i])
    BY <1>7
  <2>2. E(b) <= i /\ i < E(b + 1) /\ E(b) \in 1..n /\ E(b + 1) \in 1..(n + 1)
    BY <1>9, <1>10, <2>1
  <2>3. E(a) \in 1..n /\ E(a + 1) \in 1..(n + 1)
    BY <1>9
  <2>4. CASE a < b
    <3>1. a + 1 \in 1..k /\ (a + 1 = b \/ a + 1 < b)
      BY <1>3, <2>4
    <3>2. E(a + 1) <= E(b)
      BY <1>6, <2>2, <2>3, <3>1
    <3> QED
      BY <1>3, <1>11, <2>2, <2>3, <3>2
  <2>5. CASE b < a
    <3>1. b + 1 \in 1..k /\ (b + 1 = a \/ b + 1 < a)
      BY <1>3, <2>5
    <3>2. E(b + 1) <= E(a)
      BY <1>6, <2>2, <2>3, <3>1
    <3> QED
      BY <1>3, <1>11, <2>2, <2>3, <3>2
  <2>6. a = b \/ a < b \/ b < a
    BY <1>3
  <2> QED
    BY <2>1, <2>4, <2>5, <2>6
<1> QED
  BY <1>3, <1>5, <1>8, <1>9, <1>10, <1>11 DEF n, k, E

(* A stretch of the visit without a change of room.                         *)
Stretch(s, e, g) == {s[j] : j \in e..g}

(* Without a change of room the visitor is busy without a break.            *)
LEMMA StretchTime ==
    ASSUME NEW S, NEW s, IsVisit(s, S), NEW start \in Int, NEW w, w = Walk(s, start),
           NEW e \in 1..Len(s), NEW g \in e..Len(s), \A j \in e..(g - 1) : Change(s, j) = 0
    PROVE  /\ w[g] + Minutes(s[g]) = w[e] + Duration(Stretch(s, e, g))
           /\ \A x \in Int : w[e] <= x /\ x < w[e] + Duration(Stretch(s, e, g)) <=>
                 \E i \in e..g : w[i] <= x /\ x < w[i] + Minutes(s[i])
<1> DEFINE n == Len(s)
           D(m) == Duration(Stretch(s, e, e + m))
<1>1. /\ n \in Nat
      /\ \A i \in 1..n : s[i] \in S /\ s[i] \in Catalogue /\ Minutes(s[i]) \in Nat
  BY VisitType
<1>2. /\ w \in [1..(n + 1) -> Int]
      /\ \A i \in 1..n : w[i + 1] = w[i] + (Minutes(s[i]) + Change(s, i))
  BY WalkValues
<1>3. e \in Nat /\ e >= 1 /\ g \in Nat /\ e <= g /\ g <= n
  BY <1>1
<1> DEFINE P(m) == /\ w[e + m] + Minutes(s[e + m]) = w[e] + D(m)
                   /\ \A x \in Int : w[e] <= x /\ x < w[e] + D(m) <=>
                         \E i \in e..(e + m) : w[i] <= x /\ x < w[i] + Minutes(s[i])
           Good == {m \in Nat : e + m <= g => P(m)}
<1>4. \A m \in Nat : e + m <= g =>
         Stretch(s, e, e + m) \in SUBSET Catalogue /\ D(m) \in Nat /\ e + m \in 1..n
  <2> SUFFICES ASSUME NEW m \in Nat, e + m <= g
               PROVE  Stretch(s, e, e + m) \in SUBSET Catalogue /\ D(m) \in Nat /\ e + m \in 1..n
    OBVIOUS
  <2>1. e..(e + m) \subseteq 1..n /\ e + m \in 1..n
    BY <1>3
  <2>2. Stretch(s, e, e + m) \in SUBSET Catalogue
    BY <1>1, <2>1 DEF Stretch
  <2> QED
    BY <2>1, <2>2, DurationEquation
<1>5. 0 \in Good
  <2>1. e + 0 = e /\ e..e = {e}
    BY <1>3
  <2>2. Stretch(s, e, e + 0) = {s[e]}
    BY <2>1 DEF Stretch
  <2>3. s[e] \in Catalogue /\ Minutes(s[e]) \in Nat /\ w[e] \in Int
    BY <1>1, <1>2
  <2>4. Duration({s[e]}) = Minutes(s[e])
    <3>1. Duration({} \cup {s[e]}) = Duration({}) + Minutes(s[e])
      BY <2>3, OneWorkMore
    <3>2. Duration({}) = 0 /\ {} \cup {s[e]} = {s[e]}
      BY DurationEquation
    <3> QED
      BY <2>3, <3>1, <3>2
  <2>5. D(0) = Minutes(s[e])
    BY <2>2, <2>4
  <2> HIDE DEF D
  <2>6. P(0)
    BY <2>1, <2>3, <2>5
  <2> HIDE DEF P
  <2> QED
    BY <2>6
<1>6. ASSUME NEW m \in Good, e + (m + 1) <= g PROVE P(m + 1)
  <2>1. m \in Nat /\ e + m <= g /\ P(m)
    BY <1>3, <1>6
  <2> DEFINE i == e + m
  <2>2. /\ i \in 1..n /\ i + 1 \in 1..n /\ i \in e..(g - 1) /\ e + (m + 1) = i + 1
        /\ e..(i + 1) = e..i \cup {i + 1}
    BY <1>3, <1>6, <2>1
  <2>3. w[i + 1] = w[i] + Minutes(s[i])
    <3>1. Change(s, i) = 0 /\ Minutes(s[i]) \in Nat
      BY <1>1, <2>2
    <3> QED
      BY <1>2, <2>2, <3>1
  <2>4. w[i] + Minutes(s[i]) = w[e] + D(m)
    BY <2>1
  <2>5. \A x \in Int : w[e] <= x /\ x < w[e] + D(m) <=>
                         \E j \in e..i : w[j] <= x /\ x < w[j] + Minutes(s[j])
    BY <2>1
  <2>6. D(m + 1) = D(m) + Minutes(s[i + 1])
    <3> DEFINE A == Stretch(s, e, e + m)
    <3>1. A \in SUBSET Catalogue /\ s[i + 1] \in Catalogue
      BY <1>1, <1>4, <2>1, <2>2
    <3>2. Stretch(s, e, e + (m + 1)) = A \cup {s[i + 1]}
      BY <2>2 DEF Stretch
    <3>3. s[i + 1] \notin A
      <4>1. \A j \in e..i : j \in 1..n /\ j # i + 1
        BY <1>3, <2>2
      <4> QED
        BY <2>2, <4>1 DEF Stretch, IsVisit, Arranged
    <3> HIDE DEF A, i
    <3>4. Duration(A \cup {s[i + 1]}) = Duration(A) + Minutes(s[i + 1])
      BY <3>1, <3>3, OneWorkMore
    <3>5. D(m + 1) = Duration(A \cup {s[i + 1]})
      BY <3>2, Zenon
    <3> QED
      BY <3>4, <3>5 DEF A
  <2>10. D(m) \in Nat
    BY <1>4, <2>1
  <2> HIDE DEF D, i
  <2>11. w[e] \in Int /\ w[i] \in Int /\ w[i + 1] \in Int
    <3>1. e \in 1..(n + 1) /\ i \in 1..(n + 1) /\ i + 1 \in 1..(n + 1)
      BY <1>1, <2>2
    <3> HIDE DEF n
    <3> QED
      BY <1>2, <3>1
  <2>12. Minutes(s[i]) \in Nat /\ Minutes(s[i + 1]) \in Nat
    BY <1>1, <2>2
  <2>7. D(m) \in Nat /\ w[e] \in Int /\ w[i] \in Int /\ w[i + 1] \in Int
        /\ Minutes(s[i]) \in Nat /\ Minutes(s[i + 1]) \in Nat
    BY <2>10, <2>11, <2>12
  <2>8. w[i + 1] + Minutes(s[i + 1]) = w[e] + D(m + 1)
    <3> DEFINE here == Minutes(s[i])
               next == Minutes(s[i + 1])
               from == w[i]
               to == w[i + 1]
               before == D(m)
               after == D(m + 1)
    <3>1. to = from + here /\ from + here = w[e] + before /\ after = before + next
      BY <2>3, <2>4, <2>6
    <3>2. /\ before \in Nat /\ w[e] \in Int /\ from \in Int /\ to \in Int
          /\ here \in Nat /\ next \in Nat
      BY <2>7
    <3> HIDE DEF here, next, from, to, before, after, P, Good
    <3>3. to + next = w[e] + after
      BY <3>1, <3>2
    <3> QED
      BY <3>3 DEF next, to, after
  <2>9. ASSUME NEW x \in Int
        PROVE  w[e] <= x /\ x < w[e] + D(m + 1) <=>
                  \E j \in e..(i + 1) : w[j] <= x /\ x < w[j] + Minutes(s[j])
    <3>1. w[e] <= x /\ x < w[e] + D(m + 1) <=>
             \/ w[e] <= x /\ x < w[e] + D(m)
             \/ w[i + 1] <= x /\ x < w[i + 1] + Minutes(s[i + 1])
      <4> DEFINE a == w[e]
                 b == w[i + 1]
                 d == D(m)
                 t == Minutes(s[i + 1])
      <4>1. a \in Int /\ d \in Nat /\ t \in Nat /\ b = a + d /\ D(m + 1) = d + t
        BY <2>3, <2>4, <2>6, <2>7
      <4> HIDE DEF a, b, d, t
      <4>2. a <= x /\ x < a + (d + t) <=> (a <= x /\ x < a + d) \/ (b <= x /\ x < b + t)
        BY <4>1
      <4> QED
        BY <4>1, <4>2 DEF a, b, d, t
    <3> QED
      BY <2>2, <2>5, <3>1
  <2> QED
    BY <2>2, <2>8, <2>9
<1>7. Good \subseteq Nat /\ \A m \in Good : m + 1 \in Good
  <2> HIDE DEF P
  <2> QED
    BY <1>6
<1> HIDE DEF Good
<1>8. Good = Nat
  BY <1>5, <1>7, NumberInduction
<1>9. P(g - e)
  <2>1. g - e \in Nat /\ e + (g - e) <= g
    BY <1>3
  <2> HIDE DEF P
  <2> QED
    BY <1>8, <2>1 DEF Good
<1>10. e + (g - e) = g
  BY <1>3
<1> QED
  BY <1>9, <1>10

RoomStay(S, r) == Duration({v \in S : Room(v) = r})

(* His time in a room begins with its entry and lasts for the stay in it.   *)
LEMMA RoomTime ==
    ASSUME NEW S, NEW s, IsVisit(s, S), NEW start \in Int, NEW w, w = Walk(s, start),
           NEW rooms, rooms = tour_rooms(s), NEW a \in 1..Len(rooms)
    PROVE  /\ w[Enter(s, rooms, a)] \in Int /\ RoomStay(S, rooms[a]) \in Nat
           /\ w[Enter(s, rooms, a + 1)] =
                w[Enter(s, rooms, a)] + RoomStay(S, rooms[a])
                  + (IF a < Len(rooms) THEN TransitionMinutes ELSE 0)
           /\ InRoom(s, start, rooms[a]) =
                w[Enter(s, rooms, a)]..(w[Enter(s, rooms, a)] + RoomStay(S, rooms[a]) - 1)
<1> DEFINE n == Len(s)
           k == Len(rooms)
           e == Enter(s, rooms, a)
           f == Enter(s, rooms, a + 1)
           g == f - 1
           stay == RoomStay(S, rooms[a])
<1>1. /\ n \in Nat /\ TransitionMinutes \in Nat /\ DOMAIN s = 1..n
      /\ \A i \in 1..n : s[i] \in S /\ s[i] \in Catalogue /\ Minutes(s[i]) \in Nat
  BY VisitType
<1>2. /\ w \in [1..(n + 1) -> Int]
      /\ \A i \in 1..n : w[i + 1] = w[i] + (Minutes(s[i]) + Change(s, i))
  BY WalkValues
<1>3. /\ k \in Nat /\ Enter(s, rooms, k + 1) = n + 1
      /\ e \in 1..n /\ f \in 1..(n + 1) /\ e < f
      /\ \A i \in 1..n : Room(s[i]) = rooms[a] <=> e <= i /\ i < f
  BY RoomBlocks
<1>12. a + 1 \in 1..k => f \in 1..n
  BY RoomBlocks
<1> HIDE DEF e, f, n
<1>4. g \in e..n /\ g \in 1..n /\ g + 1 = f
  BY <1>1, <1>3
<1>5. \A j \in e..(g - 1) : Change(s, j) = 0
  <2> SUFFICES ASSUME NEW j \in e..(g - 1) PROVE Change(s, j) = 0
    OBVIOUS
  <2>1. j \in 1..n /\ j + 1 \in 1..n /\ e <= j /\ j < f /\ e <= j + 1 /\ j + 1 < f
    BY <1>1, <1>3, <1>4
  <2>2. Room(s[j]) = rooms[a] /\ Room(s[j + 1]) = rooms[a]
    BY <1>3, <2>1
  <2> QED
    BY <2>2 DEF Change
<1>6. Stretch(s, e, g) = {v \in S : Room(v) = rooms[a]}
  <2>1. \A i \in 1..n : i \in e..g <=> Room(s[i]) = rooms[a]
    BY <1>1, <1>3, <1>4
  <2>2. e..g \subseteq 1..n
    BY <1>1, <1>3, <1>4
  <2>3. \A v \in S : \E i \in 1..n : s[i] = v
    BY DEF IsVisit, Arranged, n
  <2> HIDE DEF g
  <2> QED
    BY <1>1, <2>1, <2>2, <2>3 DEF Stretch
<1>7. /\ w[g] + Minutes(s[g]) = w[e] + Duration(Stretch(s, e, g))
      /\ \A x \in Int : w[e] <= x /\ x < w[e] + Duration(Stretch(s, e, g)) <=>
             \E i \in e..g : w[i] <= x /\ x < w[i] + Minutes(s[i])
  <2> HIDE DEF g
  <2> QED
    BY <1>3, <1>4, <1>5, StretchTime DEF n
<1>8. Duration(Stretch(s, e, g)) = stay
  BY <1>6, Zenon DEF RoomStay
<1>9. w[e] \in Int /\ stay \in Nat
  <2>1. {v \in S : Room(v) = rooms[a]} \in SUBSET Catalogue
    BY DEF IsVisit
  <2>2. stay \in Nat
    BY <2>1, DurationEquation DEF RoomStay
  <2>3. e \in 1..(n + 1)
    BY <1>1, <1>3
  <2> HIDE DEF stay
  <2> QED
    BY <1>2, <2>2, <2>3
<1> HIDE DEF stay
<1>10. w[f] = w[e] + stay + (IF a < k THEN TransitionMinutes ELSE 0)
  <2>1. w[f] = w[g] + (Minutes(s[g]) + Change(s, g))
    BY <1>2, <1>4
  <2>2. Change(s, g) = IF a < k THEN TransitionMinutes ELSE 0
    <3>1. CASE a < k
      <4>1. a + 1 \in 1..k
        BY <1>3, <3>1
      <4>2. f \in 1..n
        BY <1>12, <4>1
      <4>3. Room(s[g]) = rooms[a] /\ Room(s[f]) # rooms[a]
        BY <1>1, <1>3, <1>4, <4>2
      <4>4. g < n /\ g + 1 = f
        BY <1>1, <1>4, <4>2
      <4> HIDE DEF g
      <4>5. Change(s, g) = TransitionMinutes
        BY <4>3, <4>4 DEF Change, n
      <4> QED
        BY <3>1, <4>5
    <3>2. CASE ~(a < k)
      <4>1. a = k
        BY <1>3, <3>2
      <4>2. f = n + 1
        BY <1>3, <4>1 DEF f
      <4>3. ~(g < n)
        BY <1>1, <4>2
      <4> HIDE DEF g
      <4>4. Change(s, g) = 0
        BY <4>3 DEF Change, n
      <4> QED
        BY <3>2, <4>4
    <3> QED
      BY <3>1, <3>2
  <2>3. w[g] + Minutes(s[g]) = w[e] + stay
    BY <1>7, <1>8
  <2>4. w[g] \in Int /\ Minutes(s[g]) \in Nat
    <3>1. g \in 1..(n + 1)
      BY <1>1, <1>4
    <3> HIDE DEF g
    <3> QED
      BY <1>1, <1>2, <1>4, <3>1
  <2> HIDE DEF g
  <2> DEFINE c == IF a < k THEN TransitionMinutes ELSE 0
  <2>5. Change(s, g) = c /\ c \in Nat
    BY <1>1, <2>2
  <2> HIDE DEF c
  <2>6. w[f] = w[e] + stay + c
    BY <1>9, <2>1, <2>3, <2>4, <2>5
  <2> QED
    BY <2>6 DEF c
<1>11. InRoom(s, start, rooms[a]) = w[e]..(w[e] + stay - 1)
  <2>1. {j \in DOMAIN s : Room(s[j]) = rooms[a]} = e..g
    <3>1. \A j \in 1..n : j \in e..g <=> e <= j /\ j < f
      BY <1>1, <1>3
    <3>2. e..g \subseteq 1..n
      BY <1>1, <1>3
    <3> HIDE DEF g
    <3> QED
      BY <1>1, <1>3, <3>1, <3>2
  <2>2. InRoom(s, start, rooms[a]) = UNION {w[i]..(w[i] + Minutes(s[i]) - 1) : i \in e..g}
    BY <2>1 DEF InRoom
  <2> HIDE DEF g
  <2>3. \A i \in e..g : w[i] \in Int /\ Minutes(s[i]) \in Nat
    <3>1. \A i \in e..g : i \in 1..n /\ i \in 1..(n + 1)
      BY <1>1, <1>3, <1>4
    <3> QED
      BY <1>1, <1>2, <3>1
  <2>4. ASSUME NEW x
        PROVE  x \in InRoom(s, start, rooms[a]) <=> x \in w[e]..(w[e] + stay - 1)
    <3>1. x \in InRoom(s, start, rooms[a]) <=>
             x \in Int /\ \E i \in e..g : w[i] <= x /\ x < w[i] + Minutes(s[i])
      <4>1. x \in InRoom(s, start, rooms[a]) <=>
                \E i \in e..g : x \in w[i]..(w[i] + Minutes(s[i]) - 1)
        BY <2>2
      <4>2. \A p \in Int : \A q \in Nat : x \in p..(p + q - 1) <=> x \in Int /\ p <= x /\ x < p + q
        OBVIOUS
      <4> QED
        BY <2>3, <4>1, <4>2, Zenon
    <3>2. x \in Int => (w[e] <= x /\ x < w[e] + stay <=>
             \E i \in e..g : w[i] <= x /\ x < w[i] + Minutes(s[i]))
      BY <1>7, <1>8
    <3>3. x \in w[e]..(w[e] + stay - 1) <=> x \in Int /\ w[e] <= x /\ x < w[e] + stay
      BY <1>9
    <3> QED
      BY <3>1, <3>2, <3>3
  <2> QED
    BY <2>4
<1> QED
  BY <1>9, <1>10, <1>11 DEF e, f, stay

(* The rounding of Step gives back the minutes of one transition.           *)
LEMMA SpareIsShared ==
    ASSUME NEW T \in Nat, NEW m \in Nat, m > 0
    PROVE  (2 * (m * T) + m) \div (2 * m) = T
<1> DEFINE b == 2 * m
           a == 2 * (m * T) + m
<1>1. b \in Nat /\ b > 0 /\ a = b * T + m /\ m < b
  OBVIOUS
<1>2. \A x \in Int, y \in Int, z \in Nat, r \in Nat : y > 0 /\ x = y * z + r /\ r < y => x \div y = z
  OBVIOUS
<1>3. a \in Int
  OBVIOUS
<1> HIDE DEF a, b
<1>4. a \div b = T
  BY <1>1, <1>2, <1>3
<1> QED
  BY <1>4 DEF a, b

(* The slots begin when the visitor enters and last for his stay.           *)
LEMMA ScheduleSlots ==
    ASSUME NEW S, NEW s, IsVisit(s, S), NEW start \in Int, NEW w, w = Walk(s, start),
           NEW rooms, rooms = tour_rooms(s), NEW slots,
           slots = build_room_schedule(S, rooms, calculate_total_duration(S), start)
    PROVE  /\ DOMAIN slots = 1..Len(rooms) /\ (slots = <<>> <=> Len(rooms) = 0)
           /\ Len(slots) = Len(rooms)
           /\ \A a \in 1..Len(rooms) :
                 slots[a] = [room |-> rooms[a], from |-> w[Enter(s, rooms, a)],
                             to |-> w[Enter(s, rooms, a)] + RoomStay(S, rooms[a])]
<1> DEFINE k == Len(rooms)
           E(a) == Enter(s, rooms, a)
           step == Step(rooms, calculate_total_duration(S) - Duration(S))
           stay == [a \in 1..k |-> RoomStay(S, rooms[a])]
           spans == [a \in 1..k |-> stay[a] + step]
           cursor == Clock(start, spans)
<1>1. k \in Nat /\ k = Cardinality(Rooms(S)) /\ E(1) = 1 /\ DOMAIN rooms = 1..k
  <2>1. Arranged(rooms, Rooms(S))
    BY RoomsOrder DEF IsVisit
  <2> QED
    BY <2>1, RoomBlocks, ElementsOfArranged
<1>2. slots = [a \in 1..k |-> [room |-> rooms[a], from |-> cursor[a], to |-> cursor[a] + stay[a]]]
  BY <1>1 DEF build_room_schedule, RoomStay
<1>3. step = IF k > 1 THEN TransitionMinutes ELSE 0
  <2>1. CASE k > 1
    <3> DEFINE x == (k - 1) * TransitionMinutes
               d == Duration(S)
    <3>1. S # {} /\ S \in SUBSET Catalogue
      <4>1. CASE S = {}
        <5>1. Rooms(S) = {}
          BY <4>1 DEF Rooms
        <5> QED
          BY <1>1, <2>1, <5>1, FS_EmptySet
      <4> QED
        BY <4>1 DEF IsVisit
    <3>2. d \in Nat
      BY <3>1, DurationEquation
    <3>3. calculate_total_duration(S) = d + x
      BY <1>1, <3>1 DEF calculate_total_duration
    <3>4. TransitionMinutes \in Nat /\ k - 1 \in Nat /\ k - 1 > 0 /\ x \in Int
      BY <1>1, <2>1, TourAssumption
    <3>5. calculate_total_duration(S) - d = x
      <4> HIDE DEF x, d
      <4> QED
        BY <3>2, <3>3, <3>4
    <3>6. step = (2 * x + k - 1) \div (2 * (k - 1))
      BY <2>1, <3>5 DEF Step
    <3>7. (2 * x + (k - 1)) \div (2 * (k - 1)) = TransitionMinutes
      BY <3>4, SpareIsShared
    <3>8. 2 * x + k - 1 = 2 * x + (k - 1)
      BY <1>1, <3>4
    <3> HIDE DEF step, x, k
    <3>9. step = TransitionMinutes
      BY <3>6, <3>7, <3>8
    <3> QED
      BY <2>1, <3>9
  <2>2. CASE ~(k > 1)
    BY <2>2 DEF Step
  <2> QED
    BY <2>1, <2>2
<1>4. \A a \in 1..k : /\ w[E(a)] \in Int /\ stay[a] \in Nat
                      /\ w[E(a + 1)] = w[E(a)] + stay[a] + (IF a < k THEN TransitionMinutes ELSE 0)
  <2> SUFFICES ASSUME NEW a \in 1..k
               PROVE  /\ w[E(a)] \in Int /\ stay[a] \in Nat
                      /\ w[E(a + 1)] = w[E(a)] + stay[a] + (IF a < k THEN TransitionMinutes ELSE 0)
    OBVIOUS
  <2>1. stay[a] = RoomStay(S, rooms[a])
    OBVIOUS
  <2> HIDE DEF stay
  <2> QED
    BY <2>1, RoomTime
<1>5. step \in Nat
  <2>1. TransitionMinutes \in Nat
    BY TourAssumption
  <2> HIDE DEF step
  <2> QED
    BY <1>3, <2>1
<1> HIDE DEF E, step, stay
<1>6. spans \in [1..k -> Int] /\ \A a \in 1..k : spans[a] = stay[a] + step
  BY <1>4, <1>5
<1> HIDE DEF spans
<1>7. IsClock(cursor, start, spans, k)
  BY <1>1, <1>6, ClockValues
<1>8. cursor[1] = start /\ \A a \in 1..k : cursor[a + 1] = cursor[a] + (stay[a] + step)
  BY <1>6, <1>7 DEF IsClock
<1> HIDE DEF cursor
<1> DEFINE Good == {m \in Nat : m + 1 <= k => cursor[m + 1] = w[E(m + 1)]}
<1>9. 0 \in Good
  <2>1. w[1] = start
    BY WalkValues
  <2> QED
    BY <1>1, <1>8, <2>1
<1>10. ASSUME NEW m \in Good, m + 1 + 1 <= k PROVE cursor[m + 1 + 1] = w[E(m + 1 + 1)]
  <2> DEFINE a == m + 1
  <2>1. a \in 1..k /\ a < k /\ k > 1 /\ cursor[a] = w[E(a)]
    BY <1>1, <1>10
  <2> HIDE DEF a, Good
  <2>2. step = TransitionMinutes
    BY <1>3, <2>1
  <2>3. w[E(a + 1)] = w[E(a)] + stay[a] + TransitionMinutes /\ w[E(a)] \in Int /\ stay[a] \in Nat
    BY <1>4, <2>1
  <2>4. cursor[a + 1] = cursor[a] + (stay[a] + step)
    BY <1>8, <2>1
  <2>5. cursor[a + 1] = w[E(a + 1)]
    BY <1>5, <2>1, <2>2, <2>3, <2>4
  <2> QED
    BY <2>5 DEF a
<1>11. Good \subseteq Nat /\ \A m \in Good : m + 1 \in Good
  BY <1>10
<1> HIDE DEF Good
<1>12. Good = Nat
  BY <1>9, <1>11, NumberInduction
<1>13. \A a \in 1..k : cursor[a] = w[E(a)]
  <2> SUFFICES ASSUME NEW a \in 1..k PROVE cursor[a] = w[E(a)]
    OBVIOUS
  <2>1. a - 1 \in Good /\ (a - 1) + 1 = a /\ a <= k
    BY <1>1, <1>12
  <2> QED
    BY <2>1 DEF Good
<1>14. \A a \in 1..k : slots[a] = [room |-> rooms[a], from |-> w[E(a)], to |-> w[E(a)] + RoomStay(S, rooms[a])]
  <2>1. \A a \in 1..k : stay[a] = RoomStay(S, rooms[a])
    BY DEF stay
  <2>2. \A a \in 1..k : slots[a] = [room |-> rooms[a], from |-> cursor[a], to |-> cursor[a] + stay[a]]
    BY <1>2
  <2> HIDE DEF k
  <2> QED
    BY <1>13, <2>1, <2>2
<1>15. DOMAIN slots = 1..k /\ (slots = <<>> <=> k = 0) /\ Len(slots) = k
  <2>1. slots = [a \in 1..k |-> slots[a]]
    BY <1>2
  <2> HIDE DEF k
  <2> QED
    BY <1>1, <2>1
<1> QED
  BY <1>14, <1>15 DEF E

-----------------------------------------------------------------------------
(* The invariant of the handler: the plan that it goes on with is the tour  *)
(* for this request, and the events that it answers are those of the        *)
(* schedule of that plan.                                                   *)
Searched == search_works_for_tour(Criteria, Favourites, Limits, body.start)
Answered ==
    /\ body \in Bodies /\ works \in SUBSET Catalogue
    /\ stage \notin {"received", "done"} => body.valid
    /\ Planned => body.valid /\ plan = Searched
    /\ stage = "done" /\ reply.status = 200 =>
         reply.events = filter_rows_by_room_schedule(plan.schedule)

(* Answered is inductive.                                                   *)
LEMMA InitAnswered == Init => Answered
BY DEF Init, Answered, Planned

LEMMA NextAnswered == Answered /\ [Next]_vars => Answered'
<1> SUFFICES ASSUME Answered, [Next]_vars PROVE Answered'
  OBVIOUS
<1>1. CASE Receive
  <2>1. body' = body /\ works' = works
    BY <1>1 DEF Receive
  <2>2. CASE ~body.valid
    <3>1. stage' = "done" /\ reply'.status = 400
      BY <1>1, <2>2 DEF Receive, Reply
    <3> QED
      BY <2>1, <3>1 DEF Answered, Planned
  <2>3. CASE body.valid
    <3>1. stage' \in {"profile", "search"}
      BY <1>1, <2>3 DEF Receive
    <3> QED
      BY <2>1, <2>3, <3>1 DEF Answered, Planned
  <2> QED
    BY <2>2, <2>3
<1>2. CASE ProfileAnswered \/ ProfileFails
  <2>1. stage = "profile" /\ stage' = "search" /\ body' = body /\ works' = works
    BY <1>2 DEF ProfileAnswered, ProfileFails
  <2> QED
    BY <2>1 DEF Answered, Planned
<1>3. CASE SearchAnswered
  <2>1. /\ stage = "search" /\ body' = body /\ works' = works /\ preferences' = preferences
        /\ plan' = Searched
    BY <1>3 DEF SearchAnswered, Searched
  <2>2. Searched' = Searched
    BY <2>1 DEF Searched, Criteria, Favourites, Limits, search_works_for_tour
  <2>3. body.valid
    BY <2>1 DEF Answered
  <2>4. stage' = "done" => reply'.events = filter_rows_by_room_schedule(plan'.schedule)
    <3>1. CASE plan'.rooms # <<>> /\ plan'.schedule # <<>>
      BY <1>3, <3>1 DEF SearchAnswered
    <3>2. CASE ~(plan'.rooms # <<>> /\ plan'.schedule # <<>>)
      <4>1. reply'.events = {}
        BY <1>3, <3>2 DEF SearchAnswered, Reply
      <4>2. DOMAIN plan'.schedule = DOMAIN plan'.rooms
        BY <2>1 DEF Searched, search_works_for_tour, build_room_schedule
      <4>3. DOMAIN plan'.schedule = {}
        <5>1. plan'.rooms = <<>> \/ plan'.schedule = <<>>
          BY <3>2
        <5>2. DOMAIN <<>> = {}
          OBVIOUS
        <5> QED
          BY <4>2, <5>1, <5>2
      <4>4. filter_rows_by_room_schedule(plan'.schedule) = {}
        BY <4>3 DEF filter_rows_by_room_schedule
      <4> QED
        BY <4>1, <4>4
    <3> QED
      BY <3>1, <3>2
  <2>5. (stage = "done" /\ reply.status = 200 =>
            reply.events = filter_rows_by_room_schedule(plan.schedule))'
    BY <2>4
  <2>6. (Planned => body.valid /\ plan = Searched)'
    BY <2>1, <2>2, <2>3
  <2> QED
    BY <2>1, <2>3, <2>5, <2>6 DEF Answered
<1>4. CASE EventsAnswered
  <2>1. /\ stage = "events" /\ stage' = "done" /\ body' = body /\ works' = works
        /\ preferences' = preferences /\ plan' = plan
        /\ reply' = [status |-> 200, events |-> filter_rows_by_room_schedule(plan.schedule)]
    BY <1>4 DEF EventsAnswered, Reply
  <2>2. Searched' = Searched
    BY <2>1 DEF Searched, Criteria, Favourites, Limits, search_works_for_tour
  <2>3. body.valid /\ plan = Searched
    BY <2>1 DEF Answered, Planned
  <2>4. reply'.events = filter_rows_by_room_schedule(plan'.schedule)
    BY <2>1
  <2>5. (stage = "done" /\ reply.status = 200 =>
            reply.events = filter_rows_by_room_schedule(plan.schedule))'
    BY <2>4
  <2> QED
    BY <2>1, <2>2, <2>3, <2>5 DEF Answered
<1>5. ASSUME NEW code \in DOMAIN GRPC_TO_HTTP, CallFails(code) PROVE Answered'
  <2>1. /\ stage' = "done" /\ body' = body /\ works' = works
        /\ reply'.status = GRPC_TO_HTTP[code]
    BY <1>5 DEF CallFails, Reply
  <2>2. GRPC_TO_HTTP[code] # 200
    BY DEF GRPC_TO_HTTP
  <2> QED
    BY <2>1, <2>2 DEF Answered, Planned
<1>6. CASE UNCHANGED vars
  <2>1. /\ stage' = stage /\ body' = body /\ works' = works /\ preferences' = preferences
        /\ plan' = plan /\ reply' = reply
    BY <1>6 DEF vars
  <2>2. Searched' = Searched
    BY <2>1 DEF Searched, Criteria, Favourites, Limits, search_works_for_tour
  <2> QED
    BY <2>1, <2>2 DEF Answered, Planned
<1> QED
  BY <1>1, <1>2, <1>3, <1>4, <1>5, <1>6 DEF Next

(* What the lemmas on the planner say of the plan of the handler.           *)
LEMMA PlanFacts ==
    ASSUME Answered, Planned
    PROVE  \E S : /\ IsVisit(plan.works, S) /\ ToSet(plan.works) = S
                  /\ plan.works = order_tour(S) /\ Len(plan.works) = Cardinality(S)
                  /\ Chosen(S, Matching(works, Relaxed(Criteria, plan.note)), Limits)
                  /\ plan.note = Note(works, Criteria, Limits)
                  /\ \A i \in DOMAIN Attempts(Criteria) :
                        (\A k \in 1..i : Attempts(Criteria)[k] # plan.note) =>
                            Hopeless(Matching(works, Relaxed(Criteria, Attempts(Criteria)[i])), Limits)
                  /\ plan.minutes = calculate_total_duration(S)
                  /\ plan.rooms = tour_rooms(plan.works)
                  /\ plan.schedule = build_room_schedule(S, plan.rooms,
                                        calculate_total_duration(S), body.start)
                  /\ plan.end = IF plan.schedule = <<>> THEN body.start ELSE Last(plan.schedule).to
                  /\ works \in SUBSET Catalogue /\ AreLimits(Limits) /\ IsCriteria(Criteria)
                  /\ body.start \in Int
<1> DEFINE x == plan_tour_with_fallback(works, Criteria, Favourites, Limits)
<1>1. works \in SUBSET Catalogue /\ body \in Bodies /\ body.valid /\ plan = Searched
  BY DEF Answered
<1>2. AreLimits(Limits) /\ body.start \in Int
  BY <1>1, TourAssumption DEF AreLimits, Limits
<1>3. IsCriteria(Criteria)
  BY DEF IsCriteria, Criteria, Canonical
<1>4. /\ plan.works = x.works /\ plan.note = x.note
      /\ plan.minutes = calculate_total_duration(ToSet(x.works))
      /\ plan.rooms = tour_rooms(x.works)
      /\ plan.schedule = build_room_schedule(ToSet(x.works), plan.rooms,
                                        calculate_total_duration(ToSet(x.works)), body.start)
      /\ plan.end = IF plan.schedule = <<>> THEN body.start ELSE Last(plan.schedule).to
  BY <1>1 DEF Searched, search_works_for_tour
<1> HIDE DEF x
<1>5. /\ x.note = Note(works, Criteria, Limits)
      /\ \E W : /\ x.works = order_tour(W)
                /\ Chosen(W, Matching(works, Relaxed(Criteria, x.note)), Limits)
      /\ \A i \in DOMAIN Attempts(Criteria) :
            (\A k \in 1..i : Attempts(Criteria)[k] # x.note) =>
                Hopeless(Matching(works, Relaxed(Criteria, Attempts(Criteria)[i])), Limits)
  BY <1>1, <1>2, <1>3, Fallback DEF x
<1>6. PICK S : /\ x.works = order_tour(S)
               /\ Chosen(S, Matching(works, Relaxed(Criteria, x.note)), Limits)
  BY <1>5
<1>7. S \in SUBSET Catalogue
  BY <1>1, <1>6, MatchingType DEF Chosen
<1>8. Arranged(x.works, S) /\ Grouped(x.works)
  BY <1>6, <1>7, TourOrder
<1>9. ToSet(x.works) = S /\ Len(x.works) = Cardinality(S) /\ IsVisit(x.works, S)
  BY <1>7, <1>8, ElementsOfArranged DEF Arranged, IsVisit
<1> QED
  BY <1>1, <1>2, <1>3, <1>4, <1>5, <1>6, <1>9

-----------------------------------------------------------------------------
(* A tour that is walked takes the time that the planner counts.            *)
LEMMA OrderedTour ==
    ASSUME NEW S \in SUBSET Catalogue, NEW s, s = order_tour(S)
    PROVE  IsVisit(s, S) /\ ToSet(s) = S /\ WalkingTime(s) = calculate_total_duration(S)
<1>1. IsVisit(s, S) /\ ToSet(s) = S
  BY TourOrder, ElementsOfArranged DEF IsVisit
<1>2. Leaves(s, 0) = 0 + calculate_total_duration(S)
  BY <1>1, WalkIsTotal
<1>3. calculate_total_duration(S) \in Nat
  BY TotalType
<1> QED
  BY <1>1, <1>2, <1>3 DEF WalkingTime

LEMMA AnsweredFits == Answered => TourFitsLimits
<1> SUFFICES ASSUME Answered, Planned
             PROVE  /\ WalkingTime(plan.works) = plan.minutes
                    /\ Limits.minutes > 0 => plan.minutes <= Limits.minutes
                    /\ Limits.works > 0 => Len(plan.works) <= Limits.works
  BY DEF TourFitsLimits
<1>1. PICK S : /\ IsVisit(plan.works, S) /\ plan.works = order_tour(S)
               /\ Len(plan.works) = Cardinality(S)
               /\ Chosen(S, Matching(works, Relaxed(Criteria, plan.note)), Limits)
               /\ plan.minutes = calculate_total_duration(S)
  BY PlanFacts
<1>2. WalkingTime(plan.works) = calculate_total_duration(S)
  BY <1>1, OrderedTour DEF IsVisit
<1> QED
  BY <1>1, <1>2 DEF Chosen

(* What was left out does not fit: the walk would take too long.            *)
LEMMA AnsweredLeavesNothingOut == Answered => NothingLeftOut
<1> DEFINE TooLong(S) == Limits.minutes > 0 /\ WalkingTime(order_tour(S)) > Limits.minutes
<1> SUFFICES ASSUME Answered, Planned
             PROVE  /\ Limits.works = 0 \/ Len(plan.works) < Limits.works =>
                         \A w \in Matching(works, Relaxed(Criteria, plan.note)) \ ToSet(plan.works) :
                             TooLong(ToSet(plan.works) \cup {w})
                    /\ \A note \in GivenUp : \A w \in Matching(works, Relaxed(Criteria, note)) :
                             TooLong({w})
  BY DEF NothingLeftOut
<1>1. PICK S : /\ IsVisit(plan.works, S) /\ ToSet(plan.works) = S
               /\ Len(plan.works) = Cardinality(S)
               /\ Chosen(S, Matching(works, Relaxed(Criteria, plan.note)), Limits)
               /\ \A i \in DOMAIN Attempts(Criteria) :
                        (\A k \in 1..i : Attempts(Criteria)[k] # plan.note) =>
                            Hopeless(Matching(works, Relaxed(Criteria, Attempts(Criteria)[i])), Limits)
               /\ works \in SUBSET Catalogue /\ AreLimits(Limits)
  BY PlanFacts
<1>2. \A X \in SUBSET Catalogue : TooLong(X) <=>
         Limits.minutes > 0 /\ calculate_total_duration(X) > Limits.minutes
  <2> SUFFICES ASSUME NEW X \in SUBSET Catalogue
               PROVE  WalkingTime(order_tour(X)) = calculate_total_duration(X)
    BY Zenon
  <2> QED
    BY OrderedTour
<1> HIDE DEF TooLong
<1>3. ASSUME Limits.works = 0 \/ Len(plan.works) < Limits.works,
             NEW w \in Matching(works, Relaxed(Criteria, plan.note)) \ ToSet(plan.works)
      PROVE  TooLong(ToSet(plan.works) \cup {w})
  <2> DEFINE X == S \cup {w}
             M == Matching(works, Relaxed(Criteria, plan.note))
  <2>1. M \in SUBSET Catalogue /\ w \in M \ S
    BY <1>1, MatchingType
  <2>2. S \in SUBSET Catalogue /\ IsFiniteSet(S) /\ Cardinality(S) \in Nat
    BY <1>1, FS_CardinalityType DEF IsVisit, Arranged
  <2> HIDE DEF M
  <2>3. \/ Limits.works > 0 /\ Cardinality(S) >= Limits.works
        \/ Limits.minutes > 0 /\ calculate_total_duration(X) > Limits.minutes
    BY <1>1, <2>1 DEF Chosen, M
  <2>4. ~(Limits.works > 0 /\ Cardinality(S) >= Limits.works)
    BY <1>1, <1>3, <2>2 DEF AreLimits
  <2>5. X \in SUBSET Catalogue
    BY <2>1, <2>2
  <2> HIDE DEF X
  <2>6. TooLong(X)
    BY <1>2, <2>3, <2>4, <2>5
  <2> QED
    BY <1>1, <2>6 DEF X
<1>4. ASSUME NEW note \in GivenUp, NEW w \in Matching(works, Relaxed(Criteria, note))
      PROVE  TooLong({w})
  <2>1. PICK i \in DOMAIN Attempts(Criteria) :
           /\ note = Attempts(Criteria)[i]
           /\ \A k \in 1..i : Attempts(Criteria)[k] # plan.note
    BY DEF GivenUp
  <2>2. Hopeless(Matching(works, Relaxed(Criteria, note)), Limits)
    BY <1>1, <2>1
  <2>3. Limits.minutes > 0 /\ calculate_total_duration({w}) > Limits.minutes
    BY <2>2 DEF Hopeless
  <2>4. w \in Catalogue
    BY <1>1, MatchingType
  <2>5. {w} \in SUBSET Catalogue
    BY <2>4
  <2> QED
    BY <1>2, <2>3, <2>5
<1> QED
  BY <1>3, <1>4

(* Neither the note nor a tour without limits depends on preferences.       *)
LEMMA AnsweredReorders == Answered => PreferencesOnlyReorder
<1> DEFINE x == PlannedWith(NoPreferences)
<1> SUFFICES ASSUME Answered, Planned
             PROVE  /\ plan.note = x.note
                    /\ Limits.minutes = 0 /\ Limits.works = 0 => plan.works = x.works
  BY DEF PreferencesOnlyReorder
<1> DEFINE M == Matching(works, Relaxed(Criteria, plan.note))
<1>1. PICK S : /\ plan.works = order_tour(S)
               /\ Chosen(S, M, Limits)
               /\ plan.note = Note(works, Criteria, Limits)
               /\ works \in SUBSET Catalogue /\ AreLimits(Limits) /\ IsCriteria(Criteria)
  BY PlanFacts
<1>2. x = plan_tour_with_fallback(works, Criteria, NoPreferences, Limits)
  BY DEF PlannedWith
<1> HIDE DEF x
<1>3. /\ x.note = Note(works, Criteria, Limits)
      /\ \E W : /\ x.works = order_tour(W)
                /\ Chosen(W, Matching(works, Relaxed(Criteria, x.note)), Limits)
  BY <1>1, <1>2, Fallback
<1>4. plan.note = x.note
  BY <1>1, <1>3
<1>5. PICK W : x.works = order_tour(W) /\ Chosen(W, M, Limits)
  BY <1>3, <1>4
<1> HIDE DEF M
<1>6. ASSUME Limits.minutes = 0, Limits.works = 0 PROVE plan.works = x.works
  <2>1. \A V : Chosen(V, M, Limits) => V = M
    <3> SUFFICES ASSUME NEW V, Chosen(V, M, Limits) PROVE V = M
      OBVIOUS
    <3>1. V \subseteq M /\ M \ V = {}
      BY <1>6 DEF Chosen
    <3> QED
      BY <3>1
  <2>2. S = M /\ W = M
    BY <1>1, <1>5, <2>1
  <2> QED
    BY <1>1, <1>5, <2>2, Zenon
<1> QED
  BY <1>4, <1>6

(* The slots of the plan, and the walk of the visitor in them.              *)
LEMMA ScheduleFacts ==
    ASSUME Answered, Planned
    PROVE  /\ DOMAIN plan.schedule = 1..Len(plan.rooms) /\ Len(plan.rooms) \in Nat
           /\ Len(plan.schedule) = Len(plan.rooms)
           /\ \A a \in DOMAIN plan.schedule :
                 /\ plan.schedule[a].from \in Int /\ plan.schedule[a].to \in Int
                 /\ InRoom(plan.works, body.start, plan.schedule[a].room) =
                       plan.schedule[a].from..(plan.schedule[a].to - 1)
           /\ {plan.schedule[a].room : a \in DOMAIN plan.schedule} = Rooms(ToSet(plan.works))
           /\ plan.end = Leaves(plan.works, body.start)
<1> DEFINE s == plan.works
           w == Walk(s, body.start)
           rooms == plan.rooms
           slots == plan.schedule
           k == Len(rooms)
<1>1. PICK S : /\ IsVisit(s, S) /\ ToSet(s) = S
               /\ rooms = tour_rooms(s)
               /\ slots = build_room_schedule(S, rooms, calculate_total_duration(S), body.start)
               /\ plan.end = (IF slots = <<>> THEN body.start ELSE Last(slots).to)
               /\ body.start \in Int
  BY PlanFacts
<1> HIDE DEF s, w, rooms, slots
<1>2. /\ DOMAIN slots = 1..k /\ (slots = <<>> <=> k = 0) /\ Len(slots) = k
      /\ \A a \in 1..k :
            slots[a] = [room |-> rooms[a], from |-> w[Enter(s, rooms, a)],
                        to |-> w[Enter(s, rooms, a)] + RoomStay(S, rooms[a])]
  <2>1. w = Walk(s, body.start)
    BY DEF w
  <2>2. IsVisit(s, S) /\ body.start \in Int /\ rooms = tour_rooms(s)
    BY <1>1
  <2>3. slots = build_room_schedule(S, rooms, calculate_total_duration(S), body.start)
    BY <1>1
  <2> QED
    BY <2>1, <2>2, <2>3, ScheduleSlots
<1>3. /\ k \in Nat /\ k = Cardinality(Rooms(S))
      /\ Enter(s, rooms, 1) = 1 /\ Enter(s, rooms, k + 1) = Len(s) + 1
  BY <1>1, RoomBlocks
<1>4. \A a \in 1..k :
         /\ w[Enter(s, rooms, a)] \in Int /\ RoomStay(S, rooms[a]) \in Nat
         /\ w[Enter(s, rooms, a + 1)] =
                w[Enter(s, rooms, a)] + RoomStay(S, rooms[a])
                  + (IF a < k THEN TransitionMinutes ELSE 0)
         /\ InRoom(s, body.start, rooms[a]) =
                w[Enter(s, rooms, a)]..(w[Enter(s, rooms, a)] + RoomStay(S, rooms[a]) - 1)
  BY <1>1, RoomTime DEF w
<1>5. ASSUME NEW a \in 1..k
      PROVE  /\ slots[a].from \in Int /\ slots[a].to \in Int /\ slots[a].room = rooms[a]
             /\ InRoom(s, body.start, slots[a].room) = slots[a].from..(slots[a].to - 1)
  <2> DEFINE e == w[Enter(s, rooms, a)]
             t == RoomStay(S, rooms[a])
  <2>1. slots[a] = [room |-> rooms[a], from |-> e, to |-> e + t]
    BY <1>2
  <2>2. e \in Int /\ t \in Nat /\ InRoom(s, body.start, rooms[a]) = e..(e + t - 1)
    BY <1>4
  <2> HIDE DEF e, t
  <2>3. slots[a].room = rooms[a] /\ slots[a].from = e /\ slots[a].to = e + t
    BY <2>1
  <2> QED
    BY <2>2, <2>3
<1>6. {slots[a].room : a \in 1..k} = Rooms(S)
  <2>1. Arranged(rooms, Rooms(S))
    BY <1>1, RoomsOrder DEF IsVisit
  <2>2. \A a \in 1..k : rooms[a] \in Rooms(S)
    BY <2>1 DEF Arranged
  <2>3. \A r \in Rooms(S) : \E a \in 1..k : rooms[a] = r
    BY <2>1 DEF Arranged
  <2> QED
    BY <1>5, <2>2, <2>3
<1>7. plan.end = Leaves(s, body.start)
  <2>1. Leaves(s, body.start) = w[Enter(s, rooms, k + 1)]
    BY <1>3 DEF Leaves, w
  <2>2. CASE k = 0
    <3>1. slots = <<>>
      BY <1>2, <2>2
    <3>2. k + 1 = 1
      BY <2>2
    <3>3. w[1] = body.start
      BY <1>1, WalkValues DEF w
    <3> HIDE DEF k
    <3> QED
      BY <1>1, <1>3, <2>1, <3>1, <3>2, <3>3
  <2>3. CASE k # 0
    <3>1. k \in 1..k /\ ~(k < k) /\ slots # <<>>
      BY <1>2, <1>3, <2>3
    <3> DEFINE e == w[Enter(s, rooms, k)]
               t == RoomStay(S, rooms[k])
    <3>2. e \in Int /\ t \in Nat /\ w[Enter(s, rooms, k + 1)] = e + t + 0
      BY <1>4, <3>1
    <3>3. slots[k].to = e + t
      BY <1>2, <3>1
    <3>4. plan.end = slots[k].to
      BY <1>1, <1>2, <3>1 DEF Last
    <3> HIDE DEF e, t
    <3> QED
      BY <2>1, <3>2, <3>3, <3>4
  <2> QED
    BY <2>2, <2>3
<1>8. \A a \in DOMAIN slots :
         /\ slots[a].from \in Int /\ slots[a].to \in Int
         /\ InRoom(s, body.start, slots[a].room) = slots[a].from..(slots[a].to - 1)
  BY <1>2, <1>5
<1>9. {slots[a].room : a \in DOMAIN slots} = Rooms(ToSet(s))
  BY <1>1, <1>2, <1>6
<1> QED
  BY <1>2, <1>3, <1>7, <1>8, <1>9 DEF s, rooms, slots

(* The slots are the times of the walk.                                     *)
LEMMA AnsweredFollowsVisit == Answered => ScheduleFollowsVisit
<1> SUFFICES ASSUME Answered, Planned
             PROVE  /\ \A i \in DOMAIN plan.schedule :
                         plan.schedule[i].from..(plan.schedule[i].to - 1) =
                            InRoom(plan.works, body.start, plan.schedule[i].room)
                    /\ {slot.room : slot \in ToSet(plan.schedule)} = Rooms(ToSet(plan.works))
                    /\ plan.end = Leaves(plan.works, body.start)
  BY DEF ScheduleFollowsVisit
<1>1. {slot.room : slot \in ToSet(plan.schedule)} = {plan.schedule[a].room : a \in DOMAIN plan.schedule}
  BY DEF ToSet
<1> QED
  BY <1>1, ScheduleFacts

(* Two intervals of minutes meet as grpc-events tells it.                   *)
LEMMA IntervalsMeet ==
    ASSUME NEW a \in Int, NEW m \in Nat, NEW b \in Int, NEW c \in Int
    PROVE  c > b /\ (IF m = 0 THEN b <= a /\ a < c ELSE a < c /\ a + m > b) <=>
             (IF m = 0 THEN {a} ELSE a..(a + m - 1)) \cap (b..(c - 1)) # {}
<1>1. CASE m = 0
  <2>1. {a} \cap (b..(c - 1)) # {} <=> b <= a /\ a < c
    OBVIOUS
  <2>2. b <= a /\ a < c => c > b
    OBVIOUS
  <2> QED
    BY <1>1, <2>1, <2>2
<1>2. CASE m # 0
  <2>1. ASSUME c > b, a < c, a + m > b PROVE (a..(a + m - 1)) \cap (b..(c - 1)) # {}
    <3>1. CASE a <= b
      <4>1. b \in a..(a + m - 1) /\ b \in b..(c - 1)
        BY <2>1, <3>1
      <4> QED
        BY <4>1
    <3>2. CASE ~(a <= b)
      <4>1. a \in a..(a + m - 1) /\ a \in b..(c - 1)
        BY <1>2, <2>1, <3>2
      <4> QED
        BY <4>1
    <3> QED
      BY <3>1, <3>2
  <2>2. ASSUME NEW x \in a..(a + m - 1), x \in b..(c - 1) PROVE c > b /\ a < c /\ a + m > b
    BY <2>2
  <2>3. c > b /\ (a < c /\ a + m > b) <=> (a..(a + m - 1)) \cap (b..(c - 1)) # {}
    BY <2>1, <2>2
  <2> QED
    BY <1>2, <2>3
<1> QED
  BY <1>1, <1>2

(* The test of grpc-events says that the visitor meets the event.           *)
LEMMA OverlapsIsMeeting ==
    ASSUME NEW e \in EventRows, NEW slot, slot.from \in Int, slot.to \in Int
    PROVE  slot.to > slot.from /\ Overlaps(e, slot) <=>
             (IF e.minutes = 0 THEN {e.start} ELSE e.start..(e.start + e.minutes - 1))
                \cap (slot.from..(slot.to - 1)) # {}
<1>1. e.start \in Int /\ e.minutes \in Nat
  BY TourAssumption
<1>2. Overlaps(e, slot) <=>
         IF e.minutes = 0 THEN slot.from <= e.start /\ e.start < slot.to
         ELSE e.start < slot.to /\ e.start + e.minutes > slot.from
  BY DEF Overlaps
<1> DEFINE a == e.start
           m == e.minutes
           b == slot.from
           c == slot.to
<1>3. a \in Int /\ m \in Nat /\ b \in Int /\ c \in Int
  BY <1>1
<1> SUFFICES c > b /\ (IF m = 0 THEN b <= a /\ a < c ELSE a < c /\ a + m > b) <=>
             (IF m = 0 THEN {a} ELSE a..(a + m - 1)) \cap (b..(c - 1)) # {}
  BY <1>2
<1> HIDE DEF a, m, b, c
<1> QED
  BY <1>3, IntervalsMeet

(* Hence the events of the answer are those that he meets.                  *)
LEMMA AnsweredMeetsEvents == Answered => EventsAreMet
<1> DEFINE On(e) == IF e.minutes = 0 THEN {e.start} ELSE e.start..(e.start + e.minutes - 1)
           There(e) == InRoom(plan.works, body.start, canonical_location(e.location))
<1> SUFFICES ASSUME Answered, stage = "done", reply.status = 200
             PROVE  reply.events = {e \in EventRows : On(e) \cap There(e) # {}}
  BY DEF EventsAreMet
<1> DEFINE slots == plan.schedule
<1>1. Planned /\ reply.events = filter_rows_by_room_schedule(slots)
  BY DEF Planned, Answered
<1>2. /\ \A i \in DOMAIN slots :
            /\ slots[i].from \in Int /\ slots[i].to \in Int
            /\ InRoom(plan.works, body.start, slots[i].room) = slots[i].from..(slots[i].to - 1)
      /\ {slots[i].room : i \in DOMAIN slots} = Rooms(ToSet(plan.works))
  BY <1>1, ScheduleFacts
<1> HIDE DEF slots
<1>3. \A r : r \notin Rooms(ToSet(plan.works)) => InRoom(plan.works, body.start, r) = {}
  <2> SUFFICES ASSUME NEW r, r \notin Rooms(ToSet(plan.works))
               PROVE  InRoom(plan.works, body.start, r) = {}
    OBVIOUS
  <2>1. {j \in DOMAIN plan.works : Room(plan.works[j]) = r} = {}
    BY DEF Rooms, ToSet
  <2> QED
    BY <2>1 DEF InRoom
<1> HIDE DEF On, There
<1>4. ASSUME NEW e \in EventRows
      PROVE  (\E i \in DOMAIN slots : /\ slots[i].room = canonical_location(e.location)
                                      /\ slots[i].to > slots[i].from
                                      /\ Overlaps(e, slots[i]))
             <=> On(e) \cap There(e) # {}
  <2> DEFINE r == canonical_location(e.location)
  <2>1. ASSUME NEW i \in DOMAIN slots, slots[i].room = r
        PROVE  slots[i].to > slots[i].from /\ Overlaps(e, slots[i]) <=> On(e) \cap There(e) # {}
    <3>1. There(e) = slots[i].from..(slots[i].to - 1)
      BY <1>2, <2>1 DEF There
    <3> DEFINE slot == slots[i]
    <3>2. slot.from \in Int /\ slot.to \in Int
      BY <1>2
    <3> HIDE DEF slot
    <3>3. slot.to > slot.from /\ Overlaps(e, slot) <=> On(e) \cap (slot.from..(slot.to - 1)) # {}
      BY <3>2, OverlapsIsMeeting DEF On
    <3> QED
      BY <3>1, <3>3 DEF slot
  <2>2. ASSUME On(e) \cap There(e) # {} PROVE \E i \in DOMAIN slots : slots[i].room = r
    <3>1. There(e) # {}
      BY <2>2
    <3>2. r \in Rooms(ToSet(plan.works))
      BY <1>3, <3>1 DEF There
    <3> QED
      BY <1>2, <3>2
  <2> HIDE DEF r
  <2>3. (\E i \in DOMAIN slots : /\ slots[i].room = r
                                 /\ slots[i].to > slots[i].from
                                 /\ Overlaps(e, slots[i])) <=> On(e) \cap There(e) # {}
    BY <2>1, <2>2
  <2> QED
    BY <2>3 DEF r
<1> QED
  BY <1>1, <1>4 DEF filter_rows_by_room_schedule

-----------------------------------------------------------------------------
(* The handler goes on with the tour for this request and answers the       *)
(* events of its schedule: the inductive invariant of api-gateway's handler.*)
THEOREM AnsweredAlways == Spec => []Answered
BY InitAnswered, NextAnswered, PTL DEF Spec

(* Every tour that a visitor is answered takes as long as the answer says   *)
(* when it is walked, and respects the limits of the request.               *)
THEOREM ToursFitLimits == Spec => []TourFitsLimits
BY AnsweredAlways, AnsweredFits, PTL

(* A work is left out, and a criterion given up, only because the tour      *)
(* would be too long or have too many works.                                *)
THEOREM NothingIsLeftOut == Spec => []NothingLeftOut
BY AnsweredAlways, AnsweredLeavesNothingOut, PTL

(* Whether grpc-users answers never decides which criteria are given up,    *)
(* and without limits changes nothing.                                      *)
THEOREM PreferencesReorderOnly == Spec => []PreferencesOnlyReorder
BY AnsweredAlways, AnsweredReorders, PTL

(* The schedule that build_room_schedule shares out is the visitor's walk.  *)
THEOREM SchedulesFollowVisits == Spec => []ScheduleFollowsVisit
BY AnsweredAlways, AnsweredFollowsVisit, PTL

(* The events of the answer are those that the visitor meets on his walk.   *)
THEOREM AnsweredEventsAreMet == Spec => []EventsAreMet
BY AnsweredAlways, AnsweredMeetsEvents, PTL

=============================================================================
