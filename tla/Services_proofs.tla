---------------------------- MODULE Services_proofs ----------------------------
(***************************************************************************)
(* Proofs about the services and scripts that share nothing, each for any  *)
(* values of its constants.  A component takes its steps among those of    *)
(* the others, which leave its variables alone: so what its own steps keep *)
(* holds of Services as a whole.                                           *)
(***************************************************************************)
EXTENDS Services, Integers, Sequences, FiniteSetTheorems, FunctionTheorems,
        SequenceTheorems, WellFoundedInduction, TLAPS

-----------------------------------------------------------------------------
(* Sums.                                                                   *)

\* Every non-empty set of natural numbers has a least element.
LEMMA LeastExists ==
    ASSUME NEW T \in SUBSET Nat, T # {}
    PROVE  \E x \in T : \A y \in T : x <= y
<1>1. PICK x \in T : \A y \in T : ~(<<y, x>> \in OpToRel(<, Nat))
  BY NatLessThanWellFounded, WFMin
<1>2. ASSUME NEW y \in T PROVE x <= y
  <2>1. <<y, x>> \notin OpToRel(<, Nat)
    BY <1>1
  <2>2. y \in Nat /\ x \in Nat
    OBVIOUS
  <2>3. ~(y < x)
    BY <2>1, <2>2, Zenon DEF OpToRel
  <2> QED
    BY <2>2, <2>3
<1> QED
  BY <1>2

\* Induction over the natural numbers, for a set of them instead of a predicate.
LEMMA NumbersByInduction ==
    ASSUME NEW T \in SUBSET Nat, 0 \in T, \A n \in T : n + 1 \in T
    PROVE  T = Nat
<1> SUFFICES ASSUME Nat \ T # {} PROVE FALSE
  OBVIOUS
<1>1. Nat \ T \in SUBSET Nat
  OBVIOUS
<1>2. PICK n \in Nat \ T : \A m \in Nat \ T : n <= m
  BY <1>1, LeastExists
<1>3. n # 0 /\ n - 1 \in Nat /\ (n - 1) + 1 = n
  BY <1>2
<1>4. n - 1 \in T
  BY <1>2, <1>3
<1> QED
  BY <1>2, <1>3, <1>4

\* Induction over the subsets of a finite set, for a family of them.
LEMMA SubsetsByInduction ==
    ASSUME NEW S, IsFiniteSet(S), NEW F,
           \A t \in SUBSET S : (\A x \in t : t \ {x} \in F) => t \in F
    PROVE  \A t \in SUBSET S : t \in F
<1> DEFINE T == {Cardinality(t) : t \in (SUBSET S) \ F}
<1> SUFFICES ASSUME (SUBSET S) \ F # {} PROVE FALSE
  OBVIOUS
<1>1. \A t \in SUBSET S : IsFiniteSet(t) /\ Cardinality(t) \in Nat
  BY FS_Subset, FS_CardinalityType
<1>2. T \in SUBSET Nat /\ T # {}
  <2>1. PICK t \in (SUBSET S) \ F : TRUE
    OBVIOUS
  <2>2. Cardinality(t) \in T
    BY <2>1
  <2>3. \A t1 \in (SUBSET S) \ F : Cardinality(t1) \in Nat
    BY <1>1
  <2> QED
    BY <2>2, <2>3
<1>3. PICK n \in T : \A m \in T : n <= m
  <2> HIDE DEF T
  <2> QED
    BY <1>2, LeastExists
<1>4. PICK t \in (SUBSET S) \ F : n = Cardinality(t)
  OBVIOUS
<1>5. PICK x \in t : t \ {x} \notin F
  <2>1. t \in SUBSET S /\ t \notin F
    BY <1>4
  <2>2. ~(\A x \in t : t \ {x} \in F)
    BY <2>1
  <2> QED
    BY <2>2
<1>6. t \ {x} \in (SUBSET S) \ F
  BY <1>5
<1>7. Cardinality(t \ {x}) = Cardinality(t) - 1
  BY <1>1, <1>5, FS_RemoveElement
<1>8. n <= Cardinality(t \ {x})
  BY <1>3, <1>6
<1>9. Cardinality(t) \in Nat
  BY <1>1
<1> QED
  BY <1>4, <1>7, <1>8, <1>9

Pick(s) == CHOOSE x \in s : TRUE

\* SumFunction adds a function up over the subsets of its domain, one element after
\* the other.
Partial(f) ==
    CHOOSE p : p = [s \in SUBSET DOMAIN f |->
                      IF s = {} THEN 0 ELSE f[Pick(s)] + p[s \ {Pick(s)}]]

\* SumFunction is Partial over the whole domain.
LEMMA SumIsPartial == ASSUME NEW f PROVE SumFunction(f) = Partial(f)[DOMAIN f]
BY DEF SumFunction, SumFunctionOnSet, FoldFunctionOnSet, MapThenFoldSet, Partial, Pick

Adds(p, f, S) ==
    \A s \in SUBSET S : p[s] = IF s = {} THEN 0 ELSE f[Pick(s)] + p[s \ {Pick(s)}]

\* The recursion has a solution: one for the sets up to a size extends to the next size.
LEMMA PartialExists ==
    ASSUME NEW S, IsFiniteSet(S), NEW f \in [S -> Int]
    PROVE  \E p \in [SUBSET S -> Int] : Adds(p, f, S)
<1> DEFINE upTo(n) == {s \in SUBSET S : Cardinality(s) <= n}
           solves(p, n) == \A s \in upTo(n) :
                p[s] = IF s = {} THEN 0 ELSE f[Pick(s)] + p[s \ {Pick(s)}]
           sizes == {n \in Nat : \E p \in [upTo(n) -> Int] : solves(p, n)}
<1>1. \A s \in SUBSET S : IsFiniteSet(s) /\ Cardinality(s) \in Nat
  BY FS_Subset, FS_CardinalityType
<1>2. \A s \in SUBSET S : s # {} =>
          /\ f[Pick(s)] \in Int
          /\ s \ {Pick(s)} \in SUBSET S
          /\ Cardinality(s \ {Pick(s)}) = Cardinality(s) - 1
  <2> SUFFICES ASSUME NEW s \in SUBSET S, s # {}
               PROVE  /\ f[Pick(s)] \in Int
                      /\ s \ {Pick(s)} \in SUBSET S
                      /\ Cardinality(s \ {Pick(s)}) = Cardinality(s) - 1
    OBVIOUS
  <2>1. Pick(s) \in s
    BY DEF Pick
  <2> QED
    BY <1>1, <2>1, FS_RemoveElement
<1>3. 0 \in sizes
  <2> DEFINE p == [s \in upTo(0) |-> 0]
  <2>1. \A s \in upTo(0) : s = {}
    <3> SUFFICES ASSUME NEW s \in SUBSET S, Cardinality(s) <= 0 PROVE s = {}
      OBVIOUS
    <3>1. Cardinality(s) = 0
      BY <1>1
    <3> QED
      BY <1>1, <3>1, FS_EmptySet
  <2>2. p \in [upTo(0) -> Int] /\ solves(p, 0)
    BY <2>1
  <2> HIDE DEF p, upTo, solves
  <2> QED
    BY <2>2
<1>4. ASSUME NEW n \in sizes PROVE n + 1 \in sizes
  <2>1. PICK p \in [upTo(n) -> Int] : solves(p, n)
    OBVIOUS
  <2>2. n \in Nat /\ n + 1 \in Nat
    OBVIOUS
  <2> DEFINE q == [s \in upTo(n + 1) |->
                     IF s \in upTo(n) THEN p[s] ELSE f[Pick(s)] + p[s \ {Pick(s)}]]
  <2>3. ASSUME NEW s \in upTo(n + 1), s # {}
        PROVE  s \ {Pick(s)} \in upTo(n)
    BY <1>1, <1>2, <2>2, <2>3
  <2>4. upTo(n) \subseteq upTo(n + 1)
    BY <1>1, <2>2
  <2>5. {} \in upTo(n)
    BY <2>2, FS_EmptySet
  <2>6. ASSUME NEW s \in upTo(n + 1)
        PROVE  /\ q[s] = IF s = {} THEN 0 ELSE f[Pick(s)] + q[s \ {Pick(s)}]
               /\ q[s] \in Int
    <3>1. CASE s = {}
      <4>1. p[s] = 0
        BY <2>1, <2>5, <3>1
      <4> QED
        BY <2>5, <3>1, <4>1
    <3>2. CASE s # {}
      <4>1. s \ {Pick(s)} \in upTo(n) /\ s \ {Pick(s)} \in upTo(n + 1)
        BY <2>3, <2>4, <3>2
      <4>2. f[Pick(s)] \in Int
        BY <1>2, <3>2
      <4> HIDE DEF upTo
      <4>3. q[s \ {Pick(s)}] = p[s \ {Pick(s)}] /\ p[s \ {Pick(s)}] \in Int
        BY <4>1
      <4>4. q[s] = f[Pick(s)] + p[s \ {Pick(s)}]
        <5>1. CASE s \in upTo(n)
          <6>1. p[s] = f[Pick(s)] + p[s \ {Pick(s)}]
            BY <2>1, <3>2, <5>1
          <6> QED
            BY <2>6, <5>1, <6>1
        <5>2. CASE s \notin upTo(n)
          BY <2>6, <5>2
        <5> QED
          BY <5>1, <5>2
      <4> QED
        BY <3>2, <4>2, <4>3, <4>4
    <3> QED
      BY <3>1, <3>2
  <2>7. q \in [upTo(n + 1) -> Int] /\ solves(q, n + 1)
    <3> HIDE DEF upTo
    <3>1. q = [s \in upTo(n + 1) |-> q[s]]
      OBVIOUS
    <3> HIDE DEF q
    <3> QED
      BY <2>6, <3>1
  <2> HIDE DEF q, upTo, solves
  <2>8. \E r \in [upTo(n + 1) -> Int] : solves(r, n + 1)
    BY <2>7
  <2> QED
    BY <2>2, <2>8
<1>5. Cardinality(S) \in sizes
  <2>1. sizes \in SUBSET Nat
    OBVIOUS
  <2> HIDE DEF sizes
  <2>2. sizes = Nat
    BY <1>3, <1>4, <2>1, NumbersByInduction
  <2> QED
    BY <2>2, FS_CardinalityType
<1>6. upTo(Cardinality(S)) = SUBSET S
  BY FS_Subset
<1>7. PICK p \in [upTo(Cardinality(S)) -> Int] : solves(p, Cardinality(S))
  BY <1>5
<1> HIDE DEF upTo
<1>8. Adds(p, f, S)
  BY <1>6, <1>7 DEF Adds
<1> QED
  BY <1>6, <1>8

\* So each partial sum is that of the rest and the element picked.
LEMMA PartialStep ==
    ASSUME NEW S, IsFiniteSet(S), NEW f \in [S -> Int], NEW t \in SUBSET S
    PROVE  /\ Partial(f)[t] \in Int
           /\ Partial(f)[t] = IF t = {} THEN 0
                              ELSE f[Pick(t)] + Partial(f)[t \ {Pick(t)}]
<1> DEFINE solves(p) == p = [s \in SUBSET DOMAIN f |->
                               IF s = {} THEN 0 ELSE f[Pick(s)] + p[s \ {Pick(s)}]]
<1>1. DOMAIN f = S
  OBVIOUS
<1>2. PICK p \in [SUBSET S -> Int] : Adds(p, f, S)
  BY PartialExists
<1>3. solves(p)
  BY <1>1, <1>2 DEF Adds
<1>4. Partial(f) = CHOOSE r : solves(r)
  BY DEF Partial
<1>5. solves(Partial(f))
  <2> HIDE DEF solves
  <2> QED
    BY <1>3, <1>4
<1>6. \A s \in SUBSET S :
         Partial(f)[s] = IF s = {} THEN 0 ELSE f[Pick(s)] + Partial(f)[s \ {Pick(s)}]
  BY <1>1, <1>5
<1>7. ASSUME NEW s \in SUBSET S, \A x \in s : Partial(f)[s \ {x}] \in Int
      PROVE  Partial(f)[s] \in Int
  <2>1. s # {} => Pick(s) \in s
    BY DEF Pick
  <2>2. s # {} => f[Pick(s)] \in Int /\ Partial(f)[s \ {Pick(s)}] \in Int
    BY <1>7, <2>1
  <2>3. CASE s = {}
    <3>1. Partial(f)[s] = 0
      BY <1>6, <2>3
    <3> QED
      BY <3>1
  <2>4. CASE s # {}
    <3>1. Partial(f)[s] = f[Pick(s)] + Partial(f)[s \ {Pick(s)}]
      BY <1>6, <2>4
    <3> QED
      BY <2>2, <2>4, <3>1
  <2> QED
    BY <2>3, <2>4
<1> DEFINE F == {s \in SUBSET S : Partial(f)[s] \in Int}
<1>8. \A s \in SUBSET S : (\A x \in s : s \ {x} \in F) => s \in F
  BY <1>7
<1> HIDE DEF F
<1>9. \A s \in SUBSET S : s \in F
  BY <1>8, SubsetsByInduction
<1> QED
  BY <1>6, <1>9 DEF F

\* The sum does not depend on which element is taken first.
LEMMA PartialSplits ==
    ASSUME NEW S, IsFiniteSet(S), NEW f \in [S -> Int]
    PROVE  \A t \in SUBSET S : \A x \in t :
             Partial(f)[t] = f[x] + Partial(f)[t \ {x}]
<1> DEFINE F == {t \in SUBSET S : \A x \in t :
                   Partial(f)[t] = f[x] + Partial(f)[t \ {x}]}
<1>1. ASSUME NEW t \in SUBSET S, \A z \in t : t \ {z} \in F,
             NEW x \in t
      PROVE  Partial(f)[t] = f[x] + Partial(f)[t \ {x}]
  <2> DEFINE y == Pick(t)
  <2>1. y \in t
    BY DEF Pick
  <2>2. Partial(f)[t] = f[y] + Partial(f)[t \ {y}]
    BY <2>1, PartialStep
  <2> HIDE DEF y
  <2>3. CASE x = y
    BY <2>2, <2>3
  <2>4. CASE x # y
    <3> DEFINE r == (t \ {y}) \ {x}
    <3>1. r = (t \ {x}) \ {y}
      OBVIOUS
    <3>2. x \in t \ {y} /\ y \in t \ {x}
      BY <2>1, <2>4
    <3>3. Partial(f)[t \ {y}] = f[x] + Partial(f)[r]
      BY <1>1, <2>1, <3>2
    <3>4. Partial(f)[t \ {x}] = f[y] + Partial(f)[r]
      BY <1>1, <3>1, <3>2
    <3>5. f[x] \in Int /\ f[y] \in Int
      BY <2>1
    <3>6. r \in SUBSET S
      OBVIOUS
    <3> HIDE DEF r
    <3>7. Partial(f)[r] \in Int
      BY <3>6, PartialStep
    <3>8. ASSUME NEW a \in Int, NEW b \in Int, NEW c \in Int
          PROVE  a + (b + c) = b + (a + c)
      OBVIOUS
    <3> QED
      BY <2>2, <3>3, <3>4, <3>5, <3>7, <3>8
  <2> QED
    BY <2>3, <2>4
<1>2. \A t \in SUBSET S : (\A x \in t : t \ {x} \in F) => t \in F
  BY <1>1
<1> HIDE DEF F
<1>3. \A t \in SUBSET S : t \in F
  BY <1>2, SubsetsByInduction
<1> QED
  BY <1>3 DEF F

\* A function that SumFunction can add up, ...
Numbers(f, S) == IsFiniteSet(S) /\ f \in [S -> Int]

\* ... and a part of its domain.
Summable(f, t) == \E S : Numbers(f, S) /\ t \in SUBSET S

\* A part of a finite function of integers can be added up.
LEMMA PartsAreSummable ==
    ASSUME NEW S, NEW f, Numbers(f, S), NEW t, t \subseteq S
    PROVE  Summable(f, t)
BY DEF Summable

\* Any member can be taken out of a partial sum.
LEMMA PartialRest ==
    ASSUME NEW f, NEW t, Summable(f, t), NEW x \in t
    PROVE  /\ f[x] \in Int
           /\ Partial(f)[t \ {x}] \in Int
           /\ Partial(f)[t] = f[x] + Partial(f)[t \ {x}]
<1>1. PICK S : IsFiniteSet(S) /\ f \in [S -> Int] /\ t \in SUBSET S
  BY DEF Summable, Numbers
<1>2. f[x] \in Int /\ t \ {x} \in SUBSET S
  BY <1>1
<1>3. Partial(f)[t \ {x}] \in Int
  BY <1>1, <1>2, PartialStep
<1>4. Partial(f)[t] = f[x] + Partial(f)[t \ {x}]
  BY <1>1, PartialSplits
<1> QED
  BY <1>2, <1>3, <1>4

\* Nothing adds up to 0, ...
LEMMA PartialOfNone ==
    ASSUME NEW f, NEW t, Summable(f, t)
    PROVE  Partial(f)[{}] = 0
<1>1. PICK S : IsFiniteSet(S) /\ f \in [S -> Int]
  BY DEF Summable, Numbers
<1>2. {} \in SUBSET S
  OBVIOUS
<1> QED
  BY <1>1, <1>2, PartialStep

\* ... and integers to an integer, ...
LEMMA PartialIsInt ==
    ASSUME NEW f, NEW t, Summable(f, t)
    PROVE  Partial(f)[t] \in Int
<1>1. PICK S : IsFiniteSet(S) /\ f \in [S -> Int] /\ t \in SUBSET S
  BY DEF Summable, Numbers
<1> QED
  BY <1>1, PartialStep

\* A sum of whole numbers is one.
LEMMA SumIsInt ==
    ASSUME NEW S, NEW f, Numbers(f, S)
    PROVE  SumFunction(f) = Partial(f)[S] /\ SumFunction(f) \in Int
<1>1. DOMAIN f = S /\ S \subseteq S
  BY DEF Numbers
<1>2. SumFunction(f) = Partial(f)[S]
  BY <1>1, SumIsPartial
<1>3. Partial(f)[S] \in Int
  BY <1>1, PartsAreSummable, PartialIsInt
<1> QED
  BY <1>2, <1>3

\* ... also over the whole domain.
LEMMA SumOfNone == ASSUME NEW f, Numbers(f, {}) PROVE SumFunction(f) = 0
<1>1. Summable(f, {})
  BY PartsAreSummable
<1> QED
  BY <1>1, SumIsInt, PartialOfNone

\* Where two functions agree, they add up to the same.
LEMMA PartialsAgree ==
    ASSUME NEW S, NEW f, Numbers(f, S), NEW R, NEW h, Numbers(h, R),
           NEW A, A \subseteq S, A \subseteq R, \A x \in A : f[x] = h[x]
    PROVE  Partial(f)[A] = Partial(h)[A]
<1> DEFINE F == {t \in SUBSET A : Partial(f)[t] = Partial(h)[t]}
<1> HIDE DEF F
<1>1. ASSUME NEW t \in SUBSET A, \A x \in t : t \ {x} \in F
      PROVE  Partial(f)[t] = Partial(h)[t]
  <2>0. Summable(f, t) /\ Summable(h, t)
    BY PartsAreSummable
  <2>1. CASE t = {}
    <3>1. Partial(f)[{}] = 0 /\ Partial(h)[{}] = 0
      BY <2>0, PartialOfNone
    <3> QED
      BY <2>1, <3>1
  <2>2. ASSUME NEW x \in t PROVE Partial(f)[t] = Partial(h)[t]
    <3>2. Partial(f)[t] = f[x] + Partial(f)[t \ {x}]
      BY <2>0, PartialRest
    <3>3. Partial(h)[t] = h[x] + Partial(h)[t \ {x}]
      BY <2>0, PartialRest
    <3>4. Partial(f)[t \ {x}] = Partial(h)[t \ {x}]
      BY <1>1 DEF F
    <3>5. f[x] = h[x]
      OBVIOUS
    <3> QED
      BY <3>2, <3>3, <3>4, <3>5
  <2> QED
    BY <2>1, <2>2
<1>2. \A t \in SUBSET A : (\A x \in t : t \ {x} \in F) => t \in F
  BY <1>1 DEF F
<1>3. IsFiniteSet(A)
  BY FS_Subset DEF Numbers
<1>4. A \in SUBSET A
  OBVIOUS
<1>5. A \in F
  BY <1>2, <1>3, <1>4, SubsetsByInduction
<1> QED
  BY <1>5 DEF F

\* A term apart, and the sum of the rest.
LEMMA SumSplits ==
    ASSUME NEW S, NEW f, Numbers(f, S), NEW x \in S,
           NEW R, R = S \ {x}, NEW h, Numbers(h, R), \A y \in R : f[y] = h[y]
    PROVE  SumFunction(f) = f[x] + SumFunction(h)
<1>1. R \subseteq S /\ R \subseteq R /\ S \in SUBSET S
  OBVIOUS
<1>2. Partial(f)[S] = f[x] + Partial(f)[R]
  BY <1>1, PartsAreSummable, PartialRest
<1>3. SumFunction(h) = Partial(h)[R] /\ SumFunction(f) = Partial(f)[S]
  BY SumIsInt
<1>4. Partial(f)[R] = Partial(h)[R]
  BY <1>1, PartialsAgree
<1> QED
  BY <1>2, <1>3, <1>4

\* Sums that are added term by term.
LEMMA SumAdds ==
    ASSUME NEW S, NEW f, Numbers(f, S), NEW g, Numbers(g, S),
           NEW h, Numbers(h, S), \A x \in S : h[x] = f[x] + g[x]
    PROVE  SumFunction(h) = SumFunction(f) + SumFunction(g)
<1> DEFINE F == {t \in SUBSET S : Partial(h)[t] = Partial(f)[t] + Partial(g)[t]}
<1> HIDE DEF F
<1>1. ASSUME NEW t \in SUBSET S, \A x \in t : t \ {x} \in F
      PROVE  Partial(h)[t] = Partial(f)[t] + Partial(g)[t]
  <2>0. Summable(f, t) /\ Summable(g, t) /\ Summable(h, t)
    BY PartsAreSummable
  <2>1. CASE t = {}
    <3>1. Partial(h)[{}] = 0 /\ Partial(f)[{}] = 0 /\ Partial(g)[{}] = 0
      BY <2>0, PartialOfNone
    <3> QED
      BY <2>1, <3>1
  <2>2. ASSUME NEW x \in t PROVE Partial(h)[t] = Partial(f)[t] + Partial(g)[t]
    <3>1. /\ f[x] \in Int /\ Partial(f)[t \ {x}] \in Int
          /\ Partial(f)[t] = f[x] + Partial(f)[t \ {x}]
      BY <2>0, PartialRest
    <3>2. /\ g[x] \in Int /\ Partial(g)[t \ {x}] \in Int
          /\ Partial(g)[t] = g[x] + Partial(g)[t \ {x}]
      BY <2>0, PartialRest
    <3>3. Partial(h)[t] = h[x] + Partial(h)[t \ {x}]
      BY <2>0, PartialRest
    <3>4. Partial(h)[t \ {x}] = Partial(f)[t \ {x}] + Partial(g)[t \ {x}]
      BY <1>1 DEF F
    <3>5. h[x] = f[x] + g[x]
      OBVIOUS
    <3>6. ASSUME NEW a \in Int, NEW b \in Int, NEW c \in Int, NEW d \in Int
          PROVE  (a + b) + (c + d) = (a + c) + (b + d)
      OBVIOUS
    <3> QED
      BY <3>1, <3>2, <3>3, <3>4, <3>5, <3>6
  <2> QED
    BY <2>1, <2>2
<1>2. \A t \in SUBSET S : (\A x \in t : t \ {x} \in F) => t \in F
  BY <1>1 DEF F
<1>3. S \in SUBSET S /\ IsFiniteSet(S)
  BY DEF Numbers
<1>4. S \in F
  BY <1>2, <1>3, SubsetsByInduction
<1>5. Partial(h)[S] = Partial(f)[S] + Partial(g)[S]
  BY <1>4 DEF F
<1> QED
  BY <1>5, SumIsInt

\* Sums of which each term of one is five times a third from ten times the other's ...
LEMMA SumsAreClose ==
    ASSUME NEW S, NEW f, Numbers(f, S), NEW g, Numbers(g, S), NEW k, Numbers(k, S),
           \A x \in S : /\ g[x] - 5 * k[x] <= 10 * f[x]
                        /\ 10 * f[x] <= g[x] + 5 * k[x]
    PROVE  /\ SumFunction(g) - 5 * SumFunction(k) <= 10 * SumFunction(f)
           /\ 10 * SumFunction(f) <= SumFunction(g) + 5 * SumFunction(k)
<1> DEFINE Close(p, q, n) == q - 5 * n <= 10 * p /\ 10 * p <= q + 5 * n
           F == {t \in SUBSET S : Close(Partial(f)[t], Partial(g)[t], Partial(k)[t])}
<1>1. \A x \in S : Close(f[x], g[x], k[x])
  OBVIOUS
<1>2. Close(0, 0, 0)
  OBVIOUS
<1>3. ASSUME NEW a \in Int, NEW b \in Int, NEW c \in Int,
             NEW p \in Int, NEW q \in Int, NEW n \in Int,
             Close(a, b, c), Close(p, q, n)
      PROVE  Close(a + p, b + q, c + n)
  BY <1>3
<1> HIDE DEF F, Close
<1>4. ASSUME NEW t \in SUBSET S, \A x \in t : t \ {x} \in F
      PROVE  Close(Partial(f)[t], Partial(g)[t], Partial(k)[t])
  <2>0. Summable(f, t) /\ Summable(g, t) /\ Summable(k, t)
    BY PartsAreSummable
  <2>1. CASE t = {}
    <3>1. Partial(f)[{}] = 0 /\ Partial(g)[{}] = 0 /\ Partial(k)[{}] = 0
      BY <2>0, PartialOfNone
    <3> QED
      BY <1>2, <2>1, <3>1
  <2>2. ASSUME NEW x \in t
        PROVE  Close(Partial(f)[t], Partial(g)[t], Partial(k)[t])
    <3>1. /\ f[x] \in Int /\ Partial(f)[t \ {x}] \in Int
          /\ Partial(f)[t] = f[x] + Partial(f)[t \ {x}]
      BY <2>0, PartialRest
    <3>2. /\ g[x] \in Int /\ Partial(g)[t \ {x}] \in Int
          /\ Partial(g)[t] = g[x] + Partial(g)[t \ {x}]
      BY <2>0, PartialRest
    <3>3. /\ k[x] \in Int /\ Partial(k)[t \ {x}] \in Int
          /\ Partial(k)[t] = k[x] + Partial(k)[t \ {x}]
      BY <2>0, PartialRest
    <3>4. Close(Partial(f)[t \ {x}], Partial(g)[t \ {x}], Partial(k)[t \ {x}])
      BY <1>4 DEF F
    <3>5. Close(f[x], g[x], k[x])
      BY <1>1
    <3>6. Close(f[x] + Partial(f)[t \ {x}], g[x] + Partial(g)[t \ {x}],
                k[x] + Partial(k)[t \ {x}])
      BY <1>3, <3>1, <3>2, <3>3, <3>4, <3>5
    <3> QED
      BY <3>1, <3>2, <3>3, <3>6
  <2> QED
    BY <2>1, <2>2
<1>5. \A t \in SUBSET S : (\A x \in t : t \ {x} \in F) => t \in F
  BY <1>4 DEF F
<1>6. S \in SUBSET S /\ IsFiniteSet(S)
  BY DEF Numbers
<1>7. S \in F
  BY <1>5, <1>6, SubsetsByInduction
<1>8. Close(Partial(f)[S], Partial(g)[S], Partial(k)[S])
  BY <1>7 DEF F
<1>9. Close(SumFunction(f), SumFunction(g), SumFunction(k))
  BY <1>8, SumIsInt
<1> QED
  BY <1>9 DEF Close

\* Ones add up to their number, ...
LEMMA SumOfOnes ==
    ASSUME NEW S, NEW f, Numbers(f, S), \A x \in S : f[x] = 1
    PROVE  SumFunction(f) = Cardinality(S)
<1> DEFINE F == {t \in SUBSET S : Partial(f)[t] = Cardinality(t)}
<1> HIDE DEF F
<1>1. ASSUME NEW t \in SUBSET S, \A x \in t : t \ {x} \in F
      PROVE  Partial(f)[t] = Cardinality(t)
  <2>0. Summable(f, t)
    BY PartsAreSummable
  <2>1. CASE t = {}
    <3>1. Partial(f)[{}] = 0 /\ Cardinality({}) = 0
      BY <2>0, PartialOfNone, FS_EmptySet
    <3> QED
      BY <2>1, <3>1
  <2>2. ASSUME NEW x \in t PROVE Partial(f)[t] = Cardinality(t)
    <3>1. Partial(f)[t] = f[x] + Partial(f)[t \ {x}]
      BY <2>0, PartialRest
    <3>2. Partial(f)[t \ {x}] = Cardinality(t \ {x})
      BY <1>1 DEF F
    <3>3. f[x] = 1
      OBVIOUS
    <3>4. IsFiniteSet(t)
      BY FS_Subset DEF Numbers
    <3>5. Cardinality(t) \in Nat /\ Cardinality(t \ {x}) = Cardinality(t) - 1
      BY <3>4, FS_RemoveElement, FS_CardinalityType
    <3> QED
      BY <3>1, <3>2, <3>3, <3>5
  <2> QED
    BY <2>1, <2>2
<1>2. \A t \in SUBSET S : (\A x \in t : t \ {x} \in F) => t \in F
  BY <1>1 DEF F
<1>3. S \in SUBSET S /\ IsFiniteSet(S)
  BY DEF Numbers
<1>4. S \in F
  BY <1>2, <1>3, SubsetsByInduction
<1>5. Partial(f)[S] = Cardinality(S)
  BY <1>4 DEF F
<1> QED
  BY <1>5, SumIsInt

\* ... and where a function is zero it adds nothing.
LEMMA SumOfSome ==
    ASSUME NEW S, NEW f, Numbers(f, S), NEW A, A \subseteq S, NEW g, Numbers(g, A),
           \A x \in S : f[x] = IF x \in A THEN g[x] ELSE 0
    PROVE  SumFunction(f) = SumFunction(g)
<1> DEFINE F == {t \in SUBSET S : Partial(f)[t] = Partial(g)[t \cap A]}
<1> HIDE DEF F
<1>1. ASSUME NEW t \in SUBSET S, \A x \in t : t \ {x} \in F
      PROVE  Partial(f)[t] = Partial(g)[t \cap A]
  <2>0. Summable(f, t) /\ Summable(g, t \cap A)
    <3>1. t \cap A \subseteq A
      OBVIOUS
    <3> QED
      BY <3>1, PartsAreSummable
  <2>1. CASE t = {}
    <3>1. Partial(f)[{}] = 0 /\ Partial(g)[{}] = 0
      BY <2>0, PartialOfNone
    <3>2. t \cap A = {}
      BY <2>1
    <3> QED
      BY <2>1, <3>1, <3>2
  <2>2. ASSUME NEW x \in t PROVE Partial(f)[t] = Partial(g)[t \cap A]
    <3>1. /\ f[x] \in Int /\ Partial(f)[t \ {x}] \in Int
          /\ Partial(f)[t] = f[x] + Partial(f)[t \ {x}]
      BY <2>0, PartialRest
    <3>2. Partial(f)[t \ {x}] = Partial(g)[(t \ {x}) \cap A]
      BY <1>1 DEF F
    <3>3. CASE x \in A
      <4>1. (t \ {x}) \cap A = (t \cap A) \ {x}
        OBVIOUS
      <4>2. x \in t \cap A
        BY <3>3
      <4>3. Partial(g)[t \cap A] = g[x] + Partial(g)[(t \cap A) \ {x}]
        BY <2>0, <4>2, PartialRest
      <4>4. f[x] = g[x]
        BY <3>3
      <4> QED
        BY <3>1, <3>2, <4>1, <4>3, <4>4
    <3>4. CASE x \notin A
      <4>1. (t \ {x}) \cap A = t \cap A
        BY <3>4
      <4>2. f[x] = 0
        BY <3>4
      <4>3. Partial(f)[t] = Partial(f)[t \ {x}]
        BY <3>1, <4>2
      <4> QED
        BY <3>2, <4>1, <4>3
    <3> QED
      BY <3>3, <3>4
  <2> QED
    BY <2>1, <2>2
<1>2. \A t \in SUBSET S : (\A x \in t : t \ {x} \in F) => t \in F
  BY <1>1 DEF F
<1>3. S \in SUBSET S /\ IsFiniteSet(S) /\ S \cap A = A
  BY DEF Numbers
<1>4. S \in F
  BY <1>2, <1>3, SubsetsByInduction
<1>5. Partial(f)[S] = Partial(g)[A]
  BY <1>3, <1>4 DEF F
<1> QED
  BY <1>5, SumIsInt

\* A table's rows, columns and what they add up to.
Table(S, R, row, column, byRow, byColumn) ==
    /\ Numbers(byRow, S) /\ Numbers(byColumn, R)
    /\ \A x \in S : Numbers(row[x], R) /\ byRow[x] = SumFunction(row[x])
    /\ \A y \in R : Numbers(column[y], S) /\ byColumn[y] = SumFunction(column[y])
    /\ \A x \in S, y \in R : row[x][y] = column[y][x]

\* Rows and columns add up to the same.
LEMMA SumsSwap ==
    ASSUME NEW S, NEW R, NEW row, NEW column, NEW byRow, NEW byColumn,
           Table(S, R, row, column, byRow, byColumn)
    PROVE  SumFunction(byRow) = SumFunction(byColumn)
<1> DEFINE upTo(t) == [y \in R |-> Partial(column[y])[t]]
           F == {t \in SUBSET S : Partial(byRow)[t] = SumFunction(upTo(t))}
<1>0. \A x \in S : \A y \in R : row[x][y] = column[y][x]
  BY DEF Table
<1>1. \A x \in S : Numbers(row[x], R)
  BY DEF Table
<1>2. \A y \in R : Numbers(column[y], S) /\ byColumn[y] = SumFunction(column[y])
  BY DEF Table
<1>3. IsFiniteSet(S) /\ IsFiniteSet(R) /\ Numbers(byColumn, R)
  BY DEF Table, Numbers
<1>4. \A t : \A y \in R : upTo(t)[y] = Partial(column[y])[t]
  OBVIOUS
<1>5. Numbers(byRow, S)
  BY DEF Table
<1>6. \A x \in S : byRow[x] = SumFunction(row[x])
  BY DEF Table
<1>7. \A t \in SUBSET S : Numbers(upTo(t), R)
  <2>1. \A t \in SUBSET S : \A y \in R : Partial(column[y])[t] \in Int
    BY <1>2, PartsAreSummable, PartialIsInt
  <2> QED
    BY <1>3, <2>1 DEF Numbers
<1> HIDE DEF upTo, F
<1>8. ASSUME NEW t \in SUBSET S, \A x \in t : t \ {x} \in F
      PROVE  Partial(byRow)[t] = SumFunction(upTo(t))
  <2>0. Summable(byRow, t) /\ \A y \in R : Summable(column[y], t)
    BY <1>2, <1>5, PartsAreSummable
  <2>1. CASE t = {}
    <3>1. Partial(byRow)[{}] = 0
      BY <2>0, PartialOfNone
    <3>2. {} \in SUBSET S
      OBVIOUS
    <3>3. \A y \in R : upTo({})[y] = IF y \in {} THEN 1 ELSE 0
      BY <1>4, <2>0, PartialOfNone
    <3>4. Numbers(<<>>, {})
      BY FS_EmptySet DEF Numbers
    <3>5. SumFunction(upTo({})) = SumFunction(<<>>)
      <4>1. \A y \in R : upTo({})[y] = IF y \in {} THEN <<>>[y] ELSE 0
        BY <3>3
      <4>2. {} \subseteq R
        OBVIOUS
      <4> QED
        BY <1>7, <3>2, <3>4, <4>1, <4>2, SumOfSome
    <3> QED
      BY <2>1, <3>1, <3>4, <3>5, SumOfNone
  <2>2. ASSUME NEW x \in t PROVE Partial(byRow)[t] = SumFunction(upTo(t))
    <3>1. t \ {x} \in SUBSET S /\ x \in S
      OBVIOUS
    <3>2. Partial(byRow)[t] = SumFunction(row[x]) + Partial(byRow)[t \ {x}]
      <4>1. Summable(byRow, t)
        BY <2>0
      <4>2. Partial(byRow)[t] = byRow[x] + Partial(byRow)[t \ {x}]
        BY <4>1, PartialRest
      <4> QED
        BY <1>6, <3>1, <4>2
    <3>3. Partial(byRow)[t \ {x}] = SumFunction(upTo(t \ {x}))
      BY <1>8 DEF F
    <3>4. \A y \in R : upTo(t)[y] = row[x][y] + upTo(t \ {x})[y]
      <4> SUFFICES ASSUME NEW y \in R PROVE upTo(t)[y] = row[x][y] + upTo(t \ {x})[y]
        OBVIOUS
      <4>1. Summable(column[y], t)
        BY <2>0
      <4> DEFINE c == column[y]
      <4>2. Summable(c, t)
        BY <4>1
      <4> HIDE DEF c
      <4>3. Partial(c)[t] = c[x] + Partial(c)[t \ {x}]
        BY <4>2, PartialRest
      <4>4. row[x][y] = c[x]
        BY <1>0, <3>1 DEF c
      <4> QED
        BY <1>4, <4>3, <4>4 DEF c
    <3>5. SumFunction(upTo(t)) = SumFunction(row[x]) + SumFunction(upTo(t \ {x}))
      <4>1. /\ Numbers(upTo(t), R) /\ Numbers(upTo(t \ {x}), R)
            /\ Numbers(row[x], R)
        BY <1>1, <1>7, <3>1
      <4> DEFINE u == upTo(t)
                 v == row[x]
                 w == upTo(t \ {x})
      <4>2. Numbers(u, R) /\ Numbers(v, R) /\ Numbers(w, R)
        BY <4>1
      <4>3. \A y \in R : u[y] = v[y] + w[y]
        BY <3>4
      <4> HIDE DEF u, v, w
      <4>4. SumFunction(u) = SumFunction(v) + SumFunction(w)
        BY <4>2, <4>3, SumAdds
      <4> QED
        BY <4>4 DEF u, v, w
    <3> QED
      BY <3>2, <3>3, <3>5
  <2> QED
    BY <2>1, <2>2
<1>9. \A t \in SUBSET S : (\A x \in t : t \ {x} \in F) => t \in F
  BY <1>8 DEF F
<1>10. S \in SUBSET S
  OBVIOUS
<1>11. S \in F
  <2>1. \A t \in SUBSET S : t \in F
    BY <1>3, <1>9, SubsetsByInduction
  <2> QED
    BY <1>10, <2>1
<1>12. SumFunction(byRow) = SumFunction(upTo(S))
  <2>1. Partial(byRow)[S] = SumFunction(upTo(S))
    BY <1>11 DEF F
  <2> QED
    BY <1>5, <2>1, SumIsInt
<1>13. \A y \in R : SumFunction(column[y]) = Partial(column[y])[S]
  BY <1>2, SumIsInt
<1>14. upTo(S) = byColumn
  <2>1. Numbers(upTo(S), R)
    BY <1>7, <1>10
  <2>2. \A y \in R : upTo(S)[y] = byColumn[y]
    BY <1>2, <1>4, <1>13
  <2> QED
    BY <1>3, <2>1, <2>2 DEF Numbers
<1> QED
  BY <1>12, <1>14

-----------------------------------------------------------------------------
(* CostAnomalies.                                                          *)

AlertRows == [expires : Nat, detector : Detectors, readable : BOOLEAN]

FeedEntries == [signature : Signatures, suppressed : BOOLEAN]

Feeds ==
    [pc : {"idle", "detect", "done"}, filter : Detectors \cup {None},
     active : SUBSET Signatures, at : Nat, found : SUBSET Signatures,
     list : SUBSET FeedEntries, code : Nat]

AnomalyTypeOK ==
    /\ clock \in Nat
    /\ alerts \in [Signatures -> AlertRows \cup {None}]
    /\ feed \in Feeds

\* What the request took for active had not expired when it read the table, ...
ActiveWereAlive ==
    /\ feed.at <= clock
    /\ \A s \in feed.active : alerts[s] # None => alerts[s].expires > feed.at

\* ... and only that and what CE found gets into the list.
ListIsBacked ==
    /\ feed.pc = "detect" => feed.list = {}
    /\ \A a \in feed.list :
         a.signature \notin feed.found => a.signature \in feed.active /\ ~a.suppressed

AnomalyInv == AnomalyTypeOK /\ ActiveWereAlive /\ ListIsBacked

\* At first there is neither alert nor request.
LEMMA InitEstablishesAnomalyInv == Anomalies!Init => AnomalyInv
BY DEF Anomalies!Init, Anomalies!Idle, AnomalyInv, AnomalyTypeOK, ActiveWereAlive,
       ListIsBacked, Feeds

\* The request that is answered from the table.
LEMMA AskKeepsAnomalyInv ==
    ASSUME AnomalyInv, NEW f \in Detectors \cup {None}, NEW activeOnly \in BOOLEAN,
           Anomalies!Ask(f, activeOnly)
    PROVE  AnomalyInv'
<1> DEFINE active == Anomalies!Active(f)
<1> USE DEF AnomalyInv, AnomalyTypeOK, Feeds
<1>1. active \subseteq Signatures
  BY DEF Anomalies!Active
<1>2. /\ feed' = [pc |-> IF activeOnly THEN "done" ELSE "detect",
                  filter |-> f, active |-> active, at |-> clock, found |-> {},
                  list |-> IF activeOnly
                           THEN {[signature |-> s, suppressed |-> FALSE] : s \in active}
                           ELSE {},
                  code |-> IF activeOnly THEN 200 ELSE 0]
      /\ UNCHANGED <<clock, alerts>>
  BY DEF Anomalies!Ask, Anomalies!tables
<1> HIDE DEF active
<1>3. AnomalyTypeOK'
  <2> DEFINE listed == {[signature |-> s, suppressed |-> FALSE] : s \in active}
  <2>1. listed \in SUBSET FeedEntries
    <3>1. \A s \in Signatures : [signature |-> s, suppressed |-> FALSE] \in FeedEntries
      BY DEF FeedEntries
    <3> QED
      BY <1>1, <3>1
  <2>2. /\ (IF activeOnly THEN "done" ELSE "detect") \in {"idle", "detect", "done"}
        /\ (IF activeOnly THEN 200 ELSE 0) \in Nat
        /\ (IF activeOnly THEN listed ELSE {}) \in SUBSET FeedEntries
    BY <2>1
  <2> QED
    BY <1>1, <1>2, <2>2
<1>4. ActiveWereAlive'
  BY <1>2
     DEF active, ActiveWereAlive, Anomalies!Active, Anomalies!IsActive, Anomalies!Alive, AlertRows
<1>5. ListIsBacked'
  BY <1>2 DEF ListIsBacked
<1> QED
  BY <1>3, <1>4, <1>5

\* The end of the await: what CE found beside what the table had.
LEMMA DetectedKeepsAnomalyInv == AnomalyInv /\ Anomalies!Detected => AnomalyInv'
<1> SUFFICES ASSUME AnomalyInv, Anomalies!Detected PROVE AnomalyInv'
  OBVIOUS
<1> DEFINE fresh == {s \in Anomalies!Fresh : feed.filter \in {None, anomalies[s].detector}}
<1> USE DEF AnomalyInv, AnomalyTypeOK
<1>c. feed \in Feeds
  OBVIOUS
<1>1. fresh \subseteq Signatures
  BY DEF Anomalies!Fresh
<1>2. /\ feed' = [feed EXCEPT !.pc = "done", !.code = 200, !.found = fresh,
             !.list = {[signature |-> s, suppressed |-> s \in feed.active \cap fresh] :
                         s \in feed.active \cup fresh}]
      /\ UNCHANGED <<clock, alerts>>
  BY DEF Anomalies!Detected, Anomalies!tables
<1> HIDE DEF fresh
<1> DEFINE both == feed.active \cap fresh
           Entry(s) == [signature |-> s, suppressed |-> s \in both]
           list == {Entry(s) : s \in feed.active \cup fresh}
<1>a. ASSUME NEW s \in Signatures
      PROVE  \/ s \in both /\ Entry(s) = [signature |-> s, suppressed |-> TRUE]
             \/ s \notin both /\ Entry(s) = [signature |-> s, suppressed |-> FALSE]
  <2>1. CASE s \in both
    <3>1. (s \in both) = TRUE
      BY <2>1
    <3> QED
      BY <3>1, Zenon
  <2>2. CASE s \notin both
    <3>1. (s \in both) = FALSE
      BY <2>2
    <3> QED
      BY <3>1, Zenon
  <2> QED
    BY <2>1, <2>2
<1>b. feed.active \cup fresh \subseteq Signatures /\ both \subseteq fresh
  BY <1>1, <1>c DEF Feeds
<1> HIDE DEF both, Entry
<1>3. list \in SUBSET FeedEntries
  <2>1. \A s \in Signatures : Entry(s) \in FeedEntries
    <3>1. \A s \in Signatures :
            /\ [signature |-> s, suppressed |-> FALSE] \in FeedEntries
            /\ [signature |-> s, suppressed |-> TRUE] \in FeedEntries
      BY DEF FeedEntries
    <3>2. SUFFICES ASSUME NEW s \in Signatures PROVE Entry(s) \in FeedEntries
      OBVIOUS
    <3>3. CASE s \in both
      BY <1>a, <3>1, <3>3
    <3>4. CASE s \notin both
      BY <1>a, <3>1, <3>4
    <3> QED
      BY <3>3, <3>4
  <2> QED
    BY <1>b, <2>1
<1>4. \A e \in list : e.signature \notin fresh => e.signature \in feed.active /\ ~e.suppressed
  BY <1>a, <1>b
<1>6. feed' = [feed EXCEPT !.pc = "done", !.code = 200, !.found = fresh, !.list = list]
  BY <1>2 DEF Entry, both
<1> HIDE DEF list
<1>7. AnomalyTypeOK'
  <2>1. [feed EXCEPT !.pc = "done", !.code = 200, !.found = fresh, !.list = list] \in Feeds
    BY <1>1, <1>3, <1>c DEF Feeds
  <2> QED
    BY <1>2, <1>6, <2>1
<1>8. ActiveWereAlive'
  BY <1>2, <1>6 DEF ActiveWereAlive
<1>9. ListIsBacked'
  BY <1>4, <1>6 DEF ListIsBacked
<1> QED
  BY <1>7, <1>8, <1>9

\* A request that CE refuses lists nothing.
LEMMA FailureKeepsAnomalyInv == AnomalyInv /\ Anomalies!DetectFails => AnomalyInv'
<1> SUFFICES ASSUME AnomalyInv, Anomalies!DetectFails PROVE AnomalyInv'
  OBVIOUS
<1>1. feed.pc = "detect" /\ UNCHANGED <<clock, alerts>>
  BY DEF Anomalies!DetectFails, Anomalies!tables
<1>2. PICK code \in Nat : feed' = [feed EXCEPT !.pc = "done", !.code = code]
  <2>1. PICK c \in {502, 503} : feed' = [feed EXCEPT !.pc = "done", !.code = c]
    BY Zenon DEF Anomalies!DetectFails
  <2>2. c \in Nat
    OBVIOUS
  <2> QED
    BY <2>1, <2>2, Zenon
<1>3. AnomalyTypeOK'
  <2>1. feed \in Feeds
    BY DEF AnomalyInv, AnomalyTypeOK
  <2>3. [feed EXCEPT !.pc = "done", !.code = code] \in Feeds
    BY <2>1 DEF Feeds
  <2> QED
    BY <1>1, <1>2, <2>3 DEF AnomalyInv, AnomalyTypeOK
<1>4. /\ feed'.list = {} /\ feed'.active = feed.active /\ feed'.at = feed.at
      /\ feed'.pc = "done"
  BY <1>1, <1>2 DEF AnomalyInv, AnomalyTypeOK, Feeds, ListIsBacked
<1>5. ActiveWereAlive' /\ ListIsBacked'
  BY <1>1, <1>4 DEF AnomalyInv, ActiveWereAlive, ListIsBacked
<1> QED
  BY <1>3, <1>5 DEF AnomalyInv

\* A row that is put anew expires after the read.
LEMMA NextKeepsAnomalyInv == AnomalyInv /\ [Anomalies!Next]_anomalyVars => AnomalyInv'
<1> SUFFICES ASSUME AnomalyInv, [Anomalies!Next]_anomalyVars PROVE AnomalyInv'
  OBVIOUS
<1> USE DEF AnomalyInv, AnomalyTypeOK, Feeds, ActiveWereAlive, ListIsBacked, AlertRows,
            Anomalies!tables
<1>1. CASE Anomalies!Tick
  BY <1>1 DEF Anomalies!Tick
<1>2. ASSUME NEW s \in Signatures, NEW d \in Detectors, NEW readable \in BOOLEAN,
             Anomalies!Put(s, d, readable)
      PROVE  AnomalyInv'
  BY <1>2, QuietLasts DEF Anomalies!Put
<1>3. ASSUME NEW s \in Signatures, NEW d \in Detectors, NEW deviation \in Deviations,
             Anomalies!Detect(s, d, deviation)
      PROVE  AnomalyInv'
  BY <1>3 DEF Anomalies!Detect
<1>4. ASSUME NEW s \in Signatures, Anomalies!Sweep(s) PROVE AnomalyInv'
  BY <1>4 DEF Anomalies!Sweep
<1>5. ASSUME NEW f \in Detectors \cup {None}, NEW activeOnly \in BOOLEAN,
             Anomalies!Ask(f, activeOnly)
      PROVE  AnomalyInv'
  BY <1>5, AskKeepsAnomalyInv
<1>6. CASE Anomalies!Detected
  BY <1>6, DetectedKeepsAnomalyInv
<1>7. CASE Anomalies!DetectFails
  BY <1>7, FailureKeepsAnomalyInv
<1>8. CASE Anomalies!Again
  <2>1. Anomalies!Idle.list \in SUBSET FeedEntries
    BY DEF Anomalies!Idle
  <2> QED
    BY <1>8, <2>1 DEF Anomalies!Again, Anomalies!Idle
<1>9. CASE UNCHANGED anomalyVars
  BY <1>9 DEF anomalyVars
<1> QED
  BY <1>1, <1>2, <1>3, <1>4, <1>5, <1>6, <1>7, <1>8, <1>9 DEF Anomalies!Next

\* The invariant gives the property.
LEMMA AnomalyInvShowsNoDead == AnomalyInv => NoDeadAlerts
BY DEF AnomalyInv, ActiveWereAlive, ListIsBacked, NoDeadAlerts, Anomalies!NoDeadAlerts

-----------------------------------------------------------------------------
(* Access.                                                                 *)

AccessTokens == [kid : Kids \cup {None}, iat : Nat, admin : BOOLEAN, stepUp : BOOLEAN]

BearerStates ==
    [pc : {"idle", "fetching", "served", "done"}, service : Gates \cup {None},
     token : AccessTokens \cup {None}, doc : SUBSET Kids, last : BOOLEAN, since : Nat,
     steady : BOOLEAN, code : Nat, keyLag : Int, roleLag : Int, keyMissed : BOOLEAN]

AccessTypeOK ==
    /\ time \in Nat
    /\ published \subseteq Kids
    /\ keyUntil \in [Kids -> Nat \cup {None}]
    /\ admin \in BOOLEAN /\ adminUntil \in Nat
    /\ keys \in [keys : SUBSET Kids, expires : Nat]
    /\ bearers \in [Bearers -> BearerStates]

\* What is published, and who is admin, is so now.
HistoryIsKept ==
    /\ \A k \in published : keyUntil[k] = time
    /\ admin => adminUntil = time

\* The cached document is not older than the fetch that brought it, ...
CacheIsRecent ==
    \A k \in keys.keys : keyUntil[k] # None /\ keys.expires <= keyUntil[k] + Ttl + MaxFetch

\* ... nor is the one that a request brings; it has the key of a request whose key
\* was published all along, and a token that says admin was signed while its user was.
IsInTime(b) ==
    /\ b.token \in AccessTokens
    /\ b.since <= time /\ time <= b.since + MaxFetch
    /\ b.steady => b.token.kid \in published
    /\ b.token.admin => b.token.iat <= adminUntil
    /\ b.pc = "served" =>
         /\ \A k \in b.doc : keyUntil[k] # None /\ b.since <= keyUntil[k]
         /\ b.steady => b.token.kid \in b.doc

\* Nobody has been let in too late, or refused for a key that was there.
IsInOrder(b) == b.keyLag < Ttl + MaxFetch /\ b.roleLag < Life /\ ~b.keyMissed

AccessInv ==
    /\ AccessTypeOK /\ HistoryIsKept /\ CacheIsRecent
    /\ \A q \in Bearers :
         IsInOrder(bearers[q]) /\ (Gate!Waiting(q) => IsInTime(bearers[q]))

\* At first nobody has asked.
LEMMA InitEstablishesAccessInv == Gate!Init => AccessInv
<1> SUFFICES ASSUME Gate!Init PROVE AccessInv
  OBVIOUS
<1> USE AccessAssumption, NoneIsNoNumber DEF Gate!Init, Gate!Idle
<1>1. AccessTypeOK
  BY DEF AccessTypeOK, BearerStates, Gate!NoCache
<1>2. HistoryIsKept /\ CacheIsRecent
  BY DEF HistoryIsKept, CacheIsRecent, Gate!NoCache
<1>3. \A q \in Bearers : IsInOrder(bearers[q]) /\ ~Gate!Waiting(q)
  BY DEF IsInOrder, Gate!Waiting
<1> QED
  BY <1>1, <1>2, <1>3 DEF AccessInv

\* What a request may be told, given what it shows: an answer of 200 needs a
\* key published not long ago and, for an admin route, a role not given up long ago; an
\* answer of 401 needs a token that has expired or a key that is not there.
MayBeTold(r, code) ==
    /\ code = 200 /\ r.token.kid # None =>
         keyUntil[r.token.kid] \in Nat /\ time - keyUntil[r.token.kid] < Ttl + MaxFetch
    /\ code = 200 /\ r.service \in Gate!AdminServices => time - adminUntil < Life
    /\ code = 401 /\ r.steady => r.token.iat + Life <= time

\* Such an answer is in order.
LEMMA AnswersAreInOrder ==
    ASSUME NEW r, r.token \in AccessTokens, NEW code \in Nat, MayBeTold(r, code),
           time \in Nat, adminUntil \in Nat
    PROVE  LET reply == Gate!Answered(r, code)
           IN  reply \in BearerStates /\ reply.pc = "done" /\ IsInOrder(reply)
<1> USE AccessAssumption, NoneIsNoNumber DEF MayBeTold
<1> DEFINE keyLag == IF code = 200 /\ r.token.kid # None
                     THEN time - keyUntil[r.token.kid] ELSE 0
           roleLag == IF code = 200 /\ r.service \in Gate!AdminServices
                      THEN time - adminUntil ELSE 0
           missed == code = 401 /\ r.steady /\ time < r.token.iat + Life
           reply == [pc |-> "done", service |-> None, token |-> None, doc |-> {},
                     last |-> FALSE, since |-> 0, steady |-> TRUE, code |-> code,
                     keyLag |-> keyLag, roleLag |-> roleLag, keyMissed |-> missed]
<1>1. keyLag \in Int /\ keyLag < Ttl + MaxFetch
  OBVIOUS
<1>2. roleLag \in Int /\ roleLag < Life
  OBVIOUS
<1>3. missed = FALSE
  BY DEF AccessTokens
<1>4. Gate!Answered(r, code) =
        [Gate!Idle EXCEPT !.pc = "done", !.code = code, !.keyLag = keyLag,
                          !.roleLag = roleLag, !.keyMissed = missed]
  BY Zenon DEF Gate!Answered
<1> HIDE DEF keyLag, roleLag, missed
<1>6. Gate!Answered(r, code) = reply
  BY <1>4 DEF Gate!Idle
<1>5. reply \in BearerStates
  BY <1>1, <1>2, <1>3 DEF BearerStates
<1> QED
  BY <1>1, <1>2, <1>3, <1>5, <1>6 DEF IsInOrder

\* The gates let in who is in time, and admins only where it says so.
LEMMA GatesAreFair ==
    ASSUME NEW service, NEW t \in AccessTokens, time \in Nat
    PROVE  LET code == Gate!Gate(service, t)
           IN  /\ code \in {200, 401, 403}
               /\ code = 401 => t.iat + Life <= time
               /\ code = 200 => t.iat + Life > time
               /\ code = 200 /\ service \in Gate!AdminServices => t.admin
<1> USE AccessAssumption, NoneIsNoNumber
    DEF Gate!Gate, Gate!Unexpired, Gate!RequireAdmin, Gate!RequireStepUp, Gate!AdminServices
<1>1. t.iat + Life \in Nat
  BY DEF AccessTokens
<1>2. CASE t.iat + Life <= time
  BY <1>2
<1>3. CASE t.iat + Life > time
  <2>1. ~(t.iat + Life <= time)
    BY <1>1, <1>3
  <2>2. CASE service \in {"cost-api", "health-aggregator"}
    BY <1>3, <2>1, <2>2
  <2>3. CASE service = "admin-api"
    BY <1>3, <2>1, <2>3
  <2>4. CASE service \notin {"cost-api", "health-aggregator", "admin-api"}
    BY <1>3, <2>1, <2>4
  <2> QED
    BY <2>2, <2>3, <2>4
<1> QED
  BY <1>1, <1>2, <1>3

\* So a request may be told what the gate says if its key and its role are recent.
LEMMA VerdictsMayBeTold ==
    ASSUME NEW r, r.token \in AccessTokens, AccessTypeOK,
           r.token.kid # None =>
             keyUntil[r.token.kid] \in Nat
               /\ time - keyUntil[r.token.kid] < Ttl + MaxFetch,
           r.token.admin => r.token.iat <= adminUntil
    PROVE  LET code == Gate!Gate(r.service, r.token)
           IN  code \in Nat /\ MayBeTold(r, code)
<1> DEFINE code == Gate!Gate(r.service, r.token)
<1>1. /\ code \in {200, 401, 403}
      /\ code = 401 => r.token.iat + Life <= time
      /\ code = 200 => r.token.iat + Life > time
      /\ code = 200 /\ r.service \in Gate!AdminServices => r.token.admin
  BY GatesAreFair DEF AccessTypeOK
<1> HIDE DEF code
<1>2. time \in Nat /\ adminUntil \in Nat /\ r.token.iat \in Nat
  BY DEF AccessTypeOK, AccessTokens
<1>3. code \in Nat
  BY <1>1
<1>4. MayBeTold(r, code)
  BY <1>1, <1>2, AccessAssumption, NoneIsNoNumber DEF MayBeTold
<1> QED
  BY <1>3, <1>4 DEF code

\* One request goes on, and with it maybe the cache.
LEMMA BearerGoesOn ==
    ASSUME AccessInv, NEW q \in Bearers, NEW b \in BearerStates,
           bearers' = [bearers EXCEPT ![q] = b],
           UNCHANGED <<time, published, keyUntil, admin, adminUntil>>,
           IsInOrder(b), b.pc \in {"fetching", "served"} => IsInTime(b),
           keys' \in [keys : SUBSET Kids, expires : Nat], CacheIsRecent'
    PROVE  AccessInv'
<1>1. AccessTypeOK'
  BY DEF AccessInv, AccessTypeOK
<1>2. HistoryIsKept'
  BY DEF AccessInv, HistoryIsKept
<1>3. ASSUME NEW p \in Bearers
      PROVE  (IsInOrder(bearers[p]) /\ (Gate!Waiting(p) => IsInTime(bearers[p])))'
  BY DEF AccessInv, AccessTypeOK, Gate!Waiting, IsInOrder, IsInTime
<1> QED
  BY <1>1, <1>2, <1>3 DEF AccessInv

\* Time passes: what is published is so for longer, and nobody waits too long.
LEMMA TickKeepsAccessInv == AccessInv /\ Gate!Tick => AccessInv'
<1> SUFFICES ASSUME AccessInv, Gate!Tick PROVE AccessInv'
  OBVIOUS
<1>1. /\ time' = time + 1
      /\ \A q \in Bearers : Gate!Waiting(q) => time < bearers[q].since + MaxFetch
      /\ keyUntil' = [k \in Kids |-> IF k \in published THEN time + 1 ELSE keyUntil[k]]
      /\ adminUntil' = IF admin THEN time + 1 ELSE adminUntil
      /\ UNCHANGED <<published, admin, keys, bearers>>
  BY DEF Gate!Tick
<1>2. AccessTypeOK'
  BY <1>1 DEF AccessInv, AccessTypeOK
<1>3. HistoryIsKept'
  BY <1>1 DEF AccessInv, AccessTypeOK, HistoryIsKept
<1>4. \A k \in Kids : keyUntil[k] # None =>
        keyUntil[k] \in Nat /\ keyUntil'[k] \in Nat /\ keyUntil'[k] >= keyUntil[k]
  BY <1>1 DEF AccessInv, AccessTypeOK, HistoryIsKept
<1>5. adminUntil' >= adminUntil /\ adminUntil \in Nat /\ adminUntil' \in Nat
  BY <1>1 DEF AccessInv, AccessTypeOK, HistoryIsKept
<1>6. CacheIsRecent'
  BY <1>1, <1>4, AccessAssumption, NoneIsNoNumber DEF AccessInv, AccessTypeOK, CacheIsRecent
<1>7. ASSUME NEW q \in Bearers
      PROVE  (IsInOrder(bearers[q]) /\ (Gate!Waiting(q) => IsInTime(bearers[q])))'
  <2>1. IsInOrder(bearers[q])'
    BY <1>1 DEF AccessInv, IsInOrder
  <2>2. ASSUME Gate!Waiting(q)' PROVE IsInTime(bearers[q])'
    <3>1. Gate!Waiting(q) /\ IsInTime(bearers[q])
      BY <1>1, <2>2 DEF AccessInv, Gate!Waiting
    <3>2. /\ bearers'[q] = bearers[q] /\ bearers[q].since \in Nat /\ bearers[q].doc \subseteq Kids
          /\ bearers[q].token \in AccessTokens /\ bearers[q].token.iat \in Nat
      BY <1>1, <3>1 DEF AccessInv, AccessTypeOK, BearerStates, IsInTime, AccessTokens
    <3> QED
      BY <1>1, <1>4, <1>5, <3>1, <3>2, AccessAssumption, NoneIsNoNumber
         DEF AccessInv, AccessTypeOK, IsInTime
  <2> QED
    BY <2>1, <2>2
<1> QED
  BY <1>2, <1>3, <1>6, <1>7 DEF AccessInv

\* Keys come and go; a request whose key goes is not steady any more.
LEMMA PublishKeepsAccessInv ==
    ASSUME AccessInv, NEW k \in Kids, Gate!Publish(k)
    PROVE  AccessInv'
<1>1. /\ keyUntil[k] = None
      /\ published' = published \cup {k}
      /\ keyUntil' = [keyUntil EXCEPT ![k] = time]
      /\ UNCHANGED <<time, admin, adminUntil, keys, bearers>>
  BY DEF Gate!Publish
<1>2. AccessTypeOK' /\ HistoryIsKept'
  BY <1>1 DEF AccessInv, AccessTypeOK, HistoryIsKept
<1>3. CacheIsRecent'
  BY <1>1 DEF AccessInv, AccessTypeOK, CacheIsRecent
<1>4. ASSUME NEW q \in Bearers
      PROVE  (IsInOrder(bearers[q]) /\ (Gate!Waiting(q) => IsInTime(bearers[q])))'
  BY <1>1 DEF AccessInv, AccessTypeOK, BearerStates, Gate!Waiting, IsInOrder, IsInTime
<1> QED
  BY <1>2, <1>3, <1>4 DEF AccessInv

\* Requests that wait for a withdrawn key are no longer steady.
LEMMA WithdrawKeepsAccessInv ==
    ASSUME AccessInv, NEW k \in Kids, Gate!Withdraw(k)
    PROVE  AccessInv'
<1>1. /\ published' = published \ {k}
      /\ bearers' = [q \in Bearers |->
                       IF Gate!Waiting(q) /\ bearers[q].token.kid = k
                       THEN [bearers[q] EXCEPT !.steady = FALSE] ELSE bearers[q]]
      /\ UNCHANGED <<time, keyUntil, admin, adminUntil, keys>>
  BY DEF Gate!Withdraw
<1>2. HistoryIsKept' /\ CacheIsRecent'
  BY <1>1 DEF AccessInv, AccessTypeOK, HistoryIsKept, CacheIsRecent
<1>3. ASSUME NEW q \in Bearers
      PROVE  /\ bearers'[q] \in BearerStates
             /\ (IsInOrder(bearers[q]) /\ (Gate!Waiting(q) => IsInTime(bearers[q])))'
  <2>1. bearers[q] \in BearerStates
    BY DEF AccessInv, AccessTypeOK
  <2>2. CASE Gate!Waiting(q) /\ bearers[q].token.kid = k
    <3>1. bearers'[q] = [bearers[q] EXCEPT !.steady = FALSE]
      BY <1>1, <2>2
    <3>2. bearers'[q] \in BearerStates
      BY <2>1, <3>1 DEF BearerStates
    <3>3. /\ bearers'[q].steady = FALSE /\ bearers'[q].pc = bearers[q].pc
          /\ bearers'[q].token = bearers[q].token /\ bearers'[q].since = bearers[q].since
          /\ bearers'[q].doc = bearers[q].doc /\ bearers'[q].keyLag = bearers[q].keyLag
          /\ bearers'[q].roleLag = bearers[q].roleLag
          /\ bearers'[q].keyMissed = bearers[q].keyMissed
      BY <2>1, <3>1 DEF BearerStates
    <3> QED
      BY <1>1, <2>2, <3>2, <3>3 DEF AccessInv, IsInOrder, IsInTime
  <2>3. CASE ~(Gate!Waiting(q) /\ bearers[q].token.kid = k)
    <3>1. bearers'[q] = bearers[q]
      BY <1>1, <2>3
    <3> QED
      BY <1>1, <2>1, <2>3, <3>1 DEF AccessInv, IsInOrder, IsInTime, Gate!Waiting
  <2> QED
    BY <2>2, <2>3
<1>4. AccessTypeOK'
  BY <1>1, <1>3 DEF AccessInv, AccessTypeOK
<1> QED
  BY <1>2, <1>3, <1>4 DEF AccessInv

\* A request that has been answered.
LEMMA AnswerKeepsAccessInv ==
    ASSUME AccessInv, NEW q \in Bearers, NEW r, r.token \in AccessTokens,
           NEW code \in Nat, MayBeTold(r, code),
           bearers' = [bearers EXCEPT ![q] = Gate!Answered(r, code)],
           UNCHANGED <<time, published, keyUntil, admin, adminUntil>>,
           keys' \in [keys : SUBSET Kids, expires : Nat], CacheIsRecent'
    PROVE  AccessInv'
<1> DEFINE b == Gate!Answered(r, code)
<1>1. b \in BearerStates /\ b.pc = "done" /\ IsInOrder(b)
  BY AnswersAreInOrder DEF AccessInv, AccessTypeOK
<1>2. bearers' = [bearers EXCEPT ![q] = b]
  OBVIOUS
<1> HIDE DEF b
<1> QED
  BY <1>1, <1>2, BearerGoesOn

\* A request as it comes, and as it waits.
Arrived(service, token, steady) ==
    [pc |-> "idle", service |-> service, token |-> token, doc |-> {}, last |-> FALSE,
     since |-> 0, steady |-> steady, code |-> 0, keyLag |-> 0, roleLag |-> 0,
     keyMissed |-> FALSE]

Sent(service, token, steady, last) ==
    [pc |-> "fetching", service |-> service, token |-> token, doc |-> {}, last |-> last,
     since |-> time, steady |-> steady, code |-> 0, keyLag |-> 0, roleLag |-> 0,
     keyMissed |-> FALSE]

\* A request that arrives, as a record, ...
LEMMA RequestsArrive ==
    ASSUME NEW service, NEW token, NEW steady, NEW r,
           r = [Gate!Idle EXCEPT !.service = service, !.token = token, !.steady = steady]
    PROVE  r = Arrived(service, token, steady)
BY DEF Gate!Idle, Arrived

\* ... and its fetch.
LEMMA RequestsAreSent ==
    ASSUME NEW service, NEW token, NEW steady, NEW last, NEW r, NEW b,
           r = Arrived(service, token, steady), b = Gate!Fetching(r, last)
    PROVE  b = Sent(service, token, steady, last)
BY DEF Gate!Fetching, Arrived, Sent

\* A request that comes is answered from the cache, or its key is fetched.
LEMMA ArriveKeepsAccessInv ==
    ASSUME AccessInv, NEW q \in Bearers, NEW service \in Gates, NEW token \in Gate!Tokens,
           Gate!Arrive(q, service, token)
    PROVE  AccessInv'
<1> DEFINE steady == token.kid \in published /\ service # "session-manager"
           r == [Gate!Idle EXCEPT !.service = service, !.token = token, !.steady = steady]
<1>1. /\ bearers' = [bearers EXCEPT ![q] = IF service = "session-manager"
                       THEN Gate!SharedSecret(r) ELSE Gate!Lookup(r)]
      /\ UNCHANGED <<time, published, keyUntil, admin, adminUntil, keys>>
  BY DEF Gate!Arrive, Gate!Unchanged, Gate!authVars
<1>2. /\ token \in AccessTokens
      /\ token.admin => token.iat <= adminUntil
  <2>1. PICK kid \in {k \in Kids : keyUntil[k] # None} \cup {None}, t \in 0 .. time,
             mfa \in BOOLEAN :
          token = [kid |-> kid, iat |-> t, admin |-> admin \/ t <= adminUntil,
                   stepUp |-> mfa]
    BY DEF Gate!Tokens
  <2> DEFINE isAdmin == admin \/ t <= adminUntil
  <2>2. isAdmin \in BOOLEAN /\ (isAdmin => t <= adminUntil)
    BY DEF AccessInv, AccessTypeOK, HistoryIsKept
  <2>3. token = [kid |-> kid, iat |-> t, admin |-> isAdmin, stepUp |-> mfa]
    BY <2>1
  <2> HIDE DEF isAdmin
  <2>4. kid \in Kids \cup {None} /\ t \in Nat
    BY DEF AccessInv, AccessTypeOK
  <2> QED
    BY <2>2, <2>3, <2>4 DEF AccessTokens
<1>3. steady \in BOOLEAN /\ (steady => token.kid \in published /\ service # "session-manager")
  OBVIOUS
<1> HIDE DEF steady
<1>4. r = Arrived(service, token, steady)
  BY RequestsArrive
<1>5. r.token = token /\ r.service = service /\ r.steady = steady
  BY <1>4 DEF Arrived
<1> HIDE DEF r
<1>6. token.iat \in Nat /\ keys' \in [keys : SUBSET Kids, expires : Nat] /\ CacheIsRecent'
  BY <1>1, <1>2 DEF AccessInv, AccessTypeOK, AccessTokens, CacheIsRecent
<1>7. ASSUME token.kid = None \/ service = "session-manager",
             bearers' = [bearers EXCEPT ![q] = Gate!Answered(r, 401)]
      PROVE  AccessInv'
  <2>1. ~steady
    BY <1>3, <1>7, AccessAssumption, NoneIsNoNumber DEF AccessInv, AccessTypeOK
  <2>2. MayBeTold(r, 401)
    BY <1>5, <2>1 DEF MayBeTold
  <2> QED
    <3>1. 401 \in Nat
      OBVIOUS
    <3>2. r.token \in AccessTokens
      BY <1>2, <1>5
    <3> QED
      BY <1>1, <1>6, <1>7, <2>2, <3>1, <3>2, AnswerKeepsAccessInv
<1>8. ASSUME token.kid # None =>
               keyUntil[token.kid] \in Nat /\ time - keyUntil[token.kid] < Ttl + MaxFetch,
             bearers' = [bearers EXCEPT ![q] = Gate!Answered(r, Gate!Gate(r.service, r.token))]
      PROVE  AccessInv'
  <2> DEFINE code == Gate!Gate(r.service, r.token)
  <2>1. code \in Nat /\ MayBeTold(r, code)
    BY <1>2, <1>5, <1>8, VerdictsMayBeTold DEF AccessInv
  <2>2. bearers' = [bearers EXCEPT ![q] = Gate!Answered(r, code)]
    BY <1>8
  <2> HIDE DEF code
  <2> QED
    BY <1>1, <1>2, <1>5, <1>6, <2>1, <2>2, AnswerKeepsAccessInv
<1>9. CASE service = "session-manager"
  <2>1. CASE token.kid = None
    BY <1>1, <1>5, <1>8, <1>9, <2>1 DEF Gate!SharedSecret
  <2>2. CASE token.kid # None
    BY <1>1, <1>5, <1>7, <1>9, <2>2 DEF Gate!SharedSecret
  <2> QED
    BY <2>1, <2>2
<1>10. CASE service # "session-manager"
  <2>1. CASE token.kid = None
    BY <1>1, <1>5, <1>7, <1>10, <2>1 DEF Gate!Lookup
  <2>2. CASE token.kid # None /\ Gate!Fresh(keys) /\ token.kid \in keys.keys
    <3>1. keyUntil[token.kid] \in Nat /\ time - keyUntil[token.kid] < Ttl + MaxFetch
      BY <2>2, AccessAssumption, NoneIsNoNumber
         DEF AccessInv, AccessTypeOK, CacheIsRecent, Gate!Fresh
    <3> QED
      BY <1>1, <1>5, <1>8, <1>10, <2>2, <3>1 DEF Gate!Lookup
  <2>3. CASE token.kid # None /\ ~(Gate!Fresh(keys) /\ token.kid \in keys.keys)
    <3> DEFINE last == Gate!Fresh(keys)
               b == Sent(service, token, steady, last)
    <3>1. bearers' = [bearers EXCEPT ![q] = Gate!Fetching(r, last)]
      BY <1>1, <1>5, <1>10, <2>3 DEF Gate!Lookup
    <3>2. last \in BOOLEAN
      BY DEF Gate!Fresh
    <3> HIDE DEF last
    <3>3. Gate!Fetching(r, last) = b
      BY <1>4, RequestsAreSent
    <3>4. b \in BearerStates
      BY <1>2, <1>3, <3>2 DEF Sent, BearerStates, AccessInv, AccessTypeOK
    <3>5. IsInOrder(b) /\ IsInTime(b)
      BY <1>2, <1>3, AccessAssumption, NoneIsNoNumber
         DEF Sent, IsInOrder, IsInTime, AccessInv, AccessTypeOK
    <3>6. bearers' = [bearers EXCEPT ![q] = b]
      BY <3>1, <3>3
    <3> HIDE DEF b
    <3> QED
      BY <1>1, <1>6, <3>4, <3>5, <3>6, BearerGoesOn
  <2> QED
    BY <2>1, <2>2, <2>3
<1> QED
  BY <1>9, <1>10

\* The document of this moment has the keys of this moment.
LEMMA ServeKeepsAccessInv ==
    ASSUME AccessInv, NEW q \in Bearers, Gate!Serve(q)
    PROVE  AccessInv'
<1> DEFINE r == bearers[q]
           b == [r EXCEPT !.pc = "served", !.doc = published]
<1>1. /\ r.pc = "fetching" /\ bearers' = [bearers EXCEPT ![q] = b]
      /\ UNCHANGED <<time, published, keyUntil, admin, adminUntil, keys>>
  BY DEF Gate!Serve, Gate!Unchanged, Gate!authVars
<1>2. r \in BearerStates /\ IsInOrder(r) /\ IsInTime(r)
  BY <1>1 DEF AccessInv, AccessTypeOK, Gate!Waiting
<1>3. /\ time \in Nat /\ published \subseteq Kids
      /\ \A k \in published : keyUntil[k] = time
  BY DEF AccessInv, AccessTypeOK, HistoryIsKept
<1> HIDE DEF r
<1>4. b \in BearerStates
  BY <1>2, <1>3 DEF BearerStates
<1>5. /\ b.pc = "served" /\ b.doc = published /\ b.token = r.token /\ b.since = r.since
      /\ b.steady = r.steady /\ b.keyLag = r.keyLag /\ b.roleLag = r.roleLag
      /\ b.keyMissed = r.keyMissed
  BY <1>2 DEF BearerStates
<1> HIDE DEF b
<1>6. r.since \in Nat /\ r.since <= time
  BY <1>2 DEF BearerStates, IsInTime
<1>7. IsInOrder(b) /\ IsInTime(b)
  BY <1>2, <1>3, <1>5, <1>6, AccessAssumption, NoneIsNoNumber DEF IsInOrder, IsInTime
<1>8. keys' \in [keys : SUBSET Kids, expires : Nat] /\ CacheIsRecent'
  BY <1>1 DEF AccessInv, AccessTypeOK, CacheIsRecent
<1> QED
  BY <1>1, <1>4, <1>7, <1>8, BearerGoesOn

\* The document is used and cached, or the key is looked for once more.
LEMMA StoreKeepsAccessInv ==
    ASSUME AccessInv, NEW q \in Bearers, Gate!Store(q)
    PROVE  AccessInv'
<1> DEFINE r == bearers[q]
           fetched == [keys |-> r.doc, expires |-> time + Ttl]
<1>1. /\ r.pc = "served" /\ keys' = fetched
      /\ bearers' = [bearers EXCEPT ![q] =
           IF r.token.kid \in r.doc THEN Gate!Answered(r, Gate!Gate(r.service, r.token))
           ELSE IF r.last THEN Gate!Answered(r, 401)
           ELSE Gate!Fetching([r EXCEPT !.doc = {}], TRUE)]
      /\ UNCHANGED <<time, published, keyUntil, admin, adminUntil>>
  BY DEF Gate!Store, Gate!Unchanged, Gate!authVars
<1>2. r \in BearerStates /\ IsInOrder(r) /\ IsInTime(r)
  BY <1>1 DEF AccessInv, AccessTypeOK, Gate!Waiting
<1>3. /\ time \in Nat /\ adminUntil \in Nat /\ keyUntil \in [Kids -> Nat \cup {None}]
      /\ published \subseteq Kids /\ \A k \in published : keyUntil[k] = time
  BY DEF AccessInv, AccessTypeOK, HistoryIsKept
<1> HIDE DEF r
<1>4. r.doc \subseteq Kids /\ r.since \in Nat /\ r.token \in AccessTokens
  BY <1>2 DEF BearerStates, IsInTime
<1>5. \A k \in r.doc : keyUntil[k] \in Nat /\ time <= keyUntil[k] + MaxFetch
  BY <1>1, <1>2, <1>3, <1>4, AccessAssumption, NoneIsNoNumber DEF IsInTime
<1>6. keys' \in [keys : SUBSET Kids, expires : Nat] /\ CacheIsRecent'
  <2>1. keys'.keys = r.doc /\ keys'.expires = time + Ttl
    BY <1>1
  <2>2. keys' \in [keys : SUBSET Kids, expires : Nat]
    BY <1>1, <1>3, <1>4, AccessAssumption, NoneIsNoNumber
  <2>3. CacheIsRecent'
    BY <1>1, <1>3, <1>5, <2>1, AccessAssumption, NoneIsNoNumber DEF CacheIsRecent
  <2> QED
    BY <2>2, <2>3
<1>7. CASE r.token.kid \in r.doc
  <2> DEFINE code == Gate!Gate(r.service, r.token)
  <2>1. keyUntil[r.token.kid] \in Nat /\ time - keyUntil[r.token.kid] < Ttl + MaxFetch
    BY <1>3, <1>5, <1>7, AccessAssumption, NoneIsNoNumber
  <2>2. r.token.admin => r.token.iat <= adminUntil
    BY <1>2 DEF IsInTime
  <2>3. code \in Nat /\ MayBeTold(r, code)
    BY <1>4, <2>1, <2>2, VerdictsMayBeTold DEF AccessInv
  <2>4. bearers' = [bearers EXCEPT ![q] = Gate!Answered(r, code)]
    BY <1>1, <1>7
  <2> HIDE DEF code
  <2> QED
    BY <1>1, <1>4, <1>6, <2>3, <2>4, AnswerKeepsAccessInv
<1>8. CASE r.token.kid \notin r.doc /\ r.last
  <2>1. ~r.steady
    BY <1>1, <1>2, <1>8 DEF IsInTime
  <2> DEFINE code == 401
  <2>2. code \in Nat /\ MayBeTold(r, code)
    BY <2>1 DEF MayBeTold
  <2>3. bearers' = [bearers EXCEPT ![q] = Gate!Answered(r, code)]
    BY <1>1, <1>8
  <2> HIDE DEF code
  <2> QED
    BY <1>1, <1>4, <1>6, <2>2, <2>3, AnswerKeepsAccessInv
<1>9. CASE r.token.kid \notin r.doc /\ ~r.last
  <2> DEFINE b == Gate!Fetching([r EXCEPT !.doc = {}], TRUE)
  <2>1. bearers' = [bearers EXCEPT ![q] = b]
    BY <1>1, <1>9
  <2>2. /\ b \in BearerStates
        /\ b.pc = "fetching" /\ b.since = time /\ b.token = r.token /\ b.steady = r.steady
        /\ b.keyLag = r.keyLag /\ b.roleLag = r.roleLag /\ b.keyMissed = r.keyMissed
    BY <1>2, <1>3 DEF Gate!Fetching, BearerStates
  <2> HIDE DEF b
  <2>3. IsInOrder(b) /\ IsInTime(b)
    BY <1>2, <1>3, <2>2, AccessAssumption, NoneIsNoNumber DEF IsInOrder, IsInTime
  <2> QED
    BY <1>1, <1>6, <2>1, <2>2, <2>3, BearerGoesOn
<1> QED
  BY <1>7, <1>8, <1>9

\* A fetch that fails is a server error.
LEMMA FailureKeepsAccessInv ==
    ASSUME AccessInv, NEW q \in Bearers, Gate!FetchFails(q)
    PROVE  AccessInv'
<1> DEFINE r == bearers[q]
           code == 500
<1>1. /\ r.pc = "fetching" /\ bearers' = [bearers EXCEPT ![q] = Gate!Answered(r, code)]
      /\ UNCHANGED <<time, published, keyUntil, admin, adminUntil, keys>>
  BY DEF Gate!FetchFails, Gate!Unchanged, Gate!authVars
<1>2. IsInTime(r)
  BY <1>1 DEF AccessInv, Gate!Waiting
<1> HIDE DEF r
<1>3. r.token \in AccessTokens
  BY <1>2 DEF IsInTime
<1>4. code \in Nat /\ MayBeTold(r, code)
  BY DEF MayBeTold
<1>5. keys' \in [keys : SUBSET Kids, expires : Nat] /\ CacheIsRecent'
  BY <1>1 DEF AccessInv, AccessTypeOK, CacheIsRecent
<1> HIDE DEF code
<1> QED
  BY <1>1, <1>3, <1>4, <1>5, AnswerKeepsAccessInv

\* Without a token there is no lag.
LEMMA RefusalKeepsAccessInv ==
    ASSUME AccessInv, NEW q \in Bearers, Gate!ArriveWithout(q)
    PROVE  AccessInv'
<1>1. /\ bearers' = [bearers EXCEPT ![q] = [Gate!Idle EXCEPT !.pc = "done", !.code = 401]]
      /\ UNCHANGED <<time, published, keyUntil, admin, adminUntil, keys>>
  BY DEF Gate!ArriveWithout, Gate!Unchanged, Gate!authVars
<1>2. PICK b : b = [Gate!Idle EXCEPT !.pc = "done", !.code = 401]
  OBVIOUS
<1>3. b = [pc |-> "done", service |-> None, token |-> None, doc |-> {}, last |-> FALSE,
           since |-> 0, steady |-> TRUE, code |-> 401, keyLag |-> 0, roleLag |-> 0,
           keyMissed |-> FALSE]
  BY <1>2 DEF Gate!Idle
<1>4. b \in BearerStates
  BY <1>3 DEF BearerStates
<1>5. b.pc = "done" /\ IsInOrder(b)
  BY <1>3, AccessAssumption, NoneIsNoNumber DEF IsInOrder
<1>6. keys' \in [keys : SUBSET Kids, expires : Nat] /\ CacheIsRecent'
  BY <1>1 DEF AccessInv, AccessTypeOK, CacheIsRecent
<1>7. bearers' = [bearers EXCEPT ![q] = b]
  BY <1>1, <1>2
<1> QED
  BY <1>1, <1>4, <1>5, <1>6, <1>7, BearerGoesOn

\* Every step keeps the invariant.
LEMMA NextKeepsAccessInv == AccessInv /\ [Gate!Next]_accessVars => AccessInv'
<1> SUFFICES ASSUME AccessInv, [Gate!Next]_accessVars PROVE AccessInv'
  OBVIOUS
<1>1. CASE Gate!Tick
  BY <1>1, TickKeepsAccessInv
<1>2. CASE Gate!Demote
  BY <1>2 DEF Gate!Demote, AccessInv, AccessTypeOK, HistoryIsKept, CacheIsRecent, IsInOrder,
              IsInTime, Gate!Waiting
<1>0. CASE UNCHANGED accessVars
  BY <1>0 DEF accessVars, AccessInv, AccessTypeOK, HistoryIsKept, CacheIsRecent, IsInOrder,
              IsInTime, Gate!Waiting
<1>3. ASSUME NEW k \in Kids, Gate!Publish(k) PROVE AccessInv'
  BY <1>3, PublishKeepsAccessInv
<1>4. ASSUME NEW k \in Kids, Gate!Withdraw(k) PROVE AccessInv'
  BY <1>4, WithdrawKeepsAccessInv
<1>5. ASSUME NEW q \in Bearers, NEW service \in Gates, NEW t \in Gate!Tokens,
             Gate!Arrive(q, service, t)
      PROVE  AccessInv'
  BY <1>5, ArriveKeepsAccessInv
<1>6. ASSUME NEW q \in Bearers, Gate!ArriveWithout(q) PROVE AccessInv'
  BY <1>6, RefusalKeepsAccessInv
<1>7. ASSUME NEW q \in Bearers, Gate!Serve(q) PROVE AccessInv'
  BY <1>7, ServeKeepsAccessInv
<1>8. ASSUME NEW q \in Bearers, Gate!Store(q) PROVE AccessInv'
  BY <1>8, StoreKeepsAccessInv
<1>9. ASSUME NEW q \in Bearers, Gate!FetchFails(q) PROVE AccessInv'
  BY <1>9, FailureKeepsAccessInv
<1> QED
  BY <1>0, <1>1, <1>2, <1>3, <1>4, <1>5, <1>6, <1>7, <1>8, <1>9 DEF Gate!Next

\* The invariant gives the three properties.
LEMMA AccessInvIsCurrent == AccessInv => AccessIsCurrent
BY DEF AccessInv, IsInOrder, AccessIsCurrent, Gate!WithdrawnKeysExpire,
       Gate!DemotionTakesEffect, Gate!PublishedKeysAreFound

-----------------------------------------------------------------------------
(* HealthProbe.                                                            *)

\* What may be true of a source.
Facts(source) ==
    CASE source = "ecs" -> Health!EcsStates
      [] source = "logs" -> {"quiet", "fresh"}
      [] OTHER -> {"green", "red"}

\* The parts of a request.
IsProbe(r) ==
    r = [pc |-> r.pc, kind |-> r.kind, status |-> r.status, logs |-> r.logs,
         recent |-> r.recent, errors |-> r.errors]

HealthTypeOK ==
    /\ ecs \in Health!EcsStates
    /\ DOMAIN probes = Probes /\ probes = [q \in Probes |-> probes[q]]
    /\ \A q \in Probes : IsProbe(probes[q])
    /\ seen \in [Probes -> [Health!Sources -> SUBSET UNION {Facts(s) : s \in Health!Sources}]]
    /\ \A q \in Probes : \A s \in Health!Sources : seen[q][s] \subseteq Facts(s)
    /\ DOMAIN got = Probes /\ got = [q \in Probes |-> got[q]]
    /\ \A q \in Probes : got[q] = [s \in Health!Sources |-> got[q][s]]

\* While a request is under way it has seen what is true now, ...
NowIsSeen ==
    \A q \in Probes : probes[q].pc = "probe" =>
        \A s \in Health!Sources : Health!Fact(s) \in seen[q][s]

\* ... and a read has brought what the request has seen, or made it up.
ReadsWereTrue ==
    \A q \in Probes : \A s \in Health!Sources :
        \/ got[q][s] \in seen[q][s] \cup {None, "raised"}
        \/ s = "logs" /\ got[q][s] = "quiet"

\* Who has not asked has neither read nor said anything.
IdleIsBlank ==
    \A q \in Probes : probes[q].pc = "idle" =>
        probes[q].status = None /\ \A s \in Health!Sources : got[q][s] = None

HealthInv ==
    HealthTypeOK /\ NowIsSeen /\ ReadsWereTrue /\ IdleIsBlank /\ VerdictHasCause

\* What is true of a source is one of its facts.
LEMMA FactsAreTyped ==
    ASSUME ecs \in Health!EcsStates, NEW s \in Health!Sources
    PROVE  Health!Fact(s) \in Facts(s)
<1>1. CASE s = "ecs"
  BY <1>1 DEF Health!Fact, Facts
<1>2. CASE s = "logs"
  BY <1>2 DEF Health!Fact, Facts
<1>3. CASE s \notin {"ecs", "logs"}
  BY <1>3 DEF Health!Fact, Facts
<1> QED
  BY <1>1, <1>2, <1>3

\* At first nothing is asked.
LEMMA InitEstablishesHealthInv == Health!Init => HealthInv
<1> SUFFICES ASSUME Health!Init PROVE HealthInv
  OBVIOUS
<1> USE HealthAssumption DEF Health!Init
<1>1. HealthTypeOK
  BY DEF HealthTypeOK, IsProbe
<1>2. NowIsSeen /\ ReadsWereTrue /\ IdleIsBlank
  BY DEF NowIsSeen, ReadsWereTrue, IdleIsBlank
<1>3. VerdictHasCause
  BY DEF VerdictHasCause, Health!VerdictHasCause
<1> QED
  BY <1>1, <1>2, <1>3 DEF HealthInv

\* Whoever probes sees the change.
LEMMA ChangeKeepsHealthInv == HealthInv /\ Health!Change => HealthInv'
<1> SUFFICES ASSUME HealthInv, Health!Change PROVE HealthInv'
  OBVIOUS
<1>1. ecs' \in Health!EcsStates
  BY DEF Health!Change, HealthInv, HealthTypeOK
<1>2. \A s \in Health!Sources : Health!Fact(s)' \in Facts(s)
  BY <1>1 DEF Health!Fact, Facts, Health!Sources
<1>3. /\ seen' = [q \in Probes |->
                    IF probes[q].pc = "probe"
                    THEN [s \in Health!Sources |-> seen[q][s] \cup {Health!Fact(s)'}]
                    ELSE seen[q]]
      /\ UNCHANGED <<probes, got>>
  BY DEF Health!Change, Health!See
<1>4. \A q \in Probes : \A s \in Health!Sources :
        /\ seen[q][s] \subseteq seen'[q][s]
        /\ seen'[q][s] \subseteq Facts(s)
        /\ probes[q].pc = "probe" => Health!Fact(s)' \in seen'[q][s]
  BY <1>2, <1>3 DEF HealthInv, HealthTypeOK
<1>5. HealthTypeOK'
  <2>1. seen' \in [Probes -> [Health!Sources ->
                             SUBSET UNION {Facts(s) : s \in Health!Sources}]]
    BY <1>2, <1>3 DEF HealthInv, HealthTypeOK
  <2> QED
    BY <1>1, <1>3, <1>4, <2>1 DEF HealthInv, HealthTypeOK, IsProbe
<1>6. NowIsSeen'
  BY <1>3, <1>4 DEF NowIsSeen
<1>7. ReadsWereTrue' /\ IdleIsBlank'
  BY <1>3, <1>4 DEF HealthInv, ReadsWereTrue, IdleIsBlank
<1>8. VerdictHasCause'
  BY <1>3, <1>4 DEF HealthInv, VerdictHasCause, Health!VerdictHasCause, Health!Sources
<1> QED
  BY <1>5, <1>6, <1>7, <1>8 DEF HealthInv

\* A step of one request: what it has seen and read, and what it says, may change.
LEMMA RequestKeepsHealthInv ==
    ASSUME HealthInv, NEW q \in Probes,
           UNCHANGED <<ecs, healthy, log>>,
           DOMAIN probes' = Probes, probes' = [p \in Probes |-> probes'[p]],
           IsProbe(probes'[q]), probes'[q].pc # "idle",
           seen' \in [Probes -> [Health!Sources ->
                            SUBSET UNION {Facts(s) : s \in Health!Sources}]],
           DOMAIN got' = Probes, got' = [p \in Probes |-> got'[p]],
           got'[q] = [s \in Health!Sources |-> got'[q][s]],
           \A p \in Probes \ {q} :
               probes'[p] = probes[p] /\ seen'[p] = seen[p] /\ got'[p] = got[p],
           \A s \in Health!Sources :
               /\ seen'[q][s] \subseteq Facts(s)
               /\ probes'[q].pc = "probe" => Health!Fact(s) \in seen'[q][s]
               /\ \/ got'[q][s] \in seen'[q][s] \cup {None, "raised"}
                  \/ s = "logs" /\ got'[q][s] = "quiet",
           probes'[q].status = "healthy" =>
               /\ "full" \in seen'[q]["ecs"]
               /\ \A g \in TargetGroups : "green" \in seen'[q][g]
               /\ CheckLogs => "fresh" \in seen'[q]["logs"],
           probes'[q].status = "unhealthy" =>
               "short" \in seen'[q]["ecs"] \/ \E g \in TargetGroups : "red" \in seen'[q][g]
    PROVE  HealthInv'
<1>1. HealthTypeOK'
  <2>1. ASSUME NEW p \in Probes
        PROVE  /\ IsProbe(probes'[p])
               /\ \A s \in Health!Sources : seen'[p][s] \subseteq Facts(s)
               /\ got'[p] = [s \in Health!Sources |-> got'[p][s]]
    <3>1. CASE p = q
      BY <3>1
    <3>2. CASE p # q
      BY <3>2 DEF HealthInv, HealthTypeOK
    <3> QED
      BY <3>1, <3>2
  <2>2. ecs' \in Health!EcsStates
    BY DEF HealthInv, HealthTypeOK
  <2> QED
    BY <2>1, <2>2 DEF HealthTypeOK, IsProbe
<1>2. \A s : Health!Fact(s)' = Health!Fact(s)
  BY DEF Health!Fact
<1>3. NowIsSeen'
  BY <1>2 DEF HealthInv, NowIsSeen
<1>4. ReadsWereTrue' /\ IdleIsBlank'
  <2>1. ReadsWereTrue'
    BY DEF HealthInv, ReadsWereTrue
  <2>2. IdleIsBlank'
    BY DEF HealthInv, IdleIsBlank
  <2> QED
    BY <2>1, <2>2
<1>5. VerdictHasCause'
  BY DEF HealthInv, VerdictHasCause, Health!VerdictHasCause
<1> QED
  BY <1>1, <1>3, <1>4, <1>5 DEF HealthInv

\* A request of its own parts.
LEMMA RequestIsReplaced ==
    ASSUME HealthTypeOK, NEW q \in Probes, NEW r, probes' = [probes EXCEPT ![q] = r]
    PROVE  /\ DOMAIN probes' = Probes /\ probes' = [p \in Probes |-> probes'[p]]
           /\ probes'[q] = r /\ \A p \in Probes \ {q} : probes'[p] = probes[p]
BY DEF HealthTypeOK

\* A request that asks has seen what is true then.
LEMMA AskKeepsHealthInv ==
    ASSUME HealthInv, NEW q \in Probes, NEW kind, Health!Ask(q, kind)
    PROVE  HealthInv'
<1>1. /\ probes' = [probes EXCEPT ![q] = [probes[q] EXCEPT !.pc = "probe", !.kind = kind]]
      /\ seen' = [seen EXCEPT ![q] = [s \in Health!Sources |-> {Health!Fact(s)}]]
      /\ UNCHANGED <<ecs, healthy, log, got>>
      /\ probes[q].pc = "idle"
  BY DEF Health!Ask, HealthInv, HealthTypeOK
<1>2. \A s \in Health!Sources : Health!Fact(s) \in Facts(s)
  BY FactsAreTyped DEF HealthInv, HealthTypeOK
<1>3. PICK r : r = [probes[q] EXCEPT !.pc = "probe", !.kind = kind]
  OBVIOUS
<1>4. IsProbe(r) /\ r.pc = "probe" /\ r.status = None
  <2>1. IsProbe(probes[q]) /\ probes[q].status = None
    BY <1>1 DEF HealthInv, HealthTypeOK, IdleIsBlank
  <2> QED
    BY <1>3, <2>1 DEF IsProbe
<1>5. /\ DOMAIN probes' = Probes /\ probes' = [p \in Probes |-> probes'[p]]
      /\ probes'[q] = r /\ \A p \in Probes \ {q} : probes'[p] = probes[p]
  BY <1>1, <1>3, RequestIsReplaced DEF HealthInv
<1>6. /\ seen' \in [Probes -> [Health!Sources ->
                             SUBSET UNION {Facts(s) : s \in Health!Sources}]]
      /\ \A s \in Health!Sources :
           seen'[q][s] \subseteq Facts(s) /\ Health!Fact(s) \in seen'[q][s]
      /\ \A p \in Probes \ {q} : seen'[p] = seen[p]
  BY <1>1, <1>2 DEF HealthInv, HealthTypeOK
<1>7. /\ DOMAIN got' = Probes /\ got' = [p \in Probes |-> got'[p]]
      /\ got'[q] = [s \in Health!Sources |-> got'[q][s]]
      /\ \A p \in Probes : got'[p] = got[p]
      /\ \A s \in Health!Sources : got'[q][s] = None
  BY <1>1 DEF HealthInv, HealthTypeOK, IdleIsBlank
<1> QED
  BY <1>1, <1>4, <1>5, <1>6, <1>7, HealthAssumption, RequestKeepsHealthInv

\* A read brings what is true now, or raises; that of the log may find nothing.
LEMMA ReadKeepsHealthInv ==
    ASSUME HealthInv, NEW q \in Probes, NEW source \in Health!Sources,
           Health!Read(q, source)
    PROVE  HealthInv'
<1>1. probes[q].pc = "probe" /\ UNCHANGED <<ecs, healthy, log, probes, seen>>
  BY DEF Health!Read
<1>2. PICK brought \in Health!Answers(source) : got' = [got EXCEPT ![q][source] = brought]
  BY DEF Health!Read
<1>3. brought \in {Health!Fact(source), "raised"} \/ (source = "logs" /\ brought = "quiet")
  BY DEF Health!Answers
<1>4. /\ DOMAIN probes' = Probes /\ probes' = [p \in Probes |-> probes'[p]]
      /\ IsProbe(probes'[q]) /\ probes'[q].pc # "idle"
      /\ seen' \in [Probes -> [Health!Sources ->
                             SUBSET UNION {Facts(s) : s \in Health!Sources}]]
  BY <1>1 DEF HealthInv, HealthTypeOK
<1>5. /\ DOMAIN got' = Probes /\ got' = [p \in Probes |-> got'[p]]
      /\ got'[q] = [s \in Health!Sources |-> got'[q][s]]
      /\ \A p \in Probes \ {q} : got'[p] = got[p]
      /\ got'[q][source] = brought
      /\ \A s \in Health!Sources \ {source} : got'[q][s] = got[q][s]
  BY <1>2 DEF HealthInv, HealthTypeOK
<1>6. ASSUME NEW s \in Health!Sources
      PROVE  /\ seen'[q][s] \subseteq Facts(s)
             /\ Health!Fact(s) \in seen'[q][s]
             /\ \/ got'[q][s] \in seen'[q][s] \cup {None, "raised"}
                \/ s = "logs" /\ got'[q][s] = "quiet"
  BY <1>1, <1>3, <1>5 DEF HealthInv, HealthTypeOK, NowIsSeen, ReadsWereTrue
<1>7. /\ probes'[q].status = "healthy" =>
               /\ "full" \in seen'[q]["ecs"]
               /\ \A g \in TargetGroups : "green" \in seen'[q][g]
               /\ CheckLogs => "fresh" \in seen'[q]["logs"]
      /\ probes'[q].status = "unhealthy" =>
               "short" \in seen'[q]["ecs"] \/ \E g \in TargetGroups : "red" \in seen'[q][g]
  BY <1>1 DEF HealthInv, VerdictHasCause, Health!VerdictHasCause
<1> QED
  BY <1>1, <1>4, <1>5, <1>6, <1>7, RequestKeepsHealthInv

\* A verdict has its cause in what was read.
LEMMA VerdictsAreRead ==
    ASSUME HealthInv, NEW q \in Probes, Health!Complete(got[q]) \/ Health!Raised(got[q])
    PROVE  /\ Health!Status(got[q]) = "healthy" =>
               /\ "full" \in seen[q]["ecs"]
               /\ \A g \in TargetGroups : "green" \in seen[q][g]
               /\ CheckLogs => "fresh" \in seen[q]["logs"]
           /\ Health!Status(got[q]) = "unhealthy" =>
               "short" \in seen[q]["ecs"] \/ \E g \in TargetGroups : "red" \in seen[q][g]
<1> DEFINE a == got[q]
<1>1. /\ "ecs" \in Health!Sources /\ TargetGroups \subseteq Health!Sources
      /\ CheckLogs => "logs" \in Health!Sources
  BY HealthAssumption DEF Health!Sources
<1>2. \A s \in Health!Sources :
        /\ a[s] \in seen[q][s] \cup {None, "raised"} \/ (s = "logs" /\ a[s] = "quiet")
        /\ seen[q][s] \subseteq Facts(s)
  BY DEF HealthInv, HealthTypeOK, ReadsWereTrue
<1>3. /\ Facts("ecs") = {"absent", "rolling", "short", "full"}
      /\ Facts("logs") = {"quiet", "fresh"}
      /\ \A g \in TargetGroups : Facts(g) = {"green", "red"} /\ g # "logs"
  BY HealthAssumption DEF Facts, Health!EcsStates
<1> HIDE DEF a
<1>4. CASE Health!Raised(a)
  <2>1. Health!Status(a) = "unknown"
    BY <1>4 DEF Health!Status
  <2> QED
    BY <2>1 DEF a
<1>5. CASE ~Health!Raised(a) /\ Health!Complete(a)
  <2>1. \A s \in Health!Sources : a[s] # "raised" /\ a[s] # None
    BY <1>5 DEF Health!Raised, Health!Complete
  <2>2. \A s \in Health!Sources : a[s] \in seen[q][s] \/ (s = "logs" /\ a[s] = "quiet")
    BY <1>2, <2>1
  <2>3. ASSUME Health!Status(a) = "healthy"
        PROVE  /\ "full" \in seen[q]["ecs"]
               /\ \A g \in TargetGroups : "green" \in seen[q][g]
               /\ CheckLogs => "fresh" \in seen[q]["logs"]
    <3>1. /\ a["ecs"] \notin {"absent", "rolling", "short"}
          /\ \A g \in TargetGroups : a[g] # "red"
          /\ CheckLogs => a["logs"] # "quiet"
      BY <2>3 DEF Health!Status
    <3> QED
      BY <1>1, <1>2, <1>3, <2>2, <3>1
  <2>4. ASSUME Health!Status(a) = "unhealthy"
        PROVE  "short" \in seen[q]["ecs"] \/ \E g \in TargetGroups : "red" \in seen[q][g]
    <3>1. a["ecs"] = "short" \/ \E g \in TargetGroups : a[g] = "red"
      BY <2>4 DEF Health!Status
    <3> QED
      BY <1>1, <1>3, <2>2, <3>1
  <2> QED
    BY <2>3, <2>4 DEF a
<1> QED
  BY <1>4, <1>5 DEF a

\* The gather ends: every read has come, or one has raised.
LEMMA ConcludeKeepsHealthInv ==
    ASSUME HealthInv, NEW q \in Probes, Health!Conclude(q)
    PROVE  HealthInv'
<1>1. UNCHANGED <<ecs, healthy, log, got, seen>> /\ probes[q].pc = "probe"
  BY DEF Health!Conclude
<1>2. PICK r :
        /\ probes' = [probes EXCEPT ![q] = r]
        /\ \/ /\ Health!Complete(got[q]) \/ Health!Raised(got[q])
              /\ r = [probes[q] EXCEPT !.pc = "answered", !.status = Health!Status(got[q])]
           \/ r = [probes[q] EXCEPT !.pc = "error"]
  BY DEF Health!Conclude, HealthInv, HealthTypeOK
<1>3. IsProbe(probes[q])
  BY DEF HealthInv, HealthTypeOK
<1>4. /\ IsProbe(r) /\ r.pc \in {"answered", "error"}
      /\ r.status = probes[q].status
           \/ (r.status = Health!Status(got[q])
                 /\ (Health!Complete(got[q]) \/ Health!Raised(got[q])))
  BY <1>2, <1>3 DEF IsProbe
<1>5. /\ DOMAIN probes' = Probes /\ probes' = [p \in Probes |-> probes'[p]]
      /\ probes'[q] = r /\ \A p \in Probes \ {q} : probes'[p] = probes[p]
  BY <1>2, RequestIsReplaced DEF HealthInv
<1>6. /\ seen' \in [Probes -> [Health!Sources ->
                             SUBSET UNION {Facts(s) : s \in Health!Sources}]]
      /\ DOMAIN got' = Probes /\ got' = [p \in Probes |-> got'[p]]
      /\ got'[q] = [s \in Health!Sources |-> got'[q][s]]
  BY <1>1 DEF HealthInv, HealthTypeOK
<1>7. \A s \in Health!Sources :
        /\ seen'[q][s] \subseteq Facts(s)
        /\ \/ got'[q][s] \in seen'[q][s] \cup {None, "raised"}
           \/ s = "logs" /\ got'[q][s] = "quiet"
  BY <1>1 DEF HealthInv, HealthTypeOK, ReadsWereTrue
<1>8. /\ r.status = "healthy" =>
               /\ "full" \in seen'[q]["ecs"]
               /\ \A g \in TargetGroups : "green" \in seen'[q][g]
               /\ CheckLogs => "fresh" \in seen'[q]["logs"]
      /\ r.status = "unhealthy" =>
               "short" \in seen'[q]["ecs"] \/ \E g \in TargetGroups : "red" \in seen'[q][g]
  <2>1. CASE r.status = probes[q].status
    BY <1>1, <2>1 DEF HealthInv, VerdictHasCause, Health!VerdictHasCause
  <2>2. CASE r.status # probes[q].status
    BY <1>1, <1>4, <2>2, VerdictsAreRead
  <2> QED
    BY <2>1, <2>2
<1> QED
  BY <1>1, <1>4, <1>5, <1>6, <1>7, <1>8, RequestKeepsHealthInv

\* The log reads of the page have no say in the verdict.
LEMMA LogsKeepHealthInv ==
    ASSUME HealthInv, NEW q \in Probes, Health!ReadLogs(q)
    PROVE  HealthInv'
<1>1. UNCHANGED <<ecs, healthy, log, got, seen>> /\ probes[q].pc = "probe"
  BY DEF Health!ReadLogs
<1>2. PICK r, recent, errors :
        /\ probes' = [probes EXCEPT ![q] = r]
        /\ \/ r = [probes[q] EXCEPT !.logs = "read", !.recent = recent, !.errors = errors]
           \/ r = [probes[q] EXCEPT !.logs = "raised"]
  <2>1. PICK recent, errors :
          \/ probes' = [probes EXCEPT ![q].logs = "read", ![q].recent = recent,
                                      ![q].errors = errors]
          \/ probes' = [probes EXCEPT ![q].logs = "raised"]
    BY Zenon DEF Health!ReadLogs
  <2>2. DOMAIN probes = Probes /\ probes = [p \in Probes |-> probes[p]]
    BY DEF HealthInv, HealthTypeOK
  <2>3. CASE probes' = [probes EXCEPT ![q].logs = "raised"]
    BY <2>2, <2>3
  <2>4. CASE probes' = [probes EXCEPT ![q].logs = "read", ![q].recent = recent,
                                      ![q].errors = errors]
    <3>1. probes' = [probes EXCEPT ![q] =
            [probes[q] EXCEPT !.logs = "read", !.recent = recent, !.errors = errors]]
      BY <2>2, <2>4
    <3> QED
      BY <3>1, Zenon
  <2> QED
    BY <2>1, <2>3, <2>4
<1>3. IsProbe(probes[q])
  BY DEF HealthInv, HealthTypeOK
<1>4. IsProbe(r) /\ r.pc = "probe" /\ r.status = probes[q].status
  BY <1>1, <1>2, <1>3 DEF IsProbe
<1>5. /\ DOMAIN probes' = Probes /\ probes' = [p \in Probes |-> probes'[p]]
      /\ probes'[q] = r /\ \A p \in Probes \ {q} : probes'[p] = probes[p]
  BY <1>2, RequestIsReplaced DEF HealthInv
<1>6. /\ seen' \in [Probes -> [Health!Sources ->
                             SUBSET UNION {Facts(s) : s \in Health!Sources}]]
      /\ DOMAIN got' = Probes /\ got' = [p \in Probes |-> got'[p]]
      /\ got'[q] = [s \in Health!Sources |-> got'[q][s]]
  BY <1>1 DEF HealthInv, HealthTypeOK
<1>7. \A s \in Health!Sources :
        /\ seen'[q][s] \subseteq Facts(s)
        /\ Health!Fact(s) \in seen'[q][s]
        /\ \/ got'[q][s] \in seen'[q][s] \cup {None, "raised"}
           \/ s = "logs" /\ got'[q][s] = "quiet"
  BY <1>1 DEF HealthInv, HealthTypeOK, NowIsSeen, ReadsWereTrue
<1>8. /\ r.status = "healthy" =>
               /\ "full" \in seen'[q]["ecs"]
               /\ \A g \in TargetGroups : "green" \in seen'[q][g]
               /\ CheckLogs => "fresh" \in seen'[q]["logs"]
      /\ r.status = "unhealthy" =>
               "short" \in seen'[q]["ecs"] \/ \E g \in TargetGroups : "red" \in seen'[q][g]
  BY <1>1, <1>4 DEF HealthInv, VerdictHasCause, Health!VerdictHasCause
<1> QED
  BY <1>1, <1>4, <1>5, <1>6, <1>7, <1>8, RequestKeepsHealthInv

\* Every step keeps the invariant.
LEMMA NextKeepsHealthInv == HealthInv /\ [Health!Next]_healthVars => HealthInv'
<1> SUFFICES ASSUME HealthInv, [Health!Next]_healthVars PROVE HealthInv'
  OBVIOUS
<1>1. CASE Health!Change
  BY <1>1, ChangeKeepsHealthInv
<1>2. ASSUME NEW q \in Probes, NEW kind, Health!Ask(q, kind) PROVE HealthInv'
  BY <1>2, AskKeepsHealthInv
<1>3. ASSUME NEW q \in Probes, NEW source \in Health!Sources, Health!Read(q, source)
      PROVE  HealthInv'
  BY <1>3, ReadKeepsHealthInv
<1>4. ASSUME NEW q \in Probes, Health!ReadLogs(q) PROVE HealthInv'
  BY <1>4, LogsKeepHealthInv
<1>5. ASSUME NEW q \in Probes, Health!Conclude(q) PROVE HealthInv'
  BY <1>5, ConcludeKeepsHealthInv
<1>6. CASE UNCHANGED healthVars
  <2>1. \A s : Health!Fact(s)' = Health!Fact(s)
    BY <1>6 DEF healthVars, Health!Fact
  <2> QED
    BY <1>6, <2>1
       DEF healthVars, HealthInv, HealthTypeOK, IsProbe, NowIsSeen, ReadsWereTrue,
                      IdleIsBlank, VerdictHasCause, Health!VerdictHasCause
<1> QED
  BY <1>1, <1>2, <1>3, <1>4, <1>5, <1>6 DEF Health!Next

\* A finite set has a listing in the order of a strict total order: the element with
\* r elements before it comes in place r + 1.
LEMMA FiniteSetsAreListed ==
    ASSUME NEW S, IsFiniteSet(S), NEW R,
           \A m \in S : <<m, m>> \notin R,
           \A m, n \in S : m # n => <<m, n>> \in R \/ <<n, m>> \in R,
           \A m, n, o \in S : <<m, n>> \in R /\ <<n, o>> \in R => <<m, o>> \in R
    PROVE  \E s \in [1 .. Cardinality(S) -> S] :
             \A i, j \in 1 .. Cardinality(S) : i < j => <<s[i], s[j]>> \in R
<1> DEFINE C == Cardinality(S)
           Pred(n) == {m \in S : <<m, n>> \in R}
           r == [n \in S |-> Cardinality(Pred(n)) + 1]
<1>1. C \in Nat
  BY FS_CardinalityType
<1>2. ASSUME NEW n \in S
      PROVE  /\ IsFiniteSet(Pred(n)) /\ Cardinality(Pred(n)) \in Nat
             /\ r[n] = Cardinality(Pred(n)) + 1
             /\ Cardinality(Pred(n) \cup {n}) = r[n]
             /\ r[n] \in 1 .. C /\ r[n] \in Nat
  <2>1. Pred(n) \in SUBSET S /\ n \notin Pred(n) /\ Pred(n) \cup {n} \in SUBSET S
    OBVIOUS
  <2>2. IsFiniteSet(Pred(n))
    BY <2>1, FS_Subset
  <2>3. Cardinality(Pred(n)) \in Nat
    BY <2>2, FS_CardinalityType
  <2>4. Cardinality(Pred(n) \cup {n}) = Cardinality(Pred(n)) + 1
    BY <2>1, <2>2, FS_AddElement
  <2>5. Cardinality(Pred(n) \cup {n}) <= C
    BY <2>1, FS_Subset
  <2> HIDE DEF Pred, C
  <2> QED
    BY <1>1, <2>2, <2>3, <2>4, <2>5
<1>3. ASSUME NEW m \in S, NEW n \in S, <<m, n>> \in R PROVE r[m] < r[n]
  <2>1. Pred(m) \cup {m} \in SUBSET Pred(n)
    BY <1>3
  <2>2. Cardinality(Pred(m) \cup {m}) <= Cardinality(Pred(n))
    BY <1>2, <2>1, FS_Subset
  <2> HIDE DEF Pred, r
  <2>3. r[n] = Cardinality(Pred(n)) + 1
    BY <1>2
  <2>5. Cardinality(Pred(n)) \in Nat /\ r[m] \in Nat
    BY <1>2
  <2>4. r[m] <= Cardinality(Pred(n))
    BY <1>2, <2>2
  <2> QED
    BY <2>3, <2>4, <2>5
<1>4. r \in [S -> 1 .. C]
  BY <1>2
<1> HIDE DEF r, Pred
<1>5. r \in Injection(S, 1 .. C)
  <2>1. \A m, n \in S : r[m] = r[n] => m = n
    <3> SUFFICES ASSUME NEW m \in S, NEW n \in S, m # n PROVE r[m] # r[n]
      OBVIOUS
    <3>1. r[m] \in Nat /\ r[n] \in Nat
      BY <1>1, <1>4
    <3>2. r[m] < r[n] \/ r[n] < r[m]
      BY <1>3
    <3> QED
      BY <3>1, <3>2
  <2> QED
    BY <1>4, <2>1, Fun_IsInj
<1>6. IsFiniteSet(1 .. C) /\ Cardinality(1 .. C) = C
  BY <1>1, FS_Interval
<1>7. r \in Surjection(S, 1 .. C)
  BY <1>5, <1>6, FS_Injection
<1> DEFINE s == [i \in 1 .. C |-> CHOOSE n \in S : r[n] = i]
<1>8. \A i \in 1 .. C : s[i] \in S /\ r[s[i]] = i
  BY <1>7 DEF Surjection
<1> HIDE DEF s
<1>9. s \in [1 .. C -> S]
  BY <1>8 DEF s
<1>10. ASSUME NEW i \in 1 .. C, NEW j \in 1 .. C, i < j PROVE <<s[i], s[j]>> \in R
  <2>1. s[i] \in S /\ s[j] \in S /\ r[s[i]] = i /\ r[s[j]] = j
    BY <1>8
  <2>2. s[i] # s[j] /\ ~(j < i)
    BY <1>1, <1>10, <2>1
  <2>3. CASE <<s[j], s[i]>> \in R
    BY <1>3, <2>1, <2>2, <2>3
  <2> QED
    BY <2>1, <2>2, <2>3
<1> QED
  BY <1>9, <1>10

-----------------------------------------------------------------------------
(* TelemetryFlusher.                                                       *)

EventRows == [key : Telemetry!Kinds, span : Nat \ {0}, trace : Nat \ {0}]

TelemetryTypeOK ==
    /\ fired \in Seq(Telemetry!Kinds)
    /\ shim \in [1 .. MaxSteps -> {"none", "created", "opened", "done"}]
    /\ file \in [1 .. MaxSteps -> {"absent", "empty", "full"}]
    /\ pc \in {"off", "idle", "read", "insert", "post"}
    /\ batch \in Seq(1 .. MaxSteps)
    /\ trace \in Nat /\ traceFile \in Nat /\ sessionRow \in Nat
    /\ spans \in [Tools -> Nat]
    /\ minted \in [traces : Nat, spans : Nat]
    /\ open \in [session : Nat, row : EventRows \cup {Telemetry!NoRow}]
    /\ rows \in Seq(EventRows)
    /\ breaks \in Nat

\* A file is there for an event that has fired; it is full when its shim is done.
FilesAreWritten ==
    /\ Len(fired) <= MaxSteps
    /\ \A i \in 1 .. Len(batch) : batch[i] \in 1 .. Len(fired)
    /\ \A n \in 1 .. MaxSteps :
        /\ n > Len(fired) => shim[n] = "none" /\ file[n] = "absent"
        /\ file[n] = "empty" => shim[n] # "done"
        /\ file[n] = "full" => shim[n] = "done"

\* The file at the head of the listing is the one whose event is worked on; it goes
\* after its row has been committed.
HeadIsWorkedOn ==
    /\ pc \in {"insert", "post"} => batch # <<>> /\ file[Head(batch)] = "full"
    /\ pc = "insert" => made \in EventRows /\ made.key = fired[Head(batch)]
    /\ pc = "post" => fired[Head(batch)] \in Telemetry!Keys(rows)

\* As long as the trace_id file could be written, it holds the only trace id there is.
FileHasTheTrace ==
    ~unsaved =>
        /\ {trace, open.session, sessionRow} \subseteq {0, traceFile}
        /\ \A i \in 1 .. Len(rows) : rows[i].trace = traceFile
        /\ pc = "insert" => made.trace = traceFile
        /\ open.row # Telemetry!NoRow => open.row.trace = traceFile

\* A tool_use_id is used once for each of its two hooks.
ToolEventsAreUnique ==
    \A m, n \in 1 .. Len(fired) :
        fired[m] = fired[n] /\ fired[m].hook \in Telemetry!ToolHooks => m = n

\* With no failure, the event of a row has been worked on to its end, or will be next.
RowsAreOver ==
    breaks = 0 =>
        /\ ~stopping /\ pc # "off" /\ open.row = Telemetry!NoRow
        /\ \A i \in 1 .. Len(rows) :
             \E n \in 1 .. Len(fired) :
               /\ fired[n] = rows[i].key
               /\ shim[n] = "done"
               /\ file[n] = "absent" \/ (pc = "post" /\ n = Head(batch))

PreRow(i) == rows[i].key.hook = "PreToolUse"
PostRow(j, i) ==
    rows[j].key.hook = "PostToolUse" /\ rows[j].key.tool = rows[i].key.tool

\* With no failure, the flusher knows the span of a call from the row of its
\* beginning until the row of its end is made.
SpansAreKnown ==
    breaks = 0 =>
        /\ pc = "insert" /\ made.key.hook = "PreToolUse" =>
             spans[made.key.tool] = made.span
        /\ pc = "insert" /\ made.key.hook = "PostToolUse" => spans[made.key.tool] = 0
        /\ \A i \in 1 .. Len(rows) :
             PreRow(i) =>
               \/ spans[rows[i].key.tool] = rows[i].span
               \/ /\ pc = "insert" /\ made.key.hook = "PostToolUse"
                  /\ made.key.tool = rows[i].key.tool /\ made.span = rows[i].span
               \/ \E j \in 1 .. Len(rows) : PostRow(j, i)
        /\ \A i, j \in 1 .. Len(rows) :
             i < j /\ PreRow(i) /\ PostRow(j, i) => rows[i].span = rows[j].span

\* A written event whose file is gone has its row, unless the file went under its shim.
EventsAreUnlinkedLate ==
    \A n \in 1 .. Len(fired) :
        shim[n] = "done" /\ file[n] = "absent" /\ n \notin lost =>
            fired[n] \in Telemetry!Keys(rows)

TelemetryInv ==
    /\ TelemetryTypeOK
    /\ FilesAreWritten
    /\ HeadIsWorkedOn
    /\ EventsAreUnlinkedLate
    /\ FileHasTheTrace
    /\ ToolEventsAreUnique
    /\ RowsAreOver
    /\ SpansAreKnown

\* The invariant shows what the flusher promises of files and traces.
LEMMA TelemetryInvShowsProperties ==
    TelemetryInv => UnlinkedIsRecorded /\ TracesHoldTogether
<1> SUFFICES ASSUME TelemetryInv PROVE UnlinkedIsRecorded /\ TracesHoldTogether
  OBVIOUS
<1> USE DEF TelemetryInv, TelemetryTypeOK
<1>1. UnlinkedIsRecorded
  BY DEF EventsAreUnlinkedLate, UnlinkedIsRecorded, Telemetry!UnlinkedIsRecorded,
         Telemetry!Fired
<1>2. Telemetry!OneTracePerSession
  BY DEF FileHasTheTrace, Telemetry!OneTracePerSession
<1>4. DOMAIN rows = 1 .. Len(rows)
  OBVIOUS
<1>3. Telemetry!PairsShareSpan
  <2> HIDE DEF TelemetryTypeOK
  <2> QED
    BY <1>4 DEF SpansAreKnown, PreRow, PostRow, Telemetry!PairsShareSpan
<1> QED
  BY <1>1, <1>2, <1>3 DEF TracesHoldTogether

\* At first nothing has been fired, spooled or recorded.
LEMMA InitEstablishesTelemetryInv == Telemetry!Init => TelemetryInv
<1> SUFFICES ASSUME Telemetry!Init PROVE TelemetryInv
  OBVIOUS
<1> USE StepsAreBounded DEF Telemetry!Init
<1>1. TelemetryTypeOK
  BY DEF TelemetryTypeOK, EventRows, Telemetry!NoRow, Telemetry!Closed
<1>2. FilesAreWritten /\ HeadIsWorkedOn /\ EventsAreUnlinkedLate
  BY DEF FilesAreWritten, HeadIsWorkedOn, EventsAreUnlinkedLate
<1>3. FileHasTheTrace /\ ToolEventsAreUnique /\ RowsAreOver /\ SpansAreKnown
  BY DEF FileHasTheTrace, ToolEventsAreUnique, RowsAreOver, SpansAreKnown,
         Telemetry!Closed
<1> QED
  BY <1>1, <1>2, <1>3 DEF TelemetryInv

\* A hook fires: its event is new, and so is its file.
LEMMA FireKeepsTelemetryInv ==
    ASSUME TelemetryInv, NEW k \in Telemetry!Kinds, Telemetry!Fire(k)
    PROVE  TelemetryInv'
<1> USE DEF TelemetryInv, TelemetryTypeOK
<1> DEFINE new == Len(fired) + 1
<1>1. /\ Len(fired) + breaks < MaxSteps
      /\ fired' = Append(fired, k)
      /\ shim' = [shim EXCEPT ![new] = "created"]
      /\ file' = [file EXCEPT ![new] = "empty"]
      /\ UNCHANGED <<pc, batch, stopping, made, trace, spans, traceFile, open,
                     sessionRow, rows, minted, lost, unsaved, breaks>>
  BY DEF Telemetry!Fire, Telemetry!MaySurprise, Telemetry!memVars, Telemetry!dbVars,
         Telemetry!histVars
<1>2. /\ Len(fired) \in Nat /\ new \in 1 .. MaxSteps /\ Len(fired') = new
      /\ \A n \in 1 .. Len(fired) : fired'[n] = fired[n]
      /\ fired'[new] = k
  BY <1>1, StepsAreBounded
<1>3. batch # <<>> => Head(batch) \in 1 .. Len(fired)
  BY DEF FilesAreWritten
<1>4. TelemetryTypeOK'
  BY <1>1, <1>2
<1>5. FilesAreWritten'
  BY <1>1, <1>2 DEF FilesAreWritten
<1>6. HeadIsWorkedOn'
  BY <1>1, <1>2, <1>3 DEF HeadIsWorkedOn, Telemetry!Keys
<1>7. EventsAreUnlinkedLate'
  BY <1>1, <1>2 DEF EventsAreUnlinkedLate, Telemetry!Keys
<1>8. FileHasTheTrace'
  BY <1>1 DEF FileHasTheTrace
<1>9. ToolEventsAreUnique'
  <2>1. \A n \in 1 .. Len(fired) : fired[n] = k => k.hook \notin Telemetry!ToolHooks
    BY DEF Telemetry!Fire, Telemetry!Fired
  <2>2. ASSUME NEW m \in 1 .. new, NEW n \in 1 .. new, fired'[m] = fired'[n],
               fired'[m].hook \in Telemetry!ToolHooks
        PROVE  m = n
    <3> HIDE DEF TelemetryTypeOK
    <3>1. CASE m = new /\ n # new
      BY <1>2, <2>1, <2>2, <3>1
    <3>2. CASE n = new /\ m # new
      BY <1>2, <2>1, <2>2, <3>2
    <3>3. CASE m # new /\ n # new
      BY <1>2, <2>2, <3>3 DEF ToolEventsAreUnique
    <3> QED
      BY <3>1, <3>2, <3>3
  <2> QED
    BY <1>2, <2>2 DEF ToolEventsAreUnique
<1>10. RowsAreOver'
  <2>1. ASSUME NEW n \in 1 .. Len(fired), shim[n] = "done"
        PROVE  n # new /\ shim'[n] = shim[n] /\ file'[n] = file[n]
    BY <1>1, <1>2, <2>1
  <2>2. ASSUME NEW i \in 1 .. Len(rows), breaks = 0
        PROVE  \E n \in 1 .. Len(fired') :
                 /\ fired'[n] = rows[i].key
                 /\ shim'[n] = "done"
                 /\ file'[n] = "absent" \/ (pc = "post" /\ n = Head(batch))
    <3>1. PICK n \in 1 .. Len(fired) :
            /\ fired[n] = rows[i].key
            /\ shim[n] = "done"
            /\ file[n] = "absent" \/ (pc = "post" /\ n = Head(batch))
      BY <2>2 DEF RowsAreOver
    <3>2. n \in 1 .. Len(fired')
      BY <1>2
    <3> QED
      BY <1>2, <2>1, <3>1, <3>2
  <2> HIDE DEF TelemetryTypeOK
  <2> QED
    BY <1>1, <2>2 DEF RowsAreOver
<1>11. SpansAreKnown'
  BY <1>1 DEF SpansAreKnown, PreRow, PostRow
<1> QED
  BY <1>4, <1>5, <1>6, <1>7, <1>8, <1>9, <1>10, <1>11

\* A shim that goes on: it may find its file gone.
LEMMA ShimKeepsTelemetryInv ==
    ASSUME TelemetryInv, NEW n \in 1 .. MaxSteps, Telemetry!ShimStep(n)
    PROVE  TelemetryInv'
<1> USE DEF TelemetryInv, TelemetryTypeOK
<1>1. /\ \/ /\ shim[n] = "created"
            /\ shim' = [shim EXCEPT ![n] = "opened"]
            /\ file' = [file EXCEPT ![n] = "empty"]
            /\ UNCHANGED lost
         \/ /\ shim[n] = "opened"
            /\ shim' = [shim EXCEPT ![n] = "done"]
            /\ file[n] = "empty" => file' = [file EXCEPT ![n] = "full"] /\ UNCHANGED lost
            /\ file[n] # "empty" => lost' = lost \cup {n} /\ UNCHANGED file
      /\ UNCHANGED <<fired, pc, batch, stopping, made, trace, spans, traceFile, open,
                     sessionRow, rows, minted, unsaved, breaks>>
  BY DEF Telemetry!ShimStep, Telemetry!memVars, Telemetry!dbVars
<1>2. batch # <<>> => Head(batch) \in 1 .. Len(fired) /\ 1 .. Len(fired) \subseteq 1 .. MaxSteps
  BY StepsAreBounded DEF FilesAreWritten
<1>3. TelemetryTypeOK'
  BY <1>1
<1>4. FilesAreWritten'
  BY <1>1 DEF FilesAreWritten
<1>5. HeadIsWorkedOn'
  <2>1. \A m \in 1 .. MaxSteps : file[m] = "full" => file'[m] = "full"
    BY <1>1 DEF FilesAreWritten
  <2> QED
    BY <1>1, <1>2, <2>1 DEF HeadIsWorkedOn, Telemetry!Keys
<1>6. EventsAreUnlinkedLate'
  <2> SUFFICES ASSUME NEW m \in 1 .. Len(fired), shim'[m] = "done", file'[m] = "absent",
                      m \notin lost'
               PROVE  fired[m] \in Telemetry!Keys(rows)
    BY <1>1 DEF EventsAreUnlinkedLate, Telemetry!Keys
  <2>1. shim[m] = "done" /\ file[m] = "absent" /\ m \notin lost
    BY <1>1, StepsAreBounded DEF FilesAreWritten
  <2> QED
    BY <2>1 DEF EventsAreUnlinkedLate
<1>7. FileHasTheTrace' /\ ToolEventsAreUnique'
  BY <1>1 DEF FileHasTheTrace, ToolEventsAreUnique
<1>8. RowsAreOver'
  <2>1. \A m \in 1 .. Len(fired) :
          shim[m] = "done" => shim'[m] = "done" /\ file'[m] = file[m]
    BY <1>1, StepsAreBounded DEF FilesAreWritten
  <2> HIDE DEF TelemetryTypeOK
  <2> QED
    BY <1>1, <2>1 DEF RowsAreOver
<1>9. SpansAreKnown'
  BY <1>1 DEF SpansAreKnown, PreRow, PostRow
<1> QED
  BY <1>3, <1>4, <1>5, <1>6, <1>7, <1>8, <1>9

\* A function on 1 .. n is a sequence.
LEMMA FunctionsAreSequences ==
    ASSUME NEW S, NEW n \in Nat, NEW f \in [1 .. n -> S]
    PROVE  f \in Seq(S) /\ Len(f) = n
OBVIOUS

\* The listing of the spool names files that are there.
LEMMA ListingIsOfTheSpool ==
    ASSUME TelemetryInv
    PROVE  /\ Telemetry!Listing \in Seq(1 .. MaxSteps)
           /\ \A i \in 1 .. Len(Telemetry!Listing) :
                Telemetry!Listing[i] \in 1 .. Len(fired)
<1> DEFINE S == Telemetry!Spool
           C == Telemetry!Cardinality(S)
           R == {p \in S \X S : Telemetry!Before(p[1], p[2])}
           Listings == [1 .. C -> S]
<1>1. Len(fired) \in Nat /\ Len(fired) <= MaxSteps
  BY DEF TelemetryInv, TelemetryTypeOK, FilesAreWritten
<1>2. S \in SUBSET (1 .. Len(fired)) /\ 1 .. Len(fired) \in SUBSET (1 .. MaxSteps)
  BY <1>1, StepsAreBounded DEF Telemetry!Spool, Telemetry!Fired
<1>3. C = Cardinality(S)
  BY DEF Telemetry!Cardinality, Cardinality
<1>4. IsFiniteSet(S)
  <2>1. IsFiniteSet(1 .. Len(fired))
    BY <1>1, FS_Interval
  <2> QED
    BY <1>2, <2>1, FS_Subset
<1>5. C \in Nat
  BY <1>3, <1>4, FS_CardinalityType
<1>6. /\ \A m \in S : <<m, m>> \notin R
      /\ \A m, n \in S : m # n => <<m, n>> \in R \/ <<n, m>> \in R
      /\ \A m, n, o \in S : <<m, n>> \in R /\ <<n, o>> \in R => <<m, o>> \in R
  <2>1. \A m, n \in S : <<m, n>> \in R <=> Telemetry!Before(m, n)
    OBVIOUS
  <2>2. \A m \in S : m \in Nat
    BY <1>2
  <2> HIDE DEF S, R
  <2> QED
    BY <2>1, <2>2 DEF Telemetry!Before
<1>7. PICK s \in Listings : \A i, j \in 1 .. C : i < j => <<s[i], s[j]>> \in R
  <2> HIDE DEF S, R
  <2> QED
    BY <1>3, <1>4, <1>6, FiniteSetsAreListed
<1>8. \A i, j \in DOMAIN s : i < j => Telemetry!Before(s[i], s[j])
  BY <1>7
<1>9. Telemetry!Listing \in Listings
  <2> HIDE DEF C
  <2>1. \E t \in Listings : \A i, j \in DOMAIN t : i < j => Telemetry!Before(t[i], t[j])
    BY <1>8
  <2> QED
    BY <2>1 DEF Telemetry!Listing, C
<1> HIDE DEF S, C
<1>10. /\ Telemetry!Listing \in [1 .. C -> 1 .. MaxSteps]
       /\ Telemetry!Listing \in [1 .. C -> 1 .. Len(fired)]
  BY <1>2, <1>9
<1>11. Telemetry!Listing \in Seq(1 .. MaxSteps) /\ Len(Telemetry!Listing) = C
  BY <1>5, <1>10, FunctionsAreSequences
<1> QED
  BY <1>10, <1>11

\* A drain begins with a listing of the spool.
LEMMA BeginDrainKeepsTelemetryInv ==
    TelemetryInv /\ Telemetry!BeginDrain => TelemetryInv'
<1> SUFFICES ASSUME TelemetryInv, Telemetry!BeginDrain PROVE TelemetryInv'
  OBVIOUS
<1>1. /\ pc = "idle" /\ pc' = "read" /\ batch' = Telemetry!Listing
      /\ UNCHANGED <<fired, shim, file, stopping, made, trace, spans, traceFile, open,
                     sessionRow, rows, minted, lost, unsaved, breaks>>
  BY DEF Telemetry!BeginDrain, Telemetry!shimVars, Telemetry!memVars, Telemetry!dbVars,
         Telemetry!histVars
<1>2. /\ batch' \in Seq(1 .. MaxSteps)
      /\ \A i \in 1 .. Len(batch') : batch'[i] \in 1 .. Len(fired)
  BY <1>1, ListingIsOfTheSpool
<1> USE DEF TelemetryInv
<1>3. TelemetryTypeOK'
  BY <1>1, <1>2 DEF TelemetryTypeOK
<1>4. FilesAreWritten'
  BY <1>1, <1>2 DEF FilesAreWritten
<1>5. HeadIsWorkedOn' /\ FileHasTheTrace' /\ ToolEventsAreUnique' /\ EventsAreUnlinkedLate'
  BY <1>1 DEF HeadIsWorkedOn, FileHasTheTrace, ToolEventsAreUnique,
              EventsAreUnlinkedLate, Telemetry!Keys
<1>6. RowsAreOver'
  BY <1>1 DEF RowsAreOver
<1>7. SpansAreKnown'
  BY <1>1 DEF SpansAreKnown, PreRow, PostRow
<1> QED
  BY <1>3, <1>4, <1>5, <1>6, <1>7

\* The rest of a listing is a listing.
LEMMA RestOfListing ==
    ASSUME TelemetryInv, batch # <<>>
    PROVE  /\ Head(batch) \in 1 .. Len(fired) /\ Head(batch) \in 1 .. MaxSteps
           /\ Tail(batch) \in Seq(1 .. MaxSteps)
           /\ \A i \in 1 .. Len(Tail(batch)) : Tail(batch)[i] \in 1 .. Len(fired)
<1>1. batch \in Seq(1 .. MaxSteps) /\ Len(batch) \in Nat \ {0}
  BY DEF TelemetryInv, TelemetryTypeOK
<1>4. Head(batch) = batch[1] /\ batch[1] \in 1 .. MaxSteps
  BY <1>1, StepsAreBounded
<1>2. /\ Tail(batch) \in Seq(1 .. MaxSteps) /\ Len(Tail(batch)) = Len(batch) - 1
      /\ \A i \in 1 .. Len(Tail(batch)) : Tail(batch)[i] = batch[i + 1]
  BY <1>1, HeadTailProperties
<1>3. \A i \in 1 .. Len(batch) : batch[i] \in 1 .. Len(fired)
  BY DEF TelemetryInv, FilesAreWritten
<1> QED
  BY <1>1, <1>2, <1>3, <1>4

\* A file that is dropped or removed.
LEMMA RemovalKeepsTelemetryInv ==
    TelemetryInv /\ (Telemetry!DropEmpty \/ Telemetry!PostAndUnlink) => TelemetryInv'
<1> SUFFICES ASSUME TelemetryInv, Telemetry!DropEmpty \/ Telemetry!PostAndUnlink
             PROVE  TelemetryInv'
  OBVIOUS
<1> DEFINE n == Head(batch)
<1>1. /\ batch # <<>> /\ pc' = "read" /\ batch' = Tail(batch)
      /\ file' = [file EXCEPT ![n] = "absent"]
      /\ (pc = "read" /\ file[n] = "empty") \/ pc = "post"
      /\ UNCHANGED <<fired, shim, stopping, made, trace, spans, traceFile, open,
                     sessionRow, rows, minted, lost, unsaved, breaks>>
  BY DEF Telemetry!DropEmpty, Telemetry!PostAndUnlink, Telemetry!shimVars,
         Telemetry!memVars, Telemetry!dbVars, Telemetry!histVars, TelemetryInv,
         HeadIsWorkedOn
<1>2. n \in 1 .. MaxSteps /\ n \in 1 .. Len(fired)
  BY <1>1, RestOfListing
<1>3. /\ batch' \in Seq(1 .. MaxSteps)
      /\ \A i \in 1 .. Len(batch') : batch'[i] \in 1 .. Len(fired)
  BY <1>1, RestOfListing
<1> HIDE DEF n
<1> USE DEF TelemetryInv
<1>4. TelemetryTypeOK'
  BY <1>1, <1>2, <1>3 DEF TelemetryTypeOK
<1>5. FilesAreWritten'
  BY <1>1, <1>2, <1>3 DEF FilesAreWritten, TelemetryTypeOK
<1>6. HeadIsWorkedOn' /\ FileHasTheTrace' /\ ToolEventsAreUnique'
  BY <1>1 DEF HeadIsWorkedOn, FileHasTheTrace, ToolEventsAreUnique
<1>7. ASSUME NEW m \in 1 .. Len(fired)
      PROVE  m \in 1 .. MaxSteps /\ (m # n => file'[m] = file[m]) /\ file'[n] = "absent"
  BY <1>1, <1>2, StepsAreBounded DEF TelemetryTypeOK, FilesAreWritten
<1>8. EventsAreUnlinkedLate'
  <2>1. shim[n] = "done" => fired[n] \in Telemetry!Keys(rows)
    BY <1>1, <1>2 DEF FilesAreWritten, HeadIsWorkedOn, n
  <2> QED
    BY <1>1, <1>7, <2>1 DEF EventsAreUnlinkedLate, Telemetry!Keys
<1>9. RowsAreOver'
  <2> SUFFICES ASSUME breaks = 0
               PROVE  RowsAreOver'
    BY <1>1 DEF RowsAreOver
  <2>1. ~stopping /\ pc # "off" /\ open.row = Telemetry!NoRow
    BY DEF RowsAreOver
  <2>2. ASSUME NEW i \in 1 .. Len(rows)
        PROVE  \E m \in 1 .. Len(fired) :
                 fired[m] = rows[i].key /\ shim[m] = "done" /\ file'[m] = "absent"
    <3>1. PICK m \in 1 .. Len(fired) :
            fired[m] = rows[i].key /\ shim[m] = "done" /\ (file[m] = "absent" \/ m = n)
      BY DEF RowsAreOver, n
    <3> QED
      BY <1>7, <3>1
  <2> QED
    BY <1>1, <2>1, <2>2 DEF RowsAreOver
<1>10. SpansAreKnown'
  BY <1>1 DEF SpansAreKnown, PreRow, PostRow
<1> QED
  BY <1>4, <1>5, <1>6, <1>8, <1>9, <1>10

\* The trace id of an event is positive; it is the one in the file, as long as that
\* could be written.
LEMMA AssignTraceKeepsTheTrace ==
    ASSUME TelemetryTypeOK, FileHasTheTrace, pc = "read",
           NEW hook, Telemetry!AssignTrace(hook)
    PROVE  /\ trace' \in Nat \ {0} /\ traceFile' \in Nat /\ breaks' \in Nat
           /\ minted' \in [traces : Nat, spans : Nat]
           /\ open' \in [session : Nat, row : EventRows \cup {Telemetry!NoRow}]
           /\ open'.row = open.row
           /\ breaks' = 0 => breaks = 0
           /\ ~unsaved' =>
                /\ trace' = traceFile'
                /\ {open'.session, sessionRow} \subseteq {0, traceFile'}
                /\ \A i \in 1 .. Len(rows) : rows[i].trace = traceFile'
                /\ open.row # Telemetry!NoRow => open.row.trace = traceFile'
<1> DEFINE known == Telemetry!KnownTrace(hook)
           new == minted.traces + 1
<1>1. /\ trace \in Nat /\ traceFile \in Nat /\ sessionRow \in Nat /\ breaks \in Nat
      /\ minted \in [traces : Nat, spans : Nat]
      /\ open \in [session : Nat, row : EventRows \cup {Telemetry!NoRow}]
      /\ open.session \in Nat
      /\ new \in Nat \ {0}
  BY DEF TelemetryTypeOK
<1>2. /\ known \in Nat
      /\ ~unsaved => known \in {0, traceFile} /\ (known = 0 => traceFile = 0)
  BY <1>1 DEF Telemetry!KnownTrace, FileHasTheTrace
<1>3. CASE known # 0
  <2>1. /\ trace' = known
        /\ UNCHANGED <<traceFile, open, unsaved, breaks>>
        /\ minted' = [minted EXCEPT !.spans = @ + 1]
    BY <1>3 DEF Telemetry!AssignTrace
  <2>2. minted' \in [traces : Nat, spans : Nat]
    BY <1>1, <2>1
  <2> HIDE DEF known
  <2> QED
    BY <1>1, <1>2, <1>3, <2>1, <2>2 DEF FileHasTheTrace
<1>4. CASE known = 0
  <2>1. /\ trace' = new
        /\ minted' = [traces |-> new, spans |-> minted.spans + 1]
        /\ \/ traceFile' = new /\ UNCHANGED <<unsaved, breaks>>
           \/ breaks' = breaks + 1 /\ unsaved' = TRUE /\ UNCHANGED traceFile
        /\ open' = open \/ (sessionRow = 0 /\ open' = [open EXCEPT !.session = new])
    BY <1>4 DEF Telemetry!AssignTrace, Telemetry!Fault
  <2>2. minted' \in [traces : Nat, spans : Nat] /\ minted.spans \in Nat
    BY <1>1, <2>1
  <2>3. /\ open' \in [session : Nat, row : EventRows \cup {Telemetry!NoRow}]
        /\ open'.row = open.row
        /\ open'.session \in {open.session, new}
    <3>1. CASE open' = open
      BY <1>1, <3>1
    <3>2. CASE open' = [open EXCEPT !.session = new]
      <4> HIDE DEF new
      <4>1. open' \in [session : Nat, row : EventRows \cup {Telemetry!NoRow}]
        BY <1>1, <3>2
      <4>2. open'.row = open.row /\ open'.session = new
        BY <1>1, <3>2
      <4> QED
        BY <4>1, <4>2
    <3> QED
      BY <2>1, <3>1, <3>2
  <2>4. ASSUME ~unsaved' PROVE ~unsaved /\ traceFile' = new /\ traceFile = 0
    BY <1>2, <1>4, <2>1, <2>4
  <2>5. ASSUME ~unsaved'
        PROVE  /\ {open'.session, sessionRow} \subseteq {0, traceFile'}
               /\ open.row # Telemetry!NoRow => open.row.trace = traceFile'
               /\ \A i \in 1 .. Len(rows) : rows[i].trace = traceFile'
    <3> HIDE DEF new
    <3>1. open.session = 0 /\ sessionRow = 0
      BY <2>4, <2>5 DEF FileHasTheTrace
    <3>2. open.row = Telemetry!NoRow
      BY <1>1, <2>4, <2>5 DEF FileHasTheTrace, EventRows
    <3>3. 1 .. Len(rows) = {}
      <4>1. \A i \in 1 .. Len(rows) : rows[i] \in EventRows
        BY DEF TelemetryTypeOK
      <4> QED
        BY <2>4, <2>5, <4>1 DEF FileHasTheTrace, EventRows
    <3> QED
      BY <2>3, <2>4, <2>5, <3>1, <3>2, <3>3
  <2> HIDE DEF known, new
  <2> QED
    BY <1>1, <2>1, <2>2, <2>3, <2>4, <2>5
<1> QED
  BY <1>3, <1>4

\* The event at the head is given its ids.
LEMMA ProcessKeepsTelemetryInv == TelemetryInv /\ Telemetry!ProcessEvent => TelemetryInv'
<1> SUFFICES ASSUME TelemetryInv, Telemetry!ProcessEvent PROVE TelemetryInv'
  OBVIOUS
<1> DEFINE n == Head(batch)
           k == fired[n]
           new == minted.spans + 1
<1>1. /\ pc = "read" /\ pc' = "insert" /\ batch # <<>> /\ file[n] = "full"
      /\ UNCHANGED <<fired, shim, file, batch, stopping, sessionRow, rows, lost>>
      /\ Telemetry!AssignTrace(k.hook)
  BY DEF Telemetry!ProcessEvent, Telemetry!shimVars
<1>2. PICK span \in 1 .. new :
        /\ Telemetry!AssignSpan(k, new, span)
        /\ made' = [key |-> k, span |-> span, trace |-> trace']
  BY DEF Telemetry!ProcessEvent
<1>3. /\ trace' \in Nat \ {0} /\ traceFile' \in Nat /\ breaks' \in Nat
      /\ minted' \in [traces : Nat, spans : Nat]
      /\ open' \in [session : Nat, row : EventRows \cup {Telemetry!NoRow}]
      /\ open'.row = open.row
      /\ breaks' = 0 => breaks = 0
      /\ ~unsaved' =>
           /\ trace' = traceFile'
           /\ {open'.session, sessionRow} \subseteq {0, traceFile'}
           /\ \A i \in 1 .. Len(rows) : rows[i].trace = traceFile'
           /\ open.row # Telemetry!NoRow => open.row.trace = traceFile'
  BY <1>1, AssignTraceKeepsTheTrace DEF TelemetryInv
<1>4. n \in 1 .. MaxSteps /\ n \in 1 .. Len(fired)
  BY <1>1, RestOfListing
<1>5. k \in Telemetry!Kinds
  BY <1>4 DEF TelemetryInv, TelemetryTypeOK
<1>6. new \in Nat /\ span \in Nat \ {0}
  BY DEF TelemetryInv, TelemetryTypeOK
<1>7. made' \in EventRows /\ made'.key = k /\ made'.span = span /\ made'.trace = trace'
  BY <1>2, <1>3, <1>5, <1>6 DEF EventRows
<1>8. /\ k.hook = "PreToolUse" =>
           /\ k.tool \in Tools /\ span = new
           /\ spans' = [spans EXCEPT ![k.tool] = new]
      /\ k.hook = "PostToolUse" =>
           /\ k.tool \in Tools
           /\ spans[k.tool] # 0 => span = spans[k.tool]
           /\ spans' = [spans EXCEPT ![k.tool] = 0]
      /\ k.hook \notin {"PreToolUse", "PostToolUse"} => spans' = spans
  <2>1. k.hook \in {"PreToolUse", "PostToolUse", "SessionStart", "SubagentStart",
                    "SubagentStop", "Stop"}
    BY <1>5 DEF Telemetry!Kinds, Telemetry!ToolHooks, Telemetry!Hooks
  <2>2. k.hook \in {"PreToolUse", "PostToolUse"} => k.tool \in Tools
    BY <1>5 DEF Telemetry!Kinds, Telemetry!ToolHooks, Telemetry!Hooks
  <2> HIDE DEF k, new
  <2> QED
    BY <1>2, <2>1, <2>2 DEF Telemetry!AssignSpan, Telemetry!SpanOfCall
<1> HIDE DEF n, k, new
<1> USE DEF TelemetryInv
<1>9. spans \in [Tools -> Nat] /\ spans' \in [Tools -> Nat]
  <2>1. spans \in [Tools -> Nat]
    BY DEF TelemetryTypeOK
  <2> QED
    BY <1>6, <1>8, <2>1
<1>10. TelemetryTypeOK'
  BY <1>1, <1>3, <1>9 DEF TelemetryTypeOK
<1>11. FilesAreWritten' /\ ToolEventsAreUnique' /\ EventsAreUnlinkedLate'
  BY <1>1 DEF FilesAreWritten, ToolEventsAreUnique, EventsAreUnlinkedLate, Telemetry!Keys
<1>12. HeadIsWorkedOn'
  BY <1>1, <1>7 DEF HeadIsWorkedOn, n, k
<1>13. FileHasTheTrace'
  BY <1>1, <1>3, <1>7 DEF FileHasTheTrace
<1>14. RowsAreOver'
  BY <1>1, <1>3 DEF RowsAreOver
<1>15. SpansAreKnown'
  <2> SUFFICES ASSUME breaks = 0 PROVE SpansAreKnown'
    BY <1>3 DEF SpansAreKnown
  <2>1. /\ made'.key.hook = "PreToolUse" => spans'[made'.key.tool] = made'.span
        /\ made'.key.hook = "PostToolUse" => spans'[made'.key.tool] = 0
    BY <1>7, <1>8, <1>9
  <2>2. ASSUME NEW i \in 1 .. Len(rows), PreRow(i)
        PROVE  \/ spans'[rows[i].key.tool] = rows[i].span
               \/ /\ k.hook = "PostToolUse"
                  /\ k.tool = rows[i].key.tool /\ span = rows[i].span
               \/ \E j \in 1 .. Len(rows) : PostRow(j, i)
    <3>1. /\ rows[i] \in EventRows /\ rows[i].span # 0
          /\ rows[i].key.tool \in Tools
      <4>1. rows \in Seq(EventRows)
        BY DEF TelemetryTypeOK
      <4>2. rows[i] \in EventRows
        BY <4>1
      <4>3. rows[i].span # 0 /\ rows[i].key \in Telemetry!Kinds
        BY <4>2 DEF EventRows
      <4> QED
        BY <2>2, <4>2, <4>3 DEF PreRow, Telemetry!Kinds, Telemetry!Hooks
    <3>2. CASE spans[rows[i].key.tool] = rows[i].span
      <4>1. CASE k.hook = "PreToolUse" /\ k.tool = rows[i].key.tool
        <5>1. rows[i].key = k
          <6>1. rows[i].key \in Telemetry!Kinds
            BY <3>1 DEF EventRows
          <6> QED
            BY <1>5, <2>2, <4>1, <6>1 DEF PreRow, Telemetry!Kinds, Telemetry!Hooks
        <5>2. PICK m \in 1 .. Len(fired) : fired[m] = k /\ file[m] = "absent"
          BY <1>1, <5>1 DEF RowsAreOver
        <5>3. m = n
          BY <1>4, <4>1, <5>2 DEF ToolEventsAreUnique, Telemetry!ToolHooks, k
        <5> QED
          BY <1>1, <5>2, <5>3
      <4>2. CASE k.hook = "PostToolUse" /\ k.tool = rows[i].key.tool
        BY <1>8, <3>1, <3>2, <4>2
      <4>3. CASE /\ k.hook \in {"PreToolUse", "PostToolUse"}
                 /\ k.tool # rows[i].key.tool
        <5>1. spans'[rows[i].key.tool] = spans[rows[i].key.tool]
          <6> DEFINE tool == rows[i].key.tool
          <6>1. tool \in Tools /\ tool # k.tool
            BY <3>1, <4>3
          <6> HIDE DEF tool
          <6>2. spans'[tool] = spans[tool]
            BY <1>8, <1>9, <4>3, <6>1
          <6> QED
            BY <6>2 DEF tool
        <5> QED
          BY <3>2, <5>1
      <4>4. CASE k.hook \notin {"PreToolUse", "PostToolUse"}
        BY <1>8, <3>2, <4>4
      <4> QED
        BY <4>1, <4>2, <4>3, <4>4
    <3>3. CASE spans[rows[i].key.tool] # rows[i].span
      BY <1>1, <2>2, <3>3 DEF SpansAreKnown
    <3> QED
      BY <3>2, <3>3
  <2>3. \A i, j \in 1 .. Len(rows) :
          i < j /\ PreRow(i) /\ PostRow(j, i) => rows[i].span = rows[j].span
    BY DEF SpansAreKnown
  <2>4. /\ \A i : PreRow(i)' <=> PreRow(i)
        /\ \A i, j : PostRow(j, i)' <=> PostRow(j, i)
    BY <1>1 DEF PreRow, PostRow
  <2> HIDE DEF PreRow, PostRow
  <2> QED
    BY <1>1, <1>7, <2>1, <2>2, <2>3, <2>4 DEF SpansAreKnown
<1> QED
  BY <1>10, <1>11, <1>12, <1>13, <1>14, <1>15

\* The row is committed, after the one that an earlier transaction has left open.
LEMMA InsertKeepsTelemetryInv == TelemetryInv /\ Telemetry!Insert => TelemetryInv'
<1> SUFFICES ASSUME TelemetryInv, Telemetry!Insert PROVE TelemetryInv'
  OBVIOUS
<1> DEFINE old == IF open.row = Telemetry!NoRow THEN rows ELSE Append(rows, open.row)
           n == Head(batch)
<1>1. /\ pc = "insert" /\ pc' = "post"
      /\ rows' = IF made.key \in Telemetry!Keys(old) THEN old ELSE Append(old, made)
      /\ sessionRow' = IF open.session # 0 THEN open.session ELSE sessionRow
      /\ open' = Telemetry!Closed
      /\ UNCHANGED <<fired, shim, file, batch, stopping, trace, spans, traceFile,
                     minted, lost, unsaved, breaks>>
  BY DEF Telemetry!Insert, Telemetry!shimVars, Telemetry!memVars, Telemetry!histVars
<1> USE DEF TelemetryInv
<1>2. /\ batch # <<>> /\ file[n] = "full" /\ made \in EventRows /\ made.key = fired[n]
      /\ n \in 1 .. Len(fired) /\ n \in 1 .. MaxSteps
  BY <1>1, RestOfListing DEF HeadIsWorkedOn
<1>3. /\ open.session \in Nat /\ open.row \in EventRows \cup {Telemetry!NoRow}
      /\ sessionRow \in Nat /\ rows \in Seq(EventRows)
  BY DEF TelemetryTypeOK
<1>4. old \in Seq(EventRows)
  BY <1>3
<1>5. /\ Len(rows) \in Nat /\ Len(old) \in Nat /\ Len(rows) <= Len(old)
      /\ \A i \in 1 .. Len(rows) : old[i] = rows[i]
      /\ \A i \in 1 .. Len(old) : i \notin 1 .. Len(rows) =>
           open.row # Telemetry!NoRow /\ old[i] = open.row
  BY <1>3
<1> HIDE DEF old
<1>6. /\ rows' \in Seq(EventRows) /\ Len(rows') \in Nat /\ Len(old) <= Len(rows')
      /\ \A i \in 1 .. Len(old) : rows'[i] = old[i]
      /\ \A i \in 1 .. Len(rows') : i \notin 1 .. Len(old) =>
           rows'[i] = made /\ made.key \notin Telemetry!Keys(old)
  BY <1>1, <1>2, <1>4, <1>5
<1>7. made.key \in Telemetry!Keys(rows')
  <2>1. CASE made.key \in Telemetry!Keys(old)
    BY <1>1, <2>1
  <2>2. CASE made.key \notin Telemetry!Keys(old)
    <3>1. rows' = Append(old, made) /\ Len(old) + 1 \in DOMAIN rows'
      BY <1>1, <1>2, <1>4, <2>2
    <3>2. rows'[Len(old) + 1] = made
      BY <1>2, <1>4, <3>1
    <3> QED
      BY <3>1, <3>2 DEF Telemetry!Keys
  <2> QED
    BY <2>1, <2>2
<1>8. /\ \A i \in 1 .. Len(rows) : i \in 1 .. Len(rows') /\ rows'[i] = rows[i]
      /\ Telemetry!Keys(rows) \subseteq Telemetry!Keys(rows')
  <2>1. \A i \in 1 .. Len(rows) : i \in 1 .. Len(rows') /\ rows'[i] = rows[i]
    BY <1>5, <1>6
  <2>2. DOMAIN rows = 1 .. Len(rows) /\ DOMAIN rows' = 1 .. Len(rows')
    BY <1>3, <1>6
  <2> QED
    BY <2>1, <2>2 DEF Telemetry!Keys
<1>9. TelemetryTypeOK'
  <2>1. open' \in [session : Nat, row : EventRows \cup {Telemetry!NoRow}]
    BY <1>1 DEF Telemetry!Closed
  <2> QED
    BY <1>1, <1>3, <1>6, <2>1 DEF TelemetryTypeOK
<1>10. FilesAreWritten' /\ ToolEventsAreUnique'
  BY <1>1 DEF FilesAreWritten, ToolEventsAreUnique
<1>11. EventsAreUnlinkedLate'
  BY <1>1, <1>8 DEF EventsAreUnlinkedLate
<1>12. HeadIsWorkedOn'
  BY <1>1, <1>2, <1>7 DEF HeadIsWorkedOn
<1>13. FileHasTheTrace'
  <2> SUFFICES ASSUME ~unsaved PROVE FileHasTheTrace'
    BY <1>1 DEF FileHasTheTrace
  <2>1. \A i \in 1 .. Len(rows') : rows'[i].trace = traceFile
    BY <1>1, <1>5, <1>6 DEF FileHasTheTrace
  <2>2. {trace, sessionRow'} \subseteq {0, traceFile}
    BY <1>1 DEF FileHasTheTrace
  <2> QED
    BY <1>1, <2>1, <2>2 DEF FileHasTheTrace, Telemetry!Closed
<1>14. ASSUME breaks = 0
       PROVE  /\ ~stopping /\ open.row = Telemetry!NoRow
              /\ \A i \in 1 .. Len(rows') :
                   \/ i \in 1 .. Len(rows) /\ rows'[i] = rows[i]
                   \/ /\ i \notin 1 .. Len(rows) /\ rows'[i] = made
                      /\ made.key \notin Telemetry!Keys(rows)
  <2>1. ~stopping /\ open.row = Telemetry!NoRow
    BY <1>14 DEF RowsAreOver
  <2>2. old = rows
    BY <2>1 DEF old
  <2> QED
    BY <1>6, <2>1, <2>2
<1>15. RowsAreOver'
  <2> SUFFICES ASSUME breaks = 0 PROVE RowsAreOver'
    BY <1>1 DEF RowsAreOver
  <2>1. ASSUME NEW i \in 1 .. Len(rows')
        PROVE  \E m \in 1 .. Len(fired) :
                 /\ fired[m] = rows'[i].key /\ shim[m] = "done"
                 /\ (file[m] = "absent" \/ m = n)
    <3>1. CASE i \in 1 .. Len(rows) /\ rows'[i] = rows[i]
      BY <1>1, <3>1 DEF RowsAreOver
    <3>2. CASE rows'[i] = made
      BY <1>2, <3>2 DEF FilesAreWritten
    <3> QED
      BY <1>14, <3>1, <3>2
  <2> QED
    BY <1>1, <1>14, <2>1 DEF RowsAreOver, Telemetry!Closed
<1>16. SpansAreKnown'
  <2> SUFFICES ASSUME breaks = 0 PROVE SpansAreKnown'
    BY <1>1 DEF SpansAreKnown
  <2>1. ASSUME NEW i \in 1 .. Len(rows'), NEW j \in 1 .. Len(rows'), i < j,
               PreRow(i)', PostRow(j, i)'
        PROVE  rows'[i].span = rows'[j].span
    <3>1. CASE j \in 1 .. Len(rows)
      <4>1. i \in 1 .. Len(rows) /\ rows'[i] = rows[i] /\ rows'[j] = rows[j]
        BY <1>3, <1>8, <2>1, <3>1
      <4> QED
        BY <2>1, <3>1, <4>1 DEF SpansAreKnown, PreRow, PostRow
    <3>2. CASE j \notin 1 .. Len(rows)
      <4>1. /\ rows'[j] = made /\ made.key \notin Telemetry!Keys(rows)
            /\ made.key.hook = "PostToolUse"
        BY <1>14, <2>1, <3>2 DEF PostRow
      <4>2. i \in 1 .. Len(rows) /\ rows'[i] = rows[i]
        BY <1>14, <2>1, <4>1 DEF PreRow
      <4>3. spans[made.key.tool] = 0 /\ made.key.tool = rows[i].key.tool
        BY <1>1, <2>1, <4>1, <4>2 DEF SpansAreKnown, PostRow
      <4>4. rows[i].span # 0
        <5>1. rows[i] \in EventRows
          BY <1>3, <4>2
        <5> QED
          BY <5>1 DEF EventRows
      <4>5. \A l \in 1 .. Len(rows) : ~PostRow(l, i)
        <5> SUFFICES ASSUME NEW l \in 1 .. Len(rows), PostRow(l, i) PROVE FALSE
          OBVIOUS
        <5>1. rows[l] \in EventRows /\ DOMAIN rows = 1 .. Len(rows)
          BY <1>3
        <5>2. rows[l].key \in Telemetry!Kinds /\ made.key \in Telemetry!Kinds
          BY <1>2, <5>1 DEF EventRows
        <5>3. rows[l].key = made.key
          BY <4>1, <4>3, <5>2 DEF PostRow, Telemetry!Kinds, Telemetry!Hooks
        <5> QED
          BY <4>1, <5>1, <5>3 DEF Telemetry!Keys
      <4>6. made.span = rows[i].span
        BY <2>1, <4>2, <4>3, <4>4, <4>5 DEF SpansAreKnown, PreRow
      <4> QED
        BY <4>1, <4>2, <4>6
    <3> QED
      BY <3>1, <3>2
  <2>2. ASSUME NEW i \in 1 .. Len(rows'), PreRow(i)'
        PROVE  \/ spans[rows'[i].key.tool] = rows'[i].span
               \/ \E j \in 1 .. Len(rows') : PostRow(j, i)'
    <3>1. CASE i \notin 1 .. Len(rows)
      BY <1>1, <1>14, <2>2, <3>1 DEF SpansAreKnown, PreRow
    <3>2. CASE i \in 1 .. Len(rows) /\ \E j \in 1 .. Len(rows) : PostRow(j, i)
      BY <1>8, <3>2 DEF PostRow
    <3>3. CASE i \in 1 .. Len(rows) /\ spans[rows[i].key.tool] = rows[i].span
      BY <1>8, <3>3
    <3>4. CASE /\ i \in 1 .. Len(rows)
               /\ made.key.hook = "PostToolUse" /\ made.key.tool = rows[i].key.tool
      <4>1. PICK j \in DOMAIN rows' : rows'[j].key = made.key
        BY <1>7 DEF Telemetry!Keys
      <4>2. j \in 1 .. Len(rows')
        BY <1>6
      <4> QED
        BY <1>8, <3>4, <4>1, <4>2 DEF PostRow
    <3>5. i \in 1 .. Len(rows) => PreRow(i)
      BY <1>8, <2>2 DEF PreRow
    <3> QED
      BY <3>1, <3>2, <3>3, <3>4, <3>5 DEF SpansAreKnown
  <2> QED
    BY <1>1, <2>1, <2>2 DEF SpansAreKnown
<1> QED
  BY <1>9, <1>10, <1>11, <1>12, <1>13, <1>15, <1>16

\* The steps of the flusher that give an event up, or with which it ends or begins:
\* files and rows stay as they are, and the listing is cut or given up.
LEMMA PauseKeepsTelemetryInv ==
    ASSUME TelemetryInv,
           pc' \in {"off", "idle", "read"},
           batch' \in {batch, <<>>} \/ (batch # <<>> /\ batch' = Tail(batch)),
           trace' \in {0, trace},
           spans' \in [Tools -> Nat],
           open' = open \/ open' = Telemetry!Closed
             \/ (pc = "insert" /\ open' = [open EXCEPT !.row = made]),
           breaks' = breaks + 1 \/
             (breaks' = breaks /\ open' = open /\ pc \notin {"insert", "post"}
              /\ (pc = "off" \/ (spans' = spans /\ UNCHANGED stopping
                                 /\ (pc' = "off" => stopping)))),
           UNCHANGED <<fired, shim, file, traceFile, sessionRow, rows, minted, lost,
                       unsaved>>
    PROVE  TelemetryInv'
<1> USE DEF TelemetryInv
<1>1. /\ batch' \in Seq(1 .. MaxSteps)
      /\ \A i \in 1 .. Len(batch') : batch'[i] \in 1 .. Len(fired)
  <2>1. CASE batch' = batch
    BY <2>1 DEF TelemetryTypeOK, FilesAreWritten
  <2>2. CASE batch' = <<>>
    BY <2>2
  <2>3. CASE batch # <<>> /\ batch' = Tail(batch)
    BY <2>3, RestOfListing
  <2> QED
    BY <2>1, <2>2, <2>3
<1>2. /\ open' \in [session : Nat, row : EventRows \cup {Telemetry!NoRow}]
      /\ open'.session \in {0, open.session}
      /\ open'.row \in {Telemetry!NoRow, open.row} \/ (pc = "insert" /\ open'.row = made)
  <2>1. open \in [session : Nat, row : EventRows \cup {Telemetry!NoRow}]
    BY DEF TelemetryTypeOK
  <2>2. CASE open' = open
    BY <2>1, <2>2
  <2>3. CASE open' = Telemetry!Closed
    BY <2>3 DEF Telemetry!Closed
  <2>4. CASE pc = "insert" /\ open' = [open EXCEPT !.row = made]
    <3>1. made \in EventRows
      BY <2>4 DEF HeadIsWorkedOn
    <3> QED
      BY <2>1, <2>4, <3>1
  <2> QED
    BY <2>2, <2>3, <2>4
<1>3. TelemetryTypeOK'
  <2>1. breaks' \in Nat /\ trace' \in Nat
    BY DEF TelemetryTypeOK
  <2> QED
    BY <1>1, <1>2, <2>1 DEF TelemetryTypeOK
<1>4. FilesAreWritten'
  BY <1>1 DEF FilesAreWritten
<1>5. HeadIsWorkedOn' /\ ToolEventsAreUnique' /\ EventsAreUnlinkedLate'
  BY DEF HeadIsWorkedOn, ToolEventsAreUnique, EventsAreUnlinkedLate, Telemetry!Keys
<1>6. FileHasTheTrace'
  BY <1>2 DEF FileHasTheTrace
<1>7. CASE breaks' = breaks + 1
  <2>1. breaks' # 0
    BY <1>7 DEF TelemetryTypeOK
  <2> QED
    BY <1>3, <1>4, <1>5, <1>6, <2>1 DEF RowsAreOver, SpansAreKnown
<1>8. CASE breaks' # breaks + 1
  <2>1. RowsAreOver'
    BY <1>8 DEF RowsAreOver
  <2>2. breaks = 0 => pc # "off"
    BY DEF RowsAreOver
  <2>3. SpansAreKnown'
    BY <1>8, <2>2 DEF SpansAreKnown, PreRow, PostRow
  <2> QED
    BY <1>3, <1>4, <1>5, <1>6, <2>1, <2>3
<1> QED
  BY <1>7, <1>8

\* Every step of the hooks, the shim and the flusher.
LEMMA NextKeepsTelemetryInv ==
    TelemetryInv /\ [Telemetry!Next]_telemetryVars => TelemetryInv'
<1> SUFFICES ASSUME TelemetryInv, [Telemetry!Next]_telemetryVars PROVE TelemetryInv'
  OBVIOUS
<1> USE DEF Telemetry!shimVars, Telemetry!memVars, Telemetry!dbVars, Telemetry!histVars,
            Telemetry!Fault
<1>1. spans \in [Tools -> Nat] /\ [t \in Tools |-> 0] \in [Tools -> Nat]
  BY DEF TelemetryInv, TelemetryTypeOK
<1>2. pc \in {"insert", "post"} => batch # <<>>
  BY DEF TelemetryInv, HeadIsWorkedOn
<1>3. CASE \E k \in Telemetry!Kinds : Telemetry!Fire(k)
  BY <1>3, FireKeepsTelemetryInv
<1>4. CASE \E n \in 1 .. MaxSteps : Telemetry!ShimStep(n)
  BY <1>4, ShimKeepsTelemetryInv
<1>5. CASE Telemetry!BeginDrain
  BY <1>5, BeginDrainKeepsTelemetryInv
<1>6. CASE Telemetry!EndDrain
  BY <1>1, <1>6, PauseKeepsTelemetryInv DEF Telemetry!EndDrain
<1>7. CASE Telemetry!DropEmpty \/ Telemetry!PostAndUnlink
  BY <1>7, RemovalKeepsTelemetryInv
<1>8. CASE Telemetry!ProcessEvent
  BY <1>8, ProcessKeepsTelemetryInv
<1>9. CASE Telemetry!Insert
  BY <1>9, InsertKeepsTelemetryInv
<1>10. CASE Telemetry!InsertFails
  BY <1>1, <1>2, <1>10, PauseKeepsTelemetryInv DEF Telemetry!InsertFails
<1>11. CASE Telemetry!CommitFails
  BY <1>1, <1>11, PauseKeepsTelemetryInv DEF Telemetry!CommitFails
<1>12. CASE Telemetry!MarkFails
  BY <1>1, <1>12, PauseKeepsTelemetryInv DEF Telemetry!MarkFails
<1>13. CASE Telemetry!Shutdown
  BY <1>1, <1>13, PauseKeepsTelemetryInv DEF Telemetry!Shutdown
<1>14. CASE Telemetry!Crash
  BY <1>1, <1>14, PauseKeepsTelemetryInv DEF Telemetry!Crash
<1>15. CASE Telemetry!Start
  BY <1>1, <1>15, PauseKeepsTelemetryInv DEF Telemetry!Start
<1>16. CASE UNCHANGED telemetryVars
  BY <1>16 DEF telemetryVars, TelemetryInv, TelemetryTypeOK, FilesAreWritten,
               HeadIsWorkedOn, EventsAreUnlinkedLate, FileHasTheTrace,
               ToolEventsAreUnique, RowsAreOver, SpansAreKnown, PreRow, PostRow,
               Telemetry!Keys
<1> QED
  BY <1>3, <1>4, <1>5, <1>6, <1>7, <1>8, <1>9, <1>10, <1>11, <1>12, <1>13, <1>14, <1>15,
     <1>16 DEF Telemetry!Next, Telemetry!DrainStep

-----------------------------------------------------------------------------
(* PrMonitor.                                                              *)

Stall(p, c) == Monitor!Event("STALLED", p, c)

MonitorTypeOK ==
    /\ poll \in Nat
    /\ prs \in Monitor!Snapshots
    /\ pendingSeen \in [Monitor!Pairs -> Nat \cup {None}]
    /\ since \in [Monitor!Keys -> Nat \cup {None}]
    /\ told \in [Monitor!Keys -> Nat]

\* The markers and the history are those of the last snapshot.
MarkersAreCurrent ==
    /\ noChecks = Monitor!NoChecks(prs)
    /\ actionable = Monitor!FixableIn(prs)
    /\ \A k \in Monitor!Keys :
         /\ since[k] # None => Monitor!Holds(k, prs)
         /\ k.kind # "STALLED" /\ Monitor!Holds(k, prs) => since[k] # None
         /\ since[k] # None => since[k] <= poll
         /\ k \in carried => since[k] # None
    /\ \A p \in PRs, c \in Checks : pendingSeen[<<p, c>>] = since[Stall(p, c)]

\* What is so for the first time is told at once, but not what was so at the start.
ToldAtOnce ==
    \A k \in Monitor!Keys :
        k.kind # "STALLED" /\ since[k] # None =>
            k \notin carried /\ told[k] = IF since[k] = 0 THEN 0 ELSE 1

\* A stall has its marker from the poll that tells it, or from before it began.
StallsAreMarked ==
    \A p \in PRs, c \in Checks :
        LET k == Stall(p, c)
        IN  since[k] # None =>
              /\ since[k] > 0
              /\ told[k] \in {0, 1}
              /\ <<p, c>> \in stalled <=> (told[k] = 1 \/ k \in carried)
              /\ told[k] = 1 => k \notin carried /\ since[k] + StallMin < poll

MonitorInv == MonitorTypeOK /\ MarkersAreCurrent /\ ToldAtOnce /\ StallsAreMarked

\* The keys, by their kinds.
LEMMA KindsOfKeys ==
    /\ \A p \in PRs, c \in Checks :
         /\ <<p, c>> \in Monitor!Pairs
         /\ Stall(p, c) \in Monitor!Keys
         /\ Stall(p, c).kind = "STALLED" /\ Stall(p, c).pr = p /\ Stall(p, c).check = c
         /\ <<Stall(p, c).pr, Stall(p, c).check>> = <<p, c>>
    /\ \A k \in Monitor!Keys :
         \/ k.kind = "STALLED" /\ \E p \in PRs, c \in Checks : k = Stall(p, c)
         \/ /\ k.kind \in {"CI-FAIL", "ACTIONABLE-FAIL"}
            /\ \E p \in PRs, c \in Checks : k = Monitor!Event(k.kind, p, c)
         \/ k.kind = "NO-CHECKS" /\ \E p \in PRs : k = Monitor!Event("NO-CHECKS", p, None)
<1>1. ASSUME NEW p \in PRs, NEW c \in Checks
      PROVE  /\ <<p, c>> \in Monitor!Pairs
             /\ Stall(p, c) \in Monitor!Keys
             /\ Stall(p, c).kind = "STALLED" /\ Stall(p, c).pr = p /\ Stall(p, c).check = c
             /\ <<Stall(p, c).pr, Stall(p, c).check>> = <<p, c>>
  <2>1. <<p, c>> \in Monitor!Pairs /\ <<p, c>>[1] = p /\ <<p, c>>[2] = c
    BY DEF Monitor!Pairs
  <2>2. Stall(p, c) \in {Monitor!Event(kind, q[1], q[2]) :
                           kind \in Monitor!Lasting, q \in Monitor!Pairs}
    BY <2>1 DEF Stall, Monitor!Event, Monitor!Lasting
  <2> QED
    BY <2>1, <2>2 DEF Stall, Monitor!Event, Monitor!Keys
<1>2. ASSUME NEW k \in Monitor!Keys
      PROVE  \/ k.kind = "STALLED" /\ \E p \in PRs, c \in Checks : k = Stall(p, c)
             \/ /\ k.kind \in {"CI-FAIL", "ACTIONABLE-FAIL"}
                /\ \E p \in PRs, c \in Checks : k = Monitor!Event(k.kind, p, c)
             \/ k.kind = "NO-CHECKS" /\ \E p \in PRs : k = Monitor!Event("NO-CHECKS", p, None)
  <2>1. CASE \E kind \in Monitor!Lasting, q \in Monitor!Pairs : k = Monitor!Event(kind, q[1], q[2])
    <3>1. PICK kind \in Monitor!Lasting, p \in PRs, c \in Checks : k = Monitor!Event(kind, p, c)
      BY <2>1 DEF Monitor!Pairs
    <3>2. k.kind = kind
      BY <3>1 DEF Monitor!Event
    <3> QED
      BY <3>1, <3>2 DEF Monitor!Lasting, Stall
  <2>2. CASE \E p \in PRs : k = Monitor!Event("NO-CHECKS", p, None)
    BY <2>2 DEF Monitor!Event
  <2> QED
    BY <2>1, <2>2 DEF Monitor!Keys
<1> QED
  BY <1>1, <1>2

\* The events of one kind about the checks in a set.
LEMMA EventsOfChecks ==
    ASSUME NEW kind, NEW S \in SUBSET Monitor!Pairs, NEW p, NEW c
    PROVE  Monitor!Event(kind, p, c) \in {Monitor!Event(kind, q[1], q[2]) : q \in S}
             <=> <<p, c>> \in S
<1>1. ASSUME NEW q \in S, Monitor!Event(kind, p, c) = Monitor!Event(kind, q[1], q[2])
      PROVE  <<p, c>> = q
  <2>1. p = q[1] /\ c = q[2]
    BY <1>1 DEF Monitor!Event
  <2>2. q = <<q[1], q[2]>>
    BY DEF Monitor!Pairs
  <2> QED
    BY <2>1, <2>2
<1>2. <<p, c>>[1] = p /\ <<p, c>>[2] = c
  OBVIOUS
<1> QED
  BY <1>1, <1>2

\* At first nothing has been told, and what holds has held since the first poll.
LEMMA InitEstablishesMonitorInv == Monitor!Init => MonitorInv
<1> SUFFICES ASSUME Monitor!Init PROVE MonitorInv
  OBVIOUS
<1> USE NoneIsNoNumber DEF Monitor!Init
<1>1. MonitorTypeOK
  BY DEF MonitorTypeOK
<1>2. ASSUME NEW p \in PRs, NEW c \in Checks
      PROVE  pendingSeen[<<p, c>>] = None /\ since[Stall(p, c)] = None
  BY KindsOfKeys
<1>3. MarkersAreCurrent
  BY <1>2, KindsOfKeys DEF MarkersAreCurrent
<1>4. ToldAtOnce
  BY DEF ToldAtOnce
<1>5. StallsAreMarked
  BY <1>2 DEF StallsAreMarked
<1> QED
  BY <1>1, <1>3, <1>4, <1>5 DEF MonitorInv

\* A poll that fails leaves all as it is.
LEMMA PollFailsKeepsMonitorInv == MonitorInv /\ Monitor!PollFails => MonitorInv'
<1> SUFFICES ASSUME MonitorInv, Monitor!PollFails PROVE MonitorInv'
  OBVIOUS
<1> USE StallAssumption, NoneIsNoNumber DEF MonitorInv
<1>1. /\ poll' = poll + 1
      /\ UNCHANGED <<prs, pendingSeen, stalled, noChecks, actionable, since, told, carried>>
  BY DEF Monitor!PollFails
<1>2. MonitorTypeOK' /\ poll \in Nat
  BY <1>1 DEF MonitorTypeOK
<1>3. \A k \in Monitor!Keys : since[k] \in Nat \cup {None}
  BY DEF MonitorTypeOK
<1>4. MarkersAreCurrent'
  BY <1>1, <1>2, <1>3 DEF MarkersAreCurrent
<1>5. ToldAtOnce'
  BY <1>1 DEF ToldAtOnce
<1>6. StallsAreMarked'
  BY <1>1, <1>2, <1>3, KindsOfKeys DEF StallsAreMarked
<1> QED
  BY <1>2, <1>4, <1>5, <1>6

\* A poll compares a snapshot with the one before.
LEMMA PollKeepsMonitorInv ==
    ASSUME MonitorInv, NEW cur \in Monitor!Snapshots, Monitor!Poll(cur)
    PROVE  MonitorInv'
<1> USE StallAssumption, NoneIsNoNumber DEF MonitorInv
<1>1. /\ poll' = poll + 1
      /\ prs' = cur /\ noChecks' = Monitor!NoChecks(cur) /\ actionable' = Monitor!FixableIn(cur)
      /\ pendingSeen' = Monitor!FirstSeen(cur)
      /\ stalled' = (stalled \cup Monitor!Stalls(cur)) \ Monitor!Settled(cur)
      /\ events' = Monitor!PrEvents(cur) \cup Monitor!CheckEvents(cur)
                   \cup {Monitor!Event("STALLED", k[1], k[2]) : k \in Monitor!Stalls(cur)}
      /\ since' = [k \in Monitor!Keys |->
                     IF ~Monitor!Holds(k, cur) THEN None
                     ELSE IF since[k] = None THEN poll' ELSE since[k]]
      /\ told' = [k \in Monitor!Keys |->
                    (IF since'[k] \in {None, poll'} THEN 0 ELSE told[k])
                      + (IF k \in events' THEN 1 ELSE 0)]
      /\ carried' = {k \in Monitor!Keys : since'[k] # None
                       /\ \/ k \in carried
                          \/ since'[k] = poll' /\ k.kind = "STALLED"
                               /\ <<k.pr, k.check>> \in stalled}
  BY DEF Monitor!Poll, Monitor!Observe, Monitor!StillMarked
<1>2. /\ poll \in Nat /\ poll' \in Nat
      /\ \A k \in Monitor!Keys : since[k] \in Nat \cup {None} /\ told[k] \in Nat
  BY <1>1 DEF MonitorTypeOK
<1>3. \A k \in Monitor!Keys :
        /\ since'[k] = IF ~Monitor!Holds(k, cur) THEN None
                       ELSE IF since[k] = None THEN poll' ELSE since[k]
        /\ since'[k] \in Nat \cup {None}
        /\ since[k] # None => since[k] <= poll /\ since[k] # poll'
        /\ told'[k] = (IF since'[k] \in {None, poll'} THEN 0 ELSE told[k])
                        + (IF k \in events' THEN 1 ELSE 0)
        /\ told'[k] \in Nat
  BY <1>1, <1>2 DEF MarkersAreCurrent
<1>4. ASSUME NEW p \in PRs, NEW c \in Checks
      PROVE  /\ Monitor!Holds(Stall(p, c), cur) <=> <<p, c>> \in Monitor!In(cur, "pending")
             /\ pendingSeen'[<<p, c>>] = since'[Stall(p, c)]
  <2>1. Monitor!Holds(Stall(p, c), cur) <=> <<p, c>> \in Monitor!In(cur, "pending")
    <3>1. Stall(p, c).kind = "STALLED" /\ <<Stall(p, c).pr, Stall(p, c).check>> = <<p, c>>
      BY KindsOfKeys
    <3> QED
      BY <3>1 DEF Monitor!Holds
  <2>2. pendingSeen'[<<p, c>>] =
          IF <<p, c>> \notin Monitor!In(cur, "pending") THEN None
          ELSE IF pendingSeen[<<p, c>>] = None THEN poll + 1 ELSE pendingSeen[<<p, c>>]
    BY <1>1, KindsOfKeys DEF Monitor!FirstSeen
  <2>3. pendingSeen[<<p, c>>] = since[Stall(p, c)]
    BY DEF MarkersAreCurrent
  <2> QED
    BY <1>1, <1>3, <2>1, <2>2, <2>3, KindsOfKeys
<1>5. MonitorTypeOK'
  <2>1. pendingSeen' \in [Monitor!Pairs -> Nat \cup {None}]
    BY <1>1, <1>2 DEF Monitor!FirstSeen, MonitorTypeOK
  <2>2. since' \in [Monitor!Keys -> Nat \cup {None}]
    BY <1>1, <1>3
  <2>3. told' \in [Monitor!Keys -> Nat]
    BY <1>1, <1>3
  <2> QED
    BY <1>1, <1>2, <2>1, <2>2, <2>3 DEF MonitorTypeOK
<1>6. MarkersAreCurrent'
  <2>1. \A k \in Monitor!Keys :
          /\ since'[k] # None => Monitor!Holds(k, cur)
          /\ k.kind # "STALLED" /\ Monitor!Holds(k, cur) => since'[k] # None
          /\ since'[k] # None => since'[k] <= poll'
    BY <1>1, <1>2, <1>3
  <2>2. \A k \in Monitor!Keys : k \in carried' => since'[k] # None
    BY <1>1
  <2> QED
    BY <1>1, <1>4, <2>1, <2>2 DEF MarkersAreCurrent
<1>7. ASSUME NEW k \in Monitor!Keys, k.kind # "STALLED", Monitor!Holds(k, cur)
      PROVE  k \in events' <=> ~Monitor!Holds(k, prs)
  <2> DEFINE pair == <<k.pr, k.check>>
  <2>1. cur \in Monitor!Snapshots /\ prs \in Monitor!Snapshots
    BY DEF MonitorTypeOK
  <2>2. \A e \in Monitor!PrEvents(cur) :
          e.kind \in {"NEW", "OPEN", "MERGED", "CLOSED", "CLEAN"}
    <3>1. \A p \in DOMAIN cur : cur[p].s \in {"OPEN", "MERGED", "CLOSED"}
      BY DEF Monitor!Snapshots, Monitor!PullRequests
    <3> QED
      BY <3>1 DEF Monitor!PrEvents, Monitor!Event
  <2>3. CASE k.kind = "CI-FAIL"
    <3>1. PICK p \in PRs, c \in Checks : k = Monitor!Event("CI-FAIL", p, c)
      BY <1>7, <2>3, KindsOfKeys
    <3>2. <<k.pr, k.check>> = <<p, c>>
      BY <3>1 DEF Monitor!Event
    <3>3. /\ Monitor!Holds(k, cur) <=> <<p, c>> \in Monitor!In(cur, "fail")
          /\ Monitor!Holds(k, prs) <=> <<p, c>> \in Monitor!In(prs, "fail")
      BY <2>3, <3>2 DEF Monitor!Holds
    <3> DEFINE new == Monitor!In(cur, "fail") \ Monitor!In(prs, "fail")
    <3>4. k \in events' <=>
            k \in {Monitor!Event("CI-FAIL", q[1], q[2]) : q \in new}
      BY <1>1, <2>2, <2>3 DEF Monitor!CheckEvents, Monitor!Event
    <3>5. new \in SUBSET Monitor!Pairs
      BY DEF Monitor!In
    <3>6. k \in events' <=> <<p, c>> \in new
      BY <3>1, <3>4, <3>5, EventsOfChecks
    <3> QED
      BY <1>7, <3>3, <3>6
  <2>4. CASE k.kind = "ACTIONABLE-FAIL"
    <3>1. PICK p \in PRs, c \in Checks : k = Monitor!Event("ACTIONABLE-FAIL", p, c)
      BY <1>7, <2>4, KindsOfKeys
    <3>2. <<k.pr, k.check>> = <<p, c>>
      BY <3>1 DEF Monitor!Event
    <3>3. /\ Monitor!Holds(k, cur) <=> <<p, c>> \in Monitor!FixableIn(cur)
          /\ Monitor!Holds(k, prs) <=> <<p, c>> \in Monitor!FixableIn(prs)
      BY <2>4, <3>2 DEF Monitor!Holds
    <3> DEFINE new == Monitor!FixableIn(cur) \ Monitor!FixableIn(prs)
    <3>4. k \in events' <=>
            k \in {Monitor!Event("ACTIONABLE-FAIL", q[1], q[2]) : q \in new}
      BY <1>1, <2>2, <2>4 DEF Monitor!CheckEvents, Monitor!Event, MarkersAreCurrent
    <3>5. new \in SUBSET Monitor!Pairs
      BY DEF Monitor!FixableIn, Monitor!In
    <3>6. k \in events' <=> <<p, c>> \in new
      BY <3>1, <3>4, <3>5, EventsOfChecks
    <3> QED
      BY <1>7, <3>3, <3>6
  <2>5. CASE k.kind = "NO-CHECKS"
    <3>1. PICK p \in PRs : k = Monitor!Event("NO-CHECKS", p, None)
      BY <1>7, <2>5, KindsOfKeys
    <3> QED
      BY <1>1, <1>7, <2>2, <2>5, <3>1
         DEF Monitor!CheckEvents, Monitor!Holds, Monitor!Event, MarkersAreCurrent
  <2> QED
    BY <1>7, <2>3, <2>4, <2>5, KindsOfKeys
<1>8. ToldAtOnce'
  <2> SUFFICES ASSUME NEW k \in Monitor!Keys, k.kind # "STALLED", since'[k] # None
               PROVE  k \notin carried' /\ told'[k] = IF since'[k] = 0 THEN 0 ELSE 1
    BY DEF ToldAtOnce
  <2>1. Monitor!Holds(k, cur)
    BY <1>3
  <2>2. k \in events' <=> since[k] = None
    BY <1>7, <2>1 DEF MarkersAreCurrent
  <2>3. k \notin carried
    BY DEF ToldAtOnce, MarkersAreCurrent
  <2>4. k \notin carried'
    BY <1>1, <2>3
  <2>5. CASE since[k] = None
    BY <1>1, <1>2, <1>3, <2>1, <2>2, <2>4, <2>5
  <2>6. CASE since[k] # None
    BY <1>1, <1>2, <1>3, <2>1, <2>2, <2>4, <2>6 DEF ToldAtOnce
  <2> QED
    BY <2>5, <2>6
<1>9. StallsAreMarked'
  <2> SUFFICES ASSUME NEW p \in PRs, NEW c \in Checks, since'[Stall(p, c)] # None
               PROVE  /\ since'[Stall(p, c)] > 0
                      /\ told'[Stall(p, c)] \in {0, 1}
                      /\ <<p, c>> \in stalled' <=>
                           (told'[Stall(p, c)] = 1 \/ Stall(p, c) \in carried')
                      /\ told'[Stall(p, c)] = 1 =>
                           /\ Stall(p, c) \notin carried'
                           /\ since'[Stall(p, c)] + StallMin < poll'
    BY DEF StallsAreMarked
  <2> DEFINE k == Stall(p, c)
             pair == <<p, c>>
  <2>1. k \in Monitor!Keys /\ k.kind = "STALLED" /\ <<k.pr, k.check>> = pair
    BY KindsOfKeys
  <2>2. pair \in Monitor!In(cur, "pending") /\ pair \notin Monitor!Settled(cur)
    BY <1>3, <1>4, <2>1 DEF Monitor!Settled, Monitor!In
  <2>3. pair \in Monitor!Stalls(cur) <=> pair \notin stalled /\ poll' - since'[k] > StallMin
    <3>1. Monitor!FirstSeen(cur)[pair] = since'[k]
      BY <1>1, <1>4
    <3>2. poll' = poll + 1 /\ poll \in Nat
      BY <1>1, <1>2
    <3>5. since'[k] \in Nat
      BY <1>3, <2>1
    <3> HIDE DEF pair, k
    <3>3. pair \in Monitor!Stalls(cur) <=>
            /\ pair \in Monitor!In(cur, "pending") \ stalled
            /\ poll + 1 - Monitor!FirstSeen(cur)[pair] > StallMin
      BY DEF Monitor!Stalls
    <3>4. poll + 1 - since'[k] = poll' - since'[k]
      BY <3>2, <3>5
    <3> QED
      BY <2>2, <3>1, <3>3, <3>4
  <2>4. k \in events' <=> pair \in Monitor!Stalls(cur)
    <3>1. \A e \in Monitor!PrEvents(cur) \cup Monitor!CheckEvents(cur) : e.kind # "STALLED"
      <4>1. \A q \in DOMAIN cur : cur[q].s \in {"OPEN", "MERGED", "CLOSED"}
        BY DEF Monitor!Snapshots, Monitor!PullRequests
      <4> QED
        BY <4>1 DEF Monitor!PrEvents, Monitor!CheckEvents, Monitor!Event
    <3>2. k \in {Monitor!Event("STALLED", q[1], q[2]) : q \in Monitor!Stalls(cur)}
            <=> pair \in Monitor!Stalls(cur)
      <4>1. Monitor!Stalls(cur) \in SUBSET Monitor!Pairs
        BY DEF Monitor!Stalls, Monitor!In
      <4> QED
        BY <4>1, EventsOfChecks DEF Stall
    <3> QED
      BY <1>1, <2>1, <3>1, <3>2
  <2>5. pair \in stalled' <=> pair \in stalled \/ k \in events'
    BY <1>1, <2>2, <2>4
  <2>6. k \in carried' <=> k \in carried \/ (since'[k] = poll' /\ pair \in stalled)
    BY <1>1, <2>1
  <2> HIDE DEF k, pair
  <2>7. CASE since[k] = None
    <3>1. since'[k] = poll' /\ k \notin events' /\ k \notin carried
      BY <1>1, <1>2, <1>3, <2>1, <2>3, <2>4, <2>7 DEF MarkersAreCurrent, k
    <3> QED
      BY <1>1, <1>2, <1>3, <2>1, <2>5, <2>6, <3>1 DEF k, pair
  <2>8. CASE since[k] # None
    <3>1. since'[k] = since[k] /\ since'[k] # poll' /\ since[k] \in Nat
      BY <1>2, <1>3, <2>1, <2>8 DEF k
    <3>2. /\ since[k] > 0 /\ told[k] \in {0, 1}
          /\ pair \in stalled <=> (told[k] = 1 \/ k \in carried)
          /\ told[k] = 1 => k \notin carried /\ since[k] + StallMin < poll
      BY <2>8 DEF StallsAreMarked, k, pair
    <3> QED
      BY <1>1, <1>2, <1>3, <2>1, <2>3, <2>4, <2>5, <2>6, <3>1, <3>2 DEF k, pair
  <2> QED
    BY <2>7, <2>8
<1> QED
  BY <1>5, <1>6, <1>8, <1>9

\* Every step of the pull requests and the polls.
LEMMA NextKeepsMonitorInv == MonitorInv /\ [Monitor!Next]_monitorVars => MonitorInv'
<1> SUFFICES ASSUME MonitorInv, [Monitor!Next]_monitorVars PROVE MonitorInv'
  OBVIOUS
<1>1. CASE Monitor!PollFails
  BY <1>1, PollFailsKeepsMonitorInv
<1>2. CASE \E cur \in Monitor!Snapshots : Monitor!Poll(cur)
  BY <1>2, PollKeepsMonitorInv
<1>3. CASE UNCHANGED monitorVars
  BY <1>3 DEF monitorVars, MonitorInv, MonitorTypeOK, MarkersAreCurrent, ToldAtOnce,
              StallsAreMarked
<1> QED
  BY <1>1, <1>2, <1>3 DEF Monitor!Next

\* The invariant shows that a condition that lasts is told once.
LEMMA MonitorInvShowsTold == MonitorInv => ToldOncePerTransition
<1> SUFFICES ASSUME MonitorInv, NEW k \in Monitor!Keys, since[k] # None
             PROVE  /\ told[k] <= 1
                    /\ since[k] = 0 \/ ~Monitor!Due(k) \/ k \in carried => told[k] = 0
                    /\ since[k] > 0 /\ k.kind # "STALLED" => told[k] = 1
  BY DEF ToldOncePerTransition, Monitor!ToldOncePerTransition
<1> USE NoneIsNoNumber, StallAssumption DEF MonitorInv
<1>1. since[k] \in Nat /\ told[k] \in Nat
  BY DEF MonitorTypeOK
<1>2. CASE k.kind # "STALLED"
  BY <1>1, <1>2 DEF ToldAtOnce, Monitor!Due
<1>3. CASE k.kind = "STALLED"
  <2>1. PICK p \in PRs, c \in Checks : k = Stall(p, c)
    BY <1>3, KindsOfKeys
  <2>2. <<k.pr, k.check>> = <<p, c>> /\ pendingSeen[<<p, c>>] = since[k]
    BY <2>1, KindsOfKeys DEF MarkersAreCurrent
  <2> QED
    BY <1>1, <1>3, <2>1, <2>2 DEF StallsAreMarked, Monitor!Due
<1> QED
  BY <1>2, <1>3

-----------------------------------------------------------------------------
(* RateLimiter.                                                            *)

Answered(store) == {i \in 1 .. Len(answers) : answers[i].store = store}

LimiterTypeOK ==
    /\ now \in Nat \ {0}
    /\ bucket \in Seq(Nat)
    /\ zset \in SUBSET Nat /\ IsFiniteSet(zset)
    /\ zexpiry \in Nat
    /\ stamp \in [Callers -> Nat]
    /\ \E S : answers \in Seq(S)
    /\ \A i \in 1 .. Len(answers) : answers[i].at \in Nat /\ answers[i].at <= now
    /\ \A c \in Callers : stamp[c] # 0 => stamp[c] <= now /\ now <= stamp[c] + MaxDelay

\* The requests since s, and the timestamps.
HitsSince(s) == {i \in Answered("memory") : answers[i].at >= s}
BucketSince(s) == {j \in 1 .. Len(bucket) : bucket[j] >= s}

\* The deque has a timestamp for each request of the window.
BucketHasWindow ==
    \A s \in Int : s + Window > now => Cardinality(HitsSince(s)) <= Cardinality(BucketSince(s))

\* The sorted set has the timestamps that are in the window of each request since.
SetHasWindow ==
    \A i \in Answered("redis") :
        /\ answers[i].at + Window + Second <= zexpiry
        /\ MaxDelay <= Second
             /\ (\A j \in Answered("redis") : answers[j].at < answers[i].at + Window) =>
             answers[i].at \in zset

Admitted(store, last) ==
    {i \in Answered(store) :
        answers[i].admitted /\ answers[i].at \in (last - Window + 1) .. last}

InOrder ==
    /\ \A i, j \in Answered("redis") : i # j => answers[i].at # answers[j].at
    /\ \A i, j \in Answered("redis") : i < j => answers[i].at <= answers[j].at
    /\ MaxDelay <= Second

\* No window has more admitted requests than the budget.
WindowsAreWithinBudget ==
    \A last \in 1 .. now :
        /\ Cardinality(Admitted("memory", last)) <= Budget
        /\ InOrder => Cardinality(Admitted("redis", last)) <= Budget

LimiterInv ==
    /\ LimiterTypeOK
    /\ BucketHasWindow
    /\ SetHasWindow
    /\ WindowsAreWithinBudget

\* The invariant shows the budget of both limiters.
LEMMA LimiterInvShowsBudget == LimiterInv => BudgetHolds
<1> SUFFICES ASSUME LimiterInv PROVE BudgetHolds
  OBVIOUS
<1> USE LimiterAssumption DEF LimiterInv, LimiterTypeOK
<1>1. DOMAIN answers = 1 .. Len(answers)
  OBVIOUS
<1>2. \A store, last : Limiter!AdmittedWithin(store, last) = Admitted(store, last)
  BY <1>1 DEF Limiter!AdmittedWithin, Admitted, Answered
<1>3. Limiter!Redis = Answered("redis")
  BY <1>1 DEF Limiter!Redis, Answered
<1>4. \A i \in Answered("redis") : answers[i].at \in Nat
  BY DEF Answered
<1>5. ~Limiter!Collided /\ ~Limiter!Overtaken /\ MaxDelay <= Second => InOrder
  BY <1>3, <1>4 DEF Limiter!Collided, Limiter!Overtaken, InOrder
<1>6. \A S : Limiter!Cardinality(S) = Cardinality(S)
  BY DEF Limiter!Cardinality, Cardinality
<1> QED
  BY <1>2, <1>5, <1>6 DEF BudgetHolds, Limiter!BudgetHolds, WindowsAreWithinBudget

\* The sets that are counted are finite.
LEMMA WindowsAreFinite ==
    ASSUME LimiterTypeOK
    PROVE  /\ Len(answers) \in Nat /\ Len(bucket) \in Nat
           /\ \A T \in SUBSET (1 .. Len(answers)) :
                IsFiniteSet(T) /\ Cardinality(T) \in Nat
           /\ \A T \in SUBSET (1 .. Len(bucket)) :
                IsFiniteSet(T) /\ Cardinality(T) \in Nat /\ Cardinality(T) <= Len(bucket)
<1>1. Len(answers) \in Nat /\ Len(bucket) \in Nat
  BY DEF LimiterTypeOK
<1>2. /\ IsFiniteSet(1 .. Len(answers))
      /\ IsFiniteSet(1 .. Len(bucket)) /\ Cardinality(1 .. Len(bucket)) = Len(bucket)
  <2>1. ASSUME NEW n \in Nat PROVE IsFiniteSet(1 .. n) /\ Cardinality(1 .. n) = n
    BY FS_Interval
  <2> QED
    BY <1>1, <2>1
<1>3. ASSUME NEW T \in SUBSET (1 .. Len(answers))
      PROVE  IsFiniteSet(T) /\ Cardinality(T) \in Nat
  BY <1>2, FS_Subset, FS_CardinalityType
<1>4. ASSUME NEW T \in SUBSET (1 .. Len(bucket))
      PROVE  IsFiniteSet(T) /\ Cardinality(T) \in Nat /\ Cardinality(T) <= Len(bucket)
  BY <1>2, FS_Subset, FS_CardinalityType
<1> QED
  BY <1>1, <1>3, <1>4

\* At first there have been no requests.
LEMMA InitEstablishesLimiterInv == Limiter!Init => LimiterInv
<1> SUFFICES ASSUME Limiter!Init PROVE LimiterInv
  OBVIOUS
<1> USE LimiterAssumption DEF Limiter!Init
<1>1. /\ Len(answers) = 0 /\ 1 .. Len(answers) = {} /\ answers \in Seq({})
      /\ \A store : Answered(store) = {}
  BY DEF Answered
<1>2. LimiterTypeOK
  <2>1. IsFiniteSet({})
    BY FS_EmptySet
  <2> QED
    BY <1>1, <2>1 DEF LimiterTypeOK
<1>3. SetHasWindow
  BY <1>1 DEF SetHasWindow
<1>4. Cardinality({}) = 0
  BY FS_EmptySet
<1>5. WindowsAreWithinBudget
  <2>1. \A store, last : Cardinality(Admitted(store, last)) = 0
    <3>1. \A store, last : Admitted(store, last) = {}
      BY <1>1 DEF Admitted
    <3> QED
      BY <1>4, <3>1
  <2> QED
    BY <2>1 DEF WindowsAreWithinBudget
<1>6. BucketHasWindow
  <2>1. ASSUME NEW s \in Int
        PROVE  Cardinality(HitsSince(s)) = 0 /\ Cardinality(BucketSince(s)) = 0
    <3>1. HitsSince(s) = {} /\ BucketSince(s) = {}
      BY <1>1 DEF HitsSince, BucketSince
    <3> QED
      BY <1>4, <3>1
  <2> QED
    BY <2>1 DEF BucketHasWindow
<1> QED
  BY <1>2, <1>3, <1>5, <1>6 DEF LimiterInv

\* A request that is answered is counted where it belongs.
LEMMA AnswerIsAppended ==
    ASSUME LimiterTypeOK, NEW store, NEW at \in Nat, NEW count \in Nat, NEW oldest,
           Limiter!Answer(store, at, count, oldest)
    PROVE  /\ Len(answers') = Len(answers) + 1 /\ \E S : answers' \in Seq(S)
           /\ \A i \in 1 .. Len(answers) : answers'[i] = answers[i]
           /\ answers'[Len(answers) + 1].store = store
           /\ answers'[Len(answers) + 1].at = at
           /\ answers'[Len(answers) + 1].admitted <=> count <= Budget
           /\ Answered(store)' = Answered(store) \cup {Len(answers) + 1}
           /\ \A other : other # store => Answered(other)' = Answered(other)
           /\ \A last \in Nat :
                count > Budget \/ at \notin (last - Window + 1) .. last =>
                  Admitted(store, last)' = Admitted(store, last)
           /\ \A other, last : other # store => Admitted(other, last)' = Admitted(other, last)
<1> DEFINE new == Len(answers) + 1
           retry == IF Limiter!Admits(count) THEN 0 ELSE oldest + Window + Second
           a == [store |-> store, at |-> at, admitted |-> Limiter!Admits(count),
                 retry |-> retry]
<1>1. answers' = Append(answers, a)
  BY DEF Limiter!Answer
<1>2. a.store = store /\ a.at = at /\ (a.admitted <=> count <= Budget)
  BY DEF Limiter!Admits
<1> HIDE DEF a
<1>3. PICK S : answers \in Seq(S)
  BY DEF LimiterTypeOK
<1>4. answers \in Seq(S \cup {a})
  BY <1>3, SeqMonotonic
<1>5. /\ answers' \in Seq(S \cup {a}) /\ Len(answers') = new /\ Len(answers) \in Nat
      /\ \A i \in 1 .. Len(answers) : answers'[i] = answers[i]
      /\ answers'[new] = a
  BY <1>1, <1>4
<1>6. 1 .. Len(answers') = (1 .. Len(answers)) \cup {new} /\ new \notin 1 .. Len(answers)
  BY <1>5
<1> HIDE DEF new
<1>7. /\ Answered(store)' = Answered(store) \cup {new}
      /\ \A other : other # store => Answered(other)' = Answered(other)
  BY <1>2, <1>5, <1>6 DEF Answered
<1>8. \A other, last : other # store => Admitted(other, last)' = Admitted(other, last)
  <2>1. \A other : \A i \in Answered(other) : answers'[i] = answers[i]
    BY <1>5 DEF Answered
  <2> QED
    BY <1>7, <2>1 DEF Admitted
<1>9. ASSUME NEW last \in Nat, count > Budget \/ at \notin (last - Window + 1) .. last
      PROVE  Admitted(store, last)' = Admitted(store, last)
  <2>1. ~(answers'[new].admitted /\ answers'[new].at \in (last - Window + 1) .. last)
    BY <1>2, <1>5, <1>9, LimiterAssumption
  <2>2. \A i \in Answered(store) : answers'[i] = answers[i]
    BY <1>5 DEF Answered
  <2> QED
    BY <1>7, <2>1, <2>2 DEF Admitted
<1> QED
  BY <1>2, <1>5, <1>7, <1>8, <1>9 DEF new

\* The clock moves on: windows lose hits.
LEMMA TickKeepsLimiterInv == LimiterInv /\ Limiter!Tick => LimiterInv'
<1> SUFFICES ASSUME LimiterInv, Limiter!Tick PROVE LimiterInv'
  OBVIOUS
<1> USE LimiterAssumption DEF LimiterInv
<1>1. /\ now' = now + 1 /\ \A c \in Callers : stamp[c] # 0 => now < stamp[c] + MaxDelay
      /\ UNCHANGED <<bucket, zset, zexpiry, stamp, answers>>
  BY DEF Limiter!Tick
<1>2. LimiterTypeOK'
  BY <1>1 DEF LimiterTypeOK
<1>3. now \in Nat \ {0} /\ \A i \in 1 .. Len(answers) : answers[i].at \in Nat /\ answers[i].at <= now
  BY DEF LimiterTypeOK
<1>4. BucketHasWindow'
  <2>1. \A s : HitsSince(s)' = HitsSince(s) /\ BucketSince(s)' = BucketSince(s)
    BY <1>1 DEF HitsSince, BucketSince, Answered
  <2> QED
    BY <1>1, <1>3, <2>1 DEF BucketHasWindow
<1>5. SetHasWindow'
  BY <1>1 DEF SetHasWindow, Answered
<1>6. WindowsAreWithinBudget'
  <2>1. \A store, last : Admitted(store, last)' = Admitted(store, last)
    BY <1>1 DEF Admitted, Answered
  <2>2. InOrder' <=> InOrder
    BY <1>1 DEF InOrder, Answered
  <2>3. \A store : /\ Admitted(store, now + 1) \in SUBSET Admitted(store, now)
                   /\ Admitted(store, now) \in SUBSET (1 .. Len(answers))
    BY <1>3 DEF Admitted, Answered
  <2>4. ASSUME NEW store
        PROVE  /\ Cardinality(Admitted(store, now + 1)) <= Cardinality(Admitted(store, now))
               /\ Cardinality(Admitted(store, now + 1)) \in Nat
               /\ Cardinality(Admitted(store, now)) \in Nat
    <3>1. IsFiniteSet(Admitted(store, now)) /\ Cardinality(Admitted(store, now)) \in Nat
      BY <2>3, WindowsAreFinite
    <3>2. /\ Cardinality(Admitted(store, now + 1)) <= Cardinality(Admitted(store, now))
          /\ IsFiniteSet(Admitted(store, now + 1))
      BY <2>3, <3>1, FS_Subset
    <3> QED
      BY <3>1, <3>2, FS_CardinalityType
  <2>5. ASSUME NEW last \in 1 .. now'
        PROVE  /\ Cardinality(Admitted("memory", last)) <= Budget
               /\ InOrder => Cardinality(Admitted("redis", last)) <= Budget
    <3>1. CASE last \in 1 .. now
      BY <3>1 DEF WindowsAreWithinBudget
    <3>2. CASE last = now + 1
      <4>1. now \in 1 .. now
        BY <1>3
      <4>2. /\ Cardinality(Admitted("memory", now)) <= Budget
            /\ InOrder => Cardinality(Admitted("redis", now)) <= Budget
        BY <4>1 DEF WindowsAreWithinBudget
      <4> QED
        BY <2>4, <3>2, <4>2
    <3> QED
      BY <1>1, <1>3, <3>1, <3>2
  <2> QED
    BY <2>1, <2>2, <2>5 DEF WindowsAreWithinBudget
<1> QED
  BY <1>2, <1>4, <1>5, <1>6

\* A caller reads the clock before the script runs in Redis.
LEMMA StampKeepsLimiterInv ==
    ASSUME LimiterInv, NEW c \in Callers, Limiter!RedisStamp(c)
    PROVE  LimiterInv'
<1> USE LimiterAssumption DEF LimiterInv
<1>1. stamp' = [stamp EXCEPT ![c] = now] /\ UNCHANGED <<now, bucket, zset, zexpiry, answers>>
  BY DEF Limiter!RedisStamp
<1>2. LimiterTypeOK'
  BY <1>1 DEF LimiterTypeOK
<1>3. BucketHasWindow' /\ SetHasWindow'
  BY <1>1 DEF BucketHasWindow, SetHasWindow, HitsSince, BucketSince, Answered
<1>4. WindowsAreWithinBudget'
  BY <1>1 DEF WindowsAreWithinBudget, Admitted, InOrder, Answered
<1> QED
  BY <1>2, <1>3, <1>4

\* A hit of the store in the process.
LEMMA MemoryHitKeepsLimiterInv == LimiterInv /\ Limiter!MemoryHit => LimiterInv'
<1> SUFFICES ASSUME LimiterInv, Limiter!MemoryHit PROVE LimiterInv'
  OBVIOUS
<1> USE LimiterAssumption DEF LimiterInv
<1> DEFINE new == Len(answers) + 1
<1>1. /\ Limiter!Answer("memory", now, Len(bucket'), Head(bucket'))
      /\ UNCHANGED <<now, zset, zexpiry, stamp>>
  BY DEF Limiter!MemoryHit
<1>2. PICK n \in 0 .. Len(bucket) :
        /\ \A i \in 1 .. n : bucket[i] + Window <= now
        /\ bucket' = Append(SubSeq(bucket, n + 1, Len(bucket)), now)
  BY DEF Limiter!MemoryHit, Limiter!Outside
<1>3. /\ now \in Nat \ {0} /\ bucket \in Seq(Nat) /\ Len(bucket) \in Nat /\ n \in Nat
      /\ n <= Len(bucket)
      /\ Len(answers) \in Nat
      /\ \A i \in 1 .. Len(answers) : answers[i].at \in Nat /\ answers[i].at <= now
  <2>1. now \in Nat \ {0} /\ bucket \in Seq(Nat)
    BY DEF LimiterTypeOK
  <2>2. \A i \in 1 .. Len(answers) : answers[i].at \in Nat /\ answers[i].at <= now
    BY DEF LimiterTypeOK
  <2> QED
    BY <1>2, <2>1, <2>2, WindowsAreFinite
<1>4. /\ bucket' \in Seq(Nat) /\ Len(bucket') = Len(bucket) - n + 1 /\ Len(bucket') \in Nat
      /\ \A j \in 1 .. Len(bucket) - n : bucket'[j] = bucket[n + j]
      /\ bucket'[Len(bucket')] = now
  <2> DEFINE kept == SubSeq(bucket, n + 1, Len(bucket))
  <2>1. /\ kept \in Seq(Nat) /\ Len(kept) = Len(bucket) - n
        /\ \A j \in 1 .. Len(bucket) - n : kept[j] = bucket[n + j]
    <3>1. n + 1 \in Nat /\ \A j \in (n + 1) .. Len(bucket) : j \in 1 .. Len(bucket)
      BY <1>3
    <3>2. /\ kept \in Seq(Nat)
          /\ Len(kept) = IF n + 1 <= Len(bucket) THEN Len(bucket) - (n + 1) + 1 ELSE 0
          /\ \A j \in 1 .. Len(kept) : kept[j] = bucket[n + 1 + j - 1]
      BY <1>3, <3>1, SubSeqProperties
    <3> HIDE DEF kept
    <3>3. Len(kept) = Len(bucket) - n
      BY <1>3, <3>2
    <3>4. \A j \in 1 .. Len(bucket) - n : n + 1 + j - 1 = n + j
      BY <1>3
    <3> QED
      BY <3>2, <3>3, <3>4
  <2> HIDE DEF kept
  <2>2. bucket' = Append(kept, now)
    BY <1>2 DEF kept
  <2> QED
    BY <1>3, <2>1, <2>2
<1>5. /\ Len(answers') = new /\ \E S : answers' \in Seq(S)
      /\ \A i \in 1 .. Len(answers) : answers'[i] = answers[i]
      /\ answers'[new].at = now /\ answers'[new].store = "memory"
      /\ answers'[new].admitted <=> Len(bucket') <= Budget
      /\ Answered("memory")' = Answered("memory") \cup {new}
      /\ Answered("redis")' = Answered("redis")
      /\ \A last \in Nat :
           Len(bucket') > Budget \/ now \notin (last - Window + 1) .. last =>
             Admitted("memory", last)' = Admitted("memory", last)
      /\ \A last : Admitted("redis", last)' = Admitted("redis", last)
  <2>1. Len(bucket') \in Nat /\ now \in Nat /\ "redis" # "memory"
    BY <1>3, <1>4
  <2> HIDE DEF new
  <2> QED
    BY <1>1, <2>1, AnswerIsAppended DEF new
<1>6. LimiterTypeOK'
  <2>1. ASSUME NEW i \in 1 .. Len(answers') PROVE answers'[i].at \in Nat /\ answers'[i].at <= now
    <3>1. CASE i = new
      BY <1>3, <1>5, <3>1
    <3>2. CASE i \in 1 .. Len(answers)
      BY <1>3, <1>5, <3>2
    <3> QED
      BY <1>3, <1>5, <3>1, <3>2
  <2> QED
    BY <1>1, <1>4, <1>5, <2>1 DEF LimiterTypeOK
<1>7. \A i \in 1 .. Len(answers) : i # new
  BY <1>3
<1> HIDE DEF new
<1>8. SetHasWindow'
  <2>1. \A i \in Answered("redis") : answers'[i] = answers[i]
    BY <1>5 DEF Answered
  <2> QED
    BY <1>1, <1>5, <2>1 DEF SetHasWindow
<1>9. ASSUME NEW s \in Int, s + Window > now
      PROVE  Cardinality(HitsSince(s)') <= Cardinality(BucketSince(s)')
  <2> DEFINE H == HitsSince(s)
             B == BucketSince(s)
             last == Len(bucket')
             shift == [j \in B |-> j - n]
  <2>1. /\ H' = IF now >= s THEN H \cup {new} ELSE H
        /\ new \notin H /\ H \in SUBSET (1 .. Len(answers))
    <3>1. \A i \in Answered("memory") : answers'[i] = answers[i] /\ i # new
      BY <1>5, <1>7 DEF Answered
    <3> QED
      BY <1>5, <3>1 DEF HitsSince, Answered
  <2>2. B \in SUBSET (1 .. Len(bucket)) /\ B' \in SUBSET (1 .. Len(bucket'))
    BY DEF BucketSince
  <2>3. shift \in Injection(B, B' \ {last})
    <3>1. ASSUME NEW j \in B PROVE j - n \in B' \ {last}
      <4>1. j \in 1 .. Len(bucket) /\ bucket[j] >= s /\ bucket[j] \in Nat
        BY <1>3 DEF BucketSince
      <4>2. ~(bucket[j] + Window <= now)
        BY <1>3, <1>9, <4>1
      <4>3. j - n \in 1 .. Len(bucket) - n
        BY <1>2, <1>3, <4>1, <4>2
      <4>4. bucket'[j - n] = bucket[j]
        BY <1>3, <1>4, <4>1, <4>3
      <4> QED
        <5>1. Len(bucket') = Len(bucket) - n + 1 /\ Len(bucket) \in Nat /\ n \in Nat
          BY <1>3, <1>4
        <5>2. j - n \in 1 .. Len(bucket') /\ j - n # last
          BY <4>1, <4>3, <5>1
        <5> QED
          BY <4>1, <4>4, <5>2 DEF BucketSince
    <3>2. shift \in [B -> B' \ {last}]
      BY <3>1
    <3>3. \A i, j \in B : shift[i] = shift[j] => i = j
      BY <1>3, <2>2
    <3> HIDE DEF shift
    <3> QED
      BY <3>2, <3>3, Fun_IsInj
  <2>4. /\ IsFiniteSet(H) /\ Cardinality(H) \in Nat
        /\ IsFiniteSet(B) /\ Cardinality(B) \in Nat
    BY <2>1, <2>2, WindowsAreFinite
  <2>5. IsFiniteSet(B') /\ Cardinality(B') \in Nat
    <3>1. \A T \in SUBSET (1 .. Len(bucket')) : IsFiniteSet(T) /\ Cardinality(T) \in Nat
      <4>1. IsFiniteSet(1 .. Len(bucket'))
        BY <1>4, FS_Interval
      <4> QED
        BY <4>1, FS_Subset, FS_CardinalityType
    <3> QED
      BY <2>2, <3>1
  <2>6. /\ IsFiniteSet(B' \ {last})
        /\ Cardinality(B' \ {last}) = IF last \in B' THEN Cardinality(B') - 1 ELSE Cardinality(B')
    BY <2>5, FS_RemoveElement
  <2>7. Cardinality(B) <= Cardinality(B' \ {last})
    BY <2>3, <2>6, FS_Injection
  <2>8. Cardinality(H) <= Cardinality(B)
    BY <1>9 DEF BucketHasWindow
  <2>9. Cardinality(H \cup {new}) = Cardinality(H) + 1
    BY <2>1, <2>4, FS_AddElement
  <2>10. now >= s => last \in B'
    BY <1>3, <1>4 DEF BucketSince
  <2> HIDE DEF H, B, last, shift
  <2>11. CASE now >= s
    BY <2>1, <2>4, <2>5, <2>6, <2>7, <2>8, <2>9, <2>10, <2>11 DEF H, B
  <2>12. CASE ~(now >= s)
    <3>1. Cardinality(H') = Cardinality(H)
      BY <2>1, <2>12
    <3> QED
      BY <2>4, <2>5, <2>6, <2>7, <2>8, <3>1 DEF H, B
  <2> QED
    BY <2>11, <2>12
<1>10. BucketHasWindow'
  BY <1>1, <1>9 DEF BucketHasWindow
<1>11. WindowsAreWithinBudget'
  <2>1. InOrder' => InOrder
    <3>1. \A i \in Answered("redis") : answers'[i] = answers[i]
      BY <1>5 DEF Answered
    <3> QED
      BY <1>5, <3>1 DEF InOrder
  <2>2. ASSUME NEW last \in 1 .. now PROVE Cardinality(Admitted("memory", last)') <= Budget
    <3>1. CASE Len(bucket') > Budget \/ now \notin (last - Window + 1) .. last
      BY <1>3, <1>5, <3>1 DEF WindowsAreWithinBudget
    <3>2. CASE Len(bucket') <= Budget /\ now \in (last - Window + 1) .. last
      <4> DEFINE A == Admitted("memory", last)
      <4>0. PICK s \in Int : s = now - Window + 1
        BY <1>3
      <4>1. last = now /\ s + Window > now
        BY <1>3, <3>2, <4>0
      <4>2. A' \in SUBSET HitsSince(s)' /\ HitsSince(s)' \in SUBSET (1 .. Len(answers'))
        BY <1>3, <4>0, <4>1 DEF Admitted, HitsSince, Answered
      <4>3. /\ IsFiniteSet(HitsSince(s)') /\ Cardinality(HitsSince(s)') \in Nat
        <5>1. IsFiniteSet(1 .. Len(answers'))
          BY <1>3, <1>5, FS_Interval DEF new
        <5> QED
          BY <4>2, <5>1, FS_Subset, FS_CardinalityType
      <4>4. /\ Cardinality(A') <= Cardinality(HitsSince(s)')
            /\ IsFiniteSet(A')
        BY <4>2, <4>3, FS_Subset
      <4>5. Cardinality(A') \in Nat
        BY <4>4, FS_CardinalityType
      <4>6. Cardinality(HitsSince(s)') <= Cardinality(BucketSince(s)')
        BY <1>9, <4>1
      <4>7. Cardinality(BucketSince(s)') <= Len(bucket') /\ Cardinality(BucketSince(s)') \in Nat
        <5>1. BucketSince(s)' \in SUBSET (1 .. Len(bucket'))
          BY DEF BucketSince
        <5>2. IsFiniteSet(1 .. Len(bucket')) /\ Cardinality(1 .. Len(bucket')) = Len(bucket')
          BY <1>4, FS_Interval
        <5>3. /\ IsFiniteSet(BucketSince(s)')
              /\ Cardinality(BucketSince(s)') <= Cardinality(1 .. Len(bucket'))
          BY <5>1, <5>2, FS_Subset
        <5> QED
          BY <5>2, <5>3, FS_CardinalityType
      <4> HIDE DEF A
      <4>8. Cardinality(A') <= Budget
        BY <1>4, <3>2, <4>3, <4>4, <4>5, <4>6, <4>7
      <4> QED
        BY <4>8 DEF A
    <3> QED
      BY <1>3, <1>4, <3>1, <3>2
  <2> QED
    BY <1>1, <1>5, <2>1, <2>2 DEF WindowsAreWithinBudget
<1> QED
  BY <1>6, <1>8, <1>10, <1>11

\* A pipeline is executed: what is in the window of its timestamp is in the set.
LEMMA ExecuteKeepsLimiterInv ==
    ASSUME LimiterInv, NEW c \in Callers, Limiter!RedisExecute(c)
    PROVE  LimiterInv'
<1> USE LimiterAssumption DEF LimiterInv
<1> DEFINE new == Len(answers) + 1
           at == stamp[c]
           live == IF zexpiry <= now THEN {} ELSE zset
           count == Limiter!Cardinality(zset')
<1>1. /\ at # 0
      /\ zset' = {t \in live : ~(t + Window <= at)} \cup {at}
      /\ \E oldest : Limiter!Answer("redis", at, count, oldest)
      /\ zexpiry' = now + Window + Second
      /\ stamp' = [stamp EXCEPT ![c] = 0]
      /\ UNCHANGED <<now, bucket>>
  BY DEF Limiter!RedisExecute, Limiter!Outside
<1>2. /\ now \in Nat \ {0} /\ zset \in SUBSET Nat /\ IsFiniteSet(zset) /\ zexpiry \in Nat
      /\ stamp \in [Callers -> Nat]
      /\ at \in Nat /\ at <= now /\ now <= at + MaxDelay
      /\ \A i \in 1 .. Len(answers) : answers[i].at \in Nat /\ answers[i].at <= now
  BY <1>1 DEF LimiterTypeOK
<1>3. /\ zset' \in SUBSET Nat /\ IsFiniteSet(zset')
      /\ count = Cardinality(zset') /\ count \in Nat
  <2>1. {t \in live : ~(t + Window <= at)} \in SUBSET zset
    OBVIOUS
  <2>2. IsFiniteSet({t \in live : ~(t + Window <= at)})
    BY <1>2, <2>1, FS_Subset
  <2>3. IsFiniteSet(zset')
    BY <1>1, <2>2, FS_AddElement
  <2>4. count = Cardinality(zset')
    BY DEF Limiter!Cardinality, Cardinality
  <2> HIDE DEF count
  <2> QED
    BY <1>1, <1>2, <2>1, <2>3, <2>4, FS_CardinalityType
<1>4. Len(answers) \in Nat
  BY WindowsAreFinite
<1>5. /\ Len(answers') = new /\ \E S : answers' \in Seq(S)
      /\ \A i \in 1 .. Len(answers) : answers'[i] = answers[i]
      /\ answers'[new].at = at /\ answers'[new].store = "redis"
      /\ answers'[new].admitted <=> count <= Budget
      /\ Answered("redis")' = Answered("redis") \cup {new}
      /\ Answered("memory")' = Answered("memory")
      /\ \A last \in Nat :
           count > Budget \/ at \notin (last - Window + 1) .. last =>
             Admitted("redis", last)' = Admitted("redis", last)
      /\ \A last : Admitted("memory", last)' = Admitted("memory", last)
  <2>1. count \in Nat /\ at \in Nat /\ "redis" # "memory"
    BY <1>2, <1>3
  <2>2. PICK oldest : Limiter!Answer("redis", at, count, oldest)
    BY <1>1
  <2> HIDE DEF new, count, at
  <2> QED
    BY <2>1, <2>2, AnswerIsAppended DEF new
<1> HIDE DEF count
<1>6. LimiterTypeOK'
  <2>1. ASSUME NEW i \in 1 .. Len(answers') PROVE answers'[i].at \in Nat /\ answers'[i].at <= now
    <3>1. CASE i = new
      BY <1>2, <1>5, <3>1
    <3>2. CASE i \in 1 .. Len(answers)
      BY <1>2, <1>5, <3>2
    <3> QED
      BY <1>4, <1>5, <3>1, <3>2
  <2>2. \A d \in Callers : stamp'[d] # 0 => stamp'[d] <= now /\ now <= stamp'[d] + MaxDelay
    BY <1>1, <1>2 DEF LimiterTypeOK
  <2>3. bucket' \in Seq(Nat) /\ zexpiry' \in Nat /\ stamp' \in [Callers -> Nat]
    BY <1>1, <1>2 DEF LimiterTypeOK
  <2> QED
    BY <1>1, <1>2, <1>3, <1>5, <2>1, <2>2, <2>3 DEF LimiterTypeOK
<1>7. new \notin 1 .. Len(answers) /\ new \in Nat
  BY <1>4
<1>8. \A store : \A i \in Answered(store) : answers'[i] = answers[i] /\ i # new
  BY <1>5, <1>7 DEF Answered
<1> HIDE DEF new
<1>9. BucketHasWindow'
  <2>1. \A s : HitsSince(s)' = HitsSince(s) /\ BucketSince(s)' = BucketSince(s)
    BY <1>1, <1>5, <1>8 DEF HitsSince, BucketSince
  <2> QED
    BY <1>1, <2>1 DEF BucketHasWindow
<1>10. SetHasWindow'
  <2> SUFFICES ASSUME NEW i \in Answered("redis")'
               PROVE  /\ answers'[i].at + Window + Second <= zexpiry'
                      /\ MaxDelay <= Second
                           /\ (\A j \in Answered("redis")' :
                                 answers'[j].at < answers'[i].at + Window) =>
                           answers'[i].at \in zset'
    BY DEF SetHasWindow
  <2>1. CASE i = new
    BY <1>1, <1>2, <1>5, <2>1
  <2>2. CASE i \in Answered("redis")
    <3>1. answers'[i] = answers[i] /\ answers[i].at \in Nat /\ answers[i].at <= now
      BY <1>2, <1>8, <2>2 DEF Answered
    <3>2. answers'[i].at + Window + Second <= zexpiry'
      BY <1>1, <1>2, <3>1
    <3>3. ASSUME MaxDelay <= Second,
                 \A j \in Answered("redis")' : answers'[j].at < answers'[i].at + Window
          PROVE  answers'[i].at \in zset'
      <4>1. at < answers[i].at + Window
        BY <1>5, <3>1, <3>3
      <4>2. \A j \in Answered("redis") : answers[j].at < answers[i].at + Window
        BY <1>5, <1>8, <3>1, <3>3
      <4>3. answers[i].at \in zset /\ answers[i].at + Window + Second <= zexpiry
        BY <2>2, <3>3, <4>2 DEF SetHasWindow
      <4>4. ~(zexpiry <= now)
        BY <1>2, <3>1, <3>3, <4>1, <4>3
      <4> QED
        BY <1>1, <1>2, <3>1, <4>1, <4>3, <4>4
    <3> QED
      BY <3>2, <3>3
  <2> QED
    BY <1>5, <2>1, <2>2
<1>11. WindowsAreWithinBudget'
  <2>1. InOrder' => InOrder
    <3>1. \A i \in Answered("redis") : i \in Answered("redis")' /\ answers'[i] = answers[i]
      BY <1>5, <1>8
    <3> QED
      BY <3>1 DEF InOrder
  <2>2. ASSUME InOrder', NEW last \in 1 .. now
        PROVE  Cardinality(Admitted("redis", last)') <= Budget
    <3>1. CASE count > Budget \/ at \notin (last - Window + 1) .. last
      BY <1>2, <1>5, <2>1, <2>2, <3>1 DEF WindowsAreWithinBudget
    <3>2. CASE count <= Budget /\ at \in (last - Window + 1) .. last
      <4> DEFINE A == Admitted("redis", last)'
                 f == [i \in A |-> answers'[i].at]
      <4>1. ASSUME NEW i \in A PROVE answers'[i].at \in zset' /\ i \in Answered("redis")'
        <5>1. /\ i \in Answered("redis")' /\ answers'[i].at \in Nat
              /\ answers'[i].at >= last - Window + 1
          BY <1>2, <1>6 DEF Admitted, Answered, LimiterTypeOK
        <5>2. \A j \in Answered("redis")' : answers'[j].at \in Nat /\ answers'[j].at <= at
          <6>1. ASSUME NEW j \in Answered("redis")
                PROVE  answers'[j].at \in Nat /\ answers'[j].at <= at
            <7>1. j \in 1 .. Len(answers) /\ j < new
              BY <1>4 DEF Answered, new
            <7> QED
              BY <1>2, <1>5, <1>8, <2>2, <7>1 DEF InOrder
          <6> QED
            BY <1>2, <1>5, <6>1
        <5>3. \A j \in Answered("redis")' : answers'[j].at < answers'[i].at + Window
          BY <1>2, <3>2, <5>1, <5>2
        <5> QED
          BY <1>10, <2>2, <5>1, <5>3 DEF SetHasWindow, InOrder
      <4>2. f \in Injection(A, zset')
        <5>1. f \in [A -> zset']
          BY <4>1
        <5>2. \A i, j \in A : f[i] = f[j] => i = j
          BY <2>2, <4>1 DEF InOrder
        <5> HIDE DEF f, A
        <5> QED
          BY <5>1, <5>2, Fun_IsInj
      <4>3. IsFiniteSet(A) /\ Cardinality(A) <= Cardinality(zset')
        BY <1>3, <4>2, FS_Injection
      <4>4. Cardinality(A) \in Nat
        BY <4>3, FS_CardinalityType
      <4> HIDE DEF A
      <4>5. Cardinality(A) <= Budget
        BY <1>3, <3>2, <4>3, <4>4
      <4> QED
        BY <4>5 DEF A
    <3> QED
      BY <1>2, <1>3, <3>1, <3>2
  <2> QED
    BY <1>1, <1>5, <2>2 DEF WindowsAreWithinBudget
<1> QED
  BY <1>6, <1>9, <1>10, <1>11

\* Every step of the clock, the memory limiter and Redis.
LEMMA NextKeepsLimiterInv == LimiterInv /\ [Limiter!Next]_limiterVars => LimiterInv'
<1> SUFFICES ASSUME LimiterInv, [Limiter!Next]_limiterVars PROVE LimiterInv'
  OBVIOUS
<1>1. CASE Limiter!Tick
  BY <1>1, TickKeepsLimiterInv
<1>2. CASE Limiter!MemoryHit
  BY <1>2, MemoryHitKeepsLimiterInv
<1>3. CASE \E c \in Callers : Limiter!RedisStamp(c)
  BY <1>3, StampKeepsLimiterInv
<1>4. CASE \E c \in Callers : Limiter!RedisExecute(c)
  BY <1>4, ExecuteKeepsLimiterInv
<1>5. CASE UNCHANGED limiterVars
  BY <1>5 DEF limiterVars, LimiterInv, LimiterTypeOK, BucketHasWindow, SetHasWindow,
              WindowsAreWithinBudget, HitsSince, BucketSince, Answered, Admitted, InOrder
<1> QED
  BY <1>1, <1>2, <1>3, <1>4, <1>5 DEF Limiter!Next

-----------------------------------------------------------------------------
(* GroqTranscript.                                                         *)

\* The answer lists intervals, and the result puts into each segment the words whose
\* midpoint is inside.
GroqInv ==
    /\ answer.status = 200 =>
         /\ answer.words \in Seq(Groq!Intervals)
         /\ answer.segments \in Seq(Groq!Intervals)
    /\ result # None /\ answer.status = 200 =>
         result.words = [i \in DOMAIN answer.segments |->
                           Groq!WordsInside(answer.segments[i])]

\* The sequences up to a length are sequences.
LEMMA UpToAreSequences ==
    ASSUME NEW n \in Nat, NEW S, NEW s \in Groq!UpTo(n, S)
    PROVE  s \in Seq(S)
<1>1. PICK k \in 0 .. n : s \in [1 .. k -> S]
  BY DEF Groq!UpTo
<1>2. k \in Nat
  OBVIOUS
<1> QED
  BY <1>1, <1>2, SeqDef

\* At first there is no result.
LEMMA InitEstablishesGroqInv == Groq!Init => GroqInv
<1> SUFFICES ASSUME Groq!Init PROVE GroqInv
  OBVIOUS
<1>1. result = None
  BY DEF Groq!Init
<1>2. SUFFICES ASSUME answer.status = 200
               PROVE  /\ answer.words \in Seq(Groq!Intervals)
                      /\ answer.segments \in Seq(Groq!Intervals)
  BY <1>1 DEF GroqInv
<1>3. CASE answer = [status |-> None, words |-> <<>>, segments |-> <<>>]
  BY <1>2, <1>3, NoneIsNoNumber
<1>4. ASSUME NEW status \in Groq!Statuses \ {200},
             answer = [status |-> status, words |-> <<>>, segments |-> <<>>]
      PROVE  FALSE
  BY <1>2, <1>4
<1>5. ASSUME NEW words \in Groq!UpTo(MaxWords, Groq!Intervals),
             NEW segments \in Groq!UpTo(MaxSegments, Groq!Intervals),
             answer = [status |-> 200, words |-> words, segments |-> segments]
      PROVE  /\ answer.words \in Seq(Groq!Intervals)
             /\ answer.segments \in Seq(Groq!Intervals)
  <2>1. answer.words = words /\ answer.segments = segments
    BY <1>5
  <2> QED
    BY <2>1, UpToAreSequences, GroqAssumption
<1> QED
  BY <1>3, <1>4, <1>5 DEF Groq!Init

\* The result is made from the answer, which stays.
LEMMA NextKeepsGroqInv == GroqInv /\ [Groq!Next]_groqVars => GroqInv'
<1> SUFFICES ASSUME GroqInv, [Groq!Next]_groqVars PROVE GroqInv'
  OBVIOUS
<1>1. CASE Groq!Transcribe
  <2>1. answer' = answer
    BY <1>1 DEF Groq!Transcribe
  <2>2. ASSUME answer.status = 200
        PROVE  result'.words = [i \in DOMAIN answer.segments |->
                                  Groq!WordsInside(answer.segments[i])]
    BY <1>1, <2>2 DEF Groq!Transcribe
  <2> QED
    BY <2>1, <2>2 DEF GroqInv, Groq!WordsInside
<1>2. CASE UNCHANGED groqVars
  BY <1>2 DEF groqVars, GroqInv, Groq!WordsInside
<1> QED
  BY <1>1, <1>2 DEF Groq!Next

\* Intervals lie in the audio and do not end before they start.
LEMMA IntervalFacts ==
    ASSUME NEW t \in Groq!Intervals
    PROVE  /\ t[1] \in Nat /\ t[2] \in Nat
           /\ t[1] <= t[2] /\ t[2] <= MaxTime
<1>1. t \in Groq!Times \X Groq!Times /\ t[1] <= t[2]
  BY DEF Groq!Intervals
<1>2. t[1] \in Groq!Times /\ t[2] \in Groq!Times
  BY <1>1
<1> QED
  BY <1>1, <1>2, GroqAssumption DEF Groq!Times

\* In a tiling, a segment starts no earlier than one before it ends.
LEMMA TilesAreInOrder ==
    ASSUME NEW segments \in Seq(Groq!Intervals), Groq!Tile(segments),
           NEW i \in 1 .. Len(segments), NEW k \in 1 .. Len(segments), i < k
    PROVE  segments[i][2] <= segments[k][1]
<1> DEFINE early == {n \in i + 1 .. Len(segments) : segments[n][1] < segments[i][2]}
<1>1. Len(segments) \in Nat
  OBVIOUS
<1>2. \A n \in 1 .. Len(segments) : segments[n] \in Groq!Intervals
  OBVIOUS
<1>3. ASSUME early # {} PROVE FALSE
  <2>1. early \in SUBSET Nat
    BY <1>1
  <2>2. PICK n \in early : \A m \in early : n <= m
    <3> HIDE DEF early
    <3> QED
      BY <1>3, <2>1, LeastExists
  <2>3. n \in i + 1 .. Len(segments) /\ segments[n][1] < segments[i][2]
    OBVIOUS
  <2>4. n - 1 \in 1 .. Len(segments) - 1 /\ (n - 1) + 1 = n
    BY <1>1, <2>3
  <2>5. segments[n - 1][2] = segments[n][1]
    BY <2>4 DEF Groq!Tile
  <2>6. n - 1 # i
    BY <2>3, <2>5, <1>2, IntervalFacts
  <2>7. n - 1 \in i + 1 .. Len(segments)
    BY <1>1, <2>3, <2>6
  <2>8. n - 1 \notin early
    BY <2>2, <2>3
  <2>9. ~(segments[n - 1][1] < segments[i][2])
    BY <2>7, <2>8
  <2>10. segments[n - 1] \in Groq!Intervals /\ segments[n] \in Groq!Intervals
         /\ segments[i] \in Groq!Intervals
    BY <1>2, <2>3, <2>4, <1>1
  <2>11. /\ segments[n - 1][1] \in Nat /\ segments[n - 1][2] \in Nat
         /\ segments[n - 1][1] <= segments[n - 1][2]
         /\ segments[i][2] \in Nat /\ segments[n][1] \in Nat
    BY <2>10, IntervalFacts
  <2> QED
    BY <2>3, <2>5, <2>9, <2>11
<1>4. k \in i + 1 .. Len(segments)
  BY <1>1
<1>5. ~(segments[k][1] < segments[i][2])
  BY <1>3, <1>4
<1>6. segments[k][1] \in Nat /\ segments[i][2] \in Nat
  BY <1>2, IntervalFacts
<1> QED
  BY <1>5, <1>6

\* A tiling has a segment around the midpoint of every word that starts before the end.
LEMMA TilesCoverTheAudio ==
    ASSUME NEW segments \in Seq(Groq!Intervals), Groq!Tile(segments),
           NEW word \in Groq!Intervals, word[1] < MaxTime
    PROVE  \E i \in 1 .. Len(segments) : Groq!Inside(word, segments[i])
<1> DEFINE later == {i \in 1 .. Len(segments) : word[1] + word[2] < 2 * segments[i][2]}
<1>1. Len(segments) \in Nat /\ Len(segments) # 0
  BY DEF Groq!Tile
<1>2. \A n \in 1 .. Len(segments) : segments[n] \in Groq!Intervals
  OBVIOUS
<1>3. word[1] \in Nat /\ word[2] \in Nat /\ word[2] <= MaxTime
  BY IntervalFacts
<1>4. Len(segments) \in later
  <2>1. segments[Len(segments)][2] = MaxTime
    BY DEF Groq!Tile
  <2>2. word[1] + word[2] < 2 * segments[Len(segments)][2]
    BY <1>3, <2>1, GroqAssumption
  <2> QED
    BY <1>1, <2>2
<1>5. PICK i \in later : \A m \in later : i <= m
  <2>1. later \in SUBSET Nat
    BY <1>1
  <2> HIDE DEF later
  <2> QED
    BY <1>4, <2>1, LeastExists
<1>6. i \in 1 .. Len(segments) /\ word[1] + word[2] < 2 * segments[i][2]
  OBVIOUS
<1>7. 2 * segments[i][1] <= word[1] + word[2]
  <2>1. CASE i = 1
    BY <1>3, <2>1 DEF Groq!Tile
  <2>2. CASE i # 1
    <3>1. i - 1 \in 1 .. Len(segments) - 1 /\ (i - 1) + 1 = i
      BY <1>1, <1>6, <2>2
    <3>2. segments[i - 1][2] = segments[i][1]
      BY <3>1 DEF Groq!Tile
    <3>3. i - 1 \notin later
      BY <1>5, <1>6
    <3>4. i - 1 \in 1 .. Len(segments)
      BY <1>1, <3>1
    <3>5. ~(word[1] + word[2] < 2 * segments[i - 1][2])
      BY <3>3, <3>4
    <3>6. segments[i - 1][2] \in Nat
      BY <1>2, <3>4, IntervalFacts
    <3> QED
      BY <1>3, <3>2, <3>5, <3>6
  <2> QED
    BY <2>1, <2>2
<1> QED
  BY <1>6, <1>7 DEF Groq!Inside

\* A word is inside at most one segment of a tiling: a segment does not hold its end.
LEMMA TilesShareNoWord ==
    ASSUME NEW segments \in Seq(Groq!Intervals), Groq!Tile(segments),
           NEW word \in Groq!Intervals,
           NEW i \in 1 .. Len(segments), NEW k \in 1 .. Len(segments),
           Groq!Inside(word, segments[i]), Groq!Inside(word, segments[k])
    PROVE  i = k
<1>1. ASSUME NEW a \in 1 .. Len(segments), NEW b \in 1 .. Len(segments), a < b,
             Groq!Inside(word, segments[a]), Groq!Inside(word, segments[b])
      PROVE  FALSE
  <2>1. segments[a][2] <= segments[b][1]
    BY <1>1, TilesAreInOrder
  <2>2. segments[a] \in Groq!Intervals /\ segments[b] \in Groq!Intervals
    OBVIOUS
  <2>3. segments[a][2] \in Nat /\ segments[b][1] \in Nat
    BY <2>2, IntervalFacts
  <2>4. word[1] \in Nat /\ word[2] \in Nat
    BY IntervalFacts
  <2>5. word[1] + word[2] < 2 * segments[a][2]
    BY <1>1 DEF Groq!Inside
  <2>6. 2 * segments[b][1] <= word[1] + word[2]
    BY <1>1 DEF Groq!Inside
  <2>7. ASSUME NEW m \in Nat, NEW n \in Nat, NEW p \in Nat,
               n <= p, m < 2 * n, 2 * p <= m
        PROVE  FALSE
    BY <2>7
  <2>8. word[1] + word[2] \in Nat
    BY <2>4
  <2> QED
    BY <2>1, <2>3, <2>5, <2>6, <2>7, <2>8
<1>2. i \in Int /\ k \in Int
  OBVIOUS
<1> QED
  BY <1>1, <1>2

\* So each word is put into one segment.
LEMMA GroqInvShowsWords == GroqInv => EachWordOnce
<1> SUFFICES ASSUME GroqInv, result # None, answer.status = 200,
                    Groq!Tile(answer.segments),
                    NEW j \in DOMAIN answer.words, answer.words[j][1] < MaxTime
             PROVE  \E i \in DOMAIN result.words :
                        \A k \in DOMAIN result.words : j \in result.words[k] <=> k = i
  BY DEF EachWordOnce, Groq!EachWordOnce
<1>1. /\ answer.words \in Seq(Groq!Intervals)
      /\ answer.segments \in Seq(Groq!Intervals)
      /\ result.words = [i \in DOMAIN answer.segments |->
                           Groq!WordsInside(answer.segments[i])]
  BY DEF GroqInv
<1>2. answer.words[j] \in Groq!Intervals
  BY <1>1
<1>3. DOMAIN answer.segments = 1 .. Len(answer.segments)
  BY <1>1
<1>4. PICK i \in 1 .. Len(answer.segments) :
          Groq!Inside(answer.words[j], answer.segments[i])
  <2> DEFINE word == answer.words[j]
             segs == answer.segments
  <2>1. segs \in Seq(Groq!Intervals) /\ word \in Groq!Intervals /\ word[1] < MaxTime
    BY <1>1, <1>2
  <2>2. Groq!Tile(segs)
    OBVIOUS
  <2> HIDE DEF word, segs
  <2>3. \E i \in 1 .. Len(segs) : Groq!Inside(word, segs[i])
    BY <2>1, <2>2, TilesCoverTheAudio
  <2> QED
    BY <2>3 DEF word, segs
<1>5. DOMAIN result.words = 1 .. Len(answer.segments)
  BY <1>1, <1>3
<1>6. ASSUME NEW k \in 1 .. Len(answer.segments)
      PROVE  j \in result.words[k] <=> k = i
  <2>1. result.words[k] = Groq!WordsInside(answer.segments[k])
    BY <1>1, <1>3
  <2>2. j \in result.words[k] <=> Groq!Inside(answer.words[j], answer.segments[k])
    BY <2>1 DEF Groq!WordsInside
  <2>3. Groq!Inside(answer.words[j], answer.segments[k]) => k = i
    BY <1>1, <1>2, <1>4, TilesShareNoWord
  <2> QED
    BY <1>4, <2>2, <2>3
<1> QED
  BY <1>5, <1>6

-----------------------------------------------------------------------------
(* CostReporting.                                                          *)

CostRuns ==
    [pc : {"idle", "call", "put", "done", "failed"}, day : 0 .. LastDay,
     left : SUBSET Groups, page : SUBSET (Groups \X Amounts), alone : BOOLEAN]

CostRoutes ==
    [pc : {"idle", "scan", "call", "answered", "done"}, key : Cost!Keys \cup {None},
     tries : Nat, day : Int, sum : Int, expected : Int, quiet : BOOLEAN, code : Nat]

CostTypeOK ==
    /\ today \in Cost!Days
    /\ ce \in [Cost!Days -> [Groups -> Amounts \cup {None}]]
    /\ rollup \in [Cost!Days -> [Groups -> Nat \cup {None}]]
    /\ run \in [Runs -> CostRuns]
    /\ settled \subseteq Cost!Days /\ gone \subseteq Cost!Days
    /\ asked \in [CostRequests -> CostRoutes]
    /\ answered \in [Cost!Keys -> [sum : Int] \cup {None}]

\* A run that is alone has its day for itself, ...
AloneIsAlone ==
    \A r, o \in Runs :
        /\ Cost!Active(r) /\ run[r].alone
        /\ Cost!Active(o) /\ run[o].day = run[r].day
        => o = r

\* ... and nobody works on a day that is settled.
SettledIsQuiet ==
    \A r \in Runs : Cost!Active(r) =>
        run[r].day \in Cost!Days /\ run[r].day \notin settled

\* A page is what CE reports, or has reported where it has been restated since.
PagesAreOfCe ==
    \A r \in Runs :
        /\ run[r].pc = "call" => run[r].page = {}
        /\ run[r].pc = "put" => \A item \in run[r].page :
             /\ item[1] \notin run[r].left
             /\ run[r].day \notin gone => ce[run[r].day][item[1]] # None
             /\ run[r].alone => ce[run[r].day][item[1]] = item[2]

\* Only what CE reports gets a row.
RowsAreKnown ==
    \A d \in Cost!Days \ gone, g \in Groups :
        rollup[d][g] # None => ce[d][g] # None

Copied(d, g) == ce[d][g] # None => rollup[d][g] = Cost!UsdToCents(ce[d][g])

\* A run that is alone has copied what is neither on its page nor left, ...
AloneCopies ==
    \A r \in Runs : Cost!Active(r) /\ run[r].alone =>
        \A g \in Groups \ run[r].left :
            (\A item \in run[r].page : item[1] # g) => Copied(run[r].day, g)

\* ... and when it is done, the whole day.
SettledIsCopied == \A d \in settled, g \in Groups : Copied(d, g)

\* A scan that no write disturbs has what is expected of it but for the days to come.
AddsUp(route) ==
    /\ route.pc # "idle" => route.key \in Cost!Keys
    /\ route.pc = "scan" =>
         /\ route.day \in route.key.window.from .. route.key.window.to
         /\ route.quiet =>
              route.sum + SumFunction([d \in route.day .. route.key.window.to - 1
                                         |-> Cost!DayTotal(d)])
                = route.expected

ScansAddUp == \A q \in CostRequests : AddsUp(asked[q])

CostInv == /\ CostTypeOK
           /\ AloneIsAlone
           /\ SettledIsQuiet
           /\ PagesAreOfCe
           /\ RowsAreKnown
           /\ AloneCopies
           /\ SettledIsCopied
           /\ ScansAddUp

\* What the aggregator keeps, apart from the requests.
WritersInv == /\ AloneIsAlone
              /\ SettledIsQuiet
              /\ PagesAreOfCe
              /\ RowsAreKnown
              /\ AloneCopies
              /\ SettledIsCopied

\* CostReporting's sums are those of the lemmas above.
LEMMA CostSums == ASSUME NEW f PROVE Cost!SumFunction(f) = SumFunction(f)
<1>1. Cost!SumFunction(f) = Partial(f)[DOMAIN f]
  BY DEF Cost!SumFunction, Cost!SumFunctionOnSet, Cost!FoldFunctionOnSet,
         Cost!MapThenFoldSet, Partial, Pick
<1> QED
  BY <1>1, SumIsPartial

\* So are its numbers of members.
LEMMA CostCardinalities == ASSUME NEW S PROVE Cost!Cardinality(S) = Cardinality(S)
BY DEF Cost!Cardinality, Cardinality

\* At first nothing has been copied or asked.
LEMMA InitEstablishesCostInv == Cost!Init => CostInv
<1> SUFFICES ASSUME Cost!Init PROVE CostInv
  OBVIOUS
<1> USE DEF Cost!Init
<1>1. CostTypeOK
  <2>1. 1 \in Cost!Days /\ 0 \in 0 .. LastDay
    BY CostAssumption DEF Cost!Days
  <2>2. Cost!IdleRun \in CostRuns
    BY <2>1 DEF Cost!IdleRun, CostRuns
  <2>3. Cost!IdleReq \in CostRoutes
    BY DEF Cost!IdleReq, CostRoutes
  <2> QED
    BY <2>1, <2>2, <2>3 DEF CostTypeOK
<1>2. \A r \in Runs : run[r].pc = "idle"
  BY DEF Cost!IdleRun
<1>3. \A d \in Cost!Days, g \in Groups : rollup[d][g] = None /\ ce[d][g] = None
  OBVIOUS
<1>4. \A q \in CostRequests : asked[q].pc = "idle"
  BY DEF Cost!IdleReq
<1> QED
  BY <1>1, <1>2, <1>3, <1>4
     DEF CostInv, AloneIsAlone, SettledIsQuiet, PagesAreOfCe, RowsAreKnown,
         AloneCopies, SettledIsCopied, ScansAddUp, AddsUp, Cost!Active

\* What reads only, ...
LEMMA WritersStay ==
    ASSUME WritersInv, UNCHANGED <<ce, gone, rollup, run, settled>>
    PROVE  WritersInv'
BY DEF WritersInv, AloneIsAlone, SettledIsQuiet, PagesAreOfCe, RowsAreKnown, AloneCopies,
       SettledIsCopied, Copied, Cost!Active

\* ... and what does not write to the table.
LEMMA ScansStay ==
    ASSUME ScansAddUp, rollup' = rollup, asked' = asked
    PROVE  ScansAddUp'
BY DEF ScansAddUp, AddsUp, Cost!DayTotal, Cost!Present

\* The next day changes no row, run or request.
LEMMA NextDayKeepsCostInv == CostInv /\ Cost!NextDay => CostInv'
<1> SUFFICES ASSUME CostInv, Cost!NextDay PROVE CostInv'
  OBVIOUS
<1>1. CostTypeOK'
  <2>1. today' \in Cost!Days
    BY CostAssumption DEF CostInv, CostTypeOK, Cost!NextDay, Cost!Days
  <2> QED
    BY <2>1 DEF CostInv, CostTypeOK, Cost!NextDay, Cost!ceVars
<1>2. WritersInv'
  BY WritersStay DEF CostInv, WritersInv, Cost!NextDay, Cost!ceVars
<1>3. ScansAddUp'
  BY ScansStay DEF CostInv, Cost!NextDay
<1> QED
  BY <1>1, <1>2, <1>3 DEF CostInv, WritersInv

\* A report takes its day back from what was alone and what was settled.
LEMMA ReportKeepsCostInv ==
    ASSUME CostInv, NEW d \in Cost!Days, NEW spend \in [Groups -> Amounts \cup {None}],
           Cost!Report(d, spend)
    PROVE  CostInv'
<1> USE DEF Cost!Report
<1>1. CostTypeOK'
  <2>1. \A r \in Runs : [run[r] EXCEPT !.alone = FALSE] \in CostRuns
    BY DEF CostInv, CostTypeOK, CostRuns
  <2>2. run' \in [Runs -> CostRuns]
    BY <2>1 DEF CostInv, CostTypeOK
  <2>3. ce' \in [Cost!Days -> [Groups -> Amounts \cup {None}]]
    BY DEF CostInv, CostTypeOK
  <2>4. settled' \subseteq Cost!Days /\ gone' \subseteq Cost!Days
    BY DEF CostInv, CostTypeOK
  <2> QED
    BY <2>2, <2>3, <2>4 DEF CostInv, CostTypeOK, Cost!dayVars
<1>2. ASSUME NEW r \in Runs
      PROVE  /\ run'[r].pc = run[r].pc /\ run'[r].day = run[r].day
             /\ run'[r].left = run[r].left /\ run'[r].page = run[r].page
             /\ run'[r].alone => run[r].alone /\ run[r].day # d
  <2>1. run[r] \in CostRuns
    BY DEF CostInv, CostTypeOK
  <2>2. run'[r] = IF run[r].day = d THEN [run[r] EXCEPT !.alone = FALSE] ELSE run[r]
    OBVIOUS
  <2> QED
    BY <2>1, <2>2 DEF CostRuns
<1>3. \A e \in Cost!Days : e # d => ce'[e] = ce[e]
  BY DEF CostInv, CostTypeOK
<1>4. \A e \in Cost!Days \ gone', g \in Groups : ce[e][g] # None => ce'[e][g] # None
  <2> SUFFICES ASSUME NEW e \in Cost!Days \ gone', NEW g \in Groups, ce[e][g] # None,
                      ce'[e][g] = None
               PROVE  FALSE
    OBVIOUS
  <2>1. e = d /\ ce'[d] = spend
    BY <1>3 DEF CostInv, CostTypeOK
  <2>2. g \in Cost!Known(d) /\ spend[g] = None
    BY <2>1 DEF Cost!Known
  <2> QED
    BY <2>1, <2>2
<1>5. gone \subseteq gone' /\ settled' = settled \ {d}
  OBVIOUS
<1>6. AloneIsAlone'
  BY <1>2 DEF CostInv, AloneIsAlone, Cost!Active
<1>7. SettledIsQuiet'
  BY <1>2, <1>5 DEF CostInv, SettledIsQuiet, Cost!Active
<1>8. PagesAreOfCe'
  <2> SUFFICES ASSUME NEW r \in Runs
               PROVE  /\ run'[r].pc = "call" => run'[r].page = {}
                      /\ run'[r].pc = "put" => \A item \in run'[r].page :
                           /\ item[1] \notin run'[r].left
                           /\ run'[r].day \notin gone' => ce'[run'[r].day][item[1]] # None
                           /\ run'[r].alone => ce'[run'[r].day][item[1]] = item[2]
    BY DEF PagesAreOfCe
  <2>1. run[r].pc = "call" => run[r].page = {}
    BY DEF CostInv, PagesAreOfCe
  <2>2. ASSUME run[r].pc = "put", NEW item \in run[r].page
        PROVE  /\ item[1] \notin run[r].left
               /\ run[r].day \notin gone' => ce'[run[r].day][item[1]] # None
               /\ run'[r].alone => ce'[run[r].day][item[1]] = item[2]
    <3>1. /\ item[1] \notin run[r].left
          /\ run[r].day \notin gone => ce[run[r].day][item[1]] # None
          /\ run[r].alone => ce[run[r].day][item[1]] = item[2]
      BY <2>2 DEF CostInv, PagesAreOfCe
    <3>2. run[r].day \in Cost!Days /\ item[1] \in Groups
      BY <2>2 DEF CostInv, CostTypeOK, CostRuns, SettledIsQuiet, Cost!Active
    <3> QED
      BY <1>2, <1>3, <1>4, <1>5, <3>1, <3>2
  <2> QED
    BY <1>2, <2>1, <2>2
<1>9. RowsAreKnown'
  BY <1>4, <1>5 DEF CostInv, RowsAreKnown
<1>10. AloneCopies'
  <2> SUFFICES ASSUME NEW r \in Runs, Cost!Active(r)', run'[r].alone,
                      NEW g \in Groups \ run'[r].left,
                      \A item \in run'[r].page : item[1] # g
               PROVE  ce'[run'[r].day][g] # None =>
                        rollup'[run'[r].day][g] =
                          Cost!UsdToCents(ce'[run'[r].day][g])
    BY DEF AloneCopies, Copied
  <2>1. Cost!Active(r) /\ run[r].alone /\ run[r].day # d
    BY <1>2 DEF Cost!Active
  <2>2. Copied(run[r].day, g)
    BY <1>2, <2>1 DEF CostInv, AloneCopies
  <2>3. run[r].day \in Cost!Days
    BY <2>1 DEF CostInv, SettledIsQuiet
  <2> QED
    BY <1>2, <1>3, <2>1, <2>2, <2>3 DEF Copied
<1>11. SettledIsCopied'
  BY <1>3, <1>5 DEF CostInv, CostTypeOK, SettledIsCopied, Copied
<1>12. ScansAddUp'
  BY ScansStay DEF CostInv
<1> QED
  BY <1>1, <1>6, <1>7, <1>8, <1>9, <1>10, <1>11, <1>12 DEF CostInv

\* A run that starts is alone when no other works on its day, and no other is then.
LEMMA StartRunKeepsCostInv ==
    ASSUME CostInv, NEW r \in Runs, NEW d \in Cost!Days, Cost!StartRun(r, d)
    PROVE  CostInv'
<1> DEFINE others == {o \in Runs : Cost!Active(o) /\ run[o].day = d}
<1>1. /\ run[r].pc = "idle"
      /\ settled' = settled \ {d}
      /\ UNCHANGED <<today, ce, gone, rollup, asked, answered>>
  BY DEF Cost!StartRun, Cost!ceVars
<1>2. run' = [o \in Runs |->
                IF o = r THEN [pc |-> "call", day |-> d, left |-> Groups,
                               page |-> {}, alone |-> others = {}]
                ELSE IF o \in others THEN [run[o] EXCEPT !.alone = FALSE] ELSE run[o]]
  BY DEF Cost!StartRun
<1>3. r \notin others
  BY <1>1 DEF Cost!Active
<1> HIDE DEF others
<1>4. /\ run'[r].pc = "call" /\ run'[r].day = d /\ run'[r].left = Groups
      /\ run'[r].page = {} /\ run'[r].alone = (others = {})
  BY <1>2
<1>5. ASSUME NEW o \in Runs, o # r
      PROVE  /\ run'[o].pc = run[o].pc /\ run'[o].day = run[o].day
             /\ run'[o].left = run[o].left /\ run'[o].page = run[o].page
             /\ run'[o].alone => run[o].alone /\ o \notin others
  <2>1. run[o] \in CostRuns
    BY DEF CostInv, CostTypeOK
  <2>2. run'[o] = IF o \in others THEN [run[o] EXCEPT !.alone = FALSE] ELSE run[o]
    BY <1>2, <1>5
  <2> QED
    BY <2>1, <2>2 DEF CostRuns
<1>6. CostTypeOK'
  <2>1. \A o \in Runs : [run[o] EXCEPT !.alone = FALSE] \in CostRuns
    BY DEF CostInv, CostTypeOK, CostRuns
  <2>2. (others = {}) \in BOOLEAN
    OBVIOUS
  <2>3. d \in 0 .. LastDay
    BY CostAssumption DEF Cost!Days
  <2>4. [pc |-> "call", day |-> d, left |-> Groups, page |-> {},
         alone |-> others = {}] \in CostRuns
    BY <2>2, <2>3 DEF CostRuns
  <2>5. \A o \in Runs : run[o] \in CostRuns
    BY DEF CostInv, CostTypeOK
  <2>6. run' \in [Runs -> CostRuns]
    BY <1>2, <2>1, <2>4, <2>5
  <2> QED
    BY <1>1, <2>6 DEF CostInv, CostTypeOK
<1>7. \A o \in Runs : Cost!Active(o)' <=> o = r \/ Cost!Active(o)
  BY <1>4, <1>5 DEF Cost!Active
<1>8. AloneIsAlone'
  <2> SUFFICES ASSUME NEW a \in Runs, NEW o \in Runs, Cost!Active(a)', run'[a].alone,
                      Cost!Active(o)', run'[o].day = run'[a].day, o # a
               PROVE  FALSE
    BY DEF AloneIsAlone
  <2>1. CASE a = r
    <3>1. o \in others
      BY <1>4, <1>5, <1>7, <2>1 DEF others
    <3> QED
      BY <1>4, <2>1, <3>1
  <2>2. CASE a # r /\ o = r
    <3>1. a \in others
      BY <1>4, <1>5, <1>7, <2>2 DEF others
    <3> QED
      BY <1>5, <2>2, <3>1
  <2>3. CASE a # r /\ o # r
    BY <1>5, <1>7, <2>3 DEF CostInv, AloneIsAlone
  <2> QED
    BY <2>1, <2>2, <2>3
<1>9. SettledIsQuiet'
  BY <1>1, <1>4, <1>5, <1>7 DEF CostInv, SettledIsQuiet
<1>10. PagesAreOfCe'
  <2> SUFFICES ASSUME NEW o \in Runs
               PROVE  /\ run'[o].pc = "call" => run'[o].page = {}
                      /\ run'[o].pc = "put" => \A item \in run'[o].page :
                           /\ item[1] \notin run'[o].left
                           /\ run'[o].day \notin gone' => ce'[run'[o].day][item[1]] # None
                           /\ run'[o].alone => ce'[run'[o].day][item[1]] = item[2]
    BY DEF PagesAreOfCe
  <2>1. CASE o = r
    BY <1>4, <2>1
  <2>2. CASE o # r
    BY <1>1, <1>5, <2>2 DEF CostInv, PagesAreOfCe
  <2> QED
    BY <2>1, <2>2
<1>11. RowsAreKnown'
  BY <1>1 DEF CostInv, RowsAreKnown
<1>12. AloneCopies'
  <2> SUFFICES ASSUME NEW o \in Runs, Cost!Active(o)', run'[o].alone,
                      NEW g \in Groups \ run'[o].left,
                      \A item \in run'[o].page : item[1] # g
               PROVE  ce'[run'[o].day][g] # None =>
                        rollup'[run'[o].day][g] =
                          Cost!UsdToCents(ce'[run'[o].day][g])
    BY DEF AloneCopies, Copied
  <2>1. o # r
    BY <1>4
  <2>2. Copied(run[o].day, g)
    BY <1>5, <1>7, <2>1 DEF CostInv, AloneCopies
  <2> QED
    BY <1>1, <1>5, <2>1, <2>2 DEF Copied
<1>13. SettledIsCopied'
  BY <1>1 DEF CostInv, SettledIsCopied, Copied
<1>14. ScansAddUp'
  BY <1>1, ScansStay DEF CostInv
<1> QED
  BY <1>6, <1>8, <1>9, <1>10, <1>11, <1>12, <1>13, <1>14 DEF CostInv

\* The others' runs, while one goes on.
OnlyRun(r) == \A o \in Runs : o # r => run'[o] = run[o]

\* A page of the groups that are left; those CE reports nothing of are done with.
LEMMA CallCeKeepsCostInv ==
    ASSUME CostInv, NEW r \in Runs, Cost!CallCe(r) PROVE CostInv'
<1> DEFINE d == run[r].day
<1>1. /\ run[r].pc = "call"
      /\ UNCHANGED <<today, ce, gone, rollup, settled, asked, answered>>
  BY DEF Cost!CallCe, Cost!ceVars, Cost!dayVars
<1>2. PICK groups \in SUBSET run[r].left :
        run' = [run EXCEPT ![r].left = run[r].left \ groups,
                           ![r].page = {<<g, ce[run[r].day][g]>> :
                                          g \in groups \cap Cost!Known(run[r].day)},
                           ![r].pc = "put"]
  BY DEF Cost!CallCe
<1>3. run[r] \in CostRuns /\ d \in Cost!Days /\ d \notin settled
  BY <1>1 DEF CostInv, CostTypeOK, SettledIsQuiet, Cost!Active
<1>4. /\ run'[r].pc = "put" /\ run'[r].day = d
      /\ run'[r].left = run[r].left \ groups
      /\ run'[r].page = {<<g, ce[d][g]>> : g \in groups \cap Cost!Known(d)}
      /\ run'[r].alone = run[r].alone
  BY <1>2, <1>3 DEF CostInv, CostTypeOK, CostRuns
<1>5. OnlyRun(r)
  BY <1>2 DEF CostInv, CostTypeOK, OnlyRun
<1>6. groups \subseteq Groups
  BY <1>3 DEF CostRuns
<1>7. \A item \in run'[r].page :
         /\ item[1] \in groups /\ item[2] = ce[d][item[1]]
         /\ ce[d][item[1]] # None
  BY <1>4 DEF Cost!Known
<1>8. \A g \in groups : ce[d][g] # None => \E item \in run'[r].page : item[1] = g
  <2> SUFFICES ASSUME NEW g \in groups, ce[d][g] # None
               PROVE  \E item \in run'[r].page : item[1] = g
    OBVIOUS
  <2>1. g \in groups \cap Cost!Known(d)
    BY <1>6 DEF Cost!Known
  <2>2. <<g, ce[d][g]>> \in run'[r].page
    BY <1>4, <2>1
  <2>3. <<g, ce[d][g]>>[1] = g
    OBVIOUS
  <2> QED
    BY <2>2, <2>3
<1>9. CostTypeOK'
  <2>1. run'[r].page \in SUBSET (Groups \X Amounts)
    <3>1. \A g \in groups \cap Cost!Known(d) : <<g, ce[d][g]>> \in Groups \X Amounts
      BY <1>3, <1>6 DEF CostInv, CostTypeOK, Cost!Known
    <3> QED
      BY <1>4, <3>1
  <2>2. run' \in [Runs -> CostRuns]
    <3>1. run'[r] = [run[r] EXCEPT !.left = run[r].left \ groups,
                                   !.page = run'[r].page, !.pc = "put"]
      BY <1>2, <1>4 DEF CostInv, CostTypeOK
    <3>2. run[r].left \ groups \in SUBSET Groups
      BY <1>3 DEF CostRuns
    <3>3. run'[r] \in CostRuns
      BY <1>3, <2>1, <3>1, <3>2 DEF CostRuns
    <3>4. run' = [o \in Runs |-> run'[o]]
      BY <1>2 DEF CostInv, CostTypeOK
    <3>5. \A o \in Runs : run'[o] \in CostRuns
      BY <1>5, <3>3 DEF CostInv, CostTypeOK, OnlyRun
    <3> QED
      BY <3>4, <3>5
  <2> QED
    BY <1>1, <2>2 DEF CostInv, CostTypeOK
<1>10. \A o \in Runs : /\ Cost!Active(o)' <=> Cost!Active(o)
                       /\ run'[o].alone = run[o].alone /\ run'[o].day = run[o].day
  BY <1>1, <1>4, <1>5 DEF Cost!Active, OnlyRun
<1>11. AloneIsAlone'
  BY <1>10 DEF CostInv, AloneIsAlone
<1>12. SettledIsQuiet'
  BY <1>1, <1>10 DEF CostInv, SettledIsQuiet
<1>13. PagesAreOfCe'
  <2> SUFFICES ASSUME NEW o \in Runs
               PROVE  /\ run'[o].pc = "call" => run'[o].page = {}
                      /\ run'[o].pc = "put" => \A item \in run'[o].page :
                           /\ item[1] \notin run'[o].left
                           /\ run'[o].day \notin gone' => ce'[run'[o].day][item[1]] # None
                           /\ run'[o].alone => ce'[run'[o].day][item[1]] = item[2]
    BY DEF PagesAreOfCe
  <2>1. CASE o = r
    BY <1>1, <1>4, <1>7, <2>1
  <2>2. CASE o # r
    BY <1>1, <1>5, <2>2 DEF CostInv, PagesAreOfCe, OnlyRun
  <2> QED
    BY <2>1, <2>2
<1>14. RowsAreKnown'
  BY <1>1 DEF CostInv, RowsAreKnown
<1>15. AloneCopies'
  <2> SUFFICES ASSUME NEW o \in Runs, Cost!Active(o)', run'[o].alone,
                      NEW g \in Groups \ run'[o].left,
                      \A item \in run'[o].page : item[1] # g
               PROVE  ce[run'[o].day][g] # None =>
                        rollup[run'[o].day][g] = Cost!UsdToCents(ce[run'[o].day][g])
    BY <1>1 DEF AloneCopies, Copied
  <2>1. CASE o = r
    <3>1. run[r].page = {}
      BY <1>1 DEF CostInv, PagesAreOfCe
    <3>2. CASE g \in groups
      BY <1>4, <1>8, <2>1, <3>2
    <3>3. CASE g \notin groups
      <4>1. g \in Groups \ run[r].left /\ run[r].alone /\ Cost!Active(r)
        BY <1>4, <1>10, <2>1, <3>3
      <4> QED
        BY <1>4, <2>1, <3>1, <4>1 DEF CostInv, AloneCopies, Copied
    <3> QED
      BY <3>2, <3>3
  <2>2. CASE o # r
    BY <1>5, <1>10, <2>2 DEF CostInv, AloneCopies, Copied, OnlyRun
  <2> QED
    BY <2>1, <2>2
<1>16. SettledIsCopied'
  BY <1>1 DEF CostInv, SettledIsCopied, Copied
<1>17. ScansAddUp'
  BY <1>1, ScansStay DEF CostInv
<1> QED
  BY <1>9, <1>11, <1>12, <1>13, <1>14, <1>15, <1>16, <1>17 DEF CostInv

\* A run that ends, early or not, works on nothing any more.
LEMMA EndKeepsWritersInv ==
    ASSUME CostInv, NEW r \in Runs, NEW end \in {"done", "failed"},
           run' = [run EXCEPT ![r].pc = end],
           UNCHANGED <<ce, gone, rollup>>
    PROVE  /\ run' \in [Runs -> CostRuns]
           /\ AloneIsAlone' /\ PagesAreOfCe' /\ RowsAreKnown' /\ AloneCopies'
           /\ \A o \in Runs : Cost!Active(o)' <=> o # r /\ Cost!Active(o)
<1>1. run[r] \in CostRuns /\ run' \in [Runs -> CostRuns]
  BY DEF CostInv, CostTypeOK, CostRuns
<1>2. run'[r].pc = end
  BY <1>1 DEF CostInv, CostTypeOK, CostRuns
<1>3. OnlyRun(r)
  BY DEF CostInv, CostTypeOK, OnlyRun
<1>4. \A o \in Runs : Cost!Active(o)' <=> o # r /\ Cost!Active(o)
  BY <1>2, <1>3 DEF Cost!Active, OnlyRun
<1>5. AloneIsAlone'
  BY <1>3, <1>4 DEF CostInv, AloneIsAlone, OnlyRun
<1>6. PagesAreOfCe'
  <2> SUFFICES ASSUME NEW o \in Runs, run'[o].pc \in {"call", "put"}
               PROVE  /\ run'[o].pc = "call" => run'[o].page = {}
                      /\ run'[o].pc = "put" => \A item \in run'[o].page :
                           /\ item[1] \notin run'[o].left
                           /\ run'[o].day \notin gone' => ce'[run'[o].day][item[1]] # None
                           /\ run'[o].alone => ce'[run'[o].day][item[1]] = item[2]
    BY DEF PagesAreOfCe
  <2>1. o # r
    BY <1>2
  <2> QED
    BY <1>3, <2>1 DEF CostInv, PagesAreOfCe, OnlyRun
<1>7. RowsAreKnown'
  BY DEF CostInv, RowsAreKnown
<1>8. AloneCopies'
  BY <1>3, <1>4 DEF CostInv, AloneCopies, Copied, OnlyRun
<1> QED
  BY <1>1, <1>4, <1>5, <1>6, <1>7, <1>8

\* A run that fails is over; its rows stay, and its day is not settled.
LEMMA RunFailsKeepsCostInv ==
    ASSUME CostInv, NEW r \in Runs, Cost!RunFails(r) PROVE CostInv'
<1>1. /\ run' = [run EXCEPT ![r].pc = "failed"]
      /\ UNCHANGED <<today, ce, gone, rollup, settled, asked, answered>>
  BY DEF Cost!RunFails, Cost!ceVars, Cost!dayVars
<1>2. /\ run' \in [Runs -> CostRuns]
      /\ AloneIsAlone' /\ PagesAreOfCe' /\ RowsAreKnown' /\ AloneCopies'
      /\ \A o \in Runs : Cost!Active(o)' <=> o # r /\ Cost!Active(o)
  BY <1>1, EndKeepsWritersInv
<1>3. CostTypeOK'
  BY <1>1, <1>2 DEF CostInv, CostTypeOK
<1>4. SettledIsQuiet'
  BY <1>1, <1>2 DEF CostInv, CostTypeOK, SettledIsQuiet
<1>5. SettledIsCopied'
  BY <1>1 DEF CostInv, SettledIsCopied, Copied
<1>6. ScansAddUp'
  BY <1>1, ScansStay DEF CostInv
<1> QED
  BY <1>2, <1>3, <1>4, <1>5, <1>6 DEF CostInv

\* When a run that is alone has nothing left, its day is settled.
LEMMA NextPageKeepsCostInv ==
    ASSUME CostInv, NEW r \in Runs, Cost!NextPage(r) PROVE CostInv'
<1> DEFINE d == run[r].day
<1>1. /\ run[r].pc = "put" /\ run[r].page = {}
      /\ UNCHANGED <<today, ce, gone, rollup, asked, answered>>
  BY DEF Cost!NextPage, Cost!ceVars, Cost!dayVars
<1>2. run[r] \in CostRuns /\ d \in Cost!Days /\ Cost!Active(r)
  BY <1>1 DEF CostInv, CostTypeOK, SettledIsQuiet, Cost!Active
<1>3. CASE Cost!HasNextPage(r)
  <2>1. /\ run' = [run EXCEPT ![r].pc = "call"]
        /\ settled' = settled
    BY <1>3 DEF Cost!NextPage
  <2>2. /\ run'[r].pc = "call" /\ run'[r].page = {} /\ run'[r].day = run[r].day
        /\ run'[r].left = run[r].left /\ run'[r].alone = run[r].alone
    BY <1>1, <1>2, <2>1 DEF CostInv, CostTypeOK, CostRuns
  <2>3. OnlyRun(r) /\ run' \in [Runs -> CostRuns]
    BY <1>2, <2>1 DEF CostInv, CostTypeOK, OnlyRun, CostRuns
  <2>4. \A o \in Runs : Cost!Active(o)' <=> Cost!Active(o)
    BY <1>2, <2>2, <2>3 DEF Cost!Active, OnlyRun
  <2>5. CostTypeOK'
    BY <1>1, <2>1, <2>3 DEF CostInv, CostTypeOK
  <2>6. \A o \in Runs : /\ run'[o].day = run[o].day /\ run'[o].left = run[o].left
                        /\ run'[o].alone = run[o].alone /\ run'[o].page = run[o].page
    BY <1>1, <2>2, <2>3 DEF OnlyRun
  <2>7. AloneIsAlone' /\ SettledIsQuiet'
    BY <2>1, <2>4, <2>6 DEF CostInv, AloneIsAlone, SettledIsQuiet
  <2>8. PagesAreOfCe'
    <3> SUFFICES ASSUME NEW o \in Runs
                 PROVE  /\ run'[o].pc = "call" => run'[o].page = {}
                        /\ run'[o].pc = "put" => \A item \in run'[o].page :
                             /\ item[1] \notin run'[o].left
                             /\ run'[o].day \notin gone' =>
                                  ce'[run'[o].day][item[1]] # None
                             /\ run'[o].alone => ce'[run'[o].day][item[1]] = item[2]
      BY DEF PagesAreOfCe
    <3>1. CASE o = r
      BY <2>2, <3>1
    <3>2. CASE o # r
      BY <1>1, <2>3, <3>2 DEF CostInv, PagesAreOfCe, OnlyRun
    <3> QED
      BY <3>1, <3>2
  <2>9. RowsAreKnown'
    BY <1>1 DEF CostInv, RowsAreKnown
  <2>10. AloneCopies'
    BY <1>1, <2>4, <2>6 DEF CostInv, AloneCopies, Copied
  <2>11. SettledIsCopied'
    BY <1>1, <2>1 DEF CostInv, SettledIsCopied, Copied
  <2>12. ScansAddUp'
    BY <1>1, ScansStay DEF CostInv
  <2> QED
    BY <2>5, <2>7, <2>8, <2>9, <2>10, <2>11, <2>12 DEF CostInv
<1>4. CASE ~Cost!HasNextPage(r)
  <2>1. /\ run' = [run EXCEPT ![r].pc = "done"]
        /\ settled' = IF run[r].alone THEN settled \cup {d} ELSE settled
    BY <1>4 DEF Cost!NextPage
  <2>2. run[r].left = {}
    BY <1>4 DEF Cost!HasNextPage
  <2>3. /\ run' \in [Runs -> CostRuns]
        /\ AloneIsAlone' /\ PagesAreOfCe' /\ RowsAreKnown' /\ AloneCopies'
        /\ \A o \in Runs : Cost!Active(o)' <=> o # r /\ Cost!Active(o)
    BY <1>1, <2>1, EndKeepsWritersInv
  <2>4. CostTypeOK'
    BY <1>1, <1>2, <2>1, <2>3 DEF CostInv, CostTypeOK
  <2>5. \A o \in Runs : o # r => run'[o] = run[o]
    BY <2>1 DEF CostInv, CostTypeOK
  <2>6. SettledIsQuiet'
    <3> SUFFICES ASSUME NEW o \in Runs, Cost!Active(o)'
                 PROVE  run'[o].day \in Cost!Days /\ run'[o].day \notin settled'
      BY DEF SettledIsQuiet
    <3>1. o # r /\ Cost!Active(o) /\ run'[o] = run[o]
      BY <2>3, <2>5
    <3>2. run[o].day \in Cost!Days /\ run[o].day \notin settled
      BY <3>1 DEF CostInv, SettledIsQuiet
    <3>3. run[r].alone => run[o].day # d
      BY <1>2, <3>1 DEF CostInv, AloneIsAlone
    <3> QED
      BY <2>1, <3>1, <3>2, <3>3
  <2>7. SettledIsCopied'
    <3> SUFFICES ASSUME NEW e \in settled', NEW g \in Groups, ce[e][g] # None
                 PROVE  rollup[e][g] = Cost!UsdToCents(ce[e][g])
      BY <1>1 DEF SettledIsCopied, Copied
    <3>1. CASE e \in settled
      BY <3>1 DEF CostInv, SettledIsCopied, Copied
    <3>2. CASE run[r].alone /\ e = d
      BY <1>1, <1>2, <2>2, <3>2 DEF CostInv, AloneCopies, Copied
    <3> QED
      BY <2>1, <3>1, <3>2
  <2>8. ScansAddUp'
    BY <1>1, ScansStay DEF CostInv
  <2> QED
    BY <2>3, <2>4, <2>6, <2>7, <2>8 DEF CostInv
<1> QED
  BY <1>3, <1>4

\* Cents are off by half a cent at most.
LEMMA CentsAreRounded ==
    ASSUME NEW a \in Int
    PROVE  /\ Cost!UsdToCents(a) \in Nat
           /\ a >= 0 => /\ a - 5 <= 10 * Cost!UsdToCents(a)
                        /\ 10 * Cost!UsdToCents(a) <= a + 5
<1>1. CASE a < 0
  BY <1>1 DEF Cost!UsdToCents
<1>2. CASE a >= 0
  <2>1. Cost!UsdToCents(a) = (a + 5) \div 10
    BY <1>2 DEF Cost!UsdToCents
  <2>2. a + 5 \in Nat
    BY <1>2
  <2>3. ASSUME NEW n \in Nat
        PROVE  n \div 10 \in Nat /\ 10 * (n \div 10) <= n /\ n < 10 * (n \div 10) + 10
    OBVIOUS
  <2> QED
    BY <2>1, <2>2, <2>3
<1> QED
  BY <1>1, <1>2

\* So is round(), whichever way it breaks ties.
LEMMA RoundEvenRounds ==
    ASSUME NEW a \in Int
    PROVE  /\ Cost!RoundEven(a) \in Int
           /\ a - 5 <= 10 * Cost!RoundEven(a)
           /\ 10 * Cost!RoundEven(a) <= a + 5
<1> DEFINE q == a \div 10
           r == a % 10
<1>1. q \in Int /\ r \in 0 .. 9 /\ a = 10 * q + r
  OBVIOUS
<1>2. Cost!RoundEven(a) = IF r < 5 \/ (r = 5 /\ q % 2 = 0) THEN q ELSE q + 1
  BY DEF Cost!RoundEven
<1> HIDE DEF q, r
<1>3. CASE r < 5 \/ (r = 5 /\ q % 2 = 0)
  <2>1. Cost!RoundEven(a) = q /\ r <= 5 /\ 0 <= r
    BY <1>1, <1>2, <1>3
  <2> QED
    BY <1>1, <2>1
<1>4. CASE ~(r < 5 \/ (r = 5 /\ q % 2 = 0))
  <2>1. Cost!RoundEven(a) = q + 1 /\ 5 <= r /\ r <= 9
    BY <1>1, <1>2, <1>4
  <2> QED
    BY <1>1, <2>1
<1> QED
  BY <1>3, <1>4

\* A write disturbs every scan.
LEMMA WritesDisturb ==
    ASSUME CostInv,
           asked' = [q \in CostRequests |-> [asked[q] EXCEPT !.quiet = FALSE]]
    PROVE  ScansAddUp' /\ asked' \in [CostRequests -> CostRoutes]
<1>1. ASSUME NEW q \in CostRequests
      PROVE  /\ asked'[q] \in CostRoutes /\ asked'[q].pc = asked[q].pc
             /\ asked'[q].key = asked[q].key /\ asked'[q].day = asked[q].day
             /\ ~asked'[q].quiet
  <2>1. asked[q] \in CostRoutes /\ asked'[q] = [asked[q] EXCEPT !.quiet = FALSE]
    BY DEF CostInv, CostTypeOK
  <2> QED
    BY <2>1 DEF CostRoutes
<1>2. asked' \in [CostRequests -> CostRoutes]
  BY <1>1
<1>3. ScansAddUp'
  <2> SUFFICES ASSUME NEW q \in CostRequests
               PROVE  /\ asked'[q].pc # "idle" => asked'[q].key \in Cost!Keys
                      /\ asked'[q].pc = "scan" =>
                           /\ asked'[q].day
                                \in asked'[q].key.window.from .. asked'[q].key.window.to
                           /\ ~asked'[q].quiet
    BY DEF ScansAddUp, AddsUp
  <2> QED
    BY <1>1 DEF CostInv, ScansAddUp, AddsUp
<1> QED
  BY <1>2, <1>3

\* A row gets what CE reports of its group, or a run that is alone is not the writer.
LEMMA PutKeepsCostInv ==
    ASSUME CostInv, NEW r \in Runs, Cost!Put(r) PROVE CostInv'
<1> DEFINE d == run[r].day
<1>1. /\ run[r].pc = "put"
      /\ asked' = [q \in CostRequests |-> [asked[q] EXCEPT !.quiet = FALSE]]
      /\ UNCHANGED <<today, ce, gone, settled, answered>>
  BY DEF Cost!Put, Cost!ceVars, Cost!dayVars
<1>2. ScansAddUp' /\ asked' \in [CostRequests -> CostRoutes]
  BY <1>1, WritesDisturb
<1>3. run[r] \in CostRuns /\ d \in Cost!Days /\ d \notin settled /\ Cost!Active(r)
  BY <1>1 DEF CostInv, CostTypeOK, SettledIsQuiet, Cost!Active
<1>4. PICK item \in run[r].page :
        IF item[1] \in Odd
        THEN run' = [run EXCEPT ![r].pc = "failed"] /\ UNCHANGED rollup
        ELSE /\ run' = [run EXCEPT ![r].page = run[r].page \ {item}]
             /\ rollup' = [rollup EXCEPT ![d][item[1]] = Cost!UsdToCents(item[2])]
  BY DEF Cost!Put
<1>5. CASE item[1] \in Odd
  <2>1. run' = [run EXCEPT ![r].pc = "failed"] /\ rollup' = rollup
    BY <1>4, <1>5
  <2>2. /\ run' \in [Runs -> CostRuns]
        /\ AloneIsAlone' /\ PagesAreOfCe' /\ RowsAreKnown' /\ AloneCopies'
        /\ \A o \in Runs : Cost!Active(o)' <=> o # r /\ Cost!Active(o)
    BY <1>1, <2>1, EndKeepsWritersInv
  <2>3. CostTypeOK'
    BY <1>1, <1>2, <2>1, <2>2 DEF CostInv, CostTypeOK
  <2>4. SettledIsQuiet'
    BY <1>1, <2>1, <2>2 DEF CostInv, CostTypeOK, SettledIsQuiet
  <2>5. SettledIsCopied'
    BY <1>1, <2>1 DEF CostInv, SettledIsCopied, Copied
  <2> QED
    BY <1>2, <2>2, <2>3, <2>4, <2>5 DEF CostInv
<1>6. CASE item[1] \notin Odd
  <2> DEFINE g == item[1]
             cents == Cost!UsdToCents(item[2])
  <2>1. /\ run' = [run EXCEPT ![r].page = run[r].page \ {item}]
        /\ rollup' = [rollup EXCEPT ![d][g] = cents]
    BY <1>4, <1>6
  <2>2. g \in Groups /\ item[2] \in Amounts
    BY <1>3 DEF CostRuns
  <2>3. cents \in Nat
    BY <2>2, CostAssumption, CentsAreRounded
  <2>4. /\ rollup' \in [Cost!Days -> [Groups -> Nat \cup {None}]]
        /\ rollup'[d][g] = cents
        /\ \A e \in Cost!Days, h \in Groups :
             e # d \/ h # g => rollup'[e][h] = rollup[e][h]
    <3> HIDE DEF cents
    <3>1. rollup \in [Cost!Days -> [Groups -> Nat \cup {None}]]
      BY DEF CostInv, CostTypeOK
    <3>2. rollup' = [rollup EXCEPT ![d] = [rollup[d] EXCEPT ![g] = cents]]
      BY <2>1
    <3>3. rollup[d] \in [Groups -> Nat \cup {None}]
      BY <1>3, <3>1
    <3> QED
      BY <1>3, <2>2, <2>3, <3>1, <3>2, <3>3
  <2>5. /\ run'[r].pc = "put" /\ run'[r].day = d /\ run'[r].left = run[r].left
        /\ run'[r].alone = run[r].alone
        /\ run'[r].page = run[r].page \ {item}
    BY <1>1, <1>3, <2>1 DEF CostInv, CostTypeOK, CostRuns
  <2>6. OnlyRun(r)
    BY <2>1 DEF CostInv, CostTypeOK, OnlyRun
  <2>7. run' \in [Runs -> CostRuns]
    <3>1. run[r].page \ {item} \in SUBSET (Groups \X Amounts)
      BY <1>3 DEF CostRuns
    <3>2. [run[r] EXCEPT !.page = run[r].page \ {item}] \in CostRuns
      BY <1>3, <3>1 DEF CostRuns
    <3> QED
      BY <2>1, <3>2 DEF CostInv, CostTypeOK
  <2>8. \A o \in Runs : /\ Cost!Active(o)' <=> Cost!Active(o)
                        /\ run'[o].pc = run[o].pc
                        /\ run'[o].alone = run[o].alone /\ run'[o].day = run[o].day
                        /\ run'[o].left = run[o].left /\ run'[o].page \subseteq run[o].page
    BY <1>1, <2>5, <2>6 DEF Cost!Active, OnlyRun
  <2>9. /\ d \notin gone => ce[d][g] # None
        /\ run[r].alone => ce[d][g] = item[2]
    BY <1>1 DEF CostInv, PagesAreOfCe
  <2> HIDE DEF cents
  <2>10. CostTypeOK'
    BY <1>1, <1>2, <2>4, <2>7 DEF CostInv, CostTypeOK
  <2>11. AloneIsAlone' /\ SettledIsQuiet'
    BY <1>1, <2>8 DEF CostInv, AloneIsAlone, SettledIsQuiet
  <2>12. PagesAreOfCe'
    BY <1>1, <2>8 DEF CostInv, PagesAreOfCe
  <2>13. RowsAreKnown'
    <3> SUFFICES ASSUME NEW e \in Cost!Days \ gone, NEW h \in Groups,
                        rollup'[e][h] # None
                 PROVE  ce[e][h] # None
      BY <1>1 DEF RowsAreKnown
    <3>1. CASE e = d /\ h = g
      BY <2>9, <3>1
    <3>2. CASE e # d \/ h # g
      BY <2>4, <3>2 DEF CostInv, RowsAreKnown
    <3> QED
      BY <3>1, <3>2
  <2>14. AloneCopies'
    <3> SUFFICES ASSUME NEW o \in Runs, Cost!Active(o)', run'[o].alone,
                        NEW h \in Groups \ run'[o].left,
                        \A i \in run'[o].page : i[1] # h,
                        ce[run'[o].day][h] # None
                 PROVE  rollup'[run'[o].day][h] = Cost!UsdToCents(ce[run'[o].day][h])
      BY <1>1 DEF AloneCopies, Copied
    <3>1. /\ Cost!Active(o) /\ run[o].alone /\ run'[o].day = run[o].day
          /\ h \in Groups \ run[o].left
      BY <2>8
    <3>2. CASE o = r
      <4>1. CASE h = g
        <5>1. rollup'[d][g] = Cost!UsdToCents(item[2])
          BY <2>4 DEF cents
        <5> QED
          BY <2>9, <3>1, <3>2, <4>1, <5>1
      <4>2. CASE h # g
        <5>1. \A i \in run[r].page : i[1] # h
          BY <2>5, <3>2, <4>2
        <5>2. rollup[d][h] = Cost!UsdToCents(ce[d][h])
          BY <3>1, <3>2, <5>1 DEF CostInv, AloneCopies, Copied
        <5> QED
          BY <1>3, <2>4, <3>1, <3>2, <4>2, <5>2
      <4> QED
        BY <4>1, <4>2
    <3>3. CASE o # r
      <4>1. run[o].day # d
        BY <1>3, <3>1, <3>3 DEF CostInv, AloneIsAlone
      <4>2. run'[o] = run[o]
        BY <2>6, <3>3 DEF OnlyRun
      <4>3. rollup[run[o].day][h] = Cost!UsdToCents(ce[run[o].day][h])
        BY <3>1, <4>2 DEF CostInv, AloneCopies, Copied
      <4>4. run[o].day \in Cost!Days
        BY <3>1 DEF CostInv, SettledIsQuiet
      <4> QED
        BY <2>4, <3>1, <4>1, <4>3, <4>4
    <3> QED
      BY <3>2, <3>3
  <2>15. SettledIsCopied'
    <3> SUFFICES ASSUME NEW e \in settled, NEW h \in Groups, ce[e][h] # None
                 PROVE  rollup'[e][h] = Cost!UsdToCents(ce[e][h])
      BY <1>1 DEF SettledIsCopied, Copied
    <3>1. e # d /\ e \in Cost!Days
      BY <1>3 DEF CostInv, CostTypeOK
    <3> QED
      BY <2>4, <3>1 DEF CostInv, SettledIsCopied, Copied
  <2> QED
    BY <1>2, <2>10, <2>11, <2>12, <2>13, <2>14, <2>15 DEF CostInv
<1> QED
  BY <1>5, <1>6

\* The total of a day, and that of a window, which is the sum of its days'.
LEMMA DayTotals ==
    ASSUME CostTypeOK
    PROVE  /\ \A d \in Cost!Days : Cost!DayTotal(d) \in Int
           /\ \A w \in Cost!Windows :
                /\ Cost!WindowTotal(w)
                     = SumFunction([d \in w.from .. w.to - 1 |-> Cost!DayTotal(d)])
                /\ Cost!WindowTotal(w) \in Int
<1>1. ASSUME NEW d \in Cost!Days PROVE Cost!DayTotal(d) \in Int
  <2> DEFINE f == [g \in Cost!Present(d) |-> rollup[d][g]]
  <2>1. Cost!Present(d) \subseteq Groups /\ IsFiniteSet(Cost!Present(d))
    BY CostAssumption, FS_Subset DEF Cost!Present
  <2>2. \A g \in Cost!Present(d) : rollup[d][g] \in Int
    BY DEF Cost!Present, CostTypeOK
  <2>3. Numbers(f, Cost!Present(d))
    BY <2>1, <2>2 DEF Numbers
  <2>4. Cost!DayTotal(d) = SumFunction(f)
    BY CostSums DEF Cost!DayTotal
  <2> HIDE DEF f
  <2> QED
    BY <2>3, <2>4, SumIsInt
<1>2. ASSUME NEW w \in Cost!Windows
      PROVE  /\ Cost!WindowTotal(w)
                  = SumFunction([d \in w.from .. w.to - 1 |-> Cost!DayTotal(d)])
             /\ Cost!WindowTotal(w) \in Int
  <2> DEFINE f == [d \in w.from .. w.to - 1 |-> Cost!DayTotal(d)]
  <2>1. w.from \in Cost!Days /\ w.to \in Cost!Days /\ w.from \in Int /\ w.to \in Int
    BY DEF Cost!Windows, Cost!Days
  <2>2. w.from .. w.to - 1 \subseteq Cost!Days
    BY <2>1, CostAssumption DEF Cost!Days
  <2>3. IsFiniteSet(w.from .. w.to - 1)
    BY <2>1, FS_Interval
  <2>4. Numbers(f, w.from .. w.to - 1)
    BY <1>1, <2>2, <2>3 DEF Numbers
  <2>5. Cost!WindowTotal(w) = SumFunction(f)
    BY CostSums DEF Cost!WindowTotal, Cost!DaysOf
  <2> HIDE DEF f
  <2>6. Cost!WindowTotal(w) \in Int
    BY <2>4, <2>5, SumIsInt
  <2> QED
    BY <2>5, <2>6 DEF f
<1> QED
  BY <1>1, <1>2

\* The days that are left, after one of them.
LEMMA DaysAddUp ==
    ASSUME CostTypeOK, NEW a \in Cost!Days, NEW b \in Cost!Days, a < b
    PROVE  SumFunction([d \in a .. b - 1 |-> Cost!DayTotal(d)])
             = Cost!DayTotal(a) + SumFunction([d \in a + 1 .. b - 1 |-> Cost!DayTotal(d)])
<1> DEFINE f == [d \in a .. b - 1 |-> Cost!DayTotal(d)]
           h == [d \in a + 1 .. b - 1 |-> Cost!DayTotal(d)]
           S == a .. b - 1
           R == a + 1 .. b - 1
<1>1. a \in Int /\ b \in Int /\ S \subseteq Cost!Days
  BY CostAssumption DEF Cost!Days
<1>2. R = S \ {a} /\ a \in S /\ R \subseteq S
  BY <1>1
<1>3. IsFiniteSet(S) /\ IsFiniteSet(R)
  BY <1>1, FS_Interval
<1>4. Numbers(f, S) /\ Numbers(h, R)
  BY <1>1, <1>2, <1>3, DayTotals DEF Numbers
<1>5. f[a] = Cost!DayTotal(a) /\ \A d \in R : f[d] = h[d]
  BY <1>2
<1> HIDE DEF f, h, S, R
<1>6. SumFunction(f) = f[a] + SumFunction(h)
  BY <1>2, <1>4, <1>5, SumSplits
<1> QED
  BY <1>5, <1>6 DEF f, h, S, R

\* A request that has another record, and nothing but the requests changes.
LEMMA ScansOfTheOthers ==
    ASSUME CostInv, NEW q \in CostRequests, NEW new \in CostRoutes, AddsUp(new),
           asked' = [asked EXCEPT ![q] = new], rollup' = rollup
    PROVE  ScansAddUp' /\ asked' \in [CostRequests -> CostRoutes]
<1>1. asked' \in [CostRequests -> CostRoutes] /\ asked'[q] = new
      /\ \A o \in CostRequests : o # q => asked'[o] = asked[o]
  BY DEF CostInv, CostTypeOK
<1>2. \A d : Cost!DayTotal(d)' = Cost!DayTotal(d)
  BY DEF Cost!DayTotal, Cost!Present
<1>3. \A o \in CostRequests : AddsUp(asked'[o])
  BY <1>1 DEF CostInv, ScansAddUp
<1>4. ScansAddUp'
  BY <1>2, <1>3 DEF ScansAddUp, AddsUp
<1> QED
  BY <1>1, <1>4

\* A step of one request keeps the invariant, when its record does.
LEMMA RoutesKeepCostInv ==
    ASSUME CostInv, NEW q \in CostRequests, NEW new \in CostRoutes, AddsUp(new),
           asked' = [asked EXCEPT ![q] = new],
           UNCHANGED <<today, ce, gone, rollup, run, settled>>,
           answered' \in [Cost!Keys -> [sum : Int] \cup {None}]
    PROVE  CostInv'
<1>1. ScansAddUp' /\ asked' \in [CostRequests -> CostRoutes]
  BY ScansOfTheOthers
<1>2. WritersInv'
  BY WritersStay DEF CostInv, WritersInv
<1>3. CostTypeOK'
  BY <1>1 DEF CostInv, CostTypeOK
<1> QED
  BY <1>1, <1>2, <1>3 DEF CostInv, WritersInv

\* An answer is the end of a request.
LEMMA AnswersAreRoutes ==
    ASSUME CostInv, NEW q \in CostRequests, asked[q].pc # "idle", NEW code \in Nat
    PROVE  Cost!Answer(q, code) \in CostRoutes /\ AddsUp(Cost!Answer(q, code))
<1>1. asked[q] \in CostRoutes /\ asked[q].key \in Cost!Keys
  BY DEF CostInv, CostTypeOK, ScansAddUp, AddsUp
<1>2. /\ Cost!Answer(q, code) \in CostRoutes
      /\ Cost!Answer(q, code).pc = "done" /\ Cost!Answer(q, code).key = asked[q].key
  BY <1>1 DEF Cost!Answer, CostRoutes
<1> QED
  BY <1>1, <1>2 DEF AddsUp

\* A request that arrives has an answer, a scan from the first day, or a call.
LEMMA GetKeepsCostInv ==
    ASSUME CostInv, NEW q \in CostRequests, NEW k \in Cost!Kinds, NEW w \in Cost!Windows,
           Cost!Get(q, k, w)
    PROVE  CostInv'
<1> DEFINE key == IF k = "forecast" THEN Cost!ForecastKey ELSE [kind |-> k, window |-> w]
           hit == answered[key] # None
           new == [pc |-> CASE hit -> "done"
                            [] ~hit /\ k = "by-tenant" -> "scan"
                            [] OTHER -> "call",
                   key |-> key, tries |-> 0, day |-> w.from,
                   sum |-> IF hit THEN answered[key].sum ELSE 0,
                   expected |-> Cost!WindowTotal(w), quiet |-> TRUE,
                   code |-> IF hit THEN 200 ELSE 0]
<1>1. /\ asked' = [asked EXCEPT ![q] = new]
      /\ UNCHANGED <<today, ce, gone, rollup, run, settled, answered>>
  BY DEF Cost!Get, Cost!ceVars, Cost!dayVars
<1>2. /\ w.from \in Cost!Days /\ w.to \in Cost!Days /\ w.from <= w.to
      /\ w.from \in Int /\ w.to \in Int
  BY DEF Cost!Windows, Cost!Days
<1>3. key \in Cost!Keys
  BY DEF CostInv, CostTypeOK, Cost!Keys, Cost!ForecastKey, Cost!Windows, Cost!Days,
         Cost!Kinds
<1>4. answered[key] \in [sum : Int] \cup {None}
  BY <1>3 DEF CostInv, CostTypeOK
<1>5. /\ Cost!WindowTotal(w)
           = SumFunction([d \in w.from .. w.to - 1 |-> Cost!DayTotal(d)])
      /\ Cost!WindowTotal(w) \in Int
  BY DayTotals DEF CostInv
<1>6. k # "forecast" => key.window = w
  OBVIOUS
<1> HIDE DEF key
<1>7. new.pc \in {"idle", "scan", "call", "answered", "done"}
      /\ (new.pc = "scan" => k # "forecast")
  OBVIOUS
<1>8. new.sum \in Int /\ (new.pc = "scan" => new.sum = 0)
  BY <1>4
<1>9. /\ new.key = key /\ new.tries = 0 /\ new.day = w.from
      /\ new.expected = Cost!WindowTotal(w) /\ new.quiet = TRUE /\ new.code \in Nat
  OBVIOUS
<1>10. new = [pc |-> new.pc, key |-> key, tries |-> 0, day |-> w.from, sum |-> new.sum,
              expected |-> Cost!WindowTotal(w), quiet |-> TRUE, code |-> new.code]
  OBVIOUS
<1> HIDE DEF new, hit
<1>11. new \in CostRoutes
  <2>1. ASSUME NEW p \in {"idle", "scan", "call", "answered", "done"},
               NEW kw \in Cost!Keys, NEW d \in Int, NEW s \in Int, NEW e \in Int,
               NEW c \in Nat
        PROVE  [pc |-> p, key |-> kw, tries |-> 0, day |-> d, sum |-> s, expected |-> e,
                quiet |-> TRUE, code |-> c] \in CostRoutes
    BY DEF CostRoutes
  <2>2. new.pc \in {"idle", "scan", "call", "answered", "done"} /\ new.sum \in Int
    BY <1>7, <1>8
  <2> QED
    BY <1>2, <1>3, <1>5, <1>9, <1>10, <2>1, <2>2
<1>12. AddsUp(new)
  <2> SUFFICES ASSUME new.pc = "scan"
               PROVE  /\ w.from \in w.from .. w.to
                      /\ 0 + Cost!WindowTotal(w) = Cost!WindowTotal(w)
    BY <1>3, <1>5, <1>6, <1>7, <1>8, <1>9 DEF AddsUp
  <2> QED
    BY <1>2, <1>5
<1>13. answered' \in [Cost!Keys -> [sum : Int] \cup {None}]
  BY <1>1 DEF CostInv, CostTypeOK
<1> QED
  BY <1>1, <1>11, <1>12, <1>13, RoutesKeepCostInv

\* One more day of a scan, or its end.
LEMMA ScanDayKeepsCostInv ==
    ASSUME CostInv, NEW q \in CostRequests, Cost!ScanDay(q) PROVE CostInv'
<1> DEFINE w == asked[q].key.window
           d == asked[q].day
<1>1. /\ asked[q].pc = "scan"
      /\ UNCHANGED <<today, ce, gone, rollup, run, settled>>
  BY DEF Cost!ScanDay, Cost!ceVars, Cost!dayVars
<1>2. asked[q] \in CostRoutes /\ asked[q].key \in Cost!Keys /\ d \in w.from .. w.to
      /\ (asked[q].quiet =>
            asked[q].sum + SumFunction([e \in d .. w.to - 1 |-> Cost!DayTotal(e)])
              = asked[q].expected)
  BY <1>1 DEF CostInv, CostTypeOK, ScansAddUp, AddsUp
<1>3. /\ w \in Cost!Windows /\ w.from \in Cost!Days /\ w.to \in Cost!Days
      /\ w.from \in Int /\ w.to \in Int
  BY <1>2 DEF Cost!Keys, Cost!Windows, Cost!Days
<1>4. d \in Cost!Days /\ d \in Int /\ d + 1 \in Int /\ w.to - 1 \in Int
  <2>1. LastDay \in Int
    BY CostAssumption
  <2>2. d \in Int
    BY <1>2 DEF CostRoutes
  <2>3. w.from \in 1 .. LastDay /\ w.to \in 1 .. LastDay
    BY <1>3 DEF Cost!Days
  <2> HIDE DEF w, d
  <2>4. d \in 1 .. LastDay
    BY <1>2, <1>3, <2>1, <2>2, <2>3
  <2> QED
    BY <1>3, <2>2, <2>4 DEF Cost!Days
<1>5. CASE Cost!Within(d, w)
  <2> DEFINE new == [asked[q] EXCEPT !.sum = asked[q].sum + Cost!DayTotal(d),
                                     !.day = d + 1]
  <2>1. asked' = [asked EXCEPT ![q] = new] /\ answered' = answered
    BY <1>5 DEF Cost!ScanDay, CostInv, CostTypeOK
  <2>2. d < w.to
    BY <1>5 DEF Cost!Within
  <2>3. Cost!DayTotal(d) \in Int
    BY <1>4, DayTotals DEF CostInv
  <2>4. asked[q].sum \in Int /\ asked[q].sum + Cost!DayTotal(d) \in Int
    <3>1. asked[q].sum \in Int
      BY <1>2 DEF CostRoutes
    <3> QED
      BY <2>3, <3>1
  <2>5. /\ new \in CostRoutes /\ new.pc = asked[q].pc
        /\ new.key = asked[q].key /\ new.quiet = asked[q].quiet
        /\ new.expected = asked[q].expected
        /\ new.sum = asked[q].sum + Cost!DayTotal(d) /\ new.day = d + 1
    <3> DEFINE s == asked[q].sum + Cost!DayTotal(d)
               e == d + 1
    <3>1. s \in Int /\ e \in Int /\ new = [asked[q] EXCEPT !.sum = s, !.day = e]
      BY <1>4, <2>4
    <3>2. s = asked[q].sum + Cost!DayTotal(d) /\ e = d + 1
      OBVIOUS
    <3> HIDE DEF s, e, new, d
    <3>3. /\ new \in CostRoutes /\ new.pc = asked[q].pc
          /\ new.key = asked[q].key /\ new.quiet = asked[q].quiet
          /\ new.expected = asked[q].expected
          /\ new.sum = s /\ new.day = e
      BY <1>2, <3>1 DEF CostRoutes
    <3> QED
      BY <3>2, <3>3
  <2>6. SumFunction([e \in d .. w.to - 1 |-> Cost!DayTotal(e)])
          = Cost!DayTotal(d)
              + SumFunction([e \in d + 1 .. w.to - 1 |-> Cost!DayTotal(e)])
    BY <1>3, <1>4, <2>2, DaysAddUp DEF CostInv
  <2>7. SumFunction([e \in d + 1 .. w.to - 1 |-> Cost!DayTotal(e)]) \in Int
    <3> DEFINE S == d + 1 .. w.to - 1
               f == [e \in S |-> Cost!DayTotal(e)]
    <3>1. S \subseteq Cost!Days
      <4>1. \A a, b, c \in Int : a \in 1 .. c /\ b \in 1 .. c => a + 1 .. b - 1 \subseteq 1 .. c
        OBVIOUS
      <4>2. LastDay \in Int /\ d \in 1 .. LastDay /\ w.to \in 1 .. LastDay
        BY <1>3, <1>4, CostAssumption DEF Cost!Days
      <4> HIDE DEF d, w
      <4> QED
        BY <1>3, <1>4, <4>1, <4>2 DEF Cost!Days
    <3>2. IsFiniteSet(S)
      BY <1>4, FS_Interval
    <3>3. Numbers(f, S)
      BY <3>1, <3>2, DayTotals DEF CostInv, Numbers
    <3> HIDE DEF f, S
    <3>4. SumFunction(f) \in Int
      BY <3>3, SumIsInt
    <3> QED
      BY <3>4 DEF f, S
  <2>8. ASSUME NEW a \in Int, NEW b \in Int, NEW c \in Int
        PROVE  (a + b) + c = a + (b + c)
    OBVIOUS
  <2> HIDE DEF new
  <2>9. asked[q].quiet =>
          new.sum + SumFunction([e \in d + 1 .. w.to - 1 |-> Cost!DayTotal(e)])
            = asked[q].expected
    BY <1>2, <2>3, <2>4, <2>5, <2>6, <2>7, <2>8
  <2>10. new.day \in w.from .. w.to
    <3> HIDE DEF w, d
    <3> QED
      BY <1>2, <1>3, <1>4, <2>2, <2>5
  <2>11. new.key.window = w
    BY <2>5
  <2>12. AddsUp(new)
    BY <1>2, <2>5, <2>9, <2>10, <2>11 DEF AddsUp
  <2>13. answered' \in [Cost!Keys -> [sum : Int] \cup {None}]
    BY <2>1 DEF CostInv, CostTypeOK
  <2>14. new \in CostRoutes
    BY <2>5
  <2> QED
    BY <1>1, <2>1, <2>12, <2>13, <2>14, RoutesKeepCostInv
<1>6. CASE ~Cost!Within(d, w)
  <2>1. /\ asked' = [asked EXCEPT ![q] = Cost!Answer(q, 200)]
        /\ answered' = [answered EXCEPT ![asked[q].key] = [sum |-> asked[q].sum]]
    BY <1>6 DEF Cost!ScanDay
  <2>2. Cost!Answer(q, 200) \in CostRoutes /\ AddsUp(Cost!Answer(q, 200))
    BY <1>1, AnswersAreRoutes
  <2>3. [sum |-> asked[q].sum] \in [sum : Int]
    BY <1>2 DEF CostRoutes
  <2>4. answered' \in [Cost!Keys -> [sum : Int] \cup {None}]
    BY <2>1, <2>3 DEF CostInv, CostTypeOK
  <2> QED
    BY <1>1, <2>1, <2>2, <2>4, RoutesKeepCostInv
<1> QED
  BY <1>5, <1>6

-----------------------------------------------------------------------------
(* What CE sums up.                                                        *)

\* What CE reports of a service for a day.
SpendOf(s, d) == SumFunction([g \in {h \in Cost!Known(d) : ServiceOf[h] = s} |-> ce[d][g]])

\* Finitely many groups have finitely many services.
LEMMA ServicesAreFinite == IsFiniteSet(Cost!Services)
<1> DEFINE Image(t) == {ServiceOf[g] : g \in t}
           F == {t \in SUBSET Groups : IsFiniteSet(Image(t))}
<1>1. ASSUME NEW t \in SUBSET Groups, \A x \in t : t \ {x} \in F PROVE t \in F
  <2>1. CASE t = {}
    <3>1. Image(t) = {}
      BY <2>1
    <3> QED
      BY <3>1, FS_EmptySet
  <2>2. CASE t # {}
    <3>1. PICK x : x \in t
      BY <2>2
    <3>2. IsFiniteSet(Image(t \ {x}))
      BY <1>1, <3>1
    <3>3. Image(t) = Image(t \ {x}) \cup {ServiceOf[x]}
      BY <3>1
    <3>4. \A S, y : IsFiniteSet(S) => IsFiniteSet(S \cup {y})
      BY FS_AddElement
    <3>5. IsFiniteSet(Image(t \ {x}) \cup {ServiceOf[x]})
      BY <3>2, <3>4
    <3>6. IsFiniteSet(Image(t))
      BY <3>3, <3>5
    <3> QED
      BY <3>6
  <2> QED
    BY <2>1, <2>2
<1> HIDE DEF F
<1>2. \A t \in SUBSET Groups : t \in F
  BY <1>1, CostAssumption, SubsetsByInduction
<1>3. Groups \in F
  BY <1>2
<1> QED
  BY <1>3 DEF F, Cost!Services

\* The totals by service are integers, and sums of what CE reports by day.
LEMMA ServiceTotals ==
    ASSUME CostTypeOK
    PROVE  /\ \A s, d : d \in Cost!Days => SpendOf(s, d) \in Int
           /\ \A s : \A w \in Cost!Windows :
                /\ Cost!ServiceSpend(s, w)
                     = SumFunction([d \in w.from .. w.to - 1 |-> SpendOf(s, d)])
                /\ Cost!ServiceSpend(s, w) \in Int
           /\ \A w \in Cost!Windows :
                /\ Cost!ServiceTotal(w)
                     = SumFunction([s \in Cost!Services |-> Cost!ServiceCents(s, w)])
                /\ Cost!ServiceTotal(w) \in Int
<1>1. ASSUME NEW s, NEW d \in Cost!Days PROVE SpendOf(s, d) \in Int
  <2> DEFINE S == {h \in Cost!Known(d) : ServiceOf[h] = s}
             f == [g \in S |-> ce[d][g]]
  <2>1. S \subseteq Groups /\ IsFiniteSet(S)
    BY CostAssumption, FS_Subset DEF Cost!Known
  <2>2. \A g \in S : ce[d][g] \in Int
    <3>1. ce[d] \in [Groups -> Amounts \cup {None}]
      BY DEF CostTypeOK
    <3>2. \A g \in S : g \in Groups /\ ce[d][g] # None
      BY DEF Cost!Known
    <3> QED
      BY <3>1, <3>2, CostAssumption
  <2> HIDE DEF S
  <2>3. Numbers(f, S)
    BY <2>1, <2>2 DEF Numbers
  <2> HIDE DEF f
  <2>4. SumFunction(f) \in Int
    BY <2>3, SumIsInt
  <2> QED
    BY <2>4 DEF SpendOf, f, S
<1>2. ASSUME NEW w \in Cost!Windows
      PROVE  w.from .. w.to - 1 \subseteq Cost!Days /\ IsFiniteSet(w.from .. w.to - 1)
  <2>1. w.from \in Cost!Days /\ w.to \in Cost!Days /\ w.from \in Int /\ w.to - 1 \in Int
    BY DEF Cost!Windows, Cost!Days
  <2>2. w.from .. w.to - 1 \subseteq Cost!Days
    BY <2>1, CostAssumption DEF Cost!Days
  <2>3. IsFiniteSet(w.from .. w.to - 1)
    BY <2>1, FS_Interval
  <2> QED
    BY <2>2, <2>3
<1>3. ASSUME NEW s, NEW w \in Cost!Windows
      PROVE  /\ Cost!ServiceSpend(s, w)
                  = SumFunction([d \in w.from .. w.to - 1 |-> SpendOf(s, d)])
             /\ Cost!ServiceSpend(s, w) \in Int
  <2> DEFINE D == w.from .. w.to - 1
             f == [d \in D |-> SpendOf(s, d)]
  <2>1. \A d : Cost!SumFunction([g \in {h \in Cost!Known(d) : ServiceOf[h] = s} |-> ce[d][g]])
                 = SpendOf(s, d)
    BY CostSums DEF SpendOf
  <2>2. Cost!ServiceSpend(s, w) = Cost!SumFunction(f)
    BY <2>1 DEF Cost!ServiceSpend, Cost!DaysOf
  <2>3. Numbers(f, D)
    BY <1>1, <1>2 DEF Numbers
  <2> HIDE DEF f
  <2>4. Cost!ServiceSpend(s, w) = SumFunction(f)
    BY <2>2, CostSums
  <2>5. SumFunction(f) \in Int
    BY <2>3, SumIsInt
  <2> QED
    BY <2>4, <2>5 DEF f
<1>4. ASSUME NEW w \in Cost!Windows
      PROVE  /\ Cost!ServiceTotal(w)
                  = SumFunction([s \in Cost!Services |-> Cost!ServiceCents(s, w)])
             /\ Cost!ServiceTotal(w) \in Int
  <2> DEFINE f == [s \in Cost!Services |-> Cost!ServiceCents(s, w)]
  <2>1. \A s \in Cost!Services : Cost!ServiceCents(s, w) \in Int
    BY <1>3, RoundEvenRounds DEF Cost!ServiceCents
  <2>2. Numbers(f, Cost!Services)
    BY <2>1, ServicesAreFinite DEF Numbers
  <2>3. Cost!ServiceTotal(w) = SumFunction(f)
    BY CostSums DEF Cost!ServiceTotal
  <2> HIDE DEF f
  <2>4. SumFunction(f) \in Int
    BY <2>2, SumIsInt
  <2> QED
    BY <2>3, <2>4 DEF f
<1> QED
  BY <1>1, <1>3, <1>4

-----------------------------------------------------------------------------
(* The routes that ask CE, and the cache.                                  *)

\* A throttled call is repeated or answered with 502.
LEMMA CeThrottlesKeepsCostInv ==
    ASSUME CostInv, NEW q \in CostRequests, Cost!CeThrottles(q) PROVE CostInv'
<1>1. /\ asked[q].pc = "call"
      /\ UNCHANGED <<today, ce, gone, rollup, run, settled, answered>>
  BY DEF Cost!CeThrottles, Cost!ceVars, Cost!dayVars
<1>2. answered' \in [Cost!Keys -> [sum : Int] \cup {None}]
  BY <1>1 DEF CostInv, CostTypeOK
<1>3. CASE asked[q].tries + 1 < Attempts
  <2> DEFINE new == [asked[q] EXCEPT !.tries = asked[q].tries + 1]
  <2>1. asked' = [asked EXCEPT ![q] = new]
    BY <1>3 DEF Cost!CeThrottles, CostInv, CostTypeOK
  <2>2. asked[q] \in CostRoutes /\ asked[q].key \in Cost!Keys
    BY <1>1 DEF CostInv, CostTypeOK, ScansAddUp, AddsUp
  <2>3. new \in CostRoutes /\ new.pc = "call" /\ new.key = asked[q].key
    BY <1>1, <2>2 DEF CostRoutes
  <2> HIDE DEF new
  <2>4. AddsUp(new)
    BY <2>2, <2>3 DEF AddsUp
  <2> QED
    BY <1>1, <1>2, <2>1, <2>3, <2>4, RoutesKeepCostInv
<1>4. CASE ~(asked[q].tries + 1 < Attempts)
  <2>1. asked' = [asked EXCEPT ![q] = Cost!Answer(q, 502)]
    BY <1>4 DEF Cost!CeThrottles
  <2>2. Cost!Answer(q, 502) \in CostRoutes /\ AddsUp(Cost!Answer(q, 502))
    BY <1>1, AnswersAreRoutes
  <2> QED
    BY <1>1, <1>2, <2>1, <2>2, RoutesKeepCostInv
<1> QED
  BY <1>3, <1>4

\* A failed call is answered with its error.
LEMMA CeFailsKeepsCostInv ==
    ASSUME CostInv, NEW q \in CostRequests, Cost!CeFails(q) PROVE CostInv'
<1>1. /\ asked[q].pc = "call"
      /\ UNCHANGED <<today, ce, gone, rollup, run, settled, answered>>
  BY DEF Cost!CeFails, Cost!ceVars, Cost!dayVars
<1>2. PICK code \in {400, 502, 503} : asked' = [asked EXCEPT ![q] = Cost!Answer(q, code)]
  BY DEF Cost!CeFails
<1>3. Cost!Answer(q, code) \in CostRoutes /\ AddsUp(Cost!Answer(q, code))
  BY <1>1, AnswersAreRoutes
<1>4. answered' \in [Cost!Keys -> [sum : Int] \cup {None}]
  BY <1>1 DEF CostInv, CostTypeOK
<1> QED
  BY <1>1, <1>2, <1>3, <1>4, RoutesKeepCostInv

\* CE's answer is the request's sum, or a 500.
LEMMA CeAnswersKeepsCostInv ==
    ASSUME CostInv, NEW q \in CostRequests, Cost!CeAnswers(q) PROVE CostInv'
<1> DEFINE w == asked[q].key.window
           byService == asked[q].key.kind = "by-service"
<1>1. /\ asked[q].pc = "call"
      /\ UNCHANGED <<today, ce, gone, rollup, run, settled, answered>>
  BY DEF Cost!CeAnswers, Cost!ceVars, Cost!dayVars
<1>2. answered' \in [Cost!Keys -> [sum : Int] \cup {None}]
  BY <1>1 DEF CostInv, CostTypeOK
<1>3. CASE byService /\ \E s \in Cost!Services : Cost!ServiceCents(s, w) < 0
  <2>1. asked' = [asked EXCEPT ![q] = Cost!Answer(q, 500)]
    BY <1>3 DEF Cost!CeAnswers
  <2>2. Cost!Answer(q, 500) \in CostRoutes /\ AddsUp(Cost!Answer(q, 500))
    BY <1>1, AnswersAreRoutes
  <2> QED
    BY <1>1, <1>2, <2>1, <2>2, RoutesKeepCostInv
<1>4. CASE ~(byService /\ \E s \in Cost!Services : Cost!ServiceCents(s, w) < 0)
  <2> DEFINE sum == IF byService THEN Cost!ServiceTotal(w) ELSE 0
             new == [asked[q] EXCEPT !.pc = "answered", !.sum = sum]
  <2>1. asked' = [asked EXCEPT ![q].pc = "answered", ![q].sum = sum]
    BY <1>4 DEF Cost!CeAnswers
  <2>2. asked[q] \in CostRoutes /\ asked[q].key \in Cost!Keys
    BY <1>1 DEF CostInv, CostTypeOK, ScansAddUp, AddsUp
  <2>3. w \in Cost!Windows
    BY <2>2 DEF Cost!Keys
  <2>4. sum \in Int
    <3>1. Cost!ServiceTotal(w) \in Int
      BY <2>3, ServiceTotals DEF CostInv
    <3> QED
      BY <3>1
  <2> HIDE DEF sum
  <2>5. asked' = [asked EXCEPT ![q] = new]
    BY <2>1 DEF CostInv, CostTypeOK
  <2>6. new \in CostRoutes /\ new.pc = "answered" /\ new.key = asked[q].key
    BY <2>2, <2>4 DEF CostRoutes
  <2> HIDE DEF new
  <2>7. AddsUp(new)
    BY <2>2, <2>6 DEF AddsUp
  <2> QED
    BY <1>1, <1>2, <2>5, <2>6, <2>7, RoutesKeepCostInv
<1> QED
  BY <1>3, <1>4

\* The answer goes to the cache and to the client.
LEMMA PutAnswerKeepsCostInv ==
    ASSUME CostInv, NEW q \in CostRequests, Cost!PutAnswer(q) PROVE CostInv'
<1>1. /\ asked[q].pc = "answered"
      /\ asked' = [asked EXCEPT ![q] = Cost!Answer(q, 200)]
      /\ answered' = [answered EXCEPT ![asked[q].key] = [sum |-> asked[q].sum]]
      /\ UNCHANGED <<today, ce, gone, rollup, run, settled>>
  BY DEF Cost!PutAnswer, Cost!ceVars, Cost!dayVars
<1>2. Cost!Answer(q, 200) \in CostRoutes /\ AddsUp(Cost!Answer(q, 200))
  BY <1>1, AnswersAreRoutes
<1>3. [sum |-> asked[q].sum] \in [sum : Int]
  BY DEF CostInv, CostTypeOK, CostRoutes
<1>4. answered' \in [Cost!Keys -> [sum : Int] \cup {None}]
  BY <1>1, <1>3 DEF CostInv, CostTypeOK
<1> QED
  BY <1>1, <1>2, <1>4, RoutesKeepCostInv

\* A cache row that expires touches no request.
LEMMA SweepKeepsCostInv ==
    ASSUME CostInv, NEW k \in Cost!Keys, Cost!Sweep(k) PROVE CostInv'
<1>1. /\ UNCHANGED <<today, ce, gone, rollup, run, settled, asked>>
      /\ answered' = [answered EXCEPT ![k] = None]
  BY DEF Cost!Sweep, Cost!ceVars, Cost!dayVars
<1>2. CostTypeOK'
  BY <1>1 DEF CostInv, CostTypeOK
<1>3. WritersInv'
  BY <1>1, WritersStay DEF CostInv, WritersInv
<1>4. ScansAddUp'
  BY <1>1, ScansStay DEF CostInv
<1> QED
  BY <1>2, <1>3, <1>4 DEF CostInv, WritersInv

\* Every step of the aggregator, the routes and CE.
LEMMA NextKeepsCostInv == CostInv /\ [Cost!Next]_costVars => CostInv'
<1> SUFFICES ASSUME CostInv, [Cost!Next]_costVars PROVE CostInv'
  OBVIOUS
<1>1. CASE Cost!AggregatorNext
  <2>1. CASE Cost!NextDay
    BY <2>1, NextDayKeepsCostInv
  <2>2. ASSUME NEW d \in Cost!Days, NEW spend \in [Groups -> Amounts \cup {None}],
               Cost!Report(d, spend)
        PROVE  CostInv'
    BY <2>2, ReportKeepsCostInv
  <2>3. ASSUME NEW r \in Runs, Cost!Nightly(r) PROVE CostInv'
    <3>1. today - 1 \in Cost!Days /\ Cost!StartRun(r, today - 1)
      BY <2>3, CostAssumption DEF Cost!Nightly, Cost!Days, CostInv, CostTypeOK
    <3> QED
      BY <3>1, StartRunKeepsCostInv
  <2>4. ASSUME NEW r \in Runs, Cost!Replay(r) PROVE CostInv'
    <3>1. PICK d \in Cost!Days : Cost!StartRun(r, d)
      BY <2>4 DEF Cost!Replay
    <3> QED
      BY <3>1, StartRunKeepsCostInv
  <2>5. ASSUME NEW r \in Runs, Cost!CallCe(r) PROVE CostInv'
    BY <2>5, CallCeKeepsCostInv
  <2>6. ASSUME NEW r \in Runs, Cost!Put(r) PROVE CostInv'
    BY <2>6, PutKeepsCostInv
  <2>7. ASSUME NEW r \in Runs, Cost!NextPage(r) PROVE CostInv'
    BY <2>7, NextPageKeepsCostInv
  <2>8. ASSUME NEW r \in Runs, Cost!RunFails(r) PROVE CostInv'
    BY <2>8, RunFailsKeepsCostInv
  <2> QED
    BY <1>1, <2>1, <2>2, <2>3, <2>4, <2>5, <2>6, <2>7, <2>8 DEF Cost!AggregatorNext
<1>2. CASE Cost!RouteNext
  <2>1. ASSUME NEW q \in CostRequests, NEW k \in Cost!Kinds, NEW w \in Cost!Windows,
               Cost!Get(q, k, w)
        PROVE  CostInv'
    BY <2>1, GetKeepsCostInv
  <2>2. ASSUME NEW q \in CostRequests, Cost!ScanDay(q) PROVE CostInv'
    BY <2>2, ScanDayKeepsCostInv
  <2>3. ASSUME NEW q \in CostRequests, Cost!CeThrottles(q) PROVE CostInv'
    BY <2>3, CeThrottlesKeepsCostInv
  <2>4. ASSUME NEW q \in CostRequests, Cost!CeFails(q) PROVE CostInv'
    BY <2>4, CeFailsKeepsCostInv
  <2>5. ASSUME NEW q \in CostRequests, Cost!CeAnswers(q) PROVE CostInv'
    BY <2>5, CeAnswersKeepsCostInv
  <2>6. ASSUME NEW q \in CostRequests, Cost!PutAnswer(q) PROVE CostInv'
    BY <2>6, PutAnswerKeepsCostInv
  <2>7. ASSUME NEW k \in Cost!Keys, Cost!Sweep(k) PROVE CostInv'
    BY <2>7, SweepKeepsCostInv
  <2> QED
    BY <1>2, <2>1, <2>2, <2>3, <2>4, <2>5, <2>6, <2>7 DEF Cost!RouteNext
<1>3. CASE UNCHANGED costVars
  <2>1. UNCHANGED <<today, ce, gone, rollup, run, settled, asked, answered>>
    BY <1>3 DEF costVars
  <2>2. CostTypeOK'
    BY <2>1 DEF CostInv, CostTypeOK
  <2>3. WritersInv'
    BY <2>1, WritersStay DEF CostInv, WritersInv
  <2>4. ScansAddUp'
    BY <2>1, ScansStay DEF CostInv
  <2> QED
    BY <2>2, <2>3, <2>4 DEF CostInv, WritersInv
<1> QED
  BY <1>1, <1>2, <1>3 DEF Cost!Next

-----------------------------------------------------------------------------
(* The views of the cost service.                                          *)

\* What CE reports of a day.
DaySpend(d) == SumFunction([g \in Cost!Known(d) |-> ce[d][g]])

\* The sum of one number.
LEMMA SumOfOne ==
    ASSUME NEW x, NEW f, Numbers(f, {x})
    PROVE  SumFunction(f) = f[x]
<1> DEFINE none == [y \in {} |-> 0]
<1>1. Numbers(none, {})
  BY FS_EmptySet DEF Numbers
<1> HIDE DEF none
<1>2. SumFunction(f) = f[x] + SumFunction(none)
  BY <1>1, SumSplits
<1>3. SumFunction(none) = 0
  BY <1>1, SumOfNone
<1>4. f[x] \in Int
  BY DEF Numbers
<1> QED
  BY <1>2, <1>3, <1>4

\* CE reports finitely many groups, each with an amount.
LEMMA KnownIsFinite ==
    ASSUME CostTypeOK, NEW d \in Cost!Days
    PROVE  /\ Cost!Known(d) \subseteq Groups /\ IsFiniteSet(Cost!Known(d))
           /\ \A g \in Cost!Known(d) : ce[d][g] \in Int
           /\ DaySpend(d) \in Int
<1>1. Cost!Known(d) \subseteq Groups /\ IsFiniteSet(Cost!Known(d))
  BY CostAssumption, FS_Subset DEF Cost!Known
<1>2. \A g \in Cost!Known(d) : ce[d][g] \in Int
  <2>1. ce[d] \in [Groups -> Amounts \cup {None}]
    BY DEF CostTypeOK
  <2>2. \A g \in Cost!Known(d) : g \in Groups /\ ce[d][g] # None
    BY DEF Cost!Known
  <2> QED
    BY <2>1, <2>2, CostAssumption
<1> DEFINE f == [g \in Cost!Known(d) |-> ce[d][g]]
<1>3. Numbers(f, Cost!Known(d))
  BY <1>1, <1>2 DEF Numbers
<1> HIDE DEF f
<1>4. SumFunction(f) \in Int
  BY <1>3, SumIsInt
<1>5. DaySpend(d) \in Int
  BY <1>4 DEF DaySpend, f
<1> QED
  BY <1>1, <1>2, <1>5

\* Every group has one service.
LEMMA ServicesShareTheDay ==
    ASSUME CostTypeOK, NEW d \in Cost!Days
    PROVE  DaySpend(d) = SumFunction([s \in Cost!Services |-> SpendOf(s, d)])
<1> DEFINE K == Cost!Known(d)
           S == Cost!Services
           of(s) == {g \in K : ServiceOf[g] = s}
           row == [s \in S |-> [g \in K |-> IF ServiceOf[g] = s THEN ce[d][g] ELSE 0]]
           column == [g \in K |-> [s \in S |-> IF ServiceOf[g] = s THEN ce[d][g] ELSE 0]]
           byRow == [s \in S |-> SpendOf(s, d)]
           byColumn == [g \in K |-> ce[d][g]]
<1>1. K \subseteq Groups /\ IsFiniteSet(K) /\ \A g \in K : ce[d][g] \in Int
  BY KnownIsFinite
<1>2. \A g \in K : ServiceOf[g] \in S
  BY <1>1 DEF Cost!Services
<1>3. IsFiniteSet(S)
  BY ServicesAreFinite
<1>4. \A s \in S : SpendOf(s, d) = SumFunction([g \in of(s) |-> ce[d][g]])
  BY DEF SpendOf
<1>5. \A s \in S : SpendOf(s, d) \in Int
  BY ServiceTotals
<1>6. DaySpend(d) = SumFunction(byColumn)
  BY DEF DaySpend
<1> HIDE DEF K, S
<1>7. Numbers(byRow, S) /\ Numbers(byColumn, K)
  BY <1>1, <1>3, <1>5 DEF Numbers
<1>8. ASSUME NEW s \in S PROVE Numbers(row[s], K) /\ byRow[s] = SumFunction(row[s])
  <2> DEFINE A == of(s)
             f == [g \in K |-> IF ServiceOf[g] = s THEN ce[d][g] ELSE 0]
             part == [g \in A |-> ce[d][g]]
  <2>1. row[s] = f /\ byRow[s] = SumFunction(part)
    BY <1>4
  <2>2. A \subseteq K
    OBVIOUS
  <2>3. IsFiniteSet(A)
    BY <1>1, <2>2, FS_Subset
  <2>4. Numbers(f, K)
    BY <1>1 DEF Numbers
  <2>5. Numbers(part, A)
    BY <1>1, <2>2, <2>3 DEF Numbers
  <2>6. \A g \in K : f[g] = IF g \in A THEN part[g] ELSE 0
    OBVIOUS
  <2> HIDE DEF A, f, part, row, byRow
  <2>7. SumFunction(f) = SumFunction(part)
    BY <2>2, <2>4, <2>5, <2>6, SumOfSome
  <2> QED
    BY <2>1, <2>4, <2>7
<1>9. ASSUME NEW g \in K
      PROVE  Numbers(column[g], S) /\ byColumn[g] = SumFunction(column[g])
  <2> DEFINE A == {ServiceOf[g]}
             f == [s \in S |-> IF ServiceOf[g] = s THEN ce[d][g] ELSE 0]
             part == [s \in A |-> ce[d][g]]
  <2>1. column[g] = f /\ byColumn[g] = part[ServiceOf[g]]
    OBVIOUS
  <2>2. A \subseteq S
    BY <1>2
  <2>3. IsFiniteSet(A)
    BY FS_Singleton
  <2>4. Numbers(f, S)
    BY <1>1, <1>3 DEF Numbers
  <2>5. Numbers(part, A)
    BY <1>1, <2>3 DEF Numbers
  <2>6. \A s \in S : f[s] = IF s \in A THEN part[s] ELSE 0
    OBVIOUS
  <2> HIDE DEF f, part, column, byColumn
  <2>7. SumFunction(part) = part[ServiceOf[g]]
    BY <2>5, SumOfOne
  <2> HIDE DEF A
  <2>8. SumFunction(f) = SumFunction(part)
    BY <2>2, <2>4, <2>5, <2>6, SumOfSome
  <2> QED
    BY <2>1, <2>4, <2>7, <2>8
<1>10. \A s \in S, g \in K : row[s][g] = column[g][s]
  OBVIOUS
<1> HIDE DEF row, column, byRow, byColumn
<1>11. Table(S, K, row, column, byRow, byColumn)
  BY <1>7, <1>8, <1>9, <1>10 DEF Table
<1>12. SumFunction(byRow) = SumFunction(byColumn)
  BY <1>11, SumsSwap
<1> QED
  BY <1>6, <1>12 DEF byRow, S

\* What CE sums up by service and what it sums up by day is the same.
LEMMA SpendIsShared ==
    ASSUME CostTypeOK, NEW w \in Cost!Windows
    PROVE  SumFunction([s \in Cost!Services |-> Cost!ServiceSpend(s, w)])
             = SumFunction([d \in w.from .. w.to - 1 |-> DaySpend(d)])
<1> DEFINE D == w.from .. w.to - 1
           S == Cost!Services
           row == [s \in S |-> [d \in D |-> SpendOf(s, d)]]
           column == [d \in D |-> [s \in S |-> SpendOf(s, d)]]
           byRow == [s \in S |-> Cost!ServiceSpend(s, w)]
           byColumn == [d \in D |-> DaySpend(d)]
<1>1. D \subseteq Cost!Days /\ IsFiniteSet(D)
  <2>1. w.from \in Cost!Days /\ w.to \in Cost!Days /\ w.from \in Int /\ w.to - 1 \in Int
    BY DEF Cost!Windows, Cost!Days
  <2>2. D \subseteq Cost!Days
    BY <2>1, CostAssumption DEF Cost!Days
  <2>3. IsFiniteSet(D)
    BY <2>1, FS_Interval
  <2> QED
    BY <2>2, <2>3
<1>2. IsFiniteSet(S)
  BY ServicesAreFinite
<1>3. \A s : /\ Cost!ServiceSpend(s, w) = SumFunction([d \in D |-> SpendOf(s, d)])
            /\ Cost!ServiceSpend(s, w) \in Int
  BY ServiceTotals
<1>4. \A s : \A d \in D : SpendOf(s, d) \in Int
  BY <1>1, ServiceTotals
<1>5. \A d \in D : DaySpend(d) \in Int
  BY <1>1, KnownIsFinite
<1>6. \A d \in D : DaySpend(d) = SumFunction([s \in S |-> SpendOf(s, d)])
  BY <1>1, ServicesShareTheDay
<1> HIDE DEF D, S
<1>7. Numbers(byRow, S) /\ Numbers(byColumn, D)
  BY <1>1, <1>2, <1>3, <1>5 DEF Numbers
<1>8. \A s \in S : Numbers(row[s], D) /\ byRow[s] = SumFunction(row[s])
  BY <1>1, <1>3, <1>4 DEF Numbers
<1>9. \A d \in D : Numbers(column[d], S) /\ byColumn[d] = SumFunction(column[d])
  BY <1>2, <1>4, <1>6 DEF Numbers
<1>10. \A s \in S, d \in D : row[s][d] = column[d][s]
  OBVIOUS
<1> HIDE DEF row, column, byRow, byColumn
<1>11. Table(S, D, row, column, byRow, byColumn)
  BY <1>7, <1>8, <1>9, <1>10 DEF Table
<1>12. SumFunction(byRow) = SumFunction(byColumn)
  BY <1>11, SumsSwap
<1> QED
  BY <1>12 DEF byRow, byColumn, D, S

\* A settled day has a row for every group CE knows, off by half a cent at most.
LEMMA SettledDaysAreClose ==
    ASSUME CostInv, NEW d \in settled \ gone, \A g \in Cost!Known(d) : ce[d][g] >= 0
    PROVE  /\ DaySpend(d) - 5 * Cardinality(Cost!Known(d)) <= 10 * Cost!DayTotal(d)
           /\ 10 * Cost!DayTotal(d) <= DaySpend(d) + 5 * Cardinality(Cost!Known(d))
<1> DEFINE K == Cost!Known(d)
           f == [g \in K |-> rollup[d][g]]
           spend == [g \in K |-> ce[d][g]]
           ones == [g \in K |-> 1]
<1>1. d \in Cost!Days
  BY DEF CostInv, CostTypeOK
<1>2. K \subseteq Groups /\ IsFiniteSet(K) /\ \A g \in K : ce[d][g] \in Int
  BY <1>1, KnownIsFinite DEF CostInv
<1>3. \A g \in K : ce[d][g] # None
  BY DEF Cost!Known
<1>4. ASSUME NEW g \in K
      PROVE  /\ rollup[d][g] \in Nat
             /\ ce[d][g] - 5 * 1 <= 10 * rollup[d][g]
             /\ 10 * rollup[d][g] <= ce[d][g] + 5 * 1
  <2>1. rollup[d][g] = Cost!UsdToCents(ce[d][g])
    BY <1>2, <1>3 DEF CostInv, SettledIsCopied, Copied
  <2>2. ce[d][g] \in Int /\ ce[d][g] >= 0
    BY <1>2
  <2>3. Cost!UsdToCents(ce[d][g]) \in Nat
    BY <2>2, CentsAreRounded
  <2>4. /\ ce[d][g] - 5 <= 10 * Cost!UsdToCents(ce[d][g])
        /\ 10 * Cost!UsdToCents(ce[d][g]) <= ce[d][g] + 5
    BY <2>2, CentsAreRounded
  <2> QED
    BY <2>1, <2>2, <2>3, <2>4
<1>5. Cost!Present(d) = K
  <2>1. \A g \in K : g \in Groups /\ rollup[d][g] # None
    BY <1>2, <1>4, NoneIsNoNumber
  <2>2. \A g \in Groups : rollup[d][g] # None => ce[d][g] # None
    BY <1>1 DEF CostInv, RowsAreKnown
  <2> QED
    BY <2>1, <2>2 DEF Cost!Present, Cost!Known
<1>6. Cost!DayTotal(d) = SumFunction(f)
  BY <1>5, CostSums DEF Cost!DayTotal
<1>7. Numbers(f, K) /\ Numbers(spend, K) /\ Numbers(ones, K)
  BY <1>2, <1>4 DEF Numbers
<1>8. DaySpend(d) = SumFunction(spend)
  BY DEF DaySpend
<1>9. /\ \A g \in K : ones[g] = 1
      /\ \A g \in K : /\ spend[g] - 5 * ones[g] <= 10 * f[g]
                      /\ 10 * f[g] <= spend[g] + 5 * ones[g]
  BY <1>4
<1> HIDE DEF f, spend, ones, K
<1>10. SumFunction(ones) = Cardinality(K)
  BY <1>7, <1>9, SumOfOnes
<1>11. /\ SumFunction(spend) - 5 * SumFunction(ones) <= 10 * SumFunction(f)
       /\ 10 * SumFunction(f) <= SumFunction(spend) + 5 * SumFunction(ones)
  BY <1>7, <1>9, SumsAreClose
<1> QED
  BY <1>6, <1>8, <1>10, <1>11 DEF K

\* A window of settled days is off by half a cent per row at most, ...
LEMMA TenantsAreClose ==
    ASSUME CostInv, NEW w \in Cost!Windows, Cost!DaysOf(w) \subseteq settled \ gone,
           Cost!NoRefund(w), NEW spent,
           spent = SumFunction([d \in w.from .. w.to - 1 |-> DaySpend(d)]),
           NEW count,
           count = SumFunction([d \in w.from .. w.to - 1 |-> Cardinality(Cost!Known(d))])
    PROVE  /\ spent \in Int /\ count \in Int
           /\ spent - 5 * count <= 10 * Cost!WindowTotal(w)
           /\ 10 * Cost!WindowTotal(w) <= spent + 5 * count
<1> DEFINE D == w.from .. w.to - 1
           f == [d \in D |-> Cost!DayTotal(d)]
           spend == [d \in D |-> DaySpend(d)]
           cards == [d \in D |-> Cardinality(Cost!Known(d))]
<1>1. D \subseteq settled \ gone /\ D \subseteq Cost!Days
  BY DEF Cost!DaysOf, CostInv, CostTypeOK
<1>2. IsFiniteSet(D)
  <2>1. w.from \in Int /\ w.to - 1 \in Int
    BY DEF Cost!Windows, Cost!Days
  <2> QED
    BY <2>1, FS_Interval
<1>3. Cost!WindowTotal(w) = SumFunction(f)
  BY DayTotals DEF CostInv
<1>4. \A d \in D : \A g \in Cost!Known(d) : ce[d][g] >= 0
  BY DEF Cost!NoRefund, Cost!DaysOf
<1>5. ASSUME NEW d \in D
      PROVE  /\ Cost!DayTotal(d) \in Int /\ DaySpend(d) \in Int
             /\ Cardinality(Cost!Known(d)) \in Int
             /\ DaySpend(d) - 5 * Cardinality(Cost!Known(d)) <= 10 * Cost!DayTotal(d)
             /\ 10 * Cost!DayTotal(d) <= DaySpend(d) + 5 * Cardinality(Cost!Known(d))
  <2>1. d \in Cost!Days /\ d \in settled \ gone
    BY <1>1
  <2>2. Cost!DayTotal(d) \in Int
    BY <2>1, DayTotals DEF CostInv
  <2>3. DaySpend(d) \in Int /\ IsFiniteSet(Cost!Known(d))
    BY <2>1, KnownIsFinite DEF CostInv
  <2>4. Cardinality(Cost!Known(d)) \in Nat
    BY <2>3, FS_CardinalityType
  <2>5. /\ DaySpend(d) - 5 * Cardinality(Cost!Known(d)) <= 10 * Cost!DayTotal(d)
        /\ 10 * Cost!DayTotal(d) <= DaySpend(d) + 5 * Cardinality(Cost!Known(d))
    BY <1>4, <2>1, SettledDaysAreClose
  <2> QED
    BY <2>2, <2>3, <2>4, <2>5
<1> HIDE DEF D
<1>6. Numbers(f, D) /\ Numbers(spend, D) /\ Numbers(cards, D)
  BY <1>2, <1>5 DEF Numbers
<1>7. \A d \in D : /\ spend[d] - 5 * cards[d] <= 10 * f[d]
                   /\ 10 * f[d] <= spend[d] + 5 * cards[d]
  BY <1>5
<1>8. spent = SumFunction(spend) /\ count = SumFunction(cards)
  BY DEF D
<1> HIDE DEF f, spend, cards
<1>9. /\ SumFunction(spend) - 5 * SumFunction(cards) <= 10 * SumFunction(f)
      /\ 10 * SumFunction(f) <= SumFunction(spend) + 5 * SumFunction(cards)
  BY <1>6, <1>7, SumsAreClose
<1>10. SumFunction(spend) \in Int /\ SumFunction(cards) \in Int
  BY <1>6, SumIsInt
<1> QED
  BY <1>3, <1>8, <1>9, <1>10

\* ... and so is the total of the services, per service.
LEMMA ServicesAreClose ==
    ASSUME CostTypeOK, NEW w \in Cost!Windows, NEW spent,
           spent = SumFunction([s \in Cost!Services |-> Cost!ServiceSpend(s, w)])
    PROVE  /\ Cardinality(Cost!Services) \in Int
           /\ spent - 5 * Cardinality(Cost!Services) <= 10 * Cost!ServiceTotal(w)
           /\ 10 * Cost!ServiceTotal(w) <= spent + 5 * Cardinality(Cost!Services)
<1> DEFINE S == Cost!Services
           f == [s \in S |-> Cost!ServiceCents(s, w)]
           spend == [s \in S |-> Cost!ServiceSpend(s, w)]
           ones == [s \in S |-> 1]
<1>1. IsFiniteSet(S) /\ Cardinality(S) \in Int
  BY ServicesAreFinite, FS_CardinalityType
<1>2. Cost!ServiceTotal(w) = SumFunction(f)
  BY ServiceTotals
<1>3. ASSUME NEW s \in S
      PROVE  /\ Cost!ServiceCents(s, w) \in Int /\ Cost!ServiceSpend(s, w) \in Int
             /\ Cost!ServiceSpend(s, w) - 5 * 1 <= 10 * Cost!ServiceCents(s, w)
             /\ 10 * Cost!ServiceCents(s, w) <= Cost!ServiceSpend(s, w) + 5 * 1
  <2>1. Cost!ServiceSpend(s, w) \in Int
    BY ServiceTotals
  <2>2. /\ Cost!RoundEven(Cost!ServiceSpend(s, w)) \in Int
        /\ Cost!ServiceSpend(s, w) - 5 <= 10 * Cost!RoundEven(Cost!ServiceSpend(s, w))
        /\ 10 * Cost!RoundEven(Cost!ServiceSpend(s, w)) <= Cost!ServiceSpend(s, w) + 5
    BY <2>1, RoundEvenRounds
  <2> QED
    BY <2>1, <2>2 DEF Cost!ServiceCents
<1> HIDE DEF S
<1>4. Numbers(f, S) /\ Numbers(spend, S) /\ Numbers(ones, S)
  BY <1>1, <1>3 DEF Numbers
<1>5. /\ \A s \in S : ones[s] = 1
      /\ \A s \in S : /\ spend[s] - 5 * ones[s] <= 10 * f[s]
                      /\ 10 * f[s] <= spend[s] + 5 * ones[s]
  BY <1>3
<1>6. spent = SumFunction(spend)
  BY DEF S
<1> HIDE DEF f, spend, ones
<1>7. SumFunction(ones) = Cardinality(S)
  BY <1>4, <1>5, SumOfOnes
<1>8. /\ SumFunction(spend) - 5 * SumFunction(ones) <= 10 * SumFunction(f)
      /\ 10 * SumFunction(f) <= SumFunction(spend) + 5 * SumFunction(ones)
  BY <1>4, <1>5, SumsAreClose
<1> QED
  BY <1>1, <1>2, <1>6, <1>7, <1>8 DEF S

\* Two totals near the same spend are near each other.
LEMMA BothAreClose ==
    ASSUME NEW a \in Int, NEW b \in Int, NEW s \in Int, NEW r \in Int, NEW c \in Int,
           s - 5 * r <= 10 * a, 10 * a <= s + 5 * r,
           s - 5 * c <= 10 * b, 10 * b <= s + 5 * c
    PROVE  2 * (a - b) \in -(r + c) .. r + c
<1>1. 2 * (a - b) <= r + c
  OBVIOUS
<1>2. -(r + c) <= 2 * (a - b)
  OBVIOUS
<1>3. -(r + c) \in Int /\ r + c \in Int /\ 2 * (a - b) \in Int
  OBVIOUS
<1> QED
  BY <1>1, <1>2, <1>3

\* The two totals of a window.
LEMMA ViewsAreClose == CostInv => Cost!ViewsReconcile
<1> SUFFICES ASSUME CostInv PROVE Cost!ViewsReconcile
  OBVIOUS
<1> DEFINE lines(w) == Cost!SumFunction([d \in Cost!DaysOf(w) |->
                                           Cost!Cardinality(Cost!Known(d))])
           n == Cost!Cardinality(Cost!Services)
           Close(w) == 2 * (Cost!WindowTotal(w) - Cost!ServiceTotal(w))
                         \in -(lines(w) + n) .. lines(w) + n
<1>1. ASSUME NEW w \in Cost!Windows,
             Cost!DaysOf(w) \subseteq settled \ gone, Cost!NoRefund(w)
      PROVE  Close(w)
  <2> DEFINE spent == SumFunction([d \in w.from .. w.to - 1 |-> DaySpend(d)])
             count == SumFunction([d \in w.from .. w.to - 1 |->
                                     Cardinality(Cost!Known(d))])
             tenants == Cost!WindowTotal(w)
             services == Cost!ServiceTotal(w)
  <2>1. /\ spent \in Int /\ count \in Int
        /\ spent - 5 * count <= 10 * tenants /\ 10 * tenants <= spent + 5 * count
    BY <1>1, TenantsAreClose
  <2>2. spent = SumFunction([s \in Cost!Services |-> Cost!ServiceSpend(s, w)])
    BY SpendIsShared DEF CostInv
  <2>3. n \in Int /\ spent - 5 * n <= 10 * services /\ 10 * services <= spent + 5 * n
    BY <2>2, ServicesAreClose, CostCardinalities DEF CostInv
  <2>4. tenants \in Int /\ services \in Int
    BY DayTotals, ServiceTotals DEF CostInv
  <2>5. lines(w) = count
    BY CostSums, CostCardinalities DEF Cost!DaysOf
  <2> HIDE DEF spent, count, tenants, services, n, lines
  <2>6. 2 * (tenants - services) \in -(count + n) .. count + n
    BY <2>1, <2>3, <2>4, BothAreClose
  <2> QED
    BY <2>5, <2>6 DEF tenants, services
<1> HIDE DEF Close
<1>2. \A w \in Cost!Windows :
         Cost!DaysOf(w) \subseteq settled \ gone /\ Cost!NoRefund(w) => Close(w)
  BY <1>1
<1> QED
  BY <1>2 DEF Cost!ViewsReconcile, Close, lines, n

\* A quiet scan at its end has no days to come, so its sum is what was expected.
LEMMA QuietScansAreExact == CostInv => Cost!QuietAnswerIsExact
<1> SUFFICES ASSUME CostInv, NEW q \in CostRequests,
                    asked[q].pc = "scan", asked[q].quiet,
                    ~Cost!Within(asked[q].day, asked[q].key.window)
             PROVE  asked[q].sum = asked[q].expected
  BY DEF Cost!QuietAnswerIsExact
<1> DEFINE d == asked[q].day
           w == asked[q].key.window
           f == [e \in d .. w.to - 1 |-> Cost!DayTotal(e)]
<1>1. asked[q] \in CostRoutes /\ AddsUp(asked[q])
  BY DEF CostInv, CostTypeOK, ScansAddUp
<1>2. d \in w.from .. w.to /\ asked[q].sum + SumFunction(f) = asked[q].expected
  BY <1>1 DEF AddsUp
<1>3. d \in Int /\ asked[q].sum \in Int
  BY <1>1 DEF CostRoutes
<1>4. w.to \in Int
  BY <1>1 DEF AddsUp, Cost!Keys, Cost!Windows, Cost!Days
<1>5. d .. w.to - 1 = {}
  <2>1. ~(d < w.to)
    BY DEF Cost!Within
  <2> HIDE DEF d, w
  <2> QED
    BY <1>3, <1>4, <2>1
<1>6. Numbers(f, {})
  BY <1>5, FS_EmptySet DEF Numbers
<1> HIDE DEF f
<1>7. SumFunction(f) = 0
  BY <1>6, SumOfNone
<1> QED
  BY <1>2, <1>3, <1>7

-----------------------------------------------------------------------------
(* The components side by side.                                            *)

\* A step of Services is a step of each of its components, or leaves it alone.
LEMMA StepsAreOfTheComponents ==
    [ServicesNext]_servicesVars =>
        /\ [Telemetry!Next]_telemetryVars
        /\ [Anomalies!Next]_anomalyVars
        /\ [Gate!Next]_accessVars
        /\ [Limiter!Next]_limiterVars
        /\ [Health!Next]_healthVars
        /\ [Monitor!Next]_monitorVars
        /\ [Groq!Next]_groqVars
        /\ [Cost!Next]_costVars
BY DEF ServicesNext, servicesVars, TelemetryStep, CostStep, AnomalyStep, AccessStep,
       LimiterStep, HealthStep, MonitorStep, GroqStep

\* TelemetryInv holds in every reachable state of Services.
LEMMA TelemetryInvHolds == ServicesSpec => []TelemetryInv
BY InitEstablishesTelemetryInv, NextKeepsTelemetryInv, StepsAreOfTheComponents, PTL
   DEF ServicesSpec, ServicesInit

\* Whatever crashes and whichever events fail to insert: a spool file that the flusher
\* unlinked has its event in the database.
THEOREM UnlinkedEventsAreRecorded == ServicesSpec => []UnlinkedIsRecorded
BY TelemetryInvHolds, TelemetryInvShowsProperties, PTL

\* The events of a session share one trace, and a tool call's two events one span,
\* across restarts of the flusher.
THEOREM TelemetryKeepsTracesTogether == ServicesSpec => []TracesHoldTogether
BY TelemetryInvHolds, TelemetryInvShowsProperties, PTL

\* AnomalyInv holds in every reachable state of Services.
LEMMA AnomalyInvHolds == ServicesSpec => []AnomalyInv
BY InitEstablishesAnomalyInv, NextKeepsAnomalyInv, StepsAreOfTheComponents, PTL
   DEF ServicesSpec, ServicesInit

\* No feed that the cost API answers shows an alert that was over when it was asked.
THEOREM FeedsShowNoDeadAlerts == ServicesSpec => []NoDeadAlerts
BY AnomalyInvHolds, AnomalyInvShowsNoDead, PTL

\* AccessInv holds in every reachable state of Services.
LEMMA AccessInvHolds == ServicesSpec => []AccessInv
BY InitEstablishesAccessInv, NextKeepsAccessInv, StepsAreOfTheComponents, PTL
   DEF ServicesSpec, ServicesInit

\* The access checks refuse withdrawn keys and withdrawn roles within their time, and find
\* every key that is published all along, whatever the order of fetches and requests.
THEOREM AccessFollowsTheKeys == ServicesSpec => []AccessIsCurrent
BY AccessInvHolds, AccessInvIsCurrent, PTL

\* LimiterInv holds in every reachable state of Services.
LEMMA LimiterInvHolds == ServicesSpec => []LimiterInv
BY InitEstablishesLimiterInv, NextKeepsLimiterInv, StepsAreOfTheComponents, PTL
   DEF ServicesSpec, ServicesInit

\* Neither the in-memory limiter nor the one in Redis admits more requests in a window
\* than the budget, for any number of callers and any delays in which the key lives.
THEOREM NoWindowOverrunsTheBudget == ServicesSpec => []BudgetHolds
BY LimiterInvHolds, LimiterInvShowsBudget, PTL

\* HealthInv holds in every reachable state of Services.
LEMMA HealthInvHolds == ServicesSpec => []HealthInv
BY InitEstablishesHealthInv, NextKeepsHealthInv, StepsAreOfTheComponents, PTL
   DEF ServicesSpec, ServicesInit

\* The health aggregator's verdict was true of each source at some time during the request.
THEOREM VerdictsHaveCauses == ServicesSpec => []VerdictHasCause
BY HealthInvHolds, PTL DEF HealthInv

\* MonitorInv holds in every reachable state of Services.
LEMMA MonitorInvHolds == ServicesSpec => []MonitorInv
BY InitEstablishesMonitorInv, NextKeepsMonitorInv, StepsAreOfTheComponents, PTL
   DEF ServicesSpec, ServicesInit

\* The pull-request monitor tells a condition that lasts once, however many polls it lasts.
THEOREM LastingConditionsAreToldOnce == ServicesSpec => []ToldOncePerTransition
BY MonitorInvHolds, MonitorInvShowsTold, PTL

\* GroqInv holds in every reachable state of Services.
LEMMA GroqInvHolds == ServicesSpec => []GroqInv
BY InitEstablishesGroqInv, NextKeepsGroqInv, StepsAreOfTheComponents, PTL
   DEF ServicesSpec, ServicesInit

\* When the segments of Groq's answer tile the audio, the backend puts each word that
\* starts before the end into one segment, whatever the times and however many there are.
THEOREM EachWordHasItsSegment == ServicesSpec => []EachWordOnce
BY GroqInvHolds, GroqInvShowsWords, PTL

\* CostInv holds in every reachable state of Services.
LEMMA CostInvHolds == ServicesSpec => []CostInv
BY InitEstablishesCostInv, NextKeepsCostInv, StepsAreOfTheComponents, PTL
   DEF ServicesSpec, ServicesInit

\* On days that were copied undisturbed the by-tenant and the by-service total of any
\* window agree within half a cent per row and service, and a by-tenant answer that no
\* write disturbed is the table's total, for any groups, amounts, runs and requests.
THEOREM CostViewsReconcile == ServicesSpec => []CostsAreRight
BY CostInvHolds, ViewsAreClose, QuietScansAreExact, PTL DEF CostsAreRight
=============================================================================
