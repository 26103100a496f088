--------------------------- MODULE FeePoolsProofs ---------------------------
(***************************************************************************)
(* Theorems about FeePools and FeePoolsCredits, for every set of proposers *)
(* and identities, every fee table and every bound.                        *)
(***************************************************************************)
EXTENDS FeePoolsCredits, FiniteSetTheorems, WellFoundedInduction, TLAPS

\* A non-empty set of naturals has a least element, the one Min chooses.
LEMMA MinProperties ==
  ASSUME NEW S \in SUBSET Nat, S # {}
  PROVE  /\ Min(S) \in S
         /\ \A y \in S : Min(S) <= y
<1> DEFINE R == {ss \in Nat \X Nat : ss[1] < ss[2]}
<1>1. IsWellFoundedOn(R, Nat)
  BY NatLessThanWellFounded DEF OpToRel
<1>2. PICK x \in S : \A y \in S : ~(<<y, x>> \in R)
  <2> HIDE DEF R
  <2> QED BY <1>1, WFMin
<1>3. ASSUME NEW y \in S PROVE x <= y
  <2>1. x \in Nat /\ y \in Nat
    OBVIOUS
  <2>2. ~(y < x)
    BY <1>2, <2>1
  <2> QED BY <2>1, <2>2
<1>4. QED
  BY <1>3 DEF Min

\* The quotient of naturals is a natural.
LEMMA DivType ==
  ASSUME NEW a \in Nat, NEW b \in Nat \ {0}
  PROVE  a \div b \in Nat
OBVIOUS

-----------------------------------------------------------------------------
(* Sums over finite sets.  Induction is stated with a set Good of the sets *)
(* that have the property in question.                                     *)

\* Induction over the subsets of a finite set: what holds of a set whenever it
\* holds of all its proper subsets holds of every subset.  Good is a set, so
\* that the provers can instantiate it.
LEMMA SubsetInduction ==
  ASSUME NEW S, IsFiniteSet(S), NEW Good,
         \A T \in SUBSET S : (\A U \in SUBSET T : U # T => U \in Good) => T \in Good
  PROVE  \A T \in SUBSET S : T \in Good
<1> DEFINE R == StrictSubsetOrdering(S)
           Bad == {T \in SUBSET S : T \notin Good}
<1>1. IsWellFoundedOn(R, SUBSET S)
  BY FS_StrictSubsetOrderingWellFounded, FS_FiniteSubsetsOfFinite
<1>2. SUFFICES ASSUME Bad # {} PROVE FALSE
  OBVIOUS
<1>3. Bad \subseteq SUBSET S
  OBVIOUS
<1>4. PICK T \in Bad : \A U \in Bad : ~(<<U, T>> \in R)
  <2> HIDE DEF R, Bad
  <2> QED BY <1>1, <1>2, <1>3, WFMin
<1>5. ASSUME NEW U \in SUBSET T, U # T PROVE U \in Good
  <2>1. <<U, T>> \in R
    BY <1>5 DEF StrictSubsetOrdering
  <2> HIDE DEF R
  <2> QED BY <1>4, <2>1
<1> QED BY <1>4, <1>5

\* The sum of the integers f[x] over the elements x of a set.
SumOf(f, S) == MapThenSumSet(LAMBDA x : f[x], S)

\* The element a fold takes from a set first.
First(S) == CHOOSE x \in S : TRUE

\* g gives the sum of every subset of S, computed as the fold does.
Sums(f, S, g) ==
  g = [s \in SUBSET S |-> IF s = {} THEN 0 ELSE f[First(s)] + g[s \ {First(s)}]]

\* The sum is that of the fold's function.
LEMMA SumOfDefinition ==
  ASSUME NEW f, NEW S
  PROVE  SumOf(f, S) = (CHOOSE g : Sums(f, S, g))[S]
BY DEF SumOf, MapThenSumSet, MapThenFoldSet, Sums, First

\* The first element of a non-empty set is one of its elements.
LEMMA FirstIn ==
  ASSUME NEW S, S # {}
  PROVE  First(S) \in S
BY DEF First

\* Two functions of the fold agree where both are defined.
LEMMA SumsAgree ==
  ASSUME NEW f, NEW S, IsFiniteSet(S), NEW T \in SUBSET S,
         NEW g, Sums(f, S, g), NEW h, Sums(f, T, h)
  PROVE  \A s \in SUBSET T : g[s] = h[s]
<1> DEFINE Good == {s \in SUBSET T : g[s] = h[s]}
<1>1. IsFiniteSet(T)
  BY FS_Subset
<1>2. ASSUME NEW s \in SUBSET T, \A u \in SUBSET s : u # s => u \in Good
      PROVE  s \in Good
  <2>1. /\ g[s] = IF s = {} THEN 0 ELSE f[First(s)] + g[s \ {First(s)}]
        /\ h[s] = IF s = {} THEN 0 ELSE f[First(s)] + h[s \ {First(s)}]
    <3>1. s \in SUBSET S
      OBVIOUS
    <3> QED BY <3>1 DEF Sums
  <2>2. CASE s = {}
    BY <2>1, <2>2
  <2>3. CASE s # {}
    <3>1. s \ {First(s)} \in SUBSET s /\ s \ {First(s)} # s
      BY <2>3, FirstIn
    <3>2. s \ {First(s)} \in Good
      BY <1>2, <3>1
    <3>3. g[s \ {First(s)}] = h[s \ {First(s)}]
      BY <3>2
    <3> QED BY <2>1, <2>3, <3>3
  <2> QED BY <2>2, <2>3
<1>3. \A s \in SUBSET T : s \in Good
  <2> HIDE DEF Good
  <2> QED BY <1>1, <1>2, SubsetInduction
<1> QED BY <1>3

\* The fold over a finite set has a function.
LEMMA SumsExist ==
  ASSUME NEW f, NEW S, IsFiniteSet(S)
  PROVE  \E g : Sums(f, S, g)
<1> DEFINE Good == {T \in SUBSET S : \E g : Sums(f, T, g)}
           of(T) == CHOOSE g : Sums(f, T, g)
<1>1. ASSUME NEW T \in SUBSET S, \A U \in SUBSET T : U # T => U \in Good
      PROVE  T \in Good
  <2> DEFINE rest(s) == s \ {First(s)}
             h == [s \in SUBSET T |-> IF s = {} THEN 0
                                      ELSE f[First(s)] + of(rest(s))[rest(s)]]
  <2>1. ASSUME NEW U \in SUBSET T, U # T PROVE Sums(f, U, of(U))
    BY <1>1, <2>1
  <2>2. ASSUME NEW s \in SUBSET T, s # {}
        PROVE  /\ rest(s) \in SUBSET T /\ rest(s) # T /\ rest(s) \in SUBSET s
    BY <2>2, FirstIn
  <2>3. ASSUME NEW s \in SUBSET T, s # T PROVE h[s] = of(s)[s]
    <3>0. Sums(f, s, of(s))
      BY <2>1, <2>3
    <3>1. of(s)[s] = IF s = {} THEN 0 ELSE f[First(s)] + of(s)[rest(s)]
      <4> HIDE DEF of
      <4> QED BY <3>0 DEF Sums
    <3>2. CASE s = {}
      <4> HIDE DEF of
      <4> QED BY <3>1, <3>2
    <3>3. CASE s # {}
      <4>1. Sums(f, rest(s), of(rest(s)))
        BY <2>1, <2>2, <3>3
      <4>2. IsFiniteSet(s) /\ rest(s) \in SUBSET s
        BY FS_Subset
      <4>3. of(s)[rest(s)] = of(rest(s))[rest(s)]
        <5> HIDE DEF of, rest, h, Good
        <5> QED BY <3>0, <4>1, <4>2, SumsAgree
      <4> HIDE DEF of
      <4> QED BY <3>1, <3>3, <4>3
    <3> QED BY <3>2, <3>3
  <2>4. ASSUME NEW s \in SUBSET T
        PROVE  h[s] = IF s = {} THEN 0 ELSE f[First(s)] + h[rest(s)]
    <3>1. CASE s # {}
      <4>1. h[rest(s)] = of(rest(s))[rest(s)]
        BY <2>2, <2>3, <3>1
      <4> QED BY <3>1, <4>1
    <3>2. CASE s = {}
      BY <3>2
    <3> QED BY <3>1, <3>2
  <2>5. Sums(f, T, h)
    <3>1. h = [s \in SUBSET T |-> h[s]]
      OBVIOUS
    <3> HIDE DEF h
    <3> QED BY <2>4, <3>1 DEF Sums
  <2> QED BY <2>5
<1>2. \A T \in SUBSET S : T \in Good
  <2> HIDE DEF Good
  <2> QED BY <1>1, SubsetInduction
<1> QED BY <1>2

\* The sum of no integers, and the sum of a set by its first element.
LEMMA SumOfFirst ==
  ASSUME NEW f, NEW S, IsFiniteSet(S)
  PROVE  SumOf(f, S) = IF S = {} THEN 0 ELSE f[First(S)] + SumOf(f, S \ {First(S)})
<1> DEFINE of(T) == CHOOSE g : Sums(f, T, g)
           T == S \ {First(S)}
<1>1. Sums(f, S, of(S)) /\ SumOf(f, S) = of(S)[S]
  BY SumsExist, SumOfDefinition
<1>2. IsFiniteSet(T) /\ T \in SUBSET S
  BY FS_Subset
<1>3. Sums(f, T, of(T)) /\ SumOf(f, T) = of(T)[T]
  BY <1>2, SumsExist, SumOfDefinition
<1>4. of(S)[T] = of(T)[T]
  <2> HIDE DEF of, T
  <2> QED BY <1>1, <1>2, <1>3, SumsAgree
<1>5. of(S)[S] = IF S = {} THEN 0 ELSE f[First(S)] + of(S)[T]
  <2> HIDE DEF of
  <2> QED BY <1>1 DEF Sums
<1> QED BY <1>1, <1>3, <1>4, <1>5

\* A sum of integers is an integer, and any element may be added last: the
\* sum does not depend on the order of the fold.
LEMMA SumOfElement ==
  ASSUME NEW f, NEW S, IsFiniteSet(S), \A x \in S : f[x] \in Int
  PROVE  /\ SumOf(f, S) \in Int
         /\ \A x \in S : SumOf(f, S) = f[x] + SumOf(f, S \ {x})
<1> DEFINE Right(T) == /\ SumOf(f, T) \in Int
                       /\ \A x \in T : SumOf(f, T) = f[x] + SumOf(f, T \ {x})
           Good == {T \in SUBSET S : Right(T)}
<1>1. ASSUME NEW T \in SUBSET S, \A U \in SUBSET T : U # T => U \in Good
      PROVE  T \in Good
  <2>1. IsFiniteSet(T)
    BY FS_Subset
  <2>2. ASSUME NEW U \in SUBSET T, U # T PROVE Right(U)
    BY <1>1, <2>2
  <2> DEFINE c == First(T)
  <2>3. CASE T = {}
    <3>1. SumOf(f, T) = 0
      BY <2>1, <2>3, SumOfFirst
    <3> QED BY <2>3, <3>1
  <2>4. CASE T # {}
    <3>1. c \in T
      BY <2>4, FirstIn
    <3> HIDE DEF c
    <3>2. SumOf(f, T) = f[c] + SumOf(f, T \ {c})
      BY <2>1, <2>4, SumOfFirst DEF c
    <3>3. Right(T \ {c})
      BY <2>2, <3>1
    <3>4. SumOf(f, T) \in Int
      BY <3>1, <3>2, <3>3
    <3>5. ASSUME NEW x \in T PROVE SumOf(f, T) = f[x] + SumOf(f, T \ {x})
      <4>1. CASE x = c
        BY <3>2, <4>1
      <4>2. CASE x # c
        <5>1. Right(T \ {x})
          BY <2>2
        <5>2. SumOf(f, T \ {c}) = f[x] + SumOf(f, (T \ {c}) \ {x})
          BY <3>3, <4>2
        <5>3. SumOf(f, T \ {x}) = f[c] + SumOf(f, (T \ {x}) \ {c})
          BY <5>1, <4>2, <3>1
        <5> DEFINE a == SumOf(f, (T \ {x}) \ {c})
        <5>4. SumOf(f, T \ {c}) = f[x] + a /\ SumOf(f, T \ {x}) = f[c] + a
          <6>1. (T \ {c}) \ {x} = (T \ {x}) \ {c}
            OBVIOUS
          <6> QED BY <5>2, <5>3, <6>1
        <5>5. Right((T \ {x}) \ {c})
          BY <2>2, <3>1
        <5>6. a \in Int /\ f[x] \in Int /\ f[c] \in Int
          BY <3>1, <5>5
        <5> HIDE DEF Right, a
        <5> QED BY <3>2, <5>4, <5>6
      <4> QED BY <4>1, <4>2
    <3> QED BY <3>4, <3>5
  <2> QED BY <2>3, <2>4
<1>2. \A T \in SUBSET S : T \in Good
  <2> HIDE DEF Good
  <2> QED BY <1>1, SubsetInduction
<1>3. Right(S)
  BY <1>2
<1> QED BY <1>3

\* The sum of nothing is zero.
LEMMA SumOfNone ==
  ASSUME NEW f
  PROVE  SumOf(f, {}) = 0
BY SumOfFirst, FS_EmptySet

\* The sum of a set with one more element.
LEMMA SumOfOneMore ==
  ASSUME NEW f, NEW S, IsFiniteSet(S), NEW x, x \notin S,
         \A y \in S \cup {x} : f[y] \in Int
  PROVE  SumOf(f, S \cup {x}) = f[x] + SumOf(f, S)
<1>1. IsFiniteSet(S \cup {x})
  BY FS_AddElement
<1>2. (S \cup {x}) \ {x} = S /\ x \in S \cup {x}
  OBVIOUS
<1> QED BY <1>1, <1>2, SumOfElement

\* Sums are compared, and added, element by element.
LEMMA SumOfLinear ==
  ASSUME NEW S, IsFiniteSet(S), NEW f, NEW g, NEW h,
         \A x \in S : f[x] \in Int /\ g[x] \in Int /\ h[x] = f[x] + g[x]
  PROVE  SumOf(h, S) = SumOf(f, S) + SumOf(g, S)
<1> DEFINE Good == {T \in SUBSET S : SumOf(h, T) = SumOf(f, T) + SumOf(g, T)}
<1>1. ASSUME NEW T \in SUBSET S, \A U \in SUBSET T : U # T => U \in Good
      PROVE  T \in Good
  <2>1. IsFiniteSet(T)
    BY FS_Subset
  <2>2. CASE T = {}
    BY <2>2, SumOfNone
  <2>3. CASE T # {}
    <3>1. PICK x \in T : TRUE
      BY <2>3
    <3>2. T \ {x} \in SUBSET T /\ T \ {x} # T /\ IsFiniteSet(T \ {x})
      BY <2>1, FS_RemoveElement
    <3>3. /\ \A y \in T : f[y] \in Int /\ g[y] \in Int /\ h[y] = f[y] + g[y]
          /\ \A y \in T : h[y] \in Int
      OBVIOUS
    <3>4. /\ SumOf(f, T) = f[x] + SumOf(f, T \ {x})
          /\ SumOf(g, T) = g[x] + SumOf(g, T \ {x})
          /\ SumOf(h, T) = h[x] + SumOf(h, T \ {x})
      BY <2>1, <3>3, SumOfElement
    <3>5. SumOf(f, T \ {x}) \in Int /\ SumOf(g, T \ {x}) \in Int
      BY <3>2, <3>3, SumOfElement
    <3>6. SumOf(h, T \ {x}) = SumOf(f, T \ {x}) + SumOf(g, T \ {x})
      BY <1>1, <3>2
    <3>7. SumOf(h, T) = SumOf(f, T) + SumOf(g, T)
      BY <3>3, <3>4, <3>5, <3>6
    <3> QED BY <3>7
  <2> QED BY <2>2, <2>3
<1>2. \A T \in SUBSET S : T \in Good
  <2> HIDE DEF Good
  <2> QED BY <1>1, SubsetInduction
<1> QED BY <1>2

\* A sum is as large as its parts: smaller terms, smaller sum.
LEMMA SumOfOrder ==
  ASSUME NEW S, IsFiniteSet(S), NEW f, NEW g,
         \A x \in S : f[x] \in Int /\ g[x] \in Int /\ f[x] <= g[x]
  PROVE  SumOf(f, S) <= SumOf(g, S)
<1> DEFINE Good == {T \in SUBSET S : SumOf(f, T) <= SumOf(g, T)}
<1>1. ASSUME NEW T \in SUBSET S, \A U \in SUBSET T : U # T => U \in Good
      PROVE  T \in Good
  <2>1. IsFiniteSet(T)
    BY FS_Subset
  <2>2. CASE T = {}
    BY <2>2, SumOfNone
  <2>3. CASE T # {}
    <3>1. PICK x \in T : TRUE
      BY <2>3
    <3>2. T \ {x} \in SUBSET T /\ T \ {x} # T /\ IsFiniteSet(T \ {x})
      BY <2>1, FS_RemoveElement
    <3>3. \A y \in T : f[y] \in Int /\ g[y] \in Int /\ f[y] <= g[y]
      OBVIOUS
    <3>4. /\ SumOf(f, T) = f[x] + SumOf(f, T \ {x})
          /\ SumOf(g, T) = g[x] + SumOf(g, T \ {x})
      BY <2>1, <3>3, SumOfElement
    <3>5. SumOf(f, T \ {x}) \in Int /\ SumOf(g, T \ {x}) \in Int
      BY <3>2, <3>3, SumOfElement
    <3>6. SumOf(f, T \ {x}) <= SumOf(g, T \ {x})
      BY <1>1, <3>2
    <3>7. SumOf(f, T) <= SumOf(g, T)
      BY <3>3, <3>4, <3>5, <3>6
    <3> QED BY <3>7
  <2> QED BY <2>2, <2>3
<1>2. \A T \in SUBSET S : T \in Good
  <2> HIDE DEF Good
  <2> QED BY <1>1, SubsetInduction
<1> QED BY <1>2

\* Equal terms, equal sums.
LEMMA SumOfSame ==
  ASSUME NEW S, IsFiniteSet(S), NEW f, NEW g,
         \A x \in S : f[x] \in Int /\ g[x] = f[x]
  PROVE  SumOf(g, S) = SumOf(f, S)
<1>1. \A x \in S : f[x] \in Int /\ g[x] \in Int /\ f[x] <= g[x] /\ g[x] <= f[x]
  OBVIOUS
<1>2. SumOf(f, S) <= SumOf(g, S) /\ SumOf(g, S) <= SumOf(f, S)
  BY <1>1, SumOfOrder
<1>3. SumOf(f, S) \in Int /\ SumOf(g, S) \in Int
  BY <1>1, SumOfElement
<1> QED BY <1>2, <1>3

\* One term changes: the sum changes by as much.
LEMMA SumOfChange ==
  ASSUME NEW S, IsFiniteSet(S), NEW f, NEW g, NEW x \in S,
         \A y \in S : f[y] \in Int /\ g[y] \in Int,
         \A y \in S \ {x} : g[y] = f[y]
  PROVE  SumOf(g, S) = SumOf(f, S) + (g[x] - f[x])
<1>1. IsFiniteSet(S \ {x})
  BY FS_RemoveElement
<1>2. SumOf(g, S \ {x}) = SumOf(f, S \ {x})
  BY <1>1, SumOfSame
<1>3. SumOf(f, S) = f[x] + SumOf(f, S \ {x}) /\ SumOf(g, S) = g[x] + SumOf(g, S \ {x})
  BY SumOfElement
<1>4. SumOf(f, S \ {x}) \in Int
  BY <1>1, SumOfElement
<1> QED BY <1>2, <1>3, <1>4

\* A sum of naturals is a natural.
LEMMA SumOfNat ==
  ASSUME NEW S, IsFiniteSet(S), NEW f, \A x \in S : f[x] \in Nat
  PROVE  SumOf(f, S) \in Nat
<1> DEFINE z == [x \in S |-> 0]
<1>1. SumOf(z, S) = SumOf(z, S) + SumOf(z, S) /\ SumOf(z, S) \in Int
  BY SumOfLinear, SumOfElement
<1>2. SumOf(z, S) = 0
  <2>1. \A a \in Int : a = a + a => a = 0
    OBVIOUS
  <2> HIDE DEF z
  <2> QED BY <1>1, <2>1
<1>3. SumOf(z, S) <= SumOf(f, S)
  BY SumOfOrder
<1>4. SumOf(f, S) \in Int
  BY SumOfElement
<1> QED BY <1>2, <1>3, <1>4

\* A sum of zeros is zero.
LEMMA SumOfZero ==
  ASSUME NEW S, IsFiniteSet(S), NEW f, \A x \in S : f[x] = 0
  PROVE  SumOf(f, S) = 0
<1>1. \A x \in S : f[x] \in Int /\ f[x] = f[x] + f[x]
  OBVIOUS
<1>2. SumOf(f, S) = SumOf(f, S) + SumOf(f, S) /\ SumOf(f, S) \in Int
  BY <1>1, SumOfLinear, SumOfElement
<1>3. \A a \in Int : a = a + a => a = 0
  OBVIOUS
<1> QED BY <1>2, <1>3

\* Terms that are nowhere larger and somewhere smaller have a smaller sum.
LEMMA SumOfLess ==
  ASSUME NEW S, IsFiniteSet(S), NEW f, NEW g, NEW x \in S, f[x] < g[x],
         \A y \in S : f[y] \in Int /\ g[y] \in Int /\ f[y] <= g[y]
  PROVE  SumOf(f, S) < SumOf(g, S)
<1>1. IsFiniteSet(S \ {x})
  BY FS_RemoveElement
<1>2. SumOf(f, S \ {x}) <= SumOf(g, S \ {x})
  BY <1>1, SumOfOrder
<1>3. SumOf(f, S \ {x}) \in Int /\ SumOf(g, S \ {x}) \in Int
  BY <1>1, SumOfElement
<1>4. SumOf(f, S) = f[x] + SumOf(f, S \ {x}) /\ SumOf(g, S) = g[x] + SumOf(g, S \ {x})
  BY SumOfElement
<1> QED BY <1>2, <1>3, <1>4

\* The sum of multiples is the multiple of the sum.
LEMMA SumOfScaled ==
  ASSUME NEW S, IsFiniteSet(S), NEW c \in Int, NEW f, NEW g,
         \A x \in S : f[x] \in Int /\ g[x] = c * f[x]
  PROVE  SumOf(g, S) = c * SumOf(f, S)
<1> DEFINE Good == {T \in SUBSET S : SumOf(g, T) = c * SumOf(f, T)}
<1>1. ASSUME NEW T \in SUBSET S, \A U \in SUBSET T : U # T => U \in Good
      PROVE  T \in Good
  <2>1. IsFiniteSet(T)
    BY FS_Subset
  <2>2. CASE T = {}
    <3>1. SumOf(f, T) = 0 /\ SumOf(g, T) = 0 /\ c * 0 = 0
      BY <2>2, SumOfNone
    <3> QED BY <3>1
  <2>3. CASE T # {}
    <3>1. PICK x \in T : TRUE
      BY <2>3
    <3>2. T \ {x} \in SUBSET T /\ T \ {x} # T /\ IsFiniteSet(T \ {x})
      BY <2>1, FS_RemoveElement
    <3>3. \A y \in T : f[y] \in Int /\ g[y] \in Int
      OBVIOUS
    <3>4. SumOf(f, T) = f[x] + SumOf(f, T \ {x}) /\ SumOf(g, T) = g[x] + SumOf(g, T \ {x})
      <4>1. SumOf(f, T) = f[x] + SumOf(f, T \ {x})
        BY <2>1, <3>3, SumOfElement
      <4>2. SumOf(g, T) = g[x] + SumOf(g, T \ {x})
        BY <2>1, <3>3, SumOfElement
      <4> QED BY <4>1, <4>2
    <3>5. SumOf(f, T \ {x}) \in Int
      BY <3>2, <3>3, SumOfElement
    <3>6. SumOf(g, T \ {x}) = c * SumOf(f, T \ {x})
      BY <1>1, <3>2
    <3>7. \A a, b \in Int : c * (a + b) = c * a + c * b
      OBVIOUS
    <3>8. SumOf(g, T) = c * SumOf(f, T)
      BY <3>3, <3>4, <3>5, <3>6, <3>7
    <3> QED BY <3>8
  <2> QED BY <2>2, <2>3
<1>2. \A T \in SUBSET S : T \in Good
  <2> HIDE DEF Good
  <2> QED BY <1>1, SubsetInduction
<1> QED BY <1>2

\* Induction from 0 to n, with a set Good.
LEMMA UpTo ==
  ASSUME NEW n \in Nat, NEW Good, 0 \in Good,
         \A i \in Nat : i < n /\ i \in Good => i + 1 \in Good
  PROVE  \A i \in 0 .. n : i \in Good
<1> DEFINE Bad == {i \in 0 .. n : i \notin Good}
<1>1. SUFFICES ASSUME Bad # {} PROVE FALSE
  OBVIOUS
<1>2. Bad \in SUBSET Nat
  OBVIOUS
<1>3. Min(Bad) \in Bad /\ \A y \in Bad : Min(Bad) <= y
  <2> HIDE DEF Bad
  <2> QED BY <1>1, <1>2, MinProperties
<1>4. PICK m \in Bad : \A y \in Bad : m <= y
  BY <1>3
<1>5. m - 1 \in Nat /\ m - 1 < n /\ m - 1 \in Good
  BY <1>4
<1> QED BY <1>4, <1>5

\* A finite non-empty set of naturals has a greatest element, the one Max
\* chooses.
LEMMA MaxProperties ==
  ASSUME NEW S \in SUBSET Nat, S # {}, IsFiniteSet(S)
  PROVE  /\ Max(S) \in S
         /\ \A y \in S : y <= Max(S)
<1> DEFINE Good == {T \in SUBSET S : T = {} \/ \E x \in T : \A y \in T : y <= x}
<1>1. ASSUME NEW T \in SUBSET S, \A U \in SUBSET T : U # T => U \in Good
      PROVE  T \in Good
  <2>1. CASE T = {}
    BY <2>1
  <2>2. CASE T # {}
    <3>1. PICK z \in T : TRUE
      BY <2>2
    <3>2. T \ {z} \in Good
      BY <1>1, <3>1
    <3>3. CASE T \ {z} = {}
      <4>1. \A y \in T : y = z
        BY <3>3
      <4> QED BY <4>1
    <3>4. CASE T \ {z} # {}
      <4>1. PICK x \in T \ {z} : \A y \in T \ {z} : y <= x
        BY <3>2, <3>4
      <4>2. x \in Nat /\ z \in Nat /\ \A y \in T : y \in Nat
        BY <3>1, <4>1
      <4>3. CASE x <= z
        <5>1. \A y \in T : y <= z
          BY <4>1, <4>2, <4>3
        <5> QED BY <5>1
      <4>4. CASE z <= x
        <5>1. \A y \in T : y <= x
          BY <4>1, <4>2, <4>4
        <5> QED BY <5>1
      <4> QED BY <4>2, <4>3, <4>4
    <3> QED BY <3>3, <3>4
  <2> QED BY <2>1, <2>2
<1>2. \A T \in SUBSET S : T \in Good
  <2> HIDE DEF Good
  <2> QED BY <1>1, SubsetInduction
<1>3. PICK x \in S : \A y \in S : y <= x
  BY <1>2
<1>4. x \in Nat /\ \A y \in S : y \in Nat
  OBVIOUS
<1>5. \A y \in S : x >= y
  BY <1>3, <1>4
<1>6. Max(S) \in S /\ \A y \in S : Max(S) >= y
  BY <1>5 DEF Max
<1> QED BY <1>4, <1>6

\* r starts with a and follows the steps of st.
Follows(n, a, st, r) == r[0] = a /\ \A i \in 1 .. n : r[i] = st[i][r[i - 1]]

\* The steps of a recursion on 0 .. n with values in V.
Steps(n, V) == [1 .. n -> [V -> V]]

\* A function defined by recursion on 0 .. n exists when every step stays
\* within a set of values.
LEMMA RecursionExists ==
  ASSUME NEW n \in Nat, NEW V, NEW a \in V, NEW st \in Steps(n, V)
  PROVE  \E r \in [0 .. n -> V] : Follows(n, a, st, r)
<1>0. st \in [1 .. n -> [V -> V]]
  BY DEF Steps
<1> DEFINE Good == {m \in 0 .. n : \E r \in [0 .. m -> V] :
                      r[0] = a /\ \A i \in 1 .. m : r[i] = st[i][r[i - 1]]}
<1>1. 0 \in Good
  <2> DEFINE r == [i \in 0 .. 0 |-> a]
  <2>1. r \in [0 .. 0 -> V] /\ r[0] = a
    OBVIOUS
  <2> HIDE DEF r
  <2> QED BY <2>1
<1>2. ASSUME NEW m \in Nat, m < n, m \in Good PROVE m + 1 \in Good
  <2>1. PICK r \in [0 .. m -> V] : r[0] = a /\ \A i \in 1 .. m : r[i] = st[i][r[i - 1]]
    BY <1>2
  <2> DEFINE q == [i \in 0 .. (m + 1) |-> IF i <= m THEN r[i] ELSE st[m + 1][r[m]]]
  <2>2. r[m] \in V /\ m + 1 \in 1 .. n
    BY <1>2
  <2>3. st[m + 1][r[m]] \in V
    BY <1>0, <2>2
  <2>4. q \in [0 .. (m + 1) -> V]
    <3>1. ASSUME NEW i \in 0 .. (m + 1), i <= m PROVE r[i] \in V
      BY <3>1
    <3> QED BY <2>3, <3>1
  <2>5. q[0] = a
    BY <2>1
  <2>6. ASSUME NEW i \in 1 .. (m + 1) PROVE q[i] = st[i][q[i - 1]]
    <3>1. i - 1 \in 0 .. m /\ q[i - 1] = r[i - 1]
      OBVIOUS
    <3>2. CASE i <= m
      <4>1. i \in 1 .. m /\ q[i] = r[i]
        BY <3>2
      <4> QED BY <2>1, <3>1, <4>1
    <3>3. CASE i = m + 1
      <4>1. q[i] = st[m + 1][r[m]] /\ i - 1 = m
        BY <3>3
      <4> QED BY <3>1, <3>3, <4>1
    <3> QED BY <3>2, <3>3
  <2>7. m + 1 \in 0 .. n
    BY <1>2
  <2> HIDE DEF q
  <2> QED BY <2>4, <2>5, <2>6, <2>7
<1>3. \A i \in 0 .. n : i \in Good
  <2> HIDE DEF Good
  <2> QED BY <1>1, <1>2, UpTo
<1>4. n \in Good
  BY <1>3
<1> QED BY <1>4 DEF Follows

\* The sum of a disjoint union is the sum of the sums.
LEMMA SumOfUnion ==
  ASSUME NEW A, NEW B, IsFiniteSet(A), IsFiniteSet(B), A \cap B = {}, NEW f,
         \A x \in A \cup B : f[x] \in Int
  PROVE  SumOf(f, A \cup B) = SumOf(f, A) + SumOf(f, B)
<1> DEFINE Good == {T \in SUBSET B : SumOf(f, A \cup T) = SumOf(f, A) + SumOf(f, T)}
<1>1. ASSUME NEW T \in SUBSET B, \A U \in SUBSET T : U # T => U \in Good
      PROVE  T \in Good
  <2>1. IsFiniteSet(T) /\ SumOf(f, A) \in Int
    BY FS_Subset, SumOfElement
  <2>2. CASE T = {}
    <3>1. A \cup T = A /\ SumOf(f, T) = 0
      BY <2>2, SumOfNone
    <3>2. \A a \in Int : a = a + 0
      OBVIOUS
    <3>3. SumOf(f, A \cup T) = SumOf(f, A) + SumOf(f, T)
      BY <2>1, <3>1, <3>2
    <3> QED BY <3>3
  <2>3. CASE T # {}
    <3>1. PICK x \in T : TRUE
      BY <2>3
    <3>2. T \ {x} \in Good /\ IsFiniteSet(T \ {x})
      BY <1>1, <2>1, <3>1, FS_RemoveElement
    <3>3. SumOf(f, T) = f[x] + SumOf(f, T \ {x}) /\ SumOf(f, T \ {x}) \in Int
      <4>1. \A y \in T : f[y] \in Int
        OBVIOUS
      <4>2. SumOf(f, T) = f[x] + SumOf(f, T \ {x})
        BY <2>1, <4>1, SumOfElement
      <4>3. SumOf(f, T \ {x}) \in Int
        BY <3>2, <4>1, SumOfElement
      <4> QED BY <4>2, <4>3
    <3>4. SumOf(f, A \cup T) = f[x] + SumOf(f, A \cup (T \ {x}))
      <4>1. IsFiniteSet(A \cup T)
        BY <2>1, FS_Union
      <4>2. \A y \in A \cup T : f[y] \in Int
        OBVIOUS
      <4>3. x \in A \cup T /\ (A \cup T) \ {x} = A \cup (T \ {x})
        BY <3>1
      <4>4. SumOf(f, A \cup T) = f[x] + SumOf(f, (A \cup T) \ {x})
        BY <4>1, <4>2, <4>3, SumOfElement
      <4> QED BY <4>3, <4>4
    <3>5. SumOf(f, A \cup (T \ {x})) = SumOf(f, A) + SumOf(f, T \ {x})
      BY <3>2
    <3>6. f[x] \in Int
      BY <3>1
    <3>7. SumOf(f, A \cup T) = SumOf(f, A) + SumOf(f, T)
      BY <2>1, <3>3, <3>4, <3>5, <3>6
    <3> QED BY <3>7
  <2> QED BY <2>2, <2>3
<1>2. \A T \in SUBSET B : T \in Good
  <2> HIDE DEF Good
  <2> QED BY <1>1, SubsetInduction
<1>3. B \in Good
  BY <1>2
<1> QED BY <1>3

\* Terms that are zero add nothing.
LEMMA SumOfRest ==
  ASSUME NEW S, NEW T \in SUBSET S, IsFiniteSet(S), NEW f, \A x \in S : f[x] \in Int,
         \A x \in S \ T : f[x] = 0
  PROVE  SumOf(f, S) = SumOf(f, T)
<1>1. IsFiniteSet(T) /\ IsFiniteSet(S \ T) /\ T \cap (S \ T) = {} /\ T \cup (S \ T) = S
  BY FS_Subset
<1>2. \A x \in T \cup (S \ T) : f[x] \in Int
  OBVIOUS
<1>3. SumOf(f, T \cup (S \ T)) = SumOf(f, T) + SumOf(f, S \ T)
  BY <1>1, <1>2, SumOfUnion
<1>4. SumOf(f, S \ T) = 0
  BY <1>1, SumOfZero
<1>5. SumOf(f, T) \in Int
  BY <1>1, SumOfElement
<1>6. \A a \in Int : a + 0 = a
  OBVIOUS
<1> QED BY <1>1, <1>3, <1>4, <1>5, <1>6

\* Equal terms add up to a multiple.
LEMMA SumOfConstant ==
  ASSUME NEW S, IsFiniteSet(S), NEW c \in Int, NEW f, \A x \in S : f[x] = c
  PROVE  /\ Cardinality(S) \in Nat
         /\ SumOf(f, S) = Cardinality(S) * c
<1> DEFINE Good == {T \in SUBSET S : SumOf(f, T) = Cardinality(T) * c}
<1>1. ASSUME NEW T \in SUBSET S, \A U \in SUBSET T : U # T => U \in Good
      PROVE  T \in Good
  <2>1. IsFiniteSet(T)
    BY FS_Subset
  <2>2. CASE T = {}
    <3>1. SumOf(f, T) = 0 /\ Cardinality(T) = 0 /\ 0 * c = 0
      BY <2>2, SumOfNone, FS_EmptySet
    <3> QED BY <3>1
  <2>3. CASE T # {}
    <3>1. PICK x \in T : TRUE
      BY <2>3
    <3>2. T \ {x} \in Good
      BY <1>1, <3>1
    <3>3. PICK n \in Nat : n = Cardinality(T \ {x}) /\ Cardinality(T) = n + 1
      <4>1. IsFiniteSet(T \ {x}) /\ Cardinality(T \ {x}) = Cardinality(T) - 1
        BY <2>1, <3>1, FS_RemoveElement
      <4>2. Cardinality(T \ {x}) \in Nat /\ Cardinality(T) \in Nat
        BY <2>1, <4>1, FS_CardinalityType
      <4> QED BY <4>1, <4>2
    <3>4. SumOf(f, T) = f[x] + SumOf(f, T \ {x})
      <4>1. \A y \in T : f[y] \in Int
        OBVIOUS
      <4> QED BY <2>1, <4>1, SumOfElement
    <3>5. SumOf(f, T) = c + n * c
      BY <3>1, <3>2, <3>3, <3>4
    <3>6. c + n * c = (n + 1) * c
      OBVIOUS
    <3>7. SumOf(f, T) = Cardinality(T) * c
      BY <3>3, <3>5, <3>6
    <3> QED BY <3>7
  <2> QED BY <2>2, <2>3
<1>2. \A T \in SUBSET S : T \in Good
  <2> HIDE DEF Good
  <2> QED BY <1>1, SubsetInduction
<1>3. S \in Good
  BY <1>2
<1>4. Cardinality(S) \in Nat
  BY FS_CardinalityType
<1> QED BY <1>3, <1>4

\* The elements h names for the elements of a set.
Image(h, S) == {h[x] : x \in S}

\* A sum may be taken over other elements, one for each.
LEMMA SumOfImage ==
  ASSUME NEW S, IsFiniteSet(S), NEW f, NEW g, NEW h,
         \A x \in S : f[x] \in Int /\ g[h[x]] = f[x],
         \A x, y \in S : h[x] = h[y] => x = y
  PROVE  /\ IsFiniteSet(Image(h, S))
         /\ SumOf(g, Image(h, S)) = SumOf(f, S)
<1> DEFINE Good == {T \in SUBSET S : /\ IsFiniteSet(Image(h, T))
                                     /\ SumOf(g, Image(h, T)) = SumOf(f, T)}
<1>1. ASSUME NEW T \in SUBSET S, \A U \in SUBSET T : U # T => U \in Good
      PROVE  T \in Good
  <2>1. IsFiniteSet(T)
    BY FS_Subset
  <2>2. CASE T = {}
    <3>1. Image(h, T) = {}
      BY <2>2 DEF Image
    <3> QED BY <2>2, <3>1, SumOfNone, FS_EmptySet
  <2>3. CASE T # {}
    <3>1. PICK x \in T : TRUE
      BY <2>3
    <3>2. T \ {x} \in Good
      BY <1>1, <3>1
    <3>3. PICK I : I = Image(h, T \ {x})
      OBVIOUS
    <3>4. IsFiniteSet(I) /\ SumOf(g, I) = SumOf(f, T \ {x})
      BY <3>2, <3>3
    <3>5. Image(h, T) = I \cup {h[x]} /\ h[x] \notin I
      BY <3>1, <3>3 DEF Image
    <3>6. \A y \in I \cup {h[x]} : g[y] \in Int
      BY <3>1, <3>3 DEF Image
    <3>7. SumOf(g, I \cup {h[x]}) = g[h[x]] + SumOf(g, I)
      BY <3>4, <3>5, <3>6, SumOfOneMore
    <3>8. SumOf(f, T) = f[x] + SumOf(f, T \ {x})
      <4>1. \A y \in T : f[y] \in Int
        OBVIOUS
      <4> QED BY <2>1, <3>1, <4>1, SumOfElement
    <3>9. IsFiniteSet(I \cup {h[x]})
      BY <3>4, FS_AddElement
    <3>10. g[h[x]] = f[x]
      BY <3>1
    <3>11. SumOf(g, Image(h, T)) = SumOf(f, T) /\ IsFiniteSet(Image(h, T))
      BY <3>4, <3>5, <3>7, <3>8, <3>9, <3>10
    <3> QED BY <3>11
  <2> QED BY <2>2, <2>3
<1>2. \A T \in SUBSET S : T \in Good
  <2> HIDE DEF Good
  <2> QED BY <1>1, SubsetInduction
<1>3. S \in Good
  BY <1>2
<1> QED BY <1>3

-----------------------------------------------------------------------------
(* Types of what a block end writes.                                       *)

\* The next block belongs to the epoch of the last one or to a later one.
LEMMA NextEpochsType ==
  ASSUME TypeOK, NEW e \in NextEpochs
  PROVE  /\ e \in 0 .. MaxEpoch
         /\ height # 0 => e >= currentEpoch
         /\ height = 0 => e = 0
BY BoundAssumption, EpochAssumption DEF TypeOK, NextEpochs, GENESIS_EPOCH_INDEX

\* The trees created fifty years ahead are epochs of the run.
LEMMA NewTreesType ==
  ASSUME TypeOK, NEW e \in 0 .. MaxEpoch
  PROVE  NewTrees(e) \subseteq Epochs
<1>1. PERPETUAL_STORAGE_EPOCHS \in Nat /\ MaxEpoch \in Nat
  BY EpochAssumption, BoundAssumption
<1>2. \A i \in LastInitiatedEpoch .. e : i \in 0 .. MaxEpoch
  BY <1>1 DEF TypeOK, LastInitiatedEpoch, GENESIS_EPOCH_INDEX
<1> QED
  BY <1>1, <1>2 DEF NewTrees, Epochs

\* The share of one epoch is a number of credits.
LEMMA EpochFeeShareType ==
  ASSUME TypeOK, NEW year \in 1 .. PERPETUAL_STORAGE_YEARS
  PROVE  EpochFeeShare(year) \in Nat
<1>1. FEE_DISTRIBUTION_TABLE[year] \in Nat
  BY TableAssumption
<1>2. storagePool * FEE_DISTRIBUTION_TABLE[year] \in Nat
  BY <1>1 DEF TypeOK
<1>3. TABLE_ONE * EPOCHS_PER_YEAR \in Nat \ {0}
  BY TableAssumption, EpochAssumption
<1> QED
  BY <1>2, <1>3, DivType DEF EpochFeeShare

\* The year an epoch of the distribution falls in is one of the table's.
LEMMA YearInTable ==
  ASSUME NEW e \in Nat,
         NEW i \in e .. (e + PERPETUAL_STORAGE_EPOCHS - 1)
  PROVE  (i - e) \div EPOCHS_PER_YEAR + 1 \in 1 .. PERPETUAL_STORAGE_YEARS
<1> DEFINE k == i - e
           n == EPOCHS_PER_YEAR
           q == k \div n
<1>1. n \in Nat \ {0} /\ PERPETUAL_STORAGE_YEARS \in Nat
  BY EpochAssumption
<1>2. k \in Nat /\ k < PERPETUAL_STORAGE_YEARS * n
  BY EpochAssumption DEF PERPETUAL_STORAGE_EPOCHS
<1>3. q \in Nat /\ n * q <= k
  BY <1>1, <1>2
<1>4. q < PERPETUAL_STORAGE_YEARS
  <2> SUFFICES ASSUME q >= PERPETUAL_STORAGE_YEARS PROVE FALSE
    BY <1>1, <1>3
  <2> HIDE DEF q, k, n
  <2>1. n * q >= n * PERPETUAL_STORAGE_YEARS
    BY <1>1, <1>3
  <2> QED BY <2>1, <1>1, <1>2, <1>3
<1> HIDE DEF q
<1> QED
  BY <1>1, <1>3, <1>4 DEF q

\* Storage items stay credits or absent.
LEMMA StorageType ==
  ASSUME TypeOK, NEW e \in 0 .. MaxEpoch
  PROVE  StorageAfterDistribution(e) \in [Epochs -> CreditItem]
<1>1. \A i \in e .. (e + PERPETUAL_STORAGE_EPOCHS - 1) :
        EpochFeeShare((i - e) \div EPOCHS_PER_YEAR + 1) \in Nat
  <2> TAKE i \in e .. (e + PERPETUAL_STORAGE_EPOCHS - 1)
  <2>1. (i - e) \div EPOCHS_PER_YEAR + 1 \in 1 .. PERPETUAL_STORAGE_YEARS
    BY YearInTable, BoundAssumption
  <2> QED BY <2>1, EpochFeeShareType
<1>2. \A i \in Epochs : storage[i] \in Nat \/ storage[i] = NoItem
  BY DEF TypeOK, CreditItem
<1> QED
  BY <1>1, <1>2 DEF StorageAfterDistribution, CreditItem

\* Processed block counts are counts.
LEMMA CountsType ==
  ASSUME TypeOK, NEW e \in 0 .. MaxEpoch, NEW p \in Proposers
  PROVE  ProcessedCounts(p, e) \in [Epochs -> [Proposers -> Nat]]
<1>1. e \in Epochs
  BY EpochAssumption, BoundAssumption DEF Epochs
<1>2. \A i \in Epochs, q \in Proposers : blockCounts[i][q] \in Nat
  BY DEF TypeOK
<1>3. [q \in Proposers |-> (IF IsEpochChange(e) THEN 0 ELSE blockCounts[e][q])
                             + (IF q = p THEN 1 ELSE 0)] \in [Proposers -> Nat]
  BY <1>1, <1>2
<1> QED
  BY <1>2, <1>3 DEF ProcessedCounts, TypeOK

\* A payout whose amounts are credits leaves balances of credits.
LEMMA BalancesType ==
  ASSUME TypeOK, NEW e \in 0 .. MaxEpoch, PayoutSucceeds(e)
  PROVE  ProcessedBalances(e) \in [Identities -> Nat]
<1>1. \A id \in Identities : balances[id] \in Nat
  BY DEF TypeOK
<1>2. CASE NeedsPayment(e)
  <2>1. \A y \in Payments(e) : y.amount \in Nat
    BY <1>2 DEF PayoutSucceeds
  <2>2. ASSUME NEW id \in Identities, LastPayments(e, id) # {}
        PROVE  (CHOOSE y \in LastPayments(e, id) : TRUE).amount \in Nat
    <3>1. (CHOOSE y \in LastPayments(e, id) : TRUE) \in LastPayments(e, id)
      BY <2>2
    <3>2. LastPayments(e, id) \subseteq Payments(e)
      BY DEF LastPayments, PaymentsTo
    <3> QED BY <2>1, <3>1, <3>2
  <2> QED BY <1>1, <1>2, <2>2 DEF ProcessedBalances
<1>3. CASE ~NeedsPayment(e)
  BY <1>3 DEF ProcessedBalances, TypeOK
<1> QED BY <1>2, <1>3

\* The epoch to pay next is a started epoch after the unpaid one, or the
\* epoch of the block; no epoch between has been started.
LEMMA NextUnpaidEpochProperties ==
  ASSUME TypeOK, NEW e \in 0 .. MaxEpoch, unpaidEpoch < e
  PROVE  /\ NextUnpaidEpoch(e) \in (unpaidEpoch + 1) .. e
         /\ \A i \in (unpaidEpoch + 1) .. (NextUnpaidEpoch(e) - 1) : startBlock[i] = NoItem
         /\ NextUnpaidEpoch(e) # e => startBlock[NextUnpaidEpoch(e)] # NoItem
<1> DEFINE S == StartedAfterUnpaid(e)
<1>0. unpaidEpoch \in Nat /\ e \in Nat
  BY BoundAssumption DEF TypeOK
<1>1. S \subseteq Nat /\ S \subseteq (unpaidEpoch + 1) .. e
  BY <1>0 DEF StartedAfterUnpaid
<1>2. CASE S # {} /\ unpaidEpoch # e - 1
  <2>1. Min(S) \in S /\ \A y \in S : Min(S) <= y
    BY <1>1, <1>2, MinProperties
  <2>2. NextUnpaidEpoch(e) = Min(S)
    BY <1>2 DEF NextUnpaidEpoch
  <2>3. ASSUME NEW i \in (unpaidEpoch + 1) .. (Min(S) - 1)
        PROVE  startBlock[i] = NoItem
    <3>1. i \in (unpaidEpoch + 1) .. e /\ i < Min(S) /\ i \in Nat /\ Min(S) \in Nat
      BY <1>0, <1>1, <2>1
    <3>2. i \notin S
      BY <2>1, <3>1
    <3> QED BY <3>1, <3>2 DEF StartedAfterUnpaid
  <2>4. startBlock[Min(S)] # NoItem
    BY <2>1 DEF StartedAfterUnpaid
  <2> QED BY <1>1, <2>1, <2>2, <2>3, <2>4
<1>3. CASE unpaidEpoch = e - 1
  BY <1>0, <1>3 DEF NextUnpaidEpoch
<1>4. CASE S = {}
  <2>1. NextUnpaidEpoch(e) = e
    BY <1>4 DEF NextUnpaidEpoch
  <2>2. \A i \in (unpaidEpoch + 1) .. e : startBlock[i] = NoItem
    BY <1>4 DEF StartedAfterUnpaid
  <2> QED BY <1>0, <2>1, <2>2
<1> QED BY <1>2, <1>3, <1>4

-----------------------------------------------------------------------------
(* The inductive invariant.                                                *)

\* The state after init_chain satisfies the invariant.
LEMMA PoolsInvInit == Init => PoolsInv
<1> SUFFICES ASSUME Init PROVE PoolsInv
  OBVIOUS
<1>1. PERPETUAL_STORAGE_EPOCHS \in Nat \ {0} /\ MaxEpoch \in Nat
  BY EpochAssumption, BoundAssumption
<1>2. TypeOK
  <2>1. trees \subseteq Epochs
    BY <1>1 DEF Init, Epochs
  <2>2. storage \in [Epochs -> CreditItem]
    BY DEF Init, CreditItem
  <2> QED BY <1>1, <2>1, <2>2 DEF Init, TypeOK, CreditItem, GENESIS_EPOCH_INDEX
<1>3. Started = {}
  BY DEF Init, Started
<1> QED
  BY <1>2, <1>3 DEF Init, PoolsInv, StartBlocksOrdered, OpenEpochsReadable, TreesContiguous

\* While the invariant holds, an epoch that needs payment is an earlier one.
LEMMA NeedsPaymentEarlier ==
  ASSUME PoolsInv, NEW e \in NextEpochs
  PROVE  /\ unpaidEpoch <= currentEpoch
         /\ currentEpoch <= e
         /\ NeedsPayment(e) => unpaidEpoch < e
<1>1. unpaidEpoch \in Nat /\ currentEpoch \in Nat /\ e \in Nat /\ height \in Nat
  BY NextEpochsType, BoundAssumption DEF PoolsInv, TypeOK
<1>2. currentEpoch <= e
  BY <1>1, NextEpochsType DEF PoolsInv, GENESIS_EPOCH_INDEX
<1>3. unpaidEpoch <= currentEpoch
  BY <1>1 DEF PoolsInv, StartBlocksOrdered, OpenEpochsReadable, GENESIS_EPOCH_INDEX
<1> QED
  BY <1>1, <1>2, <1>3 DEF NeedsPayment

\* A successful block end preserves the invariant.
LEMMA BlockEndOkPreserves ==
  ASSUME PoolsInv, NEW e \in NextEpochs, NEW p \in Proposers, NEW f \in Fees,
         BlockEndOk(p, e, f)
  PROVE  PoolsInv'
<1>0. TypeOK
  BY DEF PoolsInv
<1>1. /\ e \in 0 .. MaxEpoch /\ e \in Nat /\ e \in Epochs
      /\ PERPETUAL_STORAGE_EPOCHS \in Nat \ {0}
      /\ MaxEpoch \in Nat
      /\ height \in Nat /\ currentEpoch \in Nat /\ unpaidEpoch \in Nat
      /\ unpaidEpoch \in Epochs
  BY <1>0, NextEpochsType, EpochAssumption, BoundAssumption DEF TypeOK, Epochs
<1>2. /\ unpaidEpoch <= currentEpoch
      /\ currentEpoch <= e
      /\ NeedsPayment(e) => unpaidEpoch < e
  BY NeedsPaymentEarlier
<1>3. ~IsEpochChange(e) => e = currentEpoch /\ e \in Started
  BY <1>1, <1>2 DEF IsEpochChange, PoolsInv, OpenEpochsReadable
<1>4. MarksAsPaid(e) =>
        /\ NextUnpaidEpoch(e) \in (unpaidEpoch + 1) .. e
        /\ NextUnpaidEpoch(e) # e => startBlock[NextUnpaidEpoch(e)] # NoItem
  BY <1>0, <1>1, <1>2, NextUnpaidEpochProperties DEF MarksAsPaid
<1>5. TypeOK'
  <2>1. height' \in Nat /\ currentEpoch' \in 0 .. MaxEpoch /\ outcome' \in {"ok", "error"}
    BY <1>1 DEF BlockEndOk
  <2>2. trees' \subseteq Epochs
    BY <1>0, <1>1, NewTreesType DEF BlockEndOk, TypeOK
  <2>3. startBlock' \in [Epochs -> CreditItem]
    BY <1>0, <1>1 DEF BlockEndOk, StartBlocksAfter, TypeOK, CreditItem
  <2>4. proposersTree' \subseteq Epochs
    BY <1>0, <1>1 DEF BlockEndOk, TypeOK
  <2>5. blockCounts' \in [Epochs -> [Proposers -> Nat]]
    BY <1>0, <1>1, CountsType DEF BlockEndOk
  <2>6. storage' \in [Epochs -> CreditItem]
    BY <1>0, <1>1, StorageType DEF BlockEndOk, CreditItem
  <2>7. processing' \in [Epochs -> CreditItem]
    <3>1. f.processing \in Nat
      BY FeesAssumption
    <3>2. \A i \in Epochs : processing[i] \in Nat \/ processing[i] = NoItem
      BY <1>0 DEF TypeOK, CreditItem
    <3> QED BY <1>1, <3>1, <3>2 DEF BlockEndOk, ProcessingAfter, CreditItem
  <2>8. storagePool' \in Nat
    <3>1. f.storage \in Nat
      BY FeesAssumption
    <3> QED BY <3>1 DEF BlockEndOk, BlockEndSucceeds
  <2>9. unpaidEpoch' \in 0 .. MaxEpoch
    BY <1>0, <1>1, <1>4 DEF BlockEndOk, TypeOK
  <2>10. balances' \in [Identities -> Nat]
    BY <1>0, <1>1, BalancesType DEF BlockEndOk, BlockEndSucceeds
  <2>11. rewardShares' \subseteq RewardShare
    BY <1>0 DEF BlockEndOk, TypeOK
  <2> QED BY <2>1, <2>2, <2>3, <2>4, <2>5, <2>6, <2>7, <2>8, <2>9, <2>10, <2>11 DEF TypeOK
<1>6. height' = height + 1 /\ height' # 0 /\ currentEpoch' = e
  BY <1>1 DEF BlockEndOk
<1>7. Started' = Started \cup {e} /\ \A i \in Started : i # e => startBlock'[i] = startBlock[i]
  <2>1. CASE IsEpochChange(e)
    <3>1. startBlock' = [startBlock EXCEPT ![e] = height + 1]
      BY <2>1 DEF BlockEndOk, StartBlocksAfter
    <3>2. height + 1 # NoItem
      BY <1>1, ItemAssumption
    <3> QED BY <1>0, <1>1, <3>1, <3>2 DEF Started, TypeOK
  <2>2. CASE ~IsEpochChange(e)
    <3>1. startBlock' = startBlock
      BY <2>2 DEF BlockEndOk, StartBlocksAfter
    <3> QED BY <1>3, <2>2, <3>1 DEF Started
  <2> QED BY <2>1, <2>2
<1>8. StartBlocksOrdered'
  <2>1. \A i \in Started : i \in Nat /\ i <= currentEpoch /\ startBlock[i] \in 1 .. height
    BY <1>1 DEF PoolsInv, StartBlocksOrdered, Started, Epochs
  <2>2. \A i, j \in Started : i < j => startBlock[i] < startBlock[j]
    BY DEF PoolsInv, StartBlocksOrdered
  <2>3. CASE IsEpochChange(e)
    <3>1. \A i \in Started : i < e
      BY <1>1, <1>2, <2>1, <2>3 DEF IsEpochChange
    <3>2. startBlock'[e] = height + 1
      BY <1>0, <1>1, <2>3 DEF BlockEndOk, StartBlocksAfter, TypeOK
    <3>3. \A i \in Started : startBlock'[i] = startBlock[i] /\ startBlock[i] < height + 1
      BY <1>1, <1>7, <2>1, <3>1
    <3>4. \A i \in Started' : i <= currentEpoch' /\ startBlock'[i] \in 1 .. height'
      BY <1>1, <1>6, <1>7, <2>1, <3>1, <3>2, <3>3
    <3>5. \A i, j \in Started' : i < j => startBlock'[i] < startBlock'[j]
      BY <1>1, <1>7, <2>1, <2>2, <3>1, <3>2, <3>3
    <3> QED BY <3>4, <3>5 DEF StartBlocksOrdered
  <2>4. CASE ~IsEpochChange(e)
    <3>1. startBlock' = startBlock /\ Started' = Started
      BY <1>3, <1>7, <2>4 DEF BlockEndOk, StartBlocksAfter
    <3> QED BY <1>1, <1>2, <1>6, <2>1, <2>2, <3>1 DEF StartBlocksOrdered
  <2> QED BY <2>3, <2>4
<1>9. OpenEpochsReadable'
  <2>1. unpaidEpoch' \in Started'
    <3>1. CASE MarksAsPaid(e)
      <4>1. unpaidEpoch' = NextUnpaidEpoch(e)
        BY <3>1 DEF BlockEndOk
      <4>2. NextUnpaidEpoch(e) \in Epochs
        BY <1>1, <1>4, <3>1 DEF Epochs
      <4> QED BY <1>4, <1>7, <3>1, <4>1, <4>2 DEF Started
    <3>2. CASE ~MarksAsPaid(e)
      <4>1. unpaidEpoch' = unpaidEpoch
        BY <3>2 DEF BlockEndOk
      <4>2. CASE height = 0
        BY <1>7, <4>1, <4>2, NextEpochsType DEF PoolsInv, GENESIS_EPOCH_INDEX
      <4>3. CASE height > 0
        BY <1>7, <4>1, <4>3 DEF PoolsInv, OpenEpochsReadable
      <4> QED BY <1>1, <4>2, <4>3
    <3> QED BY <3>1, <3>2
  <2>2. currentEpoch' \in Started'
    BY <1>6, <1>7
  <2>3. ASSUME NEW i \in Started', i >= unpaidEpoch'
        PROVE  i \in proposersTree' /\ processing'[i] # NoItem
    <3>1. i \in Nat /\ i \in Epochs
      BY <1>1 DEF Started, Epochs
    <3>2. i >= unpaidEpoch /\ (MarksAsPaid(e) => i # unpaidEpoch)
      BY <1>1, <1>4, <2>3, <3>1 DEF BlockEndOk
    <3>3. CASE i = e
      <4>1. i \in proposersTree'
        BY <3>2, <3>3 DEF BlockEndOk
      <4>2. processing'[e] \in Nat
        <5>1. f.processing \in Nat
          BY FeesAssumption
        <5>2. processing[e] \in Nat \/ processing[e] = NoItem
          BY <1>0, <1>1 DEF TypeOK, CreditItem
        <5> QED BY <1>1, <5>1, <5>2 DEF BlockEndOk, ProcessingAfter
      <4> QED BY <3>3, <4>1, <4>2, ItemAssumption
    <3>4. CASE i # e
      <4>1. i \in Started
        BY <1>7, <3>4
      <4>2. height > 0
        BY <1>1, <4>1 DEF PoolsInv, StartBlocksOrdered
      <4>3. i \in proposersTree /\ processing[i] # NoItem
        BY <3>2, <4>1, <4>2 DEF PoolsInv, OpenEpochsReadable
      <4> QED BY <3>1, <3>2, <3>4, <4>3 DEF BlockEndOk, ProcessingAfter
    <3> QED BY <3>3, <3>4
  <2> QED BY <2>1, <2>2, <2>3 DEF OpenEpochsReadable
<1>10. TreesContiguous'
  <2>0. trees' = trees \cup NewTrees(e)
    BY DEF BlockEndOk
  <2>1. CASE height = 0
    <3>1. trees = 0 .. (PERPETUAL_STORAGE_EPOCHS - 1) /\ e = 0 /\ currentEpoch = 0
      BY <2>1, <1>0, NextEpochsType DEF PoolsInv, TreesContiguous, GENESIS_EPOCH_INDEX
    <3>2. NewTrees(e) = {PERPETUAL_STORAGE_EPOCHS}
      BY <1>1, <2>1, <3>1 DEF NewTrees, LastInitiatedEpoch, IsEpochChange, GENESIS_EPOCH_INDEX
    <3> QED BY <1>1, <1>6, <2>0, <3>1, <3>2 DEF TreesContiguous
  <2>2. CASE height # 0 /\ e > currentEpoch
    <3>1. trees = 0 .. (currentEpoch + PERPETUAL_STORAGE_EPOCHS)
      BY <2>2 DEF PoolsInv, TreesContiguous
    <3>2. NewTrees(e) = (currentEpoch + 1 + PERPETUAL_STORAGE_EPOCHS)
                          .. (e + PERPETUAL_STORAGE_EPOCHS)
      <4>1. NewTrees(e) = {i + PERPETUAL_STORAGE_EPOCHS : i \in (currentEpoch + 1) .. e}
        BY <2>2 DEF NewTrees, LastInitiatedEpoch, IsEpochChange
      <4>2. ASSUME NEW j \in (currentEpoch + 1 + PERPETUAL_STORAGE_EPOCHS)
                               .. (e + PERPETUAL_STORAGE_EPOCHS)
            PROVE  j \in NewTrees(e)
        <5>1. j - PERPETUAL_STORAGE_EPOCHS \in (currentEpoch + 1) .. e
          BY <1>1
        <5>2. j = (j - PERPETUAL_STORAGE_EPOCHS) + PERPETUAL_STORAGE_EPOCHS
          BY <1>1
        <5> QED BY <4>1, <5>1, <5>2
      <4>3. \A j \in NewTrees(e) : j \in (currentEpoch + 1 + PERPETUAL_STORAGE_EPOCHS)
                                          .. (e + PERPETUAL_STORAGE_EPOCHS)
        BY <1>1, <4>1
      <4> QED BY <4>2, <4>3
    <3> QED BY <1>1, <1>6, <2>0, <2>2, <3>1, <3>2 DEF TreesContiguous
  <2>3. CASE height # 0 /\ ~(e > currentEpoch)
    <3>1. trees' = trees /\ e = currentEpoch
      BY <1>1, <1>2, <2>0, <2>3 DEF NewTrees, IsEpochChange
    <3> QED BY <1>6, <2>3, <3>1 DEF PoolsInv, TreesContiguous
  <2> QED BY <2>1, <2>2, <2>3
<1> QED
  BY <1>5, <1>6, <1>8, <1>9, <1>10 DEF PoolsInv

\* Every step preserves the invariant.
LEMMA PoolsInvNext == PoolsInv /\ [Next]_vars => PoolsInv'
<1> SUFFICES ASSUME PoolsInv, [Next]_vars PROVE PoolsInv'
  OBVIOUS
<1>1. CASE BlockEnd
  <2>1. PICK e \in NextEpochs :
          \/ \E p \in Proposers, f \in Fees : BlockEndOk(p, e, f)
          \/ BlockEndError(e)
    BY <1>1 DEF BlockEnd
  <2>2. CASE \E p \in Proposers, f \in Fees : BlockEndOk(p, e, f)
    BY <2>2, BlockEndOkPreserves
  <2>3. CASE BlockEndError(e)
    BY <2>3 DEF BlockEndError, pools, PoolsInv, TypeOK, StartBlocksOrdered,
                OpenEpochsReadable, TreesContiguous, Started
  <2> QED BY <2>1, <2>2, <2>3
<1>2. ASSUME rewardShares' \subseteq RewardShare,
             UNCHANGED <<height, currentEpoch, pools, outcome>>
      PROVE  PoolsInv'
  BY <1>2 DEF pools, PoolsInv, TypeOK, StartBlocksOrdered, OpenEpochsReadable,
              TreesContiguous, Started
<1>3. rewardShares \subseteq RewardShare
  BY DEF PoolsInv, TypeOK
<1>4. CASE CreateRewardShare
  BY <1>2, <1>3, <1>4 DEF CreateRewardShare
<1>5. CASE ReplaceRewardShare
  BY <1>2, <1>3, <1>5 DEF ReplaceRewardShare, RewardShare
<1>6. CASE DeleteRewardShare
  BY <1>2, <1>3, <1>6 DEF DeleteRewardShare
<1>7. CASE UNCHANGED vars
  BY <1>2, <1>3, <1>7 DEF vars
<1> QED
  BY <1>1, <1>4, <1>5, <1>6, <1>7 DEF Next

-----------------------------------------------------------------------------
(* Invariants of the specification.                                        *)

\* The inductive invariant holds in every reachable state.
THEOREM PoolsInvariant == Spec => []PoolsInv
BY PoolsInvInit, PoolsInvNext, PTL DEF Spec

\* Every state of the fee pools is well typed: no block end, however its
\* distribution and payout interleave, leaves a negative or misplaced amount.
THEOREM TypeCorrect == Spec => []TypeOK
<1>1. PoolsInv => TypeOK
  BY DEF PoolsInv
<1> QED
  BY <1>1, PoolsInvariant, PTL

\* Start heights grow strictly with the epoch.
THEOREM StartBlocksAlwaysOrdered == Spec => []StartBlocksOrdered
<1>1. PoolsInv => StartBlocksOrdered
  BY DEF PoolsInv
<1> QED
  BY <1>1, PoolsInvariant, PTL

\* The unpaid index names a started epoch that can still be paid.
THEOREM OpenEpochsAlwaysReadable == Spec => []OpenEpochsReadable
<1>1. PoolsInv => OpenEpochsReadable
  BY DEF PoolsInv
<1> QED
  BY <1>1, PoolsInvariant, PTL

\* The trees of the next fifty years have no hole, however many epochs lie
\* between two blocks.
THEOREM TreesAlwaysContiguous == Spec => []TreesContiguous
<1>1. PoolsInv => TreesContiguous
  BY DEF PoolsInv
<1> QED
  BY <1>1, PoolsInvariant, PTL

\* The invariant gives a block of any next epoch everything it reads.
LEMMA PoolsInvGivesInputs == PoolsInv => PayoutInputsPresent
<1> SUFFICES ASSUME PoolsInv, NEW e \in NextEpochs
             PROVE  /\ e \in trees
                    /\ IsEpochChange(e) \/ e \in proposersTree
                    /\ NeedsPayment(e) =>
                         /\ storage[unpaidEpoch] # NoItem => PayoutReadable(e)
                         /\ UnpaidBlockCount(e) > 0
  BY DEF PayoutInputsPresent
<1>0. TypeOK
  BY DEF PoolsInv
<1>1. /\ e \in 0 .. MaxEpoch /\ e \in Nat
      /\ PERPETUAL_STORAGE_EPOCHS \in Nat \ {0} /\ MaxEpoch \in Nat
      /\ height \in Nat /\ currentEpoch \in Nat /\ unpaidEpoch \in Nat
      /\ MaxGap \in 0 .. PERPETUAL_STORAGE_EPOCHS
  BY <1>0, NextEpochsType, EpochAssumption, BoundAssumption DEF TypeOK
<1>2. /\ unpaidEpoch <= currentEpoch
      /\ currentEpoch <= e
      /\ NeedsPayment(e) => unpaidEpoch < e
  BY NeedsPaymentEarlier
<1>3. e \in trees
  <2>1. CASE height = 0
    BY <1>0, <1>1, <2>1, NextEpochsType DEF PoolsInv, TreesContiguous
  <2>2. CASE height # 0
    <3>1. e <= currentEpoch + MaxGap
      BY <1>1, <2>2 DEF NextEpochs
    <3>2. e <= currentEpoch + PERPETUAL_STORAGE_EPOCHS
      BY <1>1, <3>1
    <3> QED BY <1>1, <2>2, <3>2 DEF PoolsInv, TreesContiguous
  <2> QED BY <2>1, <2>2
<1>4. ~IsEpochChange(e) => height > 0 /\ e = currentEpoch /\ e \in Started /\ e \in proposersTree
  BY <1>1, <1>2 DEF IsEpochChange, PoolsInv, OpenEpochsReadable
<1>5. ASSUME NeedsPayment(e)
      PROVE  /\ storage[unpaidEpoch] # NoItem => PayoutReadable(e)
             /\ UnpaidBlockCount(e) > 0
  <2>1. e # 0 /\ height > 0
    BY <1>1, <1>5, NextEpochsType, <1>0 DEF NeedsPayment, GENESIS_EPOCH_INDEX
  <2>2. /\ unpaidEpoch \in Started
        /\ unpaidEpoch \in proposersTree
        /\ processing[unpaidEpoch] # NoItem
    BY <1>1, <2>1 DEF PoolsInv, OpenEpochsReadable
  <2>3. ~IsEpochChange(e) => e \in StartedAfterUnpaid(e)
    BY <1>1, <1>2, <1>4, <1>5 DEF StartedAfterUnpaid, Started
  <2>4. storage[unpaidEpoch] # NoItem => PayoutReadable(e)
    BY <2>2, <2>3 DEF PayoutReadable, Started
  <2>5. startBlock[unpaidEpoch] \in 1 .. height
    BY <2>2 DEF PoolsInv, StartBlocksOrdered
  <2>6. CASE IsEpochChange(e) /\ NextUnpaidEpoch(e) = e
    BY <1>1, <2>4, <2>5, <2>6 DEF UnpaidBlockCount, EndBlock
  <2>7. CASE ~(IsEpochChange(e) /\ NextUnpaidEpoch(e) = e)
    <3> DEFINE n == NextUnpaidEpoch(e)
    <3>1. n \in (unpaidEpoch + 1) .. e /\ (n # e => startBlock[n] # NoItem)
      BY <1>0, <1>1, <1>2, <1>5, NextUnpaidEpochProperties
    <3>2. n \in Started
      <4>1. n \in Epochs
        BY <1>1, <3>1 DEF Epochs
      <4> QED BY <1>4, <2>7, <3>1, <4>1 DEF Started
    <3>3. startBlock[n] \in 1 .. height /\ startBlock[unpaidEpoch] < startBlock[n]
      BY <1>1, <2>2, <3>1, <3>2 DEF PoolsInv, StartBlocksOrdered
    <3> QED BY <1>1, <2>4, <2>5, <2>7, <3>3 DEF UnpaidBlockCount, EndBlock
  <2> QED BY <2>4, <2>6, <2>7
<1> QED
  BY <1>3, <1>4, <1>5

\* No gap between epochs and no order of payouts can starve a block end of
\* the data it reads.
THEOREM PayoutInputsAlwaysPresent == Spec => []PayoutInputsPresent
BY PoolsInvGivesInputs, PoolsInvariant, PTL

-----------------------------------------------------------------------------
(* Action properties.                                                      *)

\* When a payout stays below its limit it has paid every proposer that was
\* left: the first proposers in key order are not a proper part of them.
LEMMA BelowLimitPaysAll ==
  ASSUME TypeOK, NEW e \in 0 .. MaxEpoch, unpaidEpoch < e,
         Cardinality(PaidProposers(e)) < ProposersLimit(e)
  PROVE  PaidProposers(e) = EpochProposers(unpaidEpoch)
<1> DEFINE all  == EpochProposers(unpaidEpoch)
           paid == PaidProposers(e)
           rest == all \ paid
<1>1. paid \subseteq all /\ all \subseteq Proposers /\ rest \subseteq Nat
  BY IdentityAssumption DEF PaidProposers, EpochProposers
<1>2. SUFFICES ASSUME rest # {} PROVE FALSE
  BY <1>1
<1>3. PICK p \in rest : \A q \in rest : p <= q
  BY <1>1, <1>2, MinProperties
<1> DEFINE before == {q \in all : q < p}
<1>4. before \subseteq paid
  <2> SUFFICES ASSUME NEW q \in before, q \notin paid PROVE FALSE
    OBVIOUS
  <2>1. q \in rest /\ q \in Nat /\ p \in Nat
    BY <1>1
  <2>2. p <= q /\ q < p
    BY <1>3, <2>1
  <2> QED BY <2>1, <2>2
<1>5. IsFiniteSet(paid) /\ IsFiniteSet(before)
  BY <1>1, <1>4, IdentityAssumption, FS_Subset
<1>6. Cardinality(before) <= Cardinality(paid)
  BY <1>4, <1>5, FS_Subset
<1>7. ~(Cardinality(before) < ProposersLimit(e))
  BY <1>3 DEF PaidProposers
<1>8. Cardinality(before) \in Nat /\ Cardinality(paid) \in Nat
  BY <1>5, FS_CardinalityType
<1>9. ProposersLimit(e) \in Nat
  BY PayoutAssumption, BoundAssumption DEF ProposersLimit, TypeOK
<1> HIDE DEF before, paid
<1> QED
  BY <1>6, <1>7, <1>8, <1>9 DEF paid

\* The step that moves the unpaid index leaves no proposer and no started
\* epoch behind.
THEOREM NothingIsSkipped == Spec => NothingSkipped
<1> DEFINE Moves ==
      unpaidEpoch' # unpaidEpoch =>
        /\ unpaidEpoch' > unpaidEpoch
        /\ \A p \in Proposers : blockCounts'[unpaidEpoch][p] = 0
        /\ \A i \in Epochs : unpaidEpoch < i /\ i < unpaidEpoch' => startBlock'[i] = NoItem
        /\ startBlock'[unpaidEpoch'] # NoItem
<1>1. PoolsInv /\ PoolsInv' /\ [Next]_vars => [Moves]_vars
  <2> SUFFICES ASSUME PoolsInv, PoolsInv', Next, unpaidEpoch' # unpaidEpoch
               PROVE  Moves
    OBVIOUS
  <2>1. PICK e \in NextEpochs, p \in Proposers, f \in Fees : BlockEndOk(p, e, f)
    BY DEF Next, BlockEnd, BlockEndError, CreateRewardShare, ReplaceRewardShare,
           DeleteRewardShare, pools
  <2>2. TypeOK /\ MarksAsPaid(e) /\ unpaidEpoch' = NextUnpaidEpoch(e)
    BY <2>1 DEF BlockEndOk, PoolsInv
  <2>3. e \in 0 .. MaxEpoch /\ unpaidEpoch < e /\ unpaidEpoch \in Nat /\ e \in Nat
    BY <2>2, NextEpochsType, NeedsPaymentEarlier, BoundAssumption DEF MarksAsPaid, TypeOK
  <2>4. /\ NextUnpaidEpoch(e) \in (unpaidEpoch + 1) .. e
        /\ \A i \in (unpaidEpoch + 1) .. (NextUnpaidEpoch(e) - 1) : startBlock[i] = NoItem
    BY <2>2, <2>3, NextUnpaidEpochProperties
  <2>5. ASSUME NEW q \in Proposers PROVE blockCounts'[unpaidEpoch][q] = 0
    <3>1. PaidProposers(e) = EpochProposers(unpaidEpoch)
      BY <2>2, <2>3, BelowLimitPaysAll DEF MarksAsPaid
    <3>2. unpaidEpoch \in Epochs /\ blockCounts[unpaidEpoch][q] \in Nat
      BY <2>2, <2>3, EpochAssumption, BoundAssumption DEF Epochs, TypeOK
    <3>3. blockCounts' = ProcessedCounts(p, e)
      BY <2>1 DEF BlockEndOk
    <3>4. blockCounts'[unpaidEpoch][q]
            = IF q \in PaidProposers(e) THEN 0 ELSE blockCounts[unpaidEpoch][q]
      BY <2>2, <2>3, <3>2, <3>3 DEF ProcessedCounts, MarksAsPaid
    <3> QED BY <3>1, <3>2, <3>4 DEF EpochProposers
  <2>6. ASSUME NEW i \in Epochs, unpaidEpoch < i, i < unpaidEpoch'
        PROVE  startBlock'[i] = NoItem
    <3>1. i \in (unpaidEpoch + 1) .. (NextUnpaidEpoch(e) - 1) /\ i # e
      BY <2>2, <2>3, <2>4, <2>6 DEF Epochs
    <3>2. startBlock'[i] = startBlock[i]
      BY <2>1, <2>2, <2>6, <3>1 DEF BlockEndOk, StartBlocksAfter, TypeOK
    <3> QED BY <2>4, <3>1, <3>2
  <2>7. startBlock'[unpaidEpoch'] # NoItem
    <3>1. height' > 0
      BY <2>1, <2>2 DEF BlockEndOk, TypeOK
    <3> QED BY <3>1 DEF PoolsInv, OpenEpochsReadable, Started
  <2> QED BY <2>2, <2>3, <2>4, <2>5, <2>6, <2>7
<1>2. Spec => [][Moves]_vars
  BY <1>1, PoolsInvariant, PTL DEF Spec
<1> QED
  BY <1>2 DEF NothingSkipped

\* A block that leaves the unpaid index where it is touches neither item of an
\* earlier epoch's pool: it distributes from its own epoch on, and the trees it
\* creates are later ones.
LEMMA PoolKept ==
  ASSUME PoolsInv, NEW e \in NextEpochs, NEW p \in Proposers, NEW f \in Fees,
         BlockEndOk(p, e, f), unpaidEpoch < currentEpoch, unpaidEpoch' = unpaidEpoch
  PROVE  /\ storage'[unpaidEpoch] = storage[unpaidEpoch]
         /\ processing'[unpaidEpoch] = processing[unpaidEpoch]
<1>0. TypeOK
  BY DEF PoolsInv
<1>1. /\ e \in 0 .. MaxEpoch /\ e \in Nat /\ PERPETUAL_STORAGE_EPOCHS \in Nat
      /\ currentEpoch \in Nat /\ unpaidEpoch \in Nat /\ unpaidEpoch \in Epochs
  BY <1>0, NextEpochsType, EpochAssumption, BoundAssumption DEF TypeOK, Epochs
<1>2. height # 0 /\ unpaidEpoch < e
  BY <1>1, NeedsPaymentEarlier DEF PoolsInv, GENESIS_EPOCH_INDEX
<1>3. ~ MarksAsPaid(e)
  <2> SUFFICES ASSUME MarksAsPaid(e) PROVE FALSE
    OBVIOUS
  <2>1. NextUnpaidEpoch(e) \in (unpaidEpoch + 1) .. e
    BY <1>0, <1>1, <1>2, NextUnpaidEpochProperties
  <2>2. unpaidEpoch' = NextUnpaidEpoch(e)
    BY DEF BlockEndOk
  <2> QED BY <1>1, <2>1, <2>2
<1>4. unpaidEpoch \notin NewTrees(e)
  BY <1>1, <1>2 DEF NewTrees, LastInitiatedEpoch
<1>5. unpaidEpoch \notin e .. (e + PERPETUAL_STORAGE_EPOCHS - 1)
  BY <1>1, <1>2
<1>6. StorageAfterDistribution(e)[unpaidEpoch] = storage[unpaidEpoch]
  BY <1>1, <1>4, <1>5 DEF StorageAfterDistribution
<1>7. storage'[unpaidEpoch] = storage[unpaidEpoch]
  BY <1>1, <1>3, <1>6 DEF BlockEndOk
<1>8. processing'[unpaidEpoch] = processing[unpaidEpoch]
  BY <1>1, <1>2, <1>3 DEF BlockEndOk, ProcessingAfter
<1> QED BY <1>7, <1>8

\* Every chunk of proposers of an epoch shares the same total, however the
\* payout is cut into blocks and whatever is distributed meanwhile.
THEOREM PoolsUnderPayoutAreFrozen == Spec => UnpaidPoolFrozen
<1> DEFINE Frozen ==
      unpaidEpoch < currentEpoch /\ unpaidEpoch' = unpaidEpoch =>
        /\ storage'[unpaidEpoch] = storage[unpaidEpoch]
        /\ processing'[unpaidEpoch] = processing[unpaidEpoch]
<1>1. PoolsInv /\ [Next]_vars => [Frozen]_vars
  <2> SUFFICES ASSUME PoolsInv, Next, unpaidEpoch < currentEpoch, unpaidEpoch' = unpaidEpoch
               PROVE  Frozen
    OBVIOUS
  <2>1. CASE UNCHANGED <<storage, processing>>
    BY <2>1
  <2>2. CASE ~ UNCHANGED <<storage, processing>>
    <3>1. PICK e \in NextEpochs, p \in Proposers, f \in Fees : BlockEndOk(p, e, f)
      BY <2>2 DEF Next, BlockEnd, BlockEndError, CreateRewardShare, ReplaceRewardShare,
                  DeleteRewardShare, pools
    <3> QED BY <3>1, PoolKept
  <2> QED BY <2>1, <2>2
<1>2. Spec => [][Frozen]_vars
  BY <1>1, PoolsInvariant, PTL DEF Spec
<1> QED
  BY <1>2 DEF UnpaidPoolFrozen

-----------------------------------------------------------------------------
(* The books.                                                              *)

\* Of the epochs not yet paid, only one that no distribution reached is
\* without a storage item.
ItemsAccounted ==
  /\ funded \subseteq 0 .. currentEpoch
  /\ \A i \in Epochs : i >= unpaidEpoch /\ storage[i] = NoItem => Unfunded(i)

\* The history follows the program and never restricts it, so that what holds
\* of Spec holds of the specification TLC checks.
LEMMA HistoryOnlyFollows == [CreditsNext]_allVars => [Next]_vars
<1> SUFFICES ASSUME CreditsNext \/ UNCHANGED allVars PROVE Next \/ UNCHANGED vars
  OBVIOUS
<1>1. CASE AccountedBlockEnd
  BY <1>1 DEF AccountedBlockEnd, BlockEnd, Next
<1>2. CASE FailedBlockEnd
  BY <1>2 DEF FailedBlockEnd, BlockEnd, Next
<1>3. CASE ShareStep
  BY <1>3 DEF ShareStep, Next
<1>4. CASE UNCHANGED allVars
  BY <1>4 DEF allVars
<1> QED
  BY <1>1, <1>2, <1>3, <1>4 DEF CreditsNext

\* The accounts are those of the fee pools: the detailed specification
\* implements FeePools.
THEOREM BooksFollowPools == CreditsSpec => Spec
<1>1. CreditsInit => Init
  BY DEF CreditsInit
<1> QED
  BY <1>1, HistoryOnlyFollows, PTL DEF CreditsSpec, Spec

\* A successful block end keeps track of the epochs without an item: a
\* distribution of a non-empty pool reaches every epoch of its period, and the
\* trees created after a gap lie beyond every earlier distribution.
LEMMA AccountKeepsItems ==
  ASSUME PoolsInv, ItemsAccounted, NEW e \in NextEpochs, NEW p \in Proposers, NEW f \in Fees,
         BlockEndOk(p, e, f), Account(e, f)
  PROVE  ItemsAccounted'
<1> DEFINE P == PERPETUAL_STORAGE_EPOCHS
<1>0. TypeOK
  BY DEF PoolsInv
<1>1. /\ e \in 0 .. MaxEpoch /\ e \in Nat /\ P \in Nat \ {0}
      /\ currentEpoch \in Nat /\ unpaidEpoch \in Nat /\ height \in Nat /\ MaxEpoch \in Nat
  BY <1>0, NextEpochsType, EpochAssumption, BoundAssumption DEF TypeOK
<1>2. currentEpoch <= e /\ unpaidEpoch <= e /\ (NeedsPayment(e) => unpaidEpoch < e)
  BY <1>1, NeedsPaymentEarlier
<1>3. currentEpoch' = e
  BY DEF BlockEndOk
<1>4. /\ funded \subseteq 0 .. currentEpoch
      /\ funded' = IF Distributes(e) /\ storagePool # 0 THEN funded \cup {e} ELSE funded
  BY DEF ItemsAccounted, Account
<1>5. funded' \subseteq 0 .. currentEpoch'
  BY <1>1, <1>2, <1>3, <1>4
<1>6. unpaidEpoch' >= unpaidEpoch /\ (MarksAsPaid(e) => unpaidEpoch' > unpaidEpoch)
  <2>1. CASE MarksAsPaid(e)
    <3>1. NextUnpaidEpoch(e) \in (unpaidEpoch + 1) .. e
      BY <1>0, <1>1, <1>2, <2>1, NextUnpaidEpochProperties DEF MarksAsPaid
    <3>2. unpaidEpoch' = NextUnpaidEpoch(e)
      BY <2>1 DEF BlockEndOk
    <3> QED BY <1>1, <3>1, <3>2
  <2>2. CASE ~ MarksAsPaid(e)
    BY <1>1, <2>2 DEF BlockEndOk
  <2> QED BY <2>1, <2>2
<1>7. ASSUME NEW i \in Epochs, i >= unpaidEpoch', storage'[i] = NoItem
      PROVE  Unfunded(i)'
  <2>1. i \in Nat
    BY <1>1 DEF Epochs
  <2>2. i >= unpaidEpoch /\ (MarksAsPaid(e) => i # unpaidEpoch)
    <3>1. unpaidEpoch' \in Nat
      BY <1>0, <1>1, NextUnpaidEpochProperties, <1>2 DEF BlockEndOk, MarksAsPaid
    <3> QED BY <1>1, <1>6, <1>7, <2>1, <3>1
  <2>3. StorageAfterDistribution(e)[i] = NoItem
    BY <1>7, <2>2 DEF BlockEndOk
  <2>4. ~ (Distributes(e) /\ storagePool # 0 /\ i \in e .. (e + P - 1))
    <3> SUFFICES ASSUME Distributes(e), storagePool # 0, i \in e .. (e + P - 1) PROVE FALSE
      OBVIOUS
    <3>1. (i - e) \div EPOCHS_PER_YEAR + 1 \in 1 .. PERPETUAL_STORAGE_YEARS
      BY <1>1, YearInTable
    <3>2. EpochFeeShare((i - e) \div EPOCHS_PER_YEAR + 1) \in Nat
      BY <1>0, <3>1, EpochFeeShareType
    <3>3. storage[i] \in Nat \/ storage[i] = NoItem
      BY <1>0 DEF TypeOK, CreditItem
    <3>4. StorageAfterDistribution(e)[i] =
            (IF storage[i] = NoItem THEN 0 ELSE storage[i])
              + EpochFeeShare((i - e) \div EPOCHS_PER_YEAR + 1)
      BY DEF StorageAfterDistribution
    <3> QED BY <2>3, <3>2, <3>3, <3>4, ItemAssumption
  <2>5. Unfunded(i)
    <3>1. CASE storage[i] = NoItem
      BY <2>2, <3>1 DEF ItemsAccounted
    <3>2. CASE storage[i] # NoItem
      <4>1. i \in NewTrees(e)
        BY <2>3, <2>4, <3>2 DEF StorageAfterDistribution
      <4>2. PICK j \in LastInitiatedEpoch .. e : i = j + P
        BY <4>1 DEF NewTrees
      <4>3. j \in Nat /\ (height # 0 => j > currentEpoch)
        BY <1>1, <4>2 DEF LastInitiatedEpoch, GENESIS_EPOCH_INDEX
      <4>4. i >= P
        BY <1>1, <4>2, <4>3
      <4>5. ASSUME NEW d \in funded PROVE i \notin d .. (d + P - 1)
        <5>1. d \in Nat /\ d <= currentEpoch
          BY <1>1, <1>4
        <5>2. height = 0 => currentEpoch = 0
          BY DEF PoolsInv, GENESIS_EPOCH_INDEX
        <5> QED BY <1>1, <4>2, <4>3, <5>1, <5>2
      <4> QED BY <4>4, <4>5 DEF Unfunded
    <3> QED BY <3>1, <3>2
  <2>6. \A d \in funded' : i \notin d .. (d + P - 1)
    BY <1>4, <2>4, <2>5 DEF Unfunded
  <2> QED BY <2>5, <2>6 DEF Unfunded
<1> QED
  BY <1>5, <1>7 DEF ItemsAccounted

\* Whatever the blocks do, an open epoch without a storage item is unfunded.
LEMMA ItemsAlwaysAccounted == CreditsSpec => [](PoolsInv /\ ItemsAccounted)
<1>1. CreditsInit => ItemsAccounted
  <2> SUFFICES ASSUME CreditsInit PROVE ItemsAccounted
    OBVIOUS
  <2>1. funded = {} /\ Init
    BY DEF CreditsInit
  <2>2. ASSUME NEW i \in Epochs, storage[i] = NoItem PROVE Unfunded(i)
    <3>1. i \in Int /\ PERPETUAL_STORAGE_EPOCHS \in Nat
      BY EpochAssumption, BoundAssumption DEF Epochs
    <3>2. storage[i] = IF i < PERPETUAL_STORAGE_EPOCHS THEN 0 ELSE NoItem
      BY <2>1 DEF Init
    <3>3. i >= PERPETUAL_STORAGE_EPOCHS
      BY <2>2, <3>1, <3>2, ItemAssumption
    <3> QED BY <2>1, <3>3 DEF Unfunded
  <2> QED BY <2>1, <2>2 DEF ItemsAccounted
<1>2. PoolsInv /\ ItemsAccounted /\ [CreditsNext]_allVars => ItemsAccounted'
  <2> SUFFICES ASSUME PoolsInv, ItemsAccounted, [CreditsNext]_allVars PROVE ItemsAccounted'
    OBVIOUS
  <2>1. CASE AccountedBlockEnd
    BY <2>1, AccountKeepsItems DEF AccountedBlockEnd
  <2>2. CASE UNCHANGED <<currentEpoch, storage, unpaidEpoch, funded>>
    BY <2>2 DEF ItemsAccounted, Unfunded
  <2>3. CASE FailedBlockEnd
    BY <2>2, <2>3 DEF FailedBlockEnd, BlockEndError, pools, history
  <2>4. CASE ShareStep
    BY <2>2, <2>4 DEF ShareStep, CreateRewardShare, ReplaceRewardShare, DeleteRewardShare,
                      pools, history
  <2>5. CASE UNCHANGED allVars
    BY <2>2, <2>5 DEF allVars, vars, pools, history
  <2> QED BY <2>1, <2>3, <2>4, <2>5 DEF CreditsNext
<1>3. PoolsInv /\ [CreditsNext]_allVars => PoolsInv'
  BY PoolsInvNext, HistoryOnlyFollows
<1>4. CreditsInit => PoolsInv
  BY PoolsInvInit DEF CreditsInit
<1> QED
  BY <1>1, <1>2, <1>3, <1>4, PTL DEF CreditsSpec

-----------------------------------------------------------------------------
(* The amounts of a payout.                                                *)

\* A rounded quotient is within one half of the exact one.
LEMMA DecimalDivBounds ==
  ASSUME NEW a \in Nat, NEW b \in Nat \ {0}
  PROVE  /\ DecimalDiv(a, b) \in Nat
         /\ 2 * (b * DecimalDiv(a, b)) <= 2 * a + b
         /\ 2 * a <= 2 * (b * DecimalDiv(a, b)) + b
<1> DEFINE q == a \div b
           r == a % b
           d == DecimalDiv(a, b)
<1>1. q \in Nat /\ r \in 0 .. (b - 1) /\ a = b * q + r
  BY DivType
<1>2. d = IF 2 * r > b \/ (2 * r = b /\ q % 2 = 1) THEN q + 1 ELSE q
  BY DEF DecimalDiv
<1> HIDE DEF q, r, d
<1>3. b * (q + 1) = b * q + b /\ b * q \in Nat
  BY <1>1
<1>4. CASE 2 * r > b \/ (2 * r = b /\ q % 2 = 1)
  <2>1. d = q + 1 /\ 2 * r >= b
    BY <1>1, <1>2, <1>4
  <2>2. b * d = b * q + b
    BY <1>3, <2>1
  <2>3. 2 * (b * d) <= 2 * a + b /\ 2 * a <= 2 * (b * d) + b
    BY <1>1, <1>3, <2>1, <2>2
  <2> QED BY <1>1, <2>1, <2>3 DEF d
<1>5. CASE ~(2 * r > b \/ (2 * r = b /\ q % 2 = 1))
  <2>1. d = q /\ 2 * r <= b
    BY <1>1, <1>2, <1>5
  <2>2. b * d = b * q
    BY <2>1
  <2>3. 2 * (b * d) <= 2 * a + b /\ 2 * a <= 2 * (b * d) + b
    BY <1>1, <1>3, <2>1, <2>2
  <2> QED BY <1>1, <2>1, <2>3 DEF d
<1> QED BY <1>4, <1>5

\* Credits cut from an amount are no more than the amount.
LEMMA FloorBounds ==
  ASSUME NEW d \in Nat
  PROVE  /\ Floor(d) \in Nat
         /\ Floor(d) * DECIMAL_ONE \in Nat
         /\ Floor(d) * DECIMAL_ONE <= d
         /\ d < Floor(d) * DECIMAL_ONE + DECIMAL_ONE
         /\ d % DECIMAL_ONE = d - Floor(d) * DECIMAL_ONE
<1>1. PICK k \in Nat \ {0} : k = DECIMAL_ONE
  BY PayoutAssumption
<1>2. PICK q \in Nat : q = d \div k
  BY DivType
<1>3. d % k = d - q * k /\ q * k <= d /\ d < q * k + k /\ q * k \in Nat
  BY <1>2
<1>4. Floor(d) = q
  BY <1>1, <1>2 DEF Floor
<1> QED BY <1>1, <1>3, <1>4

\* A reward share takes no more than the reward that is there.
LEMMA ShareRewardBounds ==
  ASSUME NEW d \in RewardShare, NEW v \in Nat
  PROVE  /\ ShareReward(d, v) \in Nat
         /\ ShareReward(d, v) * DECIMAL_ONE <= v
<1>0. PICK k \in Nat \ {0} : k = MAX_PERCENTAGE
  BY DEF MAX_PERCENTAGE
<1>1. PICK a \in Nat : a = d.percentage /\ a <= k
  <2>1. d.percentage \in Percentages
    BY DEF RewardShare
  <2>2. d.percentage \in 1 .. k
    BY <1>0, <2>1, ShareAssumption
  <2> QED BY <2>2
<1> DEFINE w == DecimalDiv(v * a, k)
<1>2. v * a \in Nat /\ v * a <= k * v
  <2>1. v * a \in Nat /\ v * a <= v * k /\ v * k = k * v
    BY <1>1
  <2> QED BY <2>1
<1>3. w \in Nat /\ 2 * (k * w) <= 2 * (v * a) + k
  BY <1>2, DecimalDivBounds
<1> HIDE DEF w
<1>4. w <= v
  <2> SUFFICES ASSUME w >= v + 1 PROVE FALSE
    BY <1>3
  <2>1. k * w >= k * (v + 1) /\ k * (v + 1) = k * v + k /\ k * v \in Nat /\ k * w \in Nat
    BY <1>3
  <2> QED BY <1>2, <1>3, <2>1
<1>5. ShareReward(d, v) = Floor(w)
  BY <1>0, <1>1 DEF w, ShareReward
<1>6. Floor(w) \in Nat /\ Floor(w) * DECIMAL_ONE <= w
  BY <1>3, FloorBounds
<1>7. Floor(w) * DECIMAL_ONE \in Nat
  BY <1>3, FloorBounds
<1>8. Floor(w) * DECIMAL_ONE <= v
  BY <1>3, <1>4, <1>6, <1>7
<1> QED BY <1>5, <1>6, <1>8

\* Reward share documents are told apart by their ids.
ShareIdsUnique == \A x, y \in rewardShares : x.id = y.id => x = y

\* The greatest id a document may have; the place of the masternode's own
\* payment comes after it.
LastShare == Max(ShareIds \cup {0})

\* The documents of a proposer with an id: at most one.
Taken(p, i) == {d \in rewardShares : d.owner = p /\ d.id = i}

\* What they take of a reward v.
TakenReward(p, i, v) == MapThenSumSet(LAMBDA d : ShareReward(d, v), Taken(p, i))

\* r is the proposer's reward before each of its documents.
Rests(e, p, r) ==
  r = [i \in 0 .. (LastShare + 1) |->
         IF i = 0 THEN MasternodeReward(e, p)
         ELSE r[i - 1] - TakenReward(p, i - 1, r[i - 1]) * DECIMAL_ONE]

\* RewardBefore is such a function, if there is one.
LEMMA RewardBeforeDefinition ==
  ASSUME NEW e, NEW p
  PROVE  RewardBefore(e, p) = CHOOSE r : Rests(e, p, r)
BY DEF RewardBefore, Rests, LastShare, TakenReward, Taken

\* The greatest id is there and bounds the others.
LEMMA LastShareType == LastShare \in Nat /\ \A i \in ShareIds : i \in 0 .. LastShare
<1>1. ShareIds \cup {0} \in SUBSET Nat /\ IsFiniteSet(ShareIds \cup {0})
  BY ShareAssumption, FS_AddElement
<1>2. LastShare \in ShareIds \cup {0} /\ \A y \in ShareIds \cup {0} : y <= LastShare
  BY <1>1, MaxProperties DEF LastShare
<1>3. LastShare \in Nat
  BY <1>1, <1>2
<1>4. ASSUME NEW i \in ShareIds PROVE i \in 0 .. LastShare
  BY <1>1, <1>2, <1>3
<1> QED BY <1>3, <1>4

\* What a document with an id takes: nothing if there is none.
LEMMA TakenRewardValue ==
  ASSUME TypeOK, ShareIdsUnique, NEW p, NEW i, NEW v \in Nat
  PROVE  /\ Taken(p, i) = {} => TakenReward(p, i, v) = 0
         /\ \A d \in Taken(p, i) : TakenReward(p, i, v) = ShareReward(d, v)
         /\ TakenReward(p, i, v) \in Nat
         /\ TakenReward(p, i, v) * DECIMAL_ONE <= v
<1> DEFINE S == Taken(p, i)
           f == [d \in S |-> ShareReward(d, v)]
<1>1. \A d \in S : d \in RewardShare
  BY DEF Taken, TypeOK
<1>2. \A d \in S : f[d] \in Nat /\ f[d] = ShareReward(d, v) /\ f[d] * DECIMAL_ONE <= v
  BY <1>1, ShareRewardBounds
<1>3. TakenReward(p, i, v) = SumOf(f, S)
  <2> HIDE DEF S
  <2>1. ASSUME NEW g
        PROVE  (g = [s \in SUBSET S |-> IF s = {} THEN 0
                                        ELSE f[First(s)] + g[s \ {First(s)}]])
               <=> (g = [s \in SUBSET S |-> IF s = {} THEN 0
                                            ELSE ShareReward(First(s), v) + g[s \ {First(s)}]])
    <3>1. ASSUME NEW s \in SUBSET S, s # {} PROVE f[First(s)] = ShareReward(First(s), v)
      BY <3>1, FirstIn
    <3> HIDE DEF f
    <3> QED BY <3>1
  <2> HIDE DEF f
  <2>2. (CHOOSE g : g = [s \in SUBSET S |-> IF s = {} THEN 0
                                            ELSE f[First(s)] + g[s \ {First(s)}]])
        = (CHOOSE g : g = [s \in SUBSET S |->
                             IF s = {} THEN 0 ELSE ShareReward(First(s), v) + g[s \ {First(s)}]])
    BY <2>1
  <2> QED BY <2>2 DEF S, TakenReward, SumOf, MapThenSumSet, MapThenFoldSet, First
<1> HIDE DEF f
<1>4. CASE S = {}
  <2>1. SumOf(f, S) = 0
    BY <1>4, SumOfNone
  <2>2. 0 * DECIMAL_ONE <= v
    BY PayoutAssumption
  <2> QED BY <1>3, <1>4, <2>1, <2>2
<1>5. ASSUME NEW d \in S PROVE TakenReward(p, i, v) = f[d]
  <2>1. S = {d}
    BY <1>5 DEF Taken, ShareIdsUnique
  <2>2. SumOf(f, {d}) = f[d] + SumOf(f, {})
    <3>1. IsFiniteSet({}) /\ d \notin {} /\ {} \cup {d} = {d} /\ \A y \in {} \cup {d} : f[y] \in Int
      BY <1>2, <2>1, FS_EmptySet
    <3> QED BY <3>1, SumOfOneMore
  <2> HIDE DEF S
  <2> QED BY <1>2, <1>3, <1>5, <2>1, <2>2, SumOfNone
<1> HIDE DEF S
<1>6. CASE S # {}
  <2>1. PICK d \in S : TRUE
    BY <1>6
  <2> QED BY <1>2, <1>5, <1>6, <2>1 DEF S
<1> QED BY <1>4, <1>6 DEF S

\* The reward of a proposer before its documents, after each of them and in
\* the end: a number of decimal units that never grows.
LEMMA RewardBeforeProperties ==
  ASSUME TypeOK, ShareIdsUnique, NEW e, NEW p, MasternodeReward(e, p) \in Nat
  PROVE  /\ RewardBefore(e, p) \in [0 .. (LastShare + 1) -> Nat]
         /\ RewardBefore(e, p)[0] = MasternodeReward(e, p)
         /\ \A i \in 0 .. LastShare :
              RewardBefore(e, p)[i + 1] = RewardBefore(e, p)[i]
                - TakenReward(p, i, RewardBefore(e, p)[i]) * DECIMAL_ONE
<1> DEFINE n == LastShare + 1
           st == [i \in 1 .. n |-> [v \in Nat |-> v - TakenReward(p, i - 1, v) * DECIMAL_ONE]]
<1>1. n \in Nat
  BY LastShareType
<1>2. st \in [1 .. n -> [Nat -> Nat]]
  <2>1. ASSUME NEW i \in 1 .. n, NEW v \in Nat
        PROVE  v - TakenReward(p, i - 1, v) * DECIMAL_ONE \in Nat
    <3>1. TakenReward(p, i - 1, v) \in Nat /\ TakenReward(p, i - 1, v) * DECIMAL_ONE <= v
      BY TakenRewardValue
    <3>2. TakenReward(p, i - 1, v) * DECIMAL_ONE \in Nat
      BY <3>1, PayoutAssumption
    <3> QED BY <3>1, <3>2
  <2> HIDE DEF n
  <2> QED BY <2>1
<1>3. PICK r \in [0 .. n -> Nat] :
        r[0] = MasternodeReward(e, p) /\ \A i \in 1 .. n : r[i] = st[i][r[i - 1]]
  <2>1. PICK m \in Nat : m = MasternodeReward(e, p)
    OBVIOUS
  <2> HIDE DEF st, n
  <2>2. st \in Steps(n, Nat)
    BY <1>2 DEF Steps
  <2>3. PICK r \in [0 .. n -> Nat] : Follows(n, m, st, r)
    BY <1>1, <2>1, <2>2, RecursionExists
  <2> QED BY <2>1, <2>3 DEF Follows
<1>4. ASSUME NEW i \in 1 .. n
      PROVE  r[i] = r[i - 1] - TakenReward(p, i - 1, r[i - 1]) * DECIMAL_ONE
  <2>1. r[i - 1] \in Nat
    BY <1>1
  <2> HIDE DEF n
  <2> QED BY <1>3, <2>1
<1>5. Rests(e, p, r)
  <2>1. \A i \in 0 .. n : r[i] = IF i = 0 THEN MasternodeReward(e, p)
                                 ELSE r[i - 1] - TakenReward(p, i - 1, r[i - 1]) * DECIMAL_ONE
    <3> TAKE i \in 0 .. n
    <3>1. CASE i = 0
      BY <1>3, <3>1
    <3>2. CASE i # 0
      <4>1. i \in 1 .. n
        BY <1>1, <3>2
      <4> HIDE DEF n
      <4> QED BY <1>4, <3>2, <4>1
    <3> QED BY <3>1, <3>2
  <2> HIDE DEF st
  <2> QED BY <2>1 DEF Rests
<1> DEFINE b == RewardBefore(e, p)
<1>6. Rests(e, p, b)
  BY <1>5, RewardBeforeDefinition
<1> HIDE DEF st
<1>7. /\ DOMAIN b = 0 .. n
      /\ b[0] = MasternodeReward(e, p)
      /\ \A i \in 0 .. n : i # 0 => b[i] = b[i - 1] - TakenReward(p, i - 1, b[i - 1]) * DECIMAL_ONE
  <2> HIDE DEF b
  <2>1. b = [i \in 0 .. n |->
         IF i = 0 THEN MasternodeReward(e, p)
         ELSE b[i - 1] - TakenReward(p, i - 1, b[i - 1]) * DECIMAL_ONE]
    BY <1>6 DEF Rests
  <2>2. 0 \in 0 .. n
    BY <1>1
  <2> HIDE DEF n
  <2> QED BY <2>1, <2>2
<1> HIDE DEF b
<1>8. \A i \in 0 .. n : i \in {j \in 0 .. n : b[j] \in Nat}
  <2> DEFINE Good == {j \in 0 .. n : b[j] \in Nat}
  <2>1. 0 \in Good
    BY <1>1, <1>7
  <2>2. ASSUME NEW i \in Nat, i < n, i \in Good PROVE i + 1 \in Good
    <3>1. b[i] \in Nat /\ i + 1 \in 0 .. n /\ i + 1 # 0 /\ (i + 1) - 1 = i
      BY <1>1, <2>2
    <3>2. b[i + 1] = b[i] - TakenReward(p, i, b[i]) * DECIMAL_ONE
      <4> HIDE DEF n
      <4> QED BY <1>7, <3>1
    <3>3. TakenReward(p, i, b[i]) \in Nat /\ TakenReward(p, i, b[i]) * DECIMAL_ONE <= b[i]
      BY <3>1, TakenRewardValue
    <3>4. TakenReward(p, i, b[i]) * DECIMAL_ONE \in Nat
      BY <3>3, PayoutAssumption
    <3> QED BY <3>1, <3>2, <3>3, <3>4
  <2> HIDE DEF Good, n
  <2>3. \A i \in 0 .. n : i \in Good
    BY <1>1, <2>1, <2>2, UpTo
  <2> QED BY <2>3 DEF Good
<1>9. b \in [0 .. n -> Nat]
  <2>1. b = [i \in DOMAIN b |-> b[i]]
    <3>1. b = [i \in 0 .. n |->
         IF i = 0 THEN MasternodeReward(e, p)
         ELSE b[i - 1] - TakenReward(p, i - 1, b[i - 1]) * DECIMAL_ONE]
      BY <1>6 DEF Rests
    <3> HIDE DEF n
    <3> QED BY <3>1
  <2> HIDE DEF n
  <2> QED BY <1>7, <1>8, <2>1
<1>10. ASSUME NEW i \in 0 .. LastShare
       PROVE  b[i + 1] = b[i] - TakenReward(p, i, b[i]) * DECIMAL_ONE
  <2>1. i + 1 \in 0 .. n /\ i + 1 # 0 /\ (i + 1) - 1 = i
    BY LastShareType
  <2> HIDE DEF n
  <2> QED BY <1>7, <2>1
<1> QED BY <1>7, <1>9, <1>10 DEF b

\* The number of blocks the payout divides by.
LEMMA UnpaidBlockCountType ==
  ASSUME PoolsInv, NEW e \in NextEpochs, NeedsPayment(e)
  PROVE  /\ UnpaidBlockCount(e) \in Nat \ {0}
         /\ startBlock[unpaidEpoch] \in Nat /\ EndBlock(e) \in Nat
<1>0. TypeOK /\ StartBlocksOrdered /\ OpenEpochsReadable
  BY DEF PoolsInv
<1>1. /\ e \in 0 .. MaxEpoch /\ e \in Nat /\ currentEpoch \in Nat /\ unpaidEpoch \in Nat
      /\ height \in Nat
  BY <1>0, NextEpochsType, BoundAssumption DEF TypeOK
<1>2. unpaidEpoch < e /\ currentEpoch <= e
  BY <1>1, NeedsPaymentEarlier
<1>3. height # 0
  BY <1>0, NextEpochsType DEF NeedsPayment, GENESIS_EPOCH_INDEX
<1>4. unpaidEpoch \in Started /\ currentEpoch \in Started
  BY <1>0, <1>1, <1>3 DEF OpenEpochsReadable
<1>5. \A i \in Started : startBlock[i] \in Nat
  BY <1>0, <1>1 DEF StartBlocksOrdered
<1>6. e \in Epochs
  BY <1>1, EpochAssumption, BoundAssumption DEF Epochs
<1>7. EndBlock(e) \in Nat
  <2>1. CASE IsEpochChange(e) /\ NextUnpaidEpoch(e) = e
    BY <1>1, <2>1 DEF EndBlock
  <2>2. CASE ~(IsEpochChange(e) /\ NextUnpaidEpoch(e) = e)
    <3>1. EndBlock(e) = startBlock[NextUnpaidEpoch(e)]
      BY <2>2 DEF EndBlock
    <3>2. /\ NextUnpaidEpoch(e) \in (unpaidEpoch + 1) .. e
          /\ NextUnpaidEpoch(e) # e => startBlock[NextUnpaidEpoch(e)] # NoItem
      BY <1>0, <1>1, <1>2, NextUnpaidEpochProperties
    <3>3. NextUnpaidEpoch(e) \in Epochs
      BY <1>1, <3>2, EpochAssumption, BoundAssumption DEF Epochs
    <3>4. CASE NextUnpaidEpoch(e) # e
      <4>1. NextUnpaidEpoch(e) \in Started
        BY <3>2, <3>3, <3>4 DEF Started
      <4> QED BY <1>5, <3>1, <4>1
    <3>5. CASE NextUnpaidEpoch(e) = e
      <4>1. e = currentEpoch
        BY <1>1, <1>2, <2>2, <3>5 DEF IsEpochChange
      <4> QED BY <1>4, <1>5, <3>1, <3>5, <4>1
    <3> QED BY <3>4, <3>5
  <2> QED BY <2>1, <2>2
<1>8. startBlock[unpaidEpoch] \in Nat
  BY <1>4, <1>5
<1>9. UnpaidBlockCount(e) > 0
  BY PoolsInvGivesInputs DEF PayoutInputsPresent
<1>10. UnpaidBlockCount(e) = EndBlock(e) - startBlock[unpaidEpoch]
  BY DEF UnpaidBlockCount
<1> QED BY <1>7, <1>8, <1>9, <1>10

\* The pool of the unpaid epoch, and its proposers' rewards, are amounts.
LEMMA MasternodeRewardType ==
  ASSUME PoolsInv, NEW e \in NextEpochs, NeedsPayment(e), PayoutReadable(e), NEW p \in Proposers
  PROVE  /\ storage[unpaidEpoch] \in Nat /\ processing[unpaidEpoch] \in Nat
         /\ blockCounts[unpaidEpoch][p] \in Nat
         /\ (storage[unpaidEpoch] + processing[unpaidEpoch])
              * blockCounts[unpaidEpoch][p] * DECIMAL_ONE \in Nat
         /\ MasternodeReward(e, p) \in Nat
<1>1. unpaidEpoch \in Epochs
  BY EpochAssumption, BoundAssumption DEF PoolsInv, TypeOK, Epochs
<1>2. storage[unpaidEpoch] \in Nat /\ processing[unpaidEpoch] \in Nat
  BY <1>1 DEF PoolsInv, TypeOK, CreditItem, PayoutReadable
<1>3. blockCounts[unpaidEpoch][p] \in Nat
  BY <1>1 DEF PoolsInv, TypeOK
<1>4. (storage[unpaidEpoch] + processing[unpaidEpoch])
        * blockCounts[unpaidEpoch][p] * DECIMAL_ONE \in Nat
  BY <1>2, <1>3, PayoutAssumption
<1>5. MasternodeReward(e, p) \in Nat
  BY <1>4, UnpaidBlockCountType, DecimalDivBounds DEF MasternodeReward
<1> QED BY <1>2, <1>3, <1>4, <1>5

\* The fractions of a set of rewards, as a function.
Fractions(e) == [p \in PaidProposers(e) |-> OwnReward(e, p) % DECIMAL_ONE]

\* The fractions handed to the last proposer are the sum of that function.
LEMMA FeeLeftoversSum ==
  ASSUME NEW e
  PROVE  FeeLeftovers(e) = SumOf(Fractions(e), PaidProposers(e))
<1> DEFINE S == PaidProposers(e)
           f == Fractions(e)
<1> HIDE DEF S, f
<1>1. ASSUME NEW g
      PROVE  (g = [s \in SUBSET S |-> IF s = {} THEN 0
                                      ELSE f[First(s)] + g[s \ {First(s)}]])
             <=> (g = [s \in SUBSET S |->
                         IF s = {} THEN 0
                         ELSE (OwnReward(e, First(s)) % DECIMAL_ONE) + g[s \ {First(s)}]])
  <2>1. ASSUME NEW s \in SUBSET S, s # {}
        PROVE  f[First(s)] = OwnReward(e, First(s)) % DECIMAL_ONE
    BY <2>1, FirstIn DEF f, S, Fractions
  <2> QED BY <2>1
<1>2. (CHOOSE g : g = [s \in SUBSET S |-> IF s = {} THEN 0
                                          ELSE f[First(s)] + g[s \ {First(s)}]])
      = (CHOOSE g : g = [s \in SUBSET S |->
                           IF s = {} THEN 0
                           ELSE (OwnReward(e, First(s)) % DECIMAL_ONE) + g[s \ {First(s)}]])
  BY <1>1
<1> QED BY <1>2 DEF S, f, FeeLeftovers, SumOf, MapThenSumSet, MapThenFoldSet, First

\* The proposers a block pays are finitely many.
LEMMA PaidProposersType ==
  ASSUME NEW e
  PROVE  PaidProposers(e) \subseteq Proposers /\ IsFiniteSet(PaidProposers(e))
         /\ IsFiniteSet(Proposers)
<1>1. PaidProposers(e) \subseteq Proposers
  BY DEF PaidProposers, EpochProposers
<1>2. IsFiniteSet(Proposers)
  BY IdentityAssumption, FS_Subset
<1> QED BY <1>1, <1>2, FS_Subset

\* What is left to a proposer, and the fractions, are amounts.
LEMMA OwnRewardType ==
  ASSUME PoolsInv, ShareIdsUnique, NEW e \in NextEpochs, NeedsPayment(e), PayoutReadable(e)
  PROVE  /\ \A p \in Proposers : /\ RewardBefore(e, p) \in [0 .. (LastShare + 1) -> Nat]
                                 /\ OwnReward(e, p) \in Nat
         /\ \A p \in PaidProposers(e) : Fractions(e)[p] \in Nat
         /\ FeeLeftovers(e) \in Nat
<1>0. TypeOK
  BY DEF PoolsInv
<1>1. ASSUME NEW p \in Proposers
      PROVE  RewardBefore(e, p) \in [0 .. (LastShare + 1) -> Nat] /\ OwnReward(e, p) \in Nat
  <2>1. RewardBefore(e, p) \in [0 .. (LastShare + 1) -> Nat]
    BY <1>0, MasternodeRewardType, RewardBeforeProperties
  <2>2. LastShare + 1 \in 0 .. (LastShare + 1)
    BY LastShareType
  <2>3. OwnReward(e, p) = RewardBefore(e, p)[LastShare + 1]
    BY DEF OwnReward, LastShare
  <2> QED BY <2>1, <2>2, <2>3
<1>2. ASSUME NEW p \in PaidProposers(e) PROVE Fractions(e)[p] \in Nat
  <2>1. OwnReward(e, p) \in Nat /\ Fractions(e)[p] = OwnReward(e, p) % DECIMAL_ONE
    BY <1>1, PaidProposersType DEF Fractions
  <2>2. OwnReward(e, p) % DECIMAL_ONE \in Nat
    BY <2>1, PayoutAssumption
  <2> QED BY <2>1, <2>2
<1>3. FeeLeftovers(e) \in Nat
  BY <1>2, FeeLeftoversSum, PaidProposersType, SumOfNat
<1> QED BY <1>1, <1>2, <1>3

\* Every payment of a payout is a number of credits.
LEMMA PaymentsType ==
  ASSUME PoolsInv, ShareIdsUnique, NEW e \in NextEpochs, NeedsPayment(e), PayoutReadable(e),
         NEW y \in Payments(e)
  PROVE  y.amount \in Nat
<1>0. TypeOK
  BY DEF PoolsInv
<1>1. CASE \E d \in {x \in rewardShares : x.owner \in PaidProposers(e)} :
             y.amount = ShareReward(d, RewardBefore(e, d.owner)[d.id])
  <2>1. PICK d \in rewardShares : /\ d.owner \in PaidProposers(e)
                                  /\ y.amount = ShareReward(d, RewardBefore(e, d.owner)[d.id])
    BY <1>1
  <2>2. d \in RewardShare /\ d.owner \in Proposers
    BY <1>0, <2>1, PaidProposersType DEF TypeOK
  <2>3. d.id \in ShareIds
    BY <2>2 DEF RewardShare
  <2>4. d.id \in 0 .. (LastShare + 1)
    BY <2>3, LastShareType
  <2>5. RewardBefore(e, d.owner)[d.id] \in Nat
    BY <2>2, <2>4, OwnRewardType
  <2> QED BY <2>1, <2>2, <2>5, ShareRewardBounds
<1>2. CASE \E p \in PaidProposers(e) : y.amount = RewardGiven(e, p)
  <2>1. PICK p \in PaidProposers(e) : y.amount = RewardGiven(e, p)
    BY <1>2
  <2>2. OwnReward(e, p) \in Nat /\ FeeLeftovers(e) \in Nat
    BY OwnRewardType, PaidProposersType
  <2>3. Floor(OwnReward(e, p)) \in Nat /\ Floor(OwnReward(e, p)) * DECIMAL_ONE \in Nat
    BY <2>2, FloorBounds
  <2>4. Floor(OwnReward(e, p)) * DECIMAL_ONE + FeeLeftovers(e) \in Nat
    BY <2>2, <2>3
  <2>5. Floor(Floor(OwnReward(e, p)) * DECIMAL_ONE + FeeLeftovers(e)) \in Nat
    BY <2>4, FloorBounds
  <2> QED BY <2>1, <2>3, <2>5 DEF RewardGiven
<1> QED BY <1>1, <1>2 DEF Payments

\* Ids stay unique: only a create adds a document, under an id of its own.
LEMMA ShareIdsStayUnique ==
  ASSUME TypeOK, ShareIdsUnique, [Next]_vars
  PROVE  ShareIdsUnique'
<1>1. CASE UNCHANGED rewardShares
  BY <1>1 DEF ShareIdsUnique
<1>2. CASE BlockEnd \/ UNCHANGED vars
  BY <1>1, <1>2 DEF BlockEnd, BlockEndOk, BlockEndError, vars
<1>3. CASE CreateRewardShare
  BY <1>3 DEF CreateRewardShare, ShareIdsUnique
<1>4. CASE ReplaceRewardShare
  <2>1. PICK old \in rewardShares, q \in Percentages, to \in Payees :
          rewardShares' = (rewardShares \ {old})
                            \cup {[old EXCEPT !.percentage = q, !.payTo = to]}
    BY <1>4 DEF ReplaceRewardShare
  <2>2. old \in RewardShare
    BY DEF TypeOK
  <2>3. PICK new : new = [old EXCEPT !.percentage = q, !.payTo = to]
    OBVIOUS
  <2>4. new.id = old.id
    BY <2>2, <2>3 DEF RewardShare
  <2>5. rewardShares' = (rewardShares \ {old}) \cup {new}
    BY <2>1, <2>3
  <2> QED BY <2>4, <2>5 DEF ShareIdsUnique
<1>5. CASE DeleteRewardShare
  BY <1>5 DEF DeleteRewardShare, ShareIdsUnique
<1> QED BY <1>2, <1>3, <1>4, <1>5 DEF Next

\* In every state of the program no two documents have the same id.
LEMMA ShareIdsAlwaysUnique == Spec => []ShareIdsUnique
<1>1. Init => ShareIdsUnique
  BY DEF Init, ShareIdsUnique
<1>2. TypeOK /\ ShareIdsUnique /\ [Next]_vars => ShareIdsUnique'
  BY ShareIdsStayUnique
<1> QED BY <1>1, <1>2, TypeCorrect, PTL DEF Spec

-----------------------------------------------------------------------------
(* The distribution of the storage pool.                                   *)

\* The credits all epochs of a year get.
YearShares == [y \in 1 .. PERPETUAL_STORAGE_YEARS |-> EpochFeeShare(y) * EPOCHS_PER_YEAR]

\* The pool after a distribution, with its sum.
LEMMA LeftoverSum ==
  ASSUME NEW e, Distributes(e)
  PROVE  Leftover(e) = storagePool - SumOf(YearShares, 1 .. PERPETUAL_STORAGE_YEARS)
<1> DEFINE S == 1 .. PERPETUAL_STORAGE_YEARS
           f == YearShares
<1> HIDE DEF S, f
<1>1. ASSUME NEW g
      PROVE  (g = [s \in SUBSET S |-> IF s = {} THEN 0
                                      ELSE f[First(s)] + g[s \ {First(s)}]])
             <=> (g = [s \in SUBSET S |->
                         IF s = {} THEN 0
                         ELSE EpochFeeShare(First(s)) * EPOCHS_PER_YEAR + g[s \ {First(s)}]])
  <2>1. ASSUME NEW s \in SUBSET S, s # {}
        PROVE  f[First(s)] = EpochFeeShare(First(s)) * EPOCHS_PER_YEAR
    BY <2>1, FirstIn DEF f, S, YearShares
  <2> QED BY <2>1
<1>2. (CHOOSE g : g = [s \in SUBSET S |-> IF s = {} THEN 0
                                          ELSE f[First(s)] + g[s \ {First(s)}]])
      = (CHOOSE g : g = [s \in SUBSET S |->
                           IF s = {} THEN 0
                           ELSE EpochFeeShare(First(s)) * EPOCHS_PER_YEAR + g[s \ {First(s)}]])
  BY <1>1
<1>3. MapThenSumSet(LAMBDA y : EpochFeeShare(y) * EPOCHS_PER_YEAR, S) = SumOf(f, S)
  BY <1>2 DEF SumOf, MapThenSumSet, MapThenFoldSet, First
<1> QED BY <1>3 DEF S, f, Leftover

\* The years' shares are amounts and together no more than the pool: each is
\* rounded down, and the table's shares add up to no more than one.
LEMMA SharesWithinPool ==
  ASSUME TypeOK
  PROVE  /\ \A y \in 1 .. PERPETUAL_STORAGE_YEARS : YearShares[y] \in Nat
         /\ SumOf(YearShares, 1 .. PERPETUAL_STORAGE_YEARS) \in Nat
         /\ SumOf(YearShares, 1 .. PERPETUAL_STORAGE_YEARS) <= storagePool
<1> DEFINE S == 1 .. PERPETUAL_STORAGE_YEARS
           F == FEE_DISTRIBUTION_TABLE
           scaled == [y \in S |-> TABLE_ONE * YearShares[y]]
           exact == [y \in S |-> storagePool * F[y]]
<1>0. /\ TABLE_ONE \in Nat \ {0} /\ EPOCHS_PER_YEAR \in Nat \ {0} /\ storagePool \in Nat
      /\ IsFiniteSet(S)
  <2>1. TABLE_ONE \in Nat \ {0}
    BY TableAssumption
  <2>2. storagePool \in Nat
    BY DEF TypeOK
  <2>3. IsFiniteSet(S)
    BY EpochAssumption, FS_Interval
  <2> QED BY <2>1, <2>2, <2>3, EpochAssumption
<1>1. \A y \in S : F[y] \in Nat
  BY TableAssumption
<1>2. ASSUME NEW y \in S
      PROVE  /\ YearShares[y] \in Nat
             /\ TABLE_ONE * YearShares[y] \in Nat /\ storagePool * F[y] \in Nat
             /\ TABLE_ONE * YearShares[y] <= storagePool * F[y]
  <2>1. PICK a \in Nat : a = storagePool * F[y]
    BY <1>0, <1>1
  <2>2. PICK b \in Nat \ {0} : b = TABLE_ONE * EPOCHS_PER_YEAR
    BY <1>0
  <2>3. PICK q \in Nat : q = a \div b
    BY DivType
  <2>4. b * q <= a
    BY <2>3
  <2>5. YearShares[y] = q * EPOCHS_PER_YEAR
    BY <2>1, <2>2, <2>3 DEF YearShares, EpochFeeShare
  <2>6. TABLE_ONE * (q * EPOCHS_PER_YEAR) = b * q
    BY <1>0, <2>2
  <2>7. q * EPOCHS_PER_YEAR \in Nat /\ TABLE_ONE * (q * EPOCHS_PER_YEAR) \in Nat
    BY <1>0
  <2> HIDE DEF F, S
  <2> QED BY <2>1, <2>4, <2>5, <2>6, <2>7
<1>3. SumOf(YearShares, S) \in Nat
  BY <1>0, <1>2, SumOfNat
<1>4. SumOf(scaled, S) = TABLE_ONE * SumOf(YearShares, S)
  <2>1. \A y \in S : YearShares[y] \in Int /\ scaled[y] = TABLE_ONE * YearShares[y]
    BY <1>2
  <2> HIDE DEF scaled, S
  <2> QED BY <1>0, <2>1, SumOfScaled
<1>5. SumOf(exact, S) = storagePool * SumOf(F, S)
  <2>1. \A y \in S : F[y] \in Int /\ exact[y] = storagePool * F[y]
    BY <1>1
  <2>2. storagePool \in Int
    BY <1>0
  <2> HIDE DEF exact, S, F
  <2> QED BY <1>0, <2>1, <2>2, SumOfScaled
<1>6. SumOf(scaled, S) <= SumOf(exact, S)
  <2>1. \A y \in S : scaled[y] \in Int /\ exact[y] \in Int /\ scaled[y] <= exact[y]
    BY <1>2
  <2> HIDE DEF exact, scaled, S
  <2> QED BY <1>0, <2>1, SumOfOrder
<1>7. SumOf(F, S) \in Nat /\ SumOf(F, S) <= TABLE_ONE
  <2>1. SumOf(F, S) \in Nat
    BY <1>0, <1>1, SumOfNat
  <2> QED BY <2>1, TableAssumption DEF SumOf
<1> HIDE DEF S, F, scaled, exact
<1>8. SumOf(YearShares, S) <= storagePool
  <2>1. PICK t \in Nat, s \in Nat : t = SumOf(YearShares, S) /\ s = SumOf(F, S)
    BY <1>3, <1>7
  <2>2. storagePool * s <= storagePool * TABLE_ONE /\ s <= TABLE_ONE
    BY <1>0, <1>7, <2>1
  <2>3. TABLE_ONE * t <= storagePool * s
    BY <1>4, <1>5, <1>6, <2>1
  <2>4. TABLE_ONE * t <= TABLE_ONE * storagePool
    BY <1>0, <2>2, <2>3
  <2>5. t <= storagePool
    <3> SUFFICES ASSUME t >= storagePool + 1 PROVE FALSE
      BY <1>0
    <3>1. TABLE_ONE * t >= TABLE_ONE * (storagePool + 1)
          /\ TABLE_ONE * (storagePool + 1) = TABLE_ONE * storagePool + TABLE_ONE
      BY <1>0
    <3> QED BY <1>0, <2>4, <3>1
  <2> QED BY <2>1, <2>5
<1> QED BY <1>2, <1>3, <1>8 DEF S

\* The distribution leaves an amount in the pool.
LEMMA LeftoverType ==
  ASSUME TypeOK, NEW e
  PROVE  Leftover(e) \in Nat
<1>1. storagePool \in Nat
  BY DEF TypeOK
<1>2. CASE Distributes(e)
  <2>1. PICK t \in Nat : t = SumOf(YearShares, 1 .. PERPETUAL_STORAGE_YEARS) /\ t <= storagePool
    BY SharesWithinPool
  <2>2. Leftover(e) = storagePool - t
    BY <1>2, <2>1, LeftoverSum
  <2> QED BY <1>1, <2>1, <2>2
<1>3. CASE ~ Distributes(e)
  BY <1>1, <1>3 DEF Leftover
<1> QED BY <1>2, <1>3

\* A block end fails only for an unfunded epoch, a payee that is not registered
\* or a payee paid twice: no gap between epochs, cut of a payout, rounding of a
\* share or failed block starves process_block_fees of a tree, an item, a block
\* to divide by or credits to hand out.
THEOREM FailuresExplained == CreditsSpec => []FailsOnlyFor
<1>1. PoolsInv /\ ItemsAccounted /\ ShareIdsUnique => FailsOnlyFor
  <2> SUFFICES ASSUME PoolsInv, ItemsAccounted, ShareIdsUnique, NEW e \in NextEpochs,
                      ~ FailsFor(e)
               PROVE  BlockEndSucceeds(e)
    BY DEF FailsOnlyFor
  <2>1. /\ e \in trees
        /\ IsEpochChange(e) \/ e \in proposersTree
        /\ NeedsPayment(e) =>
             /\ storage[unpaidEpoch] # NoItem => PayoutReadable(e)
             /\ UnpaidBlockCount(e) > 0
    BY PoolsInvGivesInputs DEF PayoutInputsPresent
  <2>2. storage[unpaidEpoch] # NoItem
    <3>1. unpaidEpoch \in Epochs /\ unpaidEpoch >= unpaidEpoch
      BY EpochAssumption, BoundAssumption DEF PoolsInv, TypeOK, Epochs
    <3> QED BY <3>1 DEF ItemsAccounted, FailsFor
  <2>3. NeedsPayment(e) => BatchConsistent(e)
    BY <2>1, <2>2 DEF FailsFor, BatchConsistent
  <2>4. NeedsPayment(e) => \A y \in Payments(e) : y.to \in Identities /\ y.amount \in Nat
    BY <2>1, <2>2, PaymentsType DEF FailsFor
  <2>5. PayoutSucceeds(e)
    BY <2>1, <2>2, <2>3, <2>4 DEF PayoutSucceeds
  <2>6. Leftover(e) \in Nat
    BY LeftoverType DEF PoolsInv
  <2> QED BY <2>1, <2>5, <2>6 DEF BlockEndSucceeds
<1>2. CreditsSpec => []ShareIdsUnique
  BY BooksFollowPools, ShareIdsAlwaysUnique, PTL
<1> QED
  BY <1>1, <1>2, ItemsAlwaysAccounted, PTL

-----------------------------------------------------------------------------
(* Block counts.                                                           *)

\* The blocks counted for an epoch, as a sum.
CountsAreSums == \A i \in Epochs : SumCounts(i) = SumOf(blockCounts[i], Proposers)

\* They are one in every state.
LEMMA SumCountsSum == CountsAreSums
<1>1. ASSUME NEW i \in Epochs PROVE SumCounts(i) = SumOf(blockCounts[i], Proposers)
  BY DEF SumCounts, SumOf
<1> QED BY <1>1 DEF CountsAreSums

\* The counts of an epoch are counts, and so is their sum.
LEMMA SumCountsType ==
  ASSUME TypeOK, NEW i \in Epochs
  PROVE  /\ \A q \in Proposers : blockCounts[i][q] \in Nat
         /\ SumCounts(i) \in Nat
         /\ SumOf(blockCounts[i], Proposers) \in Nat
<1>1. \A q \in Proposers : blockCounts[i][q] \in Nat
  BY DEF TypeOK
<1>2. IsFiniteSet(Proposers)
  BY IdentityAssumption, FS_Subset
<1>3. SumOf(blockCounts[i], Proposers) \in Nat
  BY <1>1, <1>2, SumOfNat
<1> QED BY <1>1, <1>3, SumCountsSum DEF CountsAreSums

\* A payout that does not close its epoch pays someone.
LEMMA ChunkNotEmpty ==
  ASSUME PoolsInv, NEW e \in NextEpochs, NeedsPayment(e), ~ MarksAsPaid(e)
  PROVE  PaidProposers(e) # {}
<1>0. TypeOK
  BY DEF PoolsInv
<1>1. unpaidEpoch < e /\ unpaidEpoch \in Nat /\ e \in Nat
  BY <1>0, NeedsPaymentEarlier, NextEpochsType, BoundAssumption DEF TypeOK
<1>2. ProposersLimit(e) \in Nat \ {0}
  <2>1. PICK k \in Nat \ {0} : k = e - unpaidEpoch
    BY <1>1
  <2>2. k * PROPOSERS_PER_LAG \in Nat \ {0}
    BY PayoutAssumption
  <2> QED BY <2>1, <2>2 DEF ProposersLimit
<1>3. SUFFICES ASSUME PaidProposers(e) = {} PROVE FALSE
  OBVIOUS
<1>4. Cardinality(PaidProposers(e)) = 0
  BY <1>3, FS_EmptySet
<1> QED BY <1>2, <1>4 DEF MarksAsPaid

\* Every block that ends while an older epoch is unpaid pays some of its
\* proposers or closes it.
THEOREM PayoutsMakeProgress == Spec => PayoutMakesProgress
<1> DEFINE Advances ==
      height' > height /\ NeedsPayment(currentEpoch') =>
        \/ unpaidEpoch' > unpaidEpoch
        \/ SumCounts(unpaidEpoch)' < SumCounts(unpaidEpoch)
<1>1. PoolsInv /\ PoolsInv' /\ [Next]_vars => [Advances]_vars
  <2> SUFFICES ASSUME PoolsInv, PoolsInv', Next, height' > height, NeedsPayment(currentEpoch')
               PROVE  \/ unpaidEpoch' > unpaidEpoch
                      \/ SumCounts(unpaidEpoch)' < SumCounts(unpaidEpoch)
    OBVIOUS
  <2>0. TypeOK /\ TypeOK' /\ height \in Nat
    BY DEF PoolsInv, TypeOK
  <2>1. PICK e \in NextEpochs, p \in Proposers, f \in Fees : BlockEndOk(p, e, f)
    <3>1. height' # height
      BY <2>0
    <3> QED BY <3>1 DEF Next, BlockEnd, BlockEndError, CreateRewardShare, ReplaceRewardShare,
                        DeleteRewardShare
  <2>2. NeedsPayment(e)
    BY <2>1 DEF BlockEndOk, NeedsPayment
  <2>3. e \in 0 .. MaxEpoch /\ unpaidEpoch < e /\ unpaidEpoch \in Nat /\ e \in Nat
    BY <2>0, <2>2, NextEpochsType, NeedsPaymentEarlier, BoundAssumption DEF TypeOK
  <2>4. CASE MarksAsPaid(e)
    <3>1. unpaidEpoch' = NextUnpaidEpoch(e)
      BY <2>1, <2>4 DEF BlockEndOk
    <3>2. NextUnpaidEpoch(e) \in (unpaidEpoch + 1) .. e
      BY <2>0, <2>3, NextUnpaidEpochProperties
    <3> QED BY <2>3, <3>1, <3>2
  <2>5. CASE ~ MarksAsPaid(e)
    <3>1. unpaidEpoch' = unpaidEpoch /\ blockCounts' = ProcessedCounts(p, e)
      BY <2>1, <2>5 DEF BlockEndOk
    <3>2. PICK q \in PaidProposers(e) : TRUE
      BY <2>2, <2>5, ChunkNotEmpty
    <3>3. q \in Proposers /\ blockCounts[unpaidEpoch][q] > 0
      BY DEF PaidProposers, EpochProposers
    <3>4. unpaidEpoch \in Epochs
      BY <2>0, <2>3, EpochAssumption, BoundAssumption DEF Epochs, TypeOK
    <3>5. \A r \in Proposers :
            blockCounts'[unpaidEpoch][r]
              = IF r \in PaidProposers(e) THEN 0 ELSE blockCounts[unpaidEpoch][r]
      BY <2>2, <2>3, <3>1, <3>4 DEF ProcessedCounts
    <3>6. PICK old : old = blockCounts[unpaidEpoch]
      OBVIOUS
    <3>7. PICK new : new = blockCounts'[unpaidEpoch]
      OBVIOUS
    <3>8. \A r \in Proposers : new[r] \in Int /\ old[r] \in Int /\ new[r] <= old[r]
      <4>1. \A r \in Proposers : old[r] \in Nat
        BY <2>0, <3>4, <3>6, SumCountsType
      <4> QED BY <3>5, <3>6, <3>7, <4>1
    <3>9. new[q] < old[q]
      BY <3>3, <3>5, <3>6, <3>7
    <3>10. IsFiniteSet(Proposers)
      BY IdentityAssumption, FS_Subset
    <3>11. SumOf(new, Proposers) < SumOf(old, Proposers)
      BY <3>3, <3>8, <3>9, <3>10, SumOfLess
    <3>12. SumCounts(unpaidEpoch) = SumOf(old, Proposers)
      BY <3>4, <3>6, SumCountsSum DEF CountsAreSums
    <3>13. SumCounts(unpaidEpoch)' = SumOf(new, Proposers)
      <4>1. CountsAreSums'
        BY SumCountsSum, PTL
      <4> QED BY <3>1, <3>4, <3>7, <4>1 DEF CountsAreSums
    <3> QED BY <3>11, <3>12, <3>13
  <2> QED BY <2>4, <2>5
<1>2. Spec => [][Advances]_vars
  BY <1>1, PoolsInvariant, PTL DEF Spec
<1> QED
  BY <1>2 DEF PayoutMakesProgress

\* The block after the last one of epoch i, when the epochs of st started at
\* the heights sb and h is the last height.
EndOf(st, sb, h, i) ==
  LET later == {sb[j] : j \in {k \in st : k > i}}
  IN IF later = {} THEN h + 1 ELSE Min(later)

\* EpochEnd reads the started epochs of the state.
EndsAreEnds == \A i \in Epochs : EpochEnd(i) = EndOf(Started, startBlock, height, i)

\* It does so in every state.
LEMMA EpochEndIsEnd == EndsAreEnds
<1>1. ASSUME NEW i \in Epochs PROVE EpochEnd(i) = EndOf(Started, startBlock, height, i)
  BY DEF EpochEnd, EndOf
<1> QED BY <1>1 DEF EndsAreEnds

\* The last started epoch ends with the last block, the others with the next
\* start.
LEMMA EndOfProperties ==
  ASSUME NEW st, NEW sb, \A j \in st : sb[j] \in Nat, NEW h, NEW i
  PROVE  /\ (\A k \in st : ~(k > i)) => EndOf(st, sb, h, i) = h + 1
         /\ \A n \in st : n > i /\ (\A k \in st : k > i => sb[n] <= sb[k])
                            => EndOf(st, sb, h, i) = sb[n]
         /\ (\E k \in st : k > i) =>
              \E n \in st : /\ n > i /\ EndOf(st, sb, h, i) = sb[n]
                            /\ \A k \in st : k > i => sb[n] <= sb[k]
<1> DEFINE later == {sb[j] : j \in {k \in st : k > i}}
<1>1. later \in SUBSET Nat
  OBVIOUS
<1>2. EndOf(st, sb, h, i) = IF later = {} THEN h + 1 ELSE Min(later)
  BY DEF EndOf
<1>3. ASSUME \A k \in st : ~(k > i) PROVE EndOf(st, sb, h, i) = h + 1
  <2>1. later = {}
    BY <1>3
  <2> QED BY <1>2, <2>1
<1>4. ASSUME later # {}
      PROVE  EndOf(st, sb, h, i) \in later /\ \A y \in later : EndOf(st, sb, h, i) <= y
  <2>1. EndOf(st, sb, h, i) = Min(later)
    BY <1>2, <1>4
  <2> HIDE DEF later
  <2> QED BY <1>1, <1>4, <2>1, MinProperties
<1>5. ASSUME NEW n \in st, n > i, \A k \in st : k > i => sb[n] <= sb[k]
      PROVE  EndOf(st, sb, h, i) = sb[n]
  <2>1. sb[n] \in later
    BY <1>5
  <2>2. \A y \in later : sb[n] <= y
    BY <1>5
  <2>3. EndOf(st, sb, h, i) \in later /\ EndOf(st, sb, h, i) <= sb[n]
    BY <1>4, <2>1
  <2>4. EndOf(st, sb, h, i) \in Nat /\ sb[n] \in Nat /\ sb[n] <= EndOf(st, sb, h, i)
    BY <1>1, <2>1, <2>2, <2>3
  <2> QED BY <2>3, <2>4
<1>6. ASSUME \E k \in st : k > i
      PROVE  \E n \in st : /\ n > i /\ EndOf(st, sb, h, i) = sb[n]
                           /\ \A k \in st : k > i => sb[n] <= sb[k]
  <2>1. later # {}
    BY <1>6
  <2>2. PICK n \in st : n > i /\ EndOf(st, sb, h, i) = sb[n]
    BY <1>4, <2>1
  <2>3. ASSUME NEW k \in st, k > i PROVE sb[n] <= sb[k]
    <3>1. sb[k] \in later
      BY <2>3
    <3> QED BY <1>4, <2>1, <2>2, <3>1
  <2> QED BY <2>2, <2>3
<1> QED BY <1>3, <1>5, <1>6

\* The end of a started epoch lies after its start.
LEMMA EpochEndProperties ==
  ASSUME PoolsInv, NEW i \in Started
  PROVE  /\ i \in Epochs /\ i \in Nat
         /\ startBlock[i] \in Nat \ {0} /\ startBlock[i] <= height
         /\ EpochEnd(i) \in Nat
         /\ startBlock[i] < EpochEnd(i)
         /\ i = currentEpoch => EpochEnd(i) = height + 1
<1>0. TypeOK /\ StartBlocksOrdered /\ height \in Nat /\ currentEpoch \in Nat
  BY DEF PoolsInv, TypeOK
<1>1. /\ i \in Epochs /\ i \in Nat
      /\ \A j \in Started : j \in Nat /\ startBlock[j] \in Nat
  BY <1>0, EpochAssumption, BoundAssumption DEF Started, Epochs, StartBlocksOrdered
<1>2. startBlock[i] \in Nat \ {0} /\ startBlock[i] <= height
  BY <1>0 DEF StartBlocksOrdered
<1>3. EpochEnd(i) = EndOf(Started, startBlock, height, i)
  BY <1>1, EpochEndIsEnd DEF EndsAreEnds
<1>4. \A j \in Started : startBlock[j] \in Nat
  BY <1>1
<1>5. CASE \A k \in Started : ~(k > i)
  <2>0. EndOf(Started, startBlock, height, i) = height + 1
    BY <1>4, <1>5, EndOfProperties
  <2>1. EpochEnd(i) = height + 1
    BY <1>3, <2>0
  <2> QED BY <1>0, <1>1, <1>2, <2>1
<1>6. CASE \E k \in Started : k > i
  <2>0. PICK n \in Started : n > i /\ EndOf(Started, startBlock, height, i) = startBlock[n]
    BY <1>4, <1>6, EndOfProperties
  <2>1. EpochEnd(i) = startBlock[n]
    BY <1>3, <2>0
  <2>2. startBlock[i] < startBlock[n] /\ startBlock[n] \in Nat /\ i # currentEpoch
    BY <1>0, <1>1, <2>0 DEF StartBlocksOrdered
  <2> QED BY <1>1, <1>2, <2>1, <2>2
<1> QED BY <1>5, <1>6

\* The payout divides by the blocks of the unpaid epoch.
LEMMA UnpaidBlockCountIsLength ==
  ASSUME PoolsInv, NEW e \in NextEpochs, NeedsPayment(e)
  PROVE  /\ EndBlock(e) = EpochEnd(unpaidEpoch)
         /\ UnpaidBlockCount(e) = EpochEnd(unpaidEpoch) - startBlock[unpaidEpoch]
         /\ unpaidEpoch \in Started
<1>0. TypeOK /\ StartBlocksOrdered /\ OpenEpochsReadable /\ height \in Nat /\ currentEpoch \in Nat
  BY DEF PoolsInv, TypeOK
<1>1. /\ e \in 0 .. MaxEpoch /\ e \in Nat /\ unpaidEpoch \in Nat /\ unpaidEpoch < e
      /\ unpaidEpoch <= currentEpoch /\ currentEpoch <= e
      /\ unpaidEpoch \in Epochs
  BY <1>0, NeedsPaymentEarlier, NextEpochsType, BoundAssumption, EpochAssumption DEF TypeOK, Epochs
<1>2. height # 0
  BY <1>0, <1>1, NextEpochsType
<1>3. unpaidEpoch \in Started /\ currentEpoch \in Started
  BY <1>0, <1>2 DEF OpenEpochsReadable
<1>4. \A j \in Started : j \in Nat /\ j <= currentEpoch /\ startBlock[j] \in Nat
  BY <1>0, EpochAssumption, BoundAssumption DEF Started, Epochs, StartBlocksOrdered
<1>5. EpochEnd(unpaidEpoch) = EndOf(Started, startBlock, height, unpaidEpoch)
  BY <1>1, EpochEndIsEnd DEF EndsAreEnds
<1> DEFINE n == NextUnpaidEpoch(e)
<1>6. /\ n \in (unpaidEpoch + 1) .. e
      /\ \A i \in (unpaidEpoch + 1) .. (n - 1) : startBlock[i] = NoItem
      /\ n # e => startBlock[n] # NoItem
  BY <1>0, <1>1, NextUnpaidEpochProperties
<1> HIDE DEF n
<1>7. \A k \in Started : k > unpaidEpoch => n <= k
  <2> SUFFICES ASSUME NEW k \in Started, k > unpaidEpoch, k < n PROVE FALSE
    BY <1>1, <1>4, <1>6
  <2>1. k \in (unpaidEpoch + 1) .. (n - 1) /\ startBlock[k] # NoItem
    BY <1>1, <1>4, <1>6 DEF Started
  <2> QED BY <1>6, <2>1
<1>8. CASE IsEpochChange(e) /\ n = e
  <2>1. EndBlock(e) = height + 1
    BY <1>8 DEF n, EndBlock
  <2>2. currentEpoch < e
    BY <1>2, <1>8 DEF IsEpochChange
  <2>3. \A k \in Started : ~(k > unpaidEpoch)
    BY <1>0, <1>1, <1>4, <1>7, <1>8, <2>2
  <2>4. EpochEnd(unpaidEpoch) = height + 1
    BY <1>4, <1>5, <2>3, EndOfProperties
  <2> QED BY <1>3, <2>1, <2>4 DEF UnpaidBlockCount
<1>9. CASE ~(IsEpochChange(e) /\ n = e)
  <2>1. EndBlock(e) = startBlock[n]
    BY <1>9 DEF n, EndBlock
  <2>2. n \in Started
    <3>1. CASE n = e
      BY <1>0, <1>1, <1>3, <1>9, <3>1 DEF IsEpochChange
    <3>2. CASE n # e
      <4>1. n \in Epochs
        BY <1>1, <1>6, EpochAssumption, BoundAssumption DEF Epochs
      <4> QED BY <1>6, <3>2, <4>1 DEF Started
    <3> QED BY <3>1, <3>2
  <2>3. n > unpaidEpoch
    BY <1>1, <1>6
  <2>4. ASSUME NEW k \in Started, k > unpaidEpoch PROVE startBlock[n] <= startBlock[k]
    <3>1. n <= k
      BY <1>7, <2>4
    <3>2. CASE n = k
      BY <1>4, <3>2
    <3>3. CASE n < k
      BY <1>0, <1>4, <2>2, <3>3 DEF StartBlocksOrdered
    <3> QED BY <1>4, <2>2, <3>1, <3>2, <3>3
  <2>5. EpochEnd(unpaidEpoch) = startBlock[n]
    BY <1>4, <1>5, <2>2, <2>3, <2>4, EndOfProperties
  <2> QED BY <1>3, <2>1, <2>5 DEF UnpaidBlockCount
<1> QED BY <1>8, <1>9

\* What a block does to the starts and ends of epochs: the epoch of the block
\* ends after it, the others stay as they were.
LEMMA EndsAfterBlock ==
  ASSUME PoolsInv, PoolsInv', NEW e \in NextEpochs, NEW p \in Proposers, NEW f \in Fees,
         BlockEndOk(p, e, f)
  PROVE  /\ Started' = Started \cup {e}
         /\ \A i \in Started : startBlock'[i] = startBlock[i]
         /\ IsEpochChange(e) => e \notin Started /\ startBlock'[e] = height + 1
         /\ ~ IsEpochChange(e) => e = currentEpoch /\ e \in Started
         /\ \A i \in Started \ {e} : EpochEnd(i)' = EpochEnd(i)
         /\ EpochEnd(e)' = height + 2
<1>0. /\ TypeOK /\ StartBlocksOrdered /\ OpenEpochsReadable /\ height \in Nat
      /\ currentEpoch \in Nat
  BY DEF PoolsInv, TypeOK
<1>1. /\ e \in 0 .. MaxEpoch /\ e \in Nat /\ e \in Epochs
      /\ currentEpoch <= e
  BY <1>0, NeedsPaymentEarlier, NextEpochsType, BoundAssumption, EpochAssumption DEF Epochs
<1>2. /\ height' = height + 1 /\ currentEpoch' = e /\ startBlock' = StartBlocksAfter(e)
  BY DEF BlockEndOk
<1>3. \A j \in Started : j \in Epochs /\ j \in Nat /\ j <= currentEpoch /\ startBlock[j] \in Nat
                         /\ startBlock[j] <= height
  BY <1>0, EpochAssumption, BoundAssumption DEF Started, Epochs, StartBlocksOrdered
<1>4. ASSUME IsEpochChange(e) PROVE e \notin Started
  <2>1. CASE height = 0
    BY <1>0, <2>1 DEF StartBlocksOrdered
  <2>2. CASE height # 0
    BY <1>0, <1>1, <1>3, <1>4, <2>2 DEF IsEpochChange
  <2> QED BY <2>1, <2>2
<1>5. ASSUME ~ IsEpochChange(e) PROVE e = currentEpoch /\ e \in Started
  BY <1>0, <1>1, <1>5 DEF IsEpochChange, OpenEpochsReadable
<1>6. ASSUME IsEpochChange(e)
      PROVE  /\ startBlock'[e] = height + 1
             /\ \A i \in Epochs \ {e} : startBlock'[i] = startBlock[i]
  BY <1>0, <1>1, <1>2, <1>6 DEF StartBlocksAfter, TypeOK
<1>7. ASSUME ~ IsEpochChange(e) PROVE startBlock' = startBlock
  BY <1>2, <1>7 DEF StartBlocksAfter
<1>8. height + 1 # NoItem
  BY <1>0, ItemAssumption
<1>9. Started' = Started \cup {e}
  <2>1. CASE IsEpochChange(e)
    BY <1>1, <1>6, <1>8, <2>1 DEF Started
  <2>2. CASE ~ IsEpochChange(e)
    BY <1>5, <1>7, <2>2 DEF Started
  <2> QED BY <2>1, <2>2
<1>10. \A i \in Started : startBlock'[i] = startBlock[i]
  <2>1. CASE IsEpochChange(e)
    BY <1>3, <1>4, <1>6, <2>1
  <2>2. CASE ~ IsEpochChange(e)
    BY <1>7, <2>2
  <2> QED BY <2>1, <2>2
<1>11. PICK st, sb : st = Started' /\ sb = startBlock'
  OBVIOUS
<1>12. \A i \in Epochs : EpochEnd(i)' = EndOf(st, sb, height + 1, i)
  <2>1. EndsAreEnds'
    BY EpochEndIsEnd, PTL
  <2> QED BY <1>2, <1>11, <2>1 DEF EndsAreEnds
<1>13. \A j \in st : j \in Nat /\ j <= e /\ sb[j] \in Nat
  <2> TAKE j \in st
  <2>1. CASE j \in Started
    BY <1>0, <1>1, <1>3, <1>10, <1>11, <2>1
  <2>2. CASE j \notin Started
    BY <1>0, <1>1, <1>5, <1>6, <1>9, <1>11, <2>2
  <2> QED BY <2>1, <2>2
<1>14. EpochEnd(e)' = height + 2
  <2>1. \A k \in st : ~(k > e)
    BY <1>1, <1>13
  <2>2. \A k \in st : sb[k] \in Nat
    BY <1>13
  <2>3. EndOf(st, sb, height + 1, e) = (height + 1) + 1
    BY <2>1, <2>2, EndOfProperties
  <2> QED BY <1>0, <1>1, <1>12, <2>3
<1>15. ASSUME NEW i \in Started \ {e} PROVE EpochEnd(i)' = EpochEnd(i)
  <2>1. i \in Epochs /\ i \in Nat /\ i < e
    BY <1>0, <1>1, <1>3
  <2>2. EpochEnd(i) = EndOf(Started, startBlock, height, i)
    BY <2>1, EpochEndIsEnd DEF EndsAreEnds
  <2>3. EpochEnd(i)' = EndOf(st, sb, height + 1, i)
    BY <1>12, <2>1
  <2>4. \A k \in st : sb[k] \in Nat
    BY <1>13
  <2>5. \A k \in Started : startBlock[k] \in Nat
    BY <1>3
  <2>6. CASE \E k \in Started : k > i
    <3>1. PICK n \in Started : /\ n > i /\ EndOf(Started, startBlock, height, i) = startBlock[n]
                               /\ \A k \in Started : k > i => startBlock[n] <= startBlock[k]
      BY <2>5, <2>6, EndOfProperties
    <3>2. n \in st /\ n > i /\ sb[n] = startBlock[n]
      BY <1>9, <1>10, <1>11, <3>1
    <3>3. ASSUME NEW k \in st, k > i PROVE sb[n] <= sb[k]
      <4>1. CASE k \in Started
        BY <1>10, <1>11, <3>1, <3>2, <3>3, <4>1
      <4>2. CASE k \notin Started
        <5>1. k = e /\ sb[k] = height + 1
          BY <1>5, <1>6, <1>9, <1>11, <4>2
        <5> QED BY <1>0, <1>3, <3>1, <3>2, <5>1
      <4> QED BY <4>1, <4>2
    <3>4. EndOf(st, sb, height + 1, i) = sb[n]
      BY <2>4, <3>2, <3>3, EndOfProperties
    <3> QED BY <2>2, <2>3, <3>1, <3>2, <3>4
  <2>7. CASE ~ \E k \in Started : k > i
    <3>1. EndOf(Started, startBlock, height, i) = height + 1
      BY <2>5, <2>7, EndOfProperties
    <3>2. e \notin Started
      BY <1>1, <2>1, <2>7
    <3>3. e \in st /\ sb[e] = height + 1 /\ e > i
      BY <1>5, <1>6, <1>9, <1>11, <2>1, <3>2
    <3>4. ASSUME NEW k \in st, k > i PROVE sb[e] <= sb[k]
      BY <1>0, <1>9, <1>11, <2>7, <3>3, <3>4
    <3>5. EndOf(st, sb, height + 1, i) = sb[e]
      BY <2>4, <3>3, <3>4, EndOfProperties
    <3> QED BY <2>2, <2>3, <3>1, <3>3, <3>5
  <2> QED BY <2>6, <2>7
<1> QED BY <1>4, <1>5, <1>6, <1>9, <1>10, <1>14, <1>15

-----------------------------------------------------------------------------
(* The blocks of an epoch are accounted for.                               *)

\* The counts of the open epochs, with what the payout of the unpaid epoch
\* starts from: no count has been taken away while the epoch is current.
CountsInv ==
  /\ EpochBlocksAccounted
  /\ height > 0 /\ unpaidEpoch = currentEpoch =>
       SumCounts(unpaidEpoch) = EpochEnd(unpaidEpoch) - startBlock[unpaidEpoch]

\* The counts after a block: one more for its epoch, those of the paid
\* proposers taken away.
LEMMA CountsAfterBlock ==
  ASSUME PoolsInv, PoolsInv', NEW e \in NextEpochs, NEW p \in Proposers, NEW f \in Fees,
         BlockEndOk(p, e, f), NEW i \in Epochs
  PROVE  /\ SumCounts(i)' \in Nat /\ SumCounts(i) \in Nat
         /\ i = e /\ IsEpochChange(e) => SumCounts(i)' = 1
         /\ i = e /\ ~ IsEpochChange(e) => SumCounts(i)' = SumCounts(i) + 1
         /\ i # e /\ ~(NeedsPayment(e) /\ i = unpaidEpoch) => SumCounts(i)' = SumCounts(i)
         /\ NeedsPayment(e) /\ i = unpaidEpoch =>
              \A q \in Proposers :
                blockCounts'[i][q] = IF q \in PaidProposers(e) THEN 0 ELSE blockCounts[i][q]
         /\ NeedsPayment(e) /\ i = unpaidEpoch => SumCounts(i)' <= SumCounts(i)
<1>0. TypeOK /\ TypeOK' /\ e \in Nat /\ unpaidEpoch \in Nat
  BY NextEpochsType, BoundAssumption DEF PoolsInv, TypeOK
<1>1. PICK old : old = blockCounts[i]
  OBVIOUS
<1>2. PICK new : new = blockCounts'[i]
  OBVIOUS
<1>3. SumCounts(i) = SumOf(old, Proposers)
  BY <1>1, SumCountsSum DEF CountsAreSums
<1>4. SumCounts(i)' = SumOf(new, Proposers)
  <2>1. CountsAreSums'
    BY SumCountsSum, PTL
  <2> QED BY <1>2, <2>1 DEF CountsAreSums
<1>5. IsFiniteSet(Proposers)
  BY IdentityAssumption, FS_Subset
<1>6. \A q \in Proposers : old[q] \in Nat /\ new[q] \in Nat
  BY <1>0, <1>1, <1>2 DEF TypeOK
<1>7. SumOf(old, Proposers) \in Nat /\ SumOf(new, Proposers) \in Nat
  <2>1. SumOf(old, Proposers) \in Nat
    BY <1>5, <1>6, SumOfNat
  <2>2. SumOf(new, Proposers) \in Nat
    BY <1>5, <1>6, SumOfNat
  <2> QED BY <2>1, <2>2
<1>8. blockCounts' = ProcessedCounts(p, e)
  BY DEF BlockEndOk
<1>9. ASSUME i = e, IsEpochChange(e) PROVE SumOf(new, Proposers) = 1
  <2>1. \A q \in Proposers : new[q] = IF q = p THEN 1 ELSE 0
    BY <1>2, <1>8, <1>9 DEF ProcessedCounts
  <2> DEFINE zero == [q \in Proposers |-> 0]
  <2>2. SumOf(zero, Proposers) = 0
    BY <1>5, SumOfZero
  <2>3. zero[p] = 0 /\ \A q \in Proposers : zero[q] \in Int
    OBVIOUS
  <2>4. \A q \in Proposers \ {p} : new[q] = zero[q]
    BY <2>1
  <2> HIDE DEF zero
  <2>5. \A q \in Proposers : new[q] \in Int
    BY <1>6
  <2>6. SumOf(new, Proposers) = SumOf(zero, Proposers) + (new[p] - zero[p])
    BY <1>5, <2>3, <2>4, <2>5, SumOfChange
  <2> QED BY <2>1, <2>2, <2>3, <2>6
<1>10. ASSUME i = e, ~ IsEpochChange(e) PROVE SumOf(new, Proposers) = SumOf(old, Proposers) + 1
  <2>1. \A q \in Proposers : new[q] = old[q] + (IF q = p THEN 1 ELSE 0)
    BY <1>1, <1>2, <1>8, <1>10 DEF ProcessedCounts
  <2>2. \A q \in Proposers \ {p} : new[q] = old[q]
    BY <1>6, <2>1
  <2>3. \A q \in Proposers : old[q] \in Int /\ new[q] \in Int
    BY <1>6
  <2>4. SumOf(new, Proposers) = SumOf(old, Proposers) + (new[p] - old[p])
    BY <1>5, <2>2, <2>3, SumOfChange
  <2>5. new[p] - old[p] = 1
    BY <1>6, <2>1
  <2> QED BY <2>4, <2>5
<1>11. ASSUME i # e, ~(NeedsPayment(e) /\ i = unpaidEpoch) PROVE new = old
  BY <1>1, <1>2, <1>8, <1>11 DEF ProcessedCounts
<1>12. ASSUME NeedsPayment(e), i = unpaidEpoch, NEW q \in Proposers
       PROVE  new[q] = IF q \in PaidProposers(e) THEN 0 ELSE old[q]
  <2>1. i # e
    BY <1>12 DEF NeedsPayment
  <2> QED BY <1>1, <1>2, <1>8, <1>12, <2>1 DEF ProcessedCounts
<1>13. ASSUME NeedsPayment(e), i = unpaidEpoch
       PROVE  SumOf(new, Proposers) <= SumOf(old, Proposers)
  <2>1. \A q \in Proposers : new[q] \in Int /\ old[q] \in Int /\ new[q] <= old[q]
    BY <1>6, <1>12, <1>13
  <2> QED BY <1>5, <2>1, SumOfOrder
<1>14. NeedsPayment(e) /\ i = unpaidEpoch =>
              \A q \in Proposers :
                blockCounts'[i][q] = IF q \in PaidProposers(e) THEN 0 ELSE blockCounts[i][q]
  BY <1>1, <1>2, <1>12
<1> QED BY <1>3, <1>4, <1>7, <1>9, <1>10, <1>11, <1>13, <1>14

\* A successful block end keeps the counts.
LEMMA BlockEndOkCounts ==
  ASSUME PoolsInv, PoolsInv', CountsInv,
         NEW e \in NextEpochs, NEW p \in Proposers, NEW f \in Fees, BlockEndOk(p, e, f)
  PROVE  CountsInv'
<1>0. /\ TypeOK /\ OpenEpochsReadable /\ height \in Nat
      /\ currentEpoch \in Nat /\ unpaidEpoch \in Nat
  BY DEF PoolsInv, TypeOK
<1>1. /\ e \in 0 .. MaxEpoch /\ e \in Nat /\ e \in Epochs /\ currentEpoch <= e
      /\ unpaidEpoch <= currentEpoch /\ (NeedsPayment(e) => unpaidEpoch < e)
      /\ unpaidEpoch \in Epochs
  BY <1>0, NeedsPaymentEarlier, NextEpochsType, BoundAssumption, EpochAssumption
     DEF Epochs, TypeOK
<1>2. height' = height + 1 /\ currentEpoch' = e
  BY DEF BlockEndOk
<1>3. /\ Started' = Started \cup {e}
      /\ \A i \in Started : startBlock'[i] = startBlock[i]
      /\ IsEpochChange(e) => e \notin Started /\ startBlock'[e] = height + 1
      /\ ~ IsEpochChange(e) => e = currentEpoch /\ e \in Started
      /\ \A i \in Started \ {e} : EpochEnd(i)' = EpochEnd(i)
      /\ EpochEnd(e)' = height + 2
  BY EndsAfterBlock
<1>4. \A i \in Started : /\ i \in Epochs /\ i \in Nat /\ startBlock[i] \in Nat
                         /\ EpochEnd(i) \in Nat
                         /\ (i = currentEpoch => EpochEnd(i) = height + 1)
  BY EpochEndProperties
<1>5. \/ unpaidEpoch' = unpaidEpoch /\ ~ MarksAsPaid(e)
      \/ /\ MarksAsPaid(e) /\ NeedsPayment(e) /\ unpaidEpoch' \in (unpaidEpoch + 1) .. e
         /\ \A i \in (unpaidEpoch + 1) .. (unpaidEpoch' - 1) : startBlock[i] = NoItem
         /\ unpaidEpoch' # e => startBlock[unpaidEpoch'] # NoItem
  <2>1. CASE ~ MarksAsPaid(e)
    BY <2>1 DEF BlockEndOk
  <2>2. CASE MarksAsPaid(e)
    <3>1. NeedsPayment(e) /\ unpaidEpoch' = NextUnpaidEpoch(e)
      BY <2>2 DEF MarksAsPaid, BlockEndOk
    <3> QED BY <1>0, <1>1, <2>2, <3>1, NextUnpaidEpochProperties
  <2> QED BY <2>1, <2>2
<1>6. unpaidEpoch' \in Nat /\ unpaidEpoch <= unpaidEpoch' /\ unpaidEpoch' <= e
  BY <1>0, <1>1, <1>5
<1>7. SumCounts(e)' = EpochEnd(e)' - startBlock'[e]
  <2>1. CASE IsEpochChange(e)
    BY <1>0, <1>1, <1>3, <2>1, CountsAfterBlock
  <2>2. CASE ~ IsEpochChange(e)
    <3>1. e = currentEpoch /\ e \in Started /\ height > 0
      BY <1>0, <1>3, <2>2 DEF IsEpochChange
    <3>2. SumCounts(e)' = SumCounts(e) + 1 /\ SumCounts(e) \in Nat
      BY <1>1, <2>2, CountsAfterBlock
    <3>3. SumCounts(e) = EpochEnd(e) - startBlock[e]
      <4>1. CASE unpaidEpoch = e
        BY <3>1, <4>1 DEF CountsInv
      <4>2. CASE unpaidEpoch # e
        <5>1. e > unpaidEpoch
          BY <1>0, <1>1, <4>2
        <5> QED BY <3>1, <5>1 DEF CountsInv, EpochBlocksAccounted
      <4> QED BY <4>1, <4>2
    <3>4. EpochEnd(e) = height + 1 /\ startBlock'[e] = startBlock[e] /\ startBlock[e] \in Nat
      BY <1>3, <1>4, <3>1
    <3> QED BY <1>0, <1>3, <3>2, <3>3, <3>4
  <2> QED BY <2>1, <2>2
<1>8. ASSUME NEW i \in Started, i # e, i > unpaidEpoch
      PROVE  SumCounts(i)' = EpochEnd(i)' - startBlock'[i]
  <2>1. SumCounts(i)' = SumCounts(i)
    BY <1>0, <1>4, <1>8, CountsAfterBlock
  <2>2. SumCounts(i) = EpochEnd(i) - startBlock[i]
    BY <1>8 DEF CountsInv, EpochBlocksAccounted
  <2> QED BY <1>3, <1>8, <2>1, <2>2
<1>9. ASSUME NEW i \in Started, i = unpaidEpoch, MarksAsPaid(e) PROVE SumCounts(i)' = 0
  <2>1. PaidProposers(e) = EpochProposers(i) /\ NeedsPayment(e)
    BY <1>0, <1>1, <1>9, BelowLimitPaysAll DEF MarksAsPaid
  <2>2. PICK new : new = blockCounts'[i]
    OBVIOUS
  <2>3. \A q \in Proposers : new[q] = IF q \in PaidProposers(e) THEN 0 ELSE blockCounts[i][q]
    BY <1>4, <1>9, <2>1, <2>2, CountsAfterBlock
  <2>4. \A q \in Proposers : blockCounts[i][q] \in Nat
    BY <1>0, <1>4 DEF TypeOK
  <2>5. \A q \in Proposers : new[q] = 0
    BY <2>1, <2>3, <2>4 DEF EpochProposers
  <2>6. SumCounts(i)' = SumOf(new, Proposers)
    <3>1. CountsAreSums'
      BY SumCountsSum, PTL
    <3> QED BY <1>4, <2>2, <3>1 DEF CountsAreSums
  <2>7. IsFiniteSet(Proposers)
    BY IdentityAssumption, FS_Subset
  <2> QED BY <2>5, <2>6, <2>7, SumOfZero
<1>10. ASSUME NEW i \in Started', i > unpaidEpoch'
       PROVE  SumCounts(i)' = EpochEnd(i)' - startBlock'[i]
  <2>1. CASE i = e
    BY <1>7, <2>1
  <2>2. CASE i # e
    <3>1. i \in Started
      BY <1>3, <2>2
    <3>2. i > unpaidEpoch
      BY <1>0, <1>4, <1>6, <1>10, <3>1
    <3> QED BY <1>8, <2>2, <3>1, <3>2
  <2> QED BY <2>1, <2>2
<1>11. ASSUME NEW i \in Started', i = unpaidEpoch'
       PROVE  SumCounts(i)' <= EpochEnd(i)' - startBlock'[i]
  <2>1. i \in Epochs /\ SumCounts(i)' \in Nat
    BY <1>1, <1>3, <1>4, CountsAfterBlock
  <2>2. CASE i = e
    BY <1>7, <2>1, <2>2
  <2>3. CASE i # e /\ i # unpaidEpoch
    <3>1. i \in Started /\ i > unpaidEpoch
      BY <1>0, <1>3, <1>6, <1>11, <2>3
    <3>2. SumCounts(i)' = EpochEnd(i)' - startBlock'[i]
      BY <1>8, <2>3, <3>1
    <3> QED BY <2>1, <3>2
  <2>4. CASE i # e /\ i = unpaidEpoch
    <3>1. i \in Started
      BY <1>3, <2>4
    <3>2. SumCounts(i) <= EpochEnd(i) - startBlock[i]
      BY <2>4, <3>1 DEF CountsInv, EpochBlocksAccounted
    <3>3. SumCounts(i)' <= SumCounts(i) /\ SumCounts(i) \in Nat
      <4>1. CASE NeedsPayment(e)
        BY <2>1, <2>4, <4>1, CountsAfterBlock
      <4>2. CASE ~ NeedsPayment(e)
        <5>1. SumCounts(i)' = SumCounts(i) /\ SumCounts(i) \in Nat
          BY <2>1, <2>4, <4>2, CountsAfterBlock
        <5> QED BY <5>1
      <4> QED BY <4>1, <4>2
    <3>4. EpochEnd(i)' = EpochEnd(i) /\ startBlock'[i] = startBlock[i]
      BY <1>3, <2>4, <3>1
    <3>5. EpochEnd(i) \in Nat /\ startBlock[i] \in Nat
      BY <1>4, <3>1
    <3> QED BY <2>1, <3>2, <3>3, <3>4, <3>5
  <2> QED BY <2>2, <2>3, <2>4
<1>12. ASSUME NEW i \in Started', i < unpaidEpoch' PROVE SumCounts(i)' = 0
  <2>1. i # e /\ i \in Started /\ i \in Nat /\ i \in Epochs
    BY <1>1, <1>3, <1>4, <1>6, <1>12
  <2>2. CASE i < unpaidEpoch
    <3>1. SumCounts(i) = 0
      BY <2>1, <2>2 DEF CountsInv, EpochBlocksAccounted
    <3>2. SumCounts(i)' = SumCounts(i)
      BY <1>0, <2>1, <2>2, CountsAfterBlock
    <3> QED BY <3>1, <3>2
  <2>3. CASE i = unpaidEpoch
    <3>1. MarksAsPaid(e)
      BY <1>0, <1>5, <1>12, <2>3
    <3> QED BY <1>9, <2>1, <2>3, <3>1
  <2>4. CASE i > unpaidEpoch
    <3>1. PICK u \in Nat : u = unpaidEpoch'
      BY <1>6
    <3>2. i \in (unpaidEpoch + 1) .. (u - 1) /\ u # unpaidEpoch
      <4>1. i < u
        BY <1>12, <3>1
      <4>2. i \in Nat /\ unpaidEpoch \in Nat /\ i > unpaidEpoch
        BY <1>0, <2>1, <2>4
      <4> QED BY <4>1, <4>2
    <3>3. startBlock[i] = NoItem
      BY <1>5, <3>1, <3>2
    <3> QED BY <2>1, <3>3 DEF Started
  <2> QED BY <1>0, <2>1, <2>2, <2>3, <2>4
<1>13. EpochBlocksAccounted'
  BY <1>10, <1>11, <1>12 DEF EpochBlocksAccounted
<1>14. ASSUME unpaidEpoch' = currentEpoch'
       PROVE  (SumCounts(unpaidEpoch) = EpochEnd(unpaidEpoch) - startBlock[unpaidEpoch])'
  BY <1>2, <1>7, <1>14
<1> QED BY <1>13, <1>14 DEF CountsInv

\* The counts are kept by every step.
LEMMA CountsInvNext ==
  ASSUME PoolsInv, PoolsInv', CountsInv, [Next]_vars
  PROVE  CountsInv'
<1>1. CASE \E e \in NextEpochs, p \in Proposers, f \in Fees : BlockEndOk(p, e, f)
  BY <1>1, BlockEndOkCounts
<1>2. CASE UNCHANGED <<height, currentEpoch, startBlock, blockCounts, unpaidEpoch>>
  <2>1. Started' = Started
    BY <1>2 DEF Started
  <2>2. \A i \in Epochs : SumCounts(i)' = SumCounts(i)
    <3>1. CountsAreSums /\ CountsAreSums'
      BY SumCountsSum, PTL
    <3> QED BY <1>2, <3>1 DEF CountsAreSums
  <2>3. \A i \in Epochs : EpochEnd(i)' = EpochEnd(i)
    <3>1. EndsAreEnds /\ EndsAreEnds'
      BY EpochEndIsEnd, PTL
    <3> QED BY <1>2, <2>1, <3>1 DEF EndsAreEnds
  <2>4. \A i \in Started : i \in Epochs
    BY DEF Started
  <2>5. EpochBlocksAccounted'
    BY <1>2, <2>1, <2>2, <2>3, <2>4 DEF CountsInv, EpochBlocksAccounted
  <2>6. unpaidEpoch \in Epochs
    BY EpochAssumption, BoundAssumption DEF PoolsInv, TypeOK, Epochs
  <2> QED BY <1>2, <2>2, <2>3, <2>5, <2>6 DEF CountsInv
<1> QED
  BY <1>1, <1>2 DEF Next, BlockEnd, BlockEndError, CreateRewardShare, ReplaceRewardShare,
                    DeleteRewardShare, pools, vars

\* The counts keep pace with the blocks.
LEMMA CountsAlwaysKept == Spec => []CountsInv
<1>1. Init => CountsInv
  <2> SUFFICES ASSUME Init PROVE CountsInv
    OBVIOUS
  <2>1. Started = {} /\ height = 0
    BY DEF Init, Started
  <2> QED BY <2>1 DEF CountsInv, EpochBlocksAccounted
<1>2. PoolsInv /\ PoolsInv' /\ CountsInv /\ [Next]_vars => CountsInv'
  BY CountsInvNext
<1> QED BY <1>1, <1>2, PoolsInvariant, PTL DEF Spec

\* The blocks an epoch's rewards are proportional to add up to its length until
\* its payout begins, and to no more from then on.
THEOREM BlocksAlwaysAccounted == Spec => []EpochBlocksAccounted
<1>1. CountsInv => EpochBlocksAccounted
  BY DEF CountsInv
<1> QED BY <1>1, CountsAlwaysKept, PTL

-----------------------------------------------------------------------------
(* What the payout of one block hands out.                                 *)

\* The rewards of a block's proposers, what their documents leave them, and
\* what they are given.
Rewards(e) == [p \in PaidProposers(e) |-> MasternodeReward(e, p)]
OwnRewards(e) == [p \in PaidProposers(e) |-> OwnReward(e, p)]
RewardsGiven(e) == [p \in PaidProposers(e) |-> RewardGiven(e, p)]

\* The documents of a set of proposers, and what each of them takes.
Documents(Q) == {d \in rewardShares : d.owner \in Q}
DocumentRewards(e) ==
  [d \in rewardShares |-> ShareReward(d, RewardBefore(e, d.owner)[d.id])]

\* Everything a payout hands out.
HandedOut(e) == SumOf(DocumentRewards(e), Documents(PaidProposers(e)))
                  + SumOf(RewardsGiven(e), PaidProposers(e))

\* There are finitely many documents: their ids tell them apart.
LEMMA SharesFinite ==
  ASSUME TypeOK, ShareIdsUnique
  PROVE  IsFiniteSet(rewardShares)
<1> DEFINE h == [d \in rewardShares |-> d.id]
<1>1. \A d \in rewardShares : d.id \in ShareIds
  BY DEF TypeOK, RewardShare
<1>2. h \in [rewardShares -> ShareIds]
  BY <1>1
<1>3. \A x, y \in DOMAIN h : h[x] = h[y] => x = y
  BY DEF ShareIdsUnique
<1>4. h \in Injection(rewardShares, ShareIds)
  BY <1>2, <1>3 DEF Injection, IsInjective
<1> HIDE DEF h
<1> QED BY <1>4, FS_Injection, ShareAssumption

\* What a document takes is a number of credits.
LEMMA DocumentRewardType ==
  ASSUME PoolsInv, ShareIdsUnique, NEW e \in NextEpochs, NeedsPayment(e), PayoutReadable(e),
         NEW d \in rewardShares
  PROVE  /\ d.owner \in Proposers /\ d.id \in 0 .. LastShare
         /\ DocumentRewards(e)[d] = ShareReward(d, RewardBefore(e, d.owner)[d.id])
         /\ DocumentRewards(e)[d] \in Nat
<1>1. d \in RewardShare
  BY DEF PoolsInv, TypeOK
<1>2. d.owner \in Proposers /\ d.id \in ShareIds
  BY <1>1 DEF RewardShare
<1>3. d.id \in 0 .. LastShare /\ d.id \in 0 .. (LastShare + 1)
  BY <1>2, LastShareType
<1>4. RewardBefore(e, d.owner)[d.id] \in Nat
  BY <1>2, <1>3, OwnRewardType
<1>5. DocumentRewards(e)[d] = ShareReward(d, RewardBefore(e, d.owner)[d.id])
  BY DEF DocumentRewards
<1> QED BY <1>1, <1>2, <1>3, <1>4, <1>5, ShareRewardBounds

\* What the documents of a proposer take is what is missing from its reward in
\* the end.
LEMMA DocumentsTake ==
  ASSUME PoolsInv, ShareIdsUnique, NEW e \in NextEpochs, NeedsPayment(e), PayoutReadable(e),
         NEW p \in Proposers
  PROVE  /\ SumOf(DocumentRewards(e), Documents({p})) \in Nat
         /\ DECIMAL_ONE * SumOf(DocumentRewards(e), Documents({p}))
              = MasternodeReward(e, p) - OwnReward(e, p)
<1>0. TypeOK /\ IsFiniteSet(rewardShares) /\ DECIMAL_ONE \in Nat
  BY SharesFinite, PayoutAssumption DEF PoolsInv
<1>1. PICK n \in Nat : n = LastShare + 1
  BY LastShareType
<1>2. PICK b \in [0 .. n -> Nat] : b = RewardBefore(e, p)
  BY <1>1, OwnRewardType
<1>3. PICK f : f = DocumentRewards(e)
  OBVIOUS
<1> DEFINE Before(i) == {d \in rewardShares : d.owner = p /\ d.id < i}
           Good == {i \in 0 .. n : /\ SumOf(f, Before(i)) \in Nat
                                   /\ DECIMAL_ONE * SumOf(f, Before(i)) = b[0] - b[i]}
<1>4. \A d \in rewardShares : f[d] \in Nat /\ f[d] \in Int /\ d.id \in 0 .. LastShare /\ d.id \in Nat
  <2> TAKE d \in rewardShares
  <2>1. f[d] \in Nat /\ d.id \in 0 .. LastShare
    BY <1>3, DocumentRewardType
  <2> QED BY <2>1, LastShareType
<1>5. 0 \in Good
  <2>1. Before(0) = {}
    BY <1>4
  <2>2. SumOf(f, Before(0)) = 0
    BY <2>1, SumOfNone
  <2>3. DECIMAL_ONE * 0 = b[0] - b[0] /\ 0 \in 0 .. n
    BY <1>0, <1>1, <1>2
  <2> HIDE DEF Before
  <2> QED BY <2>2, <2>3
<1>6. ASSUME NEW i \in Nat, i < n, i \in Good PROVE i + 1 \in Good
  <2>1. /\ i \in 0 .. LastShare /\ i + 1 \in 0 .. n /\ i \in 0 .. n
        /\ b[i] \in Nat /\ b[i + 1] \in Nat /\ b[0] \in Nat
    BY <1>1, <1>6, LastShareType
  <2>2. b[i + 1] = b[i] - TakenReward(p, i, b[i]) * DECIMAL_ONE
    <3>1. MasternodeReward(e, p) \in Nat
      BY MasternodeRewardType
    <3> QED BY <1>0, <1>2, <2>1, <3>1, RewardBeforeProperties
  <2>3. SumOf(f, Before(i)) \in Nat /\ DECIMAL_ONE * SumOf(f, Before(i)) = b[0] - b[i]
    BY <1>6
  <2>4. CASE Taken(p, i) = {}
    <3>1. Before(i + 1) = Before(i)
      <4>1. ASSUME NEW d \in rewardShares, d.owner = p PROVE d.id < i + 1 <=> d.id < i
        <5>1. d.id # i
          BY <2>4, <4>1 DEF Taken
        <5>2. d.id \in Nat
          BY <1>4
        <5> QED BY <5>1, <5>2
      <4> QED BY <4>1
    <3>2. TakenReward(p, i, b[i]) = 0
      BY <1>0, <2>1, <2>4, TakenRewardValue
    <3>3. b[i + 1] = b[i]
      BY <1>0, <2>1, <2>2, <3>2
    <3> HIDE DEF Before
    <3> QED BY <2>1, <2>3, <3>1, <3>3
  <2>5. CASE Taken(p, i) # {}
    <3>1. PICK d \in Taken(p, i) : TRUE
      BY <2>5
    <3>2. d \in rewardShares /\ d.owner = p /\ d.id = i
      BY <3>1 DEF Taken
    <3>3. Before(i + 1) = Before(i) \cup {d} /\ d \notin Before(i)
      <4>1. ASSUME NEW x \in rewardShares, x.owner = p PROVE x.id < i + 1 <=> x.id < i \/ x = d
        <5>1. x.id = i => x = d
          BY <3>2 DEF ShareIdsUnique
        <5>2. x.id \in Nat
          BY <1>4
        <5> QED BY <3>2, <5>1, <5>2
      <4> QED BY <3>2, <4>1
    <3>4. IsFiniteSet(Before(i)) /\ \A y \in Before(i) \cup {d} : f[y] \in Int
      <4>1. Before(i) \in SUBSET rewardShares
        OBVIOUS
      <4>2. IsFiniteSet(Before(i))
        <5> HIDE DEF Before
        <5> QED BY <1>0, <4>1, FS_Subset
      <4> QED BY <1>4, <3>2, <4>2
    <3>5. TakenReward(p, i, b[i]) = ShareReward(d, b[i])
      BY <1>0, <2>1, <3>1, TakenRewardValue
    <3>6. f[d] = ShareReward(d, b[i]) /\ f[d] \in Nat
      <4>1. f[d] = ShareReward(d, RewardBefore(e, d.owner)[d.id])
        BY <1>3, <3>2, DocumentRewardType
      <4> QED BY <1>2, <1>4, <3>2, <4>1
    <3> HIDE DEF Before
    <3>7. SumOf(f, Before(i) \cup {d}) = f[d] + SumOf(f, Before(i))
      BY <3>3, <3>4, SumOfOneMore
    <3>8. PICK s \in Nat, t \in Nat : s = SumOf(f, Before(i)) /\ t = f[d]
      BY <2>3, <3>6
    <3>9. SumOf(f, Before(i + 1)) = t + s
      BY <3>3, <3>7, <3>8
    <3>10. DECIMAL_ONE * (t + s) = t * DECIMAL_ONE + DECIMAL_ONE * s
           /\ t * DECIMAL_ONE \in Nat /\ DECIMAL_ONE * s \in Nat
      BY <1>0
    <3>11. b[i + 1] = b[i] - t * DECIMAL_ONE /\ DECIMAL_ONE * s = b[0] - b[i]
      BY <2>2, <2>3, <3>5, <3>6, <3>8
    <3>12. DECIMAL_ONE * (t + s) = b[0] - b[i + 1]
      BY <2>1, <3>10, <3>11
    <3>13. t + s \in Nat
      OBVIOUS
    <3> QED BY <2>1, <3>9, <3>12, <3>13
  <2> QED BY <2>4, <2>5
<1>7. \A i \in 0 .. n : i \in Good
  <2> HIDE DEF Good
  <2> QED BY <1>5, <1>6, UpTo
<1>8. n \in Good
  BY <1>7
<1>9. Before(n) = Documents({p})
  <2>1. ASSUME NEW d \in rewardShares PROVE d.id < n
    <3>1. d.id \in 0 .. LastShare
      BY <1>4
    <3> QED BY <1>1, <3>1, LastShareType
  <2> QED BY <2>1 DEF Documents
<1>10. b[0] = MasternodeReward(e, p) /\ b[n] = OwnReward(e, p)
  <2>1. b[0] = MasternodeReward(e, p)
    BY <1>0, <1>2, MasternodeRewardType, RewardBeforeProperties
  <2>2. b[n] = OwnReward(e, p)
    BY <1>1, <1>2 DEF OwnReward, LastShare
  <2> QED BY <2>1, <2>2
<1> HIDE DEF Before
<1>11. SumOf(f, Before(n)) \in Nat /\ DECIMAL_ONE * SumOf(f, Before(n)) = b[0] - b[n]
  BY <1>8
<1> QED BY <1>3, <1>9, <1>10, <1>11

\* The amounts of a payout, with their types.
LEMMA RewardsType ==
  ASSUME PoolsInv, ShareIdsUnique, NEW e \in NextEpochs, NeedsPayment(e), PayoutReadable(e),
         NEW p \in PaidProposers(e)
  PROVE  /\ Rewards(e)[p] = MasternodeReward(e, p) /\ Rewards(e)[p] \in Nat
         /\ OwnRewards(e)[p] = OwnReward(e, p) /\ OwnRewards(e)[p] \in Nat
         /\ RewardsGiven(e)[p] = RewardGiven(e, p) /\ RewardsGiven(e)[p] \in Nat
<1>1. p \in Proposers
  BY PaidProposersType
<1>2. MasternodeReward(e, p) \in Nat
  BY <1>1, MasternodeRewardType
<1>3. OwnReward(e, p) \in Nat /\ FeeLeftovers(e) \in Nat
  BY <1>1, OwnRewardType
<1>4. Floor(OwnReward(e, p)) \in Nat /\ Floor(OwnReward(e, p)) * DECIMAL_ONE \in Nat
  BY <1>3, FloorBounds
<1>5. Floor(Floor(OwnReward(e, p)) * DECIMAL_ONE + FeeLeftovers(e)) \in Nat
  <2>1. Floor(OwnReward(e, p)) * DECIMAL_ONE + FeeLeftovers(e) \in Nat
    BY <1>3, <1>4
  <2> QED BY <2>1, FloorBounds
<1>6. RewardGiven(e, p) \in Nat
  BY <1>4, <1>5 DEF RewardGiven
<1>7. /\ Rewards(e)[p] = MasternodeReward(e, p)
      /\ OwnRewards(e)[p] = OwnReward(e, p)
      /\ RewardsGiven(e)[p] = RewardGiven(e, p)
  BY DEF Rewards, OwnRewards, RewardsGiven
<1> QED BY <1>2, <1>3, <1>6, <1>7

\* What all documents take is what is missing from all rewards.
LEMMA AllDocumentsTake ==
  ASSUME PoolsInv, ShareIdsUnique, NEW e \in NextEpochs, NeedsPayment(e), PayoutReadable(e)
  PROVE  /\ SumOf(DocumentRewards(e), Documents(PaidProposers(e))) \in Nat
         /\ DECIMAL_ONE * SumOf(DocumentRewards(e), Documents(PaidProposers(e)))
              = SumOf(Rewards(e), PaidProposers(e)) - SumOf(OwnRewards(e), PaidProposers(e))
<1>0. TypeOK /\ IsFiniteSet(rewardShares) /\ DECIMAL_ONE \in Nat
  BY SharesFinite, PayoutAssumption DEF PoolsInv
<1>1. PICK P : P = PaidProposers(e)
  OBVIOUS
<1>2. IsFiniteSet(P) /\ P \subseteq Proposers
  BY <1>1, PaidProposersType
<1>3. PICK f : f = DocumentRewards(e)
  OBVIOUS
<1>4. PICK r : r = Rewards(e)
  OBVIOUS
<1>5. PICK o : o = OwnRewards(e)
  OBVIOUS
<1>6. \A d \in rewardShares : f[d] \in Int
  <2> TAKE d \in rewardShares
  <2>1. f[d] \in Nat
    BY <1>3, DocumentRewardType
  <2> QED BY <2>1
<1>7. \A p \in P : r[p] \in Int /\ o[p] \in Int
  <2> TAKE p \in P
  <2>1. r[p] \in Nat /\ o[p] \in Nat
    BY <1>1, <1>4, <1>5, RewardsType
  <2> QED BY <2>1
<1>8. ASSUME NEW p \in P
      PROVE  /\ SumOf(f, Documents({p})) \in Nat
             /\ DECIMAL_ONE * SumOf(f, Documents({p})) = r[p] - o[p]
  <2>1. p \in Proposers /\ r[p] = MasternodeReward(e, p) /\ o[p] = OwnReward(e, p)
    BY <1>1, <1>2, <1>4, <1>5, RewardsType
  <2> QED BY <1>3, <2>1, DocumentsTake
<1> DEFINE Good == {Q \in SUBSET P :
                      /\ SumOf(f, Documents(Q)) \in Nat
                      /\ DECIMAL_ONE * SumOf(f, Documents(Q)) = SumOf(r, Q) - SumOf(o, Q)}
<1>9. ASSUME NEW Q \in SUBSET P, \A U \in SUBSET Q : U # Q => U \in Good
      PROVE  Q \in Good
  <2>1. IsFiniteSet(Q)
    BY <1>2, FS_Subset
  <2>2. CASE Q = {}
    <3>1. Documents(Q) = {}
      BY <2>2 DEF Documents
    <3>2. SumOf(f, Documents(Q)) = 0 /\ SumOf(r, Q) = 0 /\ SumOf(o, Q) = 0
      BY <2>2, <3>1, SumOfNone
    <3>3. DECIMAL_ONE * 0 = 0 - 0
      BY <1>0
    <3> QED BY <3>2, <3>3
  <2>3. CASE Q # {}
    <3>1. PICK p \in Q : TRUE
      BY <2>3
    <3>2. Q \ {p} \in Good /\ IsFiniteSet(Q \ {p})
      BY <1>9, <2>1, <3>1, FS_RemoveElement
    <3>3. PICK A, B : A = Documents(Q \ {p}) /\ B = Documents({p})
      OBVIOUS
    <3>4. Documents(Q) = A \cup B /\ A \cap B = {}
      BY <3>1, <3>3 DEF Documents
    <3>5. A \in SUBSET rewardShares /\ B \in SUBSET rewardShares
      BY <3>3 DEF Documents
    <3>6. IsFiniteSet(A) /\ IsFiniteSet(B) /\ \A x \in A \cup B : f[x] \in Int
      BY <1>0, <1>6, <3>5, FS_Subset
    <3>7. SumOf(f, A \cup B) = SumOf(f, A) + SumOf(f, B)
      BY <3>4, <3>6, SumOfUnion
    <3>8. PICK a \in Nat, b \in Nat : a = SumOf(f, A) /\ b = SumOf(f, B)
      BY <1>8, <3>1, <3>2, <3>3
    <3>9. DECIMAL_ONE * b = r[p] - o[p] /\ r[p] \in Int /\ o[p] \in Int
      BY <1>7, <1>8, <3>1, <3>3, <3>8
    <3>10. DECIMAL_ONE * a = SumOf(r, Q \ {p}) - SumOf(o, Q \ {p})
      BY <3>2, <3>3, <3>8
    <3>11. SumOf(r, Q) = r[p] + SumOf(r, Q \ {p}) /\ SumOf(o, Q) = o[p] + SumOf(o, Q \ {p})
      <4>1. \A x \in Q : r[x] \in Int
        BY <1>7
      <4>2. \A x \in Q : o[x] \in Int
        BY <1>7
      <4>3. SumOf(r, Q) = r[p] + SumOf(r, Q \ {p})
        BY <2>1, <3>1, <4>1, SumOfElement
      <4>4. SumOf(o, Q) = o[p] + SumOf(o, Q \ {p})
        BY <2>1, <3>1, <4>2, SumOfElement
      <4> QED BY <4>3, <4>4
    <3>12. SumOf(r, Q \ {p}) \in Int /\ SumOf(o, Q \ {p}) \in Int
      <4>1. \A x \in Q \ {p} : r[x] \in Int
        BY <1>7
      <4>2. \A x \in Q \ {p} : o[x] \in Int
        BY <1>7
      <4>3. SumOf(r, Q \ {p}) \in Int
        BY <3>2, <4>1, SumOfElement
      <4>4. SumOf(o, Q \ {p}) \in Int
        BY <3>2, <4>2, SumOfElement
      <4> QED BY <4>3, <4>4
    <3>13. DECIMAL_ONE * (a + b) = DECIMAL_ONE * a + DECIMAL_ONE * b /\ a + b \in Nat
      BY <1>0
    <3>14. SumOf(f, Documents(Q)) = a + b
      BY <3>4, <3>7, <3>8
    <3>15. DECIMAL_ONE * (a + b) = SumOf(r, Q) - SumOf(o, Q)
      BY <3>9, <3>10, <3>11, <3>12, <3>13
    <3> QED BY <3>13, <3>14, <3>15
  <2> QED BY <2>2, <2>3
<1>10. \A Q \in SUBSET P : Q \in Good
  <2> HIDE DEF Good
  <2> QED BY <1>2, <1>9, SubsetInduction
<1>11. P \in Good
  BY <1>10
<1> QED BY <1>1, <1>3, <1>4, <1>5, <1>11

\* The last proposer of the block gets the fractions of all of them.
LEMMA GivenSum ==
  ASSUME PoolsInv, ShareIdsUnique, NEW e \in NextEpochs, NeedsPayment(e), PayoutReadable(e)
  PROVE  /\ SumOf(RewardsGiven(e), PaidProposers(e)) \in Nat
         /\ DECIMAL_ONE * SumOf(RewardsGiven(e), PaidProposers(e))
              <= SumOf(OwnRewards(e), PaidProposers(e))
         /\ SumOf(OwnRewards(e), PaidProposers(e))
              < DECIMAL_ONE * SumOf(RewardsGiven(e), PaidProposers(e)) + DECIMAL_ONE
<1>0. PICK k \in Nat \ {0} : k = DECIMAL_ONE
  BY PayoutAssumption
<1>1. PICK P : P = PaidProposers(e)
  OBVIOUS
<1>2. IsFiniteSet(P) /\ P \subseteq Proposers
  BY <1>1, PaidProposersType
<1>3. PICK g : g = RewardsGiven(e)
  OBVIOUS
<1>4. PICK o : o = OwnRewards(e)
  OBVIOUS
<1>5. PICK r : r = Fractions(e)
  OBVIOUS
<1>6. \A p \in P : /\ g[p] \in Nat /\ o[p] \in Nat /\ r[p] \in Nat
                   /\ g[p] = RewardGiven(e, p) /\ o[p] = OwnReward(e, p)
                   /\ r[p] = o[p] % k
  <2> TAKE p \in P
  <2>1. g[p] \in Nat /\ g[p] = RewardGiven(e, p) /\ o[p] \in Nat /\ o[p] = OwnReward(e, p)
    BY <1>1, <1>3, <1>4, RewardsType
  <2>2. r[p] \in Nat
    BY <1>1, <1>5, OwnRewardType
  <2>3. r[p] = OwnReward(e, p) % k
    BY <1>0, <1>1, <1>5 DEF Fractions
  <2> QED BY <2>1, <2>2, <2>3
<1> DEFINE w == [p \in P |-> Floor(o[p])]
           kw == [p \in P |-> k * w[p]]
<1>7. \A p \in P : w[p] \in Nat /\ kw[p] = k * w[p] /\ kw[p] \in Nat /\ o[p] = kw[p] + r[p]
  <2> TAKE p \in P
  <2>1. /\ Floor(o[p]) \in Nat
        /\ o[p] % k = o[p] - Floor(o[p]) * k
    BY <1>0, <1>6, FloorBounds
  <2>2. PICK q \in Nat : q = Floor(o[p])
    BY <2>1
  <2>3. q * k = k * q /\ k * q \in Nat
    OBVIOUS
  <2>4. w[p] = q /\ kw[p] = k * q
    BY <2>2
  <2> QED BY <1>6, <2>1, <2>2, <2>3, <2>4
<1>8. PICK l \in Nat : l = SumOf(r, P) /\ l = FeeLeftovers(e)
  <2>1. FeeLeftovers(e) = SumOf(r, P)
    BY <1>1, <1>5, FeeLeftoversSum
  <2>2. FeeLeftovers(e) \in Nat
    BY OwnRewardType
  <2> QED BY <2>1, <2>2
<1>9. PICK c \in Nat : c = Floor(l) /\ k * c \in Nat /\ k * c <= l /\ l < k * c + k
  <2>1. Floor(l) \in Nat /\ Floor(l) * k <= l /\ l < Floor(l) * k + k
    BY <1>0, FloorBounds
  <2>2. PICK c \in Nat : c = Floor(l)
    BY <2>1
  <2>3. c * k = k * c /\ k * c \in Nat
    OBVIOUS
  <2> QED BY <2>1, <2>2, <2>3
<1>10. SumOf(o, P) = SumOf(kw, P) + SumOf(r, P)
  <2>1. \A p \in P : kw[p] \in Int /\ r[p] \in Int /\ o[p] = kw[p] + r[p]
    BY <1>6, <1>7
  <2> HIDE DEF kw
  <2> QED BY <1>2, <2>1, SumOfLinear
<1>11. PICK a \in Nat : a = SumOf(w, P) /\ SumOf(kw, P) = k * a
  <2>1. SumOf(w, P) \in Nat
    <3>1. \A p \in P : w[p] \in Nat
      BY <1>7
    <3> HIDE DEF w
    <3> QED BY <1>2, <3>1, SumOfNat
  <2>2. SumOf(kw, P) = k * SumOf(w, P)
    <3>1. \A p \in P : w[p] \in Int /\ kw[p] = k * w[p]
      BY <1>7
    <3>2. k \in Int
      OBVIOUS
    <3> HIDE DEF w, kw
    <3> QED BY <1>2, <3>1, <3>2, SumOfScaled
  <2> QED BY <2>1, <2>2
<1>12. CASE P = {}
  <2>1. SumOf(g, P) = 0 /\ SumOf(o, P) = 0
    BY <1>12, SumOfNone
  <2>2. DECIMAL_ONE * 0 = 0 /\ 0 < 0 + DECIMAL_ONE
    BY <1>0
  <2> QED BY <1>1, <1>3, <1>4, <2>1, <2>2
<1>13. CASE P # {}
  <2>1. PICK m \in P : m = Max(P)
    <3>1. P \in SUBSET Nat
      BY <1>2, IdentityAssumption
    <3> QED BY <1>2, <1>13, <3>1, MaxProperties
  <2>2. g[m] = w[m] + c
    <3>1. PICK q \in Nat : q = Floor(o[m]) /\ w[m] = q
      BY <1>7
    <3>2. g[m] = Floor(q * k + l)
      BY <1>0, <1>1, <1>6, <1>8, <2>1, <3>1 DEF RewardGiven
    <3>3. PICK v \in Nat : v = Floor(q * k + l)
      <4>1. q * k + l \in Nat
        OBVIOUS
      <4> QED BY <4>1, FloorBounds
    <3>4. v * k <= q * k + l /\ q * k + l < v * k + k
      <4>1. q * k + l \in Nat
        OBVIOUS
      <4> QED BY <1>0, <3>3, <4>1, FloorBounds
    <3>5. v * k = k * v /\ q * k = k * q /\ k * v \in Nat /\ k * q \in Nat
      OBVIOUS
    <3>6. k * (q + c) = k * q + k * c
      OBVIOUS
    <3>7. v <= q + c
      <4> SUFFICES ASSUME v >= q + c + 1 PROVE FALSE
        OBVIOUS
      <4>1. k * v >= k * (q + c + 1) /\ k * (q + c + 1) = k * (q + c) + k
        OBVIOUS
      <4> QED BY <1>9, <3>4, <3>5, <3>6, <4>1
    <3>8. v >= q + c
      <4> SUFFICES ASSUME v + 1 <= q + c PROVE FALSE
        OBVIOUS
      <4>1. k * (v + 1) <= k * (q + c) /\ k * (v + 1) = k * v + k
        OBVIOUS
      <4> QED BY <1>9, <3>4, <3>5, <3>6, <4>1
    <3>9. v = q + c
      BY <3>7, <3>8
    <3> QED BY <3>1, <3>2, <3>3, <3>9
  <2>3. \A p \in P \ {m} : g[p] = w[p]
    <3> TAKE p \in P \ {m}
    <3>1. g[p] = RewardGiven(e, p) /\ p # Max(PaidProposers(e))
      BY <1>1, <1>6, <2>1
    <3> QED BY <1>6, <3>1 DEF RewardGiven
  <2>4. \A p \in P : w[p] \in Int /\ g[p] \in Int
    BY <1>6, <1>7
  <2>5. w[m] \in Nat
    BY <1>7
  <2> HIDE DEF w, kw
  <2>6. SumOf(g, P) = SumOf(w, P) + (g[m] - w[m])
    <3>1. IsFiniteSet(P) /\ m \in P
      BY <1>2
    <3>2. PICK v : v = w
      OBVIOUS
    <3>3. (\A y \in P : v[y] \in Int /\ g[y] \in Int) /\ \A y \in P \ {m} : g[y] = v[y]
      BY <2>3, <2>4, <3>2
    <3>4. SumOf(g, P) = SumOf(v, P) + (g[m] - v[m])
      BY <3>1, <3>3, SumOfChange
    <3> QED BY <3>2, <3>4
  <2>7. SumOf(g, P) = a + c
    BY <1>11, <2>2, <2>5, <2>6
  <2>8. SumOf(o, P) = k * a + l
    BY <1>8, <1>10, <1>11
  <2>9. k * (a + c) = k * a + k * c /\ k * a \in Nat /\ a + c \in Nat
    OBVIOUS
  <2>10. k * (a + c) <= k * a + l /\ k * a + l < k * (a + c) + k
    BY <1>9, <2>9
  <2> QED BY <1>0, <1>1, <1>3, <1>4, <2>7, <2>8, <2>9, <2>10
<1> QED BY <1>12, <1>13

\* A payout hands out all of its proposers' rewards but a fraction of a credit.
LEMMA HandedOutBounds ==
  ASSUME PoolsInv, ShareIdsUnique, NEW e \in NextEpochs, NeedsPayment(e), PayoutReadable(e)
  PROVE  /\ HandedOut(e) \in Nat
         /\ SumOf(Rewards(e), PaidProposers(e)) \in Nat
         /\ DECIMAL_ONE * HandedOut(e) <= SumOf(Rewards(e), PaidProposers(e))
         /\ SumOf(Rewards(e), PaidProposers(e)) < DECIMAL_ONE * HandedOut(e) + DECIMAL_ONE
<1>0. PICK k \in Nat \ {0} : k = DECIMAL_ONE
  BY PayoutAssumption
<1>1. PICK a \in Nat : /\ a = SumOf(DocumentRewards(e), Documents(PaidProposers(e)))
                       /\ k * a = SumOf(Rewards(e), PaidProposers(e))
                                    - SumOf(OwnRewards(e), PaidProposers(e))
  BY <1>0, AllDocumentsTake
<1>2. PICK b \in Nat : b = SumOf(RewardsGiven(e), PaidProposers(e))
  BY GivenSum
<1>3. PICK o \in Nat : o = SumOf(OwnRewards(e), PaidProposers(e))
  <2>1. \A p \in PaidProposers(e) : OwnRewards(e)[p] \in Nat
    BY RewardsType
  <2> QED BY <2>1, PaidProposersType, SumOfNat
<1>4. PICK r \in Nat : r = SumOf(Rewards(e), PaidProposers(e))
  <2>1. \A p \in PaidProposers(e) : Rewards(e)[p] \in Nat
    BY RewardsType
  <2> QED BY <2>1, PaidProposersType, SumOfNat
<1>5. k * b <= o /\ o < k * b + k
  BY <1>0, <1>2, <1>3, GivenSum
<1>6. k * a = r - o
  BY <1>1, <1>3, <1>4
<1>7. k * (a + b) = k * a + k * b /\ k * a \in Nat /\ k * b \in Nat /\ a + b \in Nat
  OBVIOUS
<1>8. k * (a + b) <= r /\ r < k * (a + b) + k
  BY <1>5, <1>6, <1>7
<1>9. HandedOut(e) = a + b
  BY <1>1, <1>2 DEF HandedOut
<1> QED BY <1>0, <1>4, <1>7, <1>8, <1>9

\* In a consistent batch a payment is all that happens to its payee.
LEMMA SinglePayment ==
  ASSUME NEW e, BATCHING_ENABLED, NeedsPayment(e), BatchConsistent(e), NEW y \in Payments(e),
         y.to \in Identities, y.place[1] \in Nat, y.place[2] \in Nat
  PROVE  ProcessedBalances(e)[y.to] = balances[y.to] + y.amount
<1>1. \A z \in Payments(e) : z.to = y.to => z = y
  BY DEF BatchConsistent
<1>2. PaymentsTo(e, y.to) = {y}
  BY <1>1 DEF PaymentsTo
<1>3. LastPayments(e, y.to) = {y}
  BY <1>2 DEF LastPayments
<1>4. (CHOOSE x \in LastPayments(e, y.to) : TRUE) = y
  BY <1>3
<1>5. LastPayments(e, y.to) # {}
  BY <1>3
<1> QED BY <1>4, <1>5 DEF ProcessedBalances

\* The payments of a block raise the balances by what it hands out.
LEMMA BalancesTotal ==
  ASSUME PoolsInv, ShareIdsUnique, NEW e \in NextEpochs, NeedsPayment(e), PayoutSucceeds(e),
         BATCHING_ENABLED
  PROVE  SumOf(ProcessedBalances(e), Identities) = SumOf(balances, Identities) + HandedOut(e)
<1>0. /\ TypeOK /\ IsFiniteSet(rewardShares) /\ PayoutReadable(e) /\ BatchConsistent(e)
      /\ \A y \in Payments(e) : y.to \in Identities /\ y.amount \in Nat
  BY SharesFinite DEF PoolsInv, PayoutSucceeds
<1>1. PICK P : P = PaidProposers(e)
  OBVIOUS
<1>2. IsFiniteSet(P) /\ P \subseteq Proposers /\ P \subseteq Identities /\ P \subseteq Nat
      /\ IsFiniteSet(Identities)
  BY <1>1, PaidProposersType, IdentityAssumption
<1>3. PICK D : D = Documents(P)
  OBVIOUS
<1>4. PICK f : f = DocumentRewards(e)
  OBVIOUS
<1>5. PICK g : g = RewardsGiven(e)
  OBVIOUS
<1>6. PICK new : new = ProcessedBalances(e)
  OBVIOUS
<1>7. D \in SUBSET rewardShares /\ \A d \in D : d.owner \in P
  BY <1>3 DEF Documents
<1>8. \A d \in D : f[d] \in Nat /\ f[d] \in Int /\ d.id \in Nat /\ d.id < LastShare + 1
                   /\ d.owner \in Nat
  <2> TAKE d \in D
  <2>1. f[d] \in Nat /\ d.id \in 0 .. LastShare
    BY <1>0, <1>4, <1>7, DocumentRewardType
  <2>2. d.owner \in Nat
    BY <1>2, <1>7
  <2> QED BY <2>1, <2>2, LastShareType
<1>9. \A p \in P : g[p] \in Nat /\ g[p] \in Int /\ g[p] = RewardGiven(e, p)
  <2> TAKE p \in P
  <2>1. g[p] \in Nat /\ g[p] = RewardGiven(e, p)
    BY <1>0, <1>1, <1>5, RewardsType
  <2> QED BY <2>1
<1> DEFINE yd(d) == [to |-> d.payTo, amount |-> f[d], place |-> <<d.owner, d.id>>]
           yp(p) == [to |-> p, amount |-> g[p], place |-> <<p, LastShare + 1>>]
<1>10. \A d \in D : yd(d) \in Payments(e)
  <2> TAKE d \in D
  <2>1. d \in rewardShares /\ d.owner \in PaidProposers(e)
    BY <1>1, <1>7
  <2>2. f[d] = ShareReward(d, RewardBefore(e, d.owner)[d.id])
    BY <1>4, <2>1 DEF DocumentRewards
  <2> QED BY <2>1, <2>2 DEF Payments
<1>11. \A p \in P : yp(p) \in Payments(e)
  <2> TAKE p \in P
  <2>1. p \in PaidProposers(e) /\ g[p] = RewardGiven(e, p)
    BY <1>1, <1>9
  <2> QED BY <2>1 DEF Payments, LastShare
<1>12. \A y \in Payments(e) : (\E d \in D : y.to = d.payTo) \/ y.to \in P
  BY <1>1, <1>3 DEF Payments, Documents
<1>13. \A id \in Identities : balances[id] \in Nat /\ balances[id] \in Int
  BY <1>0 DEF TypeOK
<1>14. ASSUME NEW d \in D PROVE d.payTo \in Identities /\ new[d.payTo] = balances[d.payTo] + f[d]
  <2>1. PICK y \in Payments(e) : y = yd(d)
    BY <1>10
  <2>2. /\ y.to = d.payTo /\ y.amount = f[d] /\ y.place[1] = d.owner /\ y.place[2] = d.id
    BY <2>1
  <2>3. y.to \in Identities
    BY <1>0
  <2>4. y.place[1] \in Nat /\ y.place[2] \in Nat
    BY <1>8, <2>2
  <2>5. ProcessedBalances(e)[y.to] = balances[y.to] + y.amount
    BY <1>0, <2>3, <2>4, SinglePayment
  <2> QED BY <1>6, <2>2, <2>3, <2>5
<1>15. ASSUME NEW p \in P PROVE new[p] = balances[p] + g[p]
  <2>1. PICK y \in Payments(e) : y = yp(p)
    BY <1>11
  <2>2. /\ y.to = p /\ y.amount = g[p] /\ y.place[1] = p /\ y.place[2] = LastShare + 1
    BY <2>1
  <2>3. y.to \in Identities
    BY <1>0
  <2>4. y.place[1] \in Nat /\ y.place[2] \in Nat
    <3>1. p \in Nat
      BY <1>2
    <3> QED BY <2>2, <3>1, LastShareType
  <2>5. ProcessedBalances(e)[y.to] = balances[y.to] + y.amount
    BY <1>0, <2>3, <2>4, SinglePayment
  <2> QED BY <1>6, <2>2, <2>5
<1>16. ASSUME NEW id \in Identities, id \notin P, \A d \in D : id # d.payTo
       PROVE  new[id] = balances[id]
  <2>1. PaymentsTo(e, id) = {}
    BY <1>12, <1>16 DEF PaymentsTo
  <2>2. LastPayments(e, id) = {}
    BY <2>1 DEF LastPayments
  <2> QED BY <1>6, <2>2 DEF ProcessedBalances
<1>17. \A y, z \in Payments(e) : y.to = z.to => y = z
  BY <1>0 DEF BatchConsistent
<1>18. ASSUME NEW d \in D, NEW x \in D, d.payTo = x.payTo PROVE d = x
  <2>1. PICK y \in Payments(e), z \in Payments(e) : y = yd(d) /\ z = yd(x)
    BY <1>10
  <2>2. y = z
    BY <1>17, <1>18, <2>1
  <2>3. y.place[2] = d.id /\ z.place[2] = x.id
    BY <2>1
  <2> QED BY <1>7, <2>2, <2>3 DEF ShareIdsUnique
<1>19. ASSUME NEW d \in D PROVE d.payTo \notin P
  <2> SUFFICES ASSUME d.payTo \in P PROVE FALSE
    OBVIOUS
  <2>1. PICK y \in Payments(e), z \in Payments(e) : y = yd(d) /\ z = yp(d.payTo)
    BY <1>10, <1>11
  <2>2. y = z
    BY <1>17, <2>1
  <2>3. y.place[2] = d.id /\ z.place[2] = LastShare + 1
    BY <2>1
  <2> QED BY <1>8, <2>2, <2>3, LastShareType
<1> HIDE DEF yd, yp
<1> DEFINE gain == [id \in Identities |-> new[id] - balances[id]]
           h == [d \in D |-> d.payTo]
<1>20. \A id \in Identities : gain[id] \in Int /\ new[id] \in Int /\ new[id] = balances[id] + gain[id]
  <2>1. \A id \in Identities : new[id] \in Nat
    <3>1. e \in 0 .. MaxEpoch
      BY <1>0, NextEpochsType
    <3>2. new \in [Identities -> Nat]
      BY <1>0, <1>6, <3>1, BalancesType
    <3> QED BY <3>2
  <2> QED BY <1>13, <2>1
<1>21. \A d \in D : gain[h[d]] = f[d] /\ h[d] = d.payTo /\ f[d] \in Int
  BY <1>8, <1>13, <1>14
<1>22. \A p \in P : gain[p] = g[p]
  BY <1>2, <1>9, <1>13, <1>15
<1>23. \A id \in Identities : id \notin P /\ id \notin Image(h, D) => gain[id] = 0
  BY <1>13, <1>16 DEF Image
<1>24. IsFiniteSet(Image(h, D)) /\ SumOf(gain, Image(h, D)) = SumOf(f, D)
  <2>1. IsFiniteSet(D)
    BY <1>0, <1>7, FS_Subset
  <2>2. \A x, y \in D : h[x] = h[y] => x = y
    BY <1>18
  <2>3. PICK gn, hh : gn = gain /\ hh = h
    OBVIOUS
  <2>4. (\A x \in D : f[x] \in Int /\ gn[hh[x]] = f[x])
        /\ \A x, y \in D : hh[x] = hh[y] => x = y
    BY <1>21, <2>2, <2>3
  <2>5. IsFiniteSet(Image(hh, D)) /\ SumOf(gn, Image(hh, D)) = SumOf(f, D)
    BY <2>1, <2>4, SumOfImage
  <2> HIDE DEF gain, h
  <2> QED BY <2>3, <2>5
<1>25. SumOf(gain, P) = SumOf(g, P)
  <2>1. PICK gn : gn = gain
    OBVIOUS
  <2>2. \A x \in P : g[x] \in Int /\ gn[x] = g[x]
    BY <1>9, <1>22, <2>1
  <2>3. SumOf(gn, P) = SumOf(g, P)
    BY <1>2, <2>2, SumOfSame
  <2> HIDE DEF gain
  <2> QED BY <2>1, <2>3
<1>26. PICK I : I = Image(h, D)
  OBVIOUS
<1>27. I \cap P = {} /\ I \cup P \in SUBSET Identities
  BY <1>2, <1>14, <1>19, <1>21, <1>26 DEF Image
<1>28. PICK gn : gn = gain
  OBVIOUS
<1>29. /\ \A id \in Identities : gn[id] \in Int /\ new[id] = balances[id] + gn[id]
       /\ \A id \in Identities \ (I \cup P) : gn[id] = 0
       /\ IsFiniteSet(I) /\ SumOf(gn, I) = SumOf(f, D) /\ SumOf(gn, P) = SumOf(g, P)
  <2> HIDE DEF gain, h
  <2> QED BY <1>20, <1>23, <1>24, <1>25, <1>26, <1>28
<1> HIDE DEF gain, h
<1>30. SumOf(gn, Identities) = SumOf(gn, I \cup P)
  <2>1. \A x \in Identities : gn[x] \in Int
    BY <1>29
  <2>2. \A x \in Identities \ (I \cup P) : gn[x] = 0
    BY <1>29
  <2> QED BY <1>2, <1>27, <2>1, <2>2, SumOfRest
<1>31. SumOf(gn, I \cup P) = SumOf(gn, I) + SumOf(gn, P)
  <2>1. \A x \in I \cup P : gn[x] \in Int
    BY <1>27, <1>29
  <2> QED BY <1>2, <1>27, <1>29, <2>1, SumOfUnion
<1>32. SumOf(new, Identities) = SumOf(balances, Identities) + SumOf(gn, Identities)
  <2>1. \A x \in Identities : balances[x] \in Int /\ gn[x] \in Int /\ new[x] = balances[x] + gn[x]
    BY <1>13, <1>29
  <2> QED BY <1>2, <2>1, SumOfLinear
<1>33. HandedOut(e) = SumOf(f, D) + SumOf(g, P)
  BY <1>1, <1>3, <1>4, <1>5 DEF HandedOut
<1> QED BY <1>6, <1>29, <1>30, <1>31, <1>32, <1>33

-----------------------------------------------------------------------------
(* A distribution moves credits and makes none.                            *)

\* What a distribution in epoch e adds to each epoch.
Spread(e) ==
  [i \in Epochs |-> IF i \in e .. (e + PERPETUAL_STORAGE_EPOCHS - 1)
                    THEN EpochFeeShare((i - e) \div EPOCHS_PER_YEAR + 1) ELSE 0]

\* Within a year of the distribution every epoch gets the same share.
LEMMA YearOfEpoch ==
  ASSUME NEW k \in Nat \ {0}, NEW y \in Nat, NEW j \in Nat, y * k <= j, j < y * k + k
  PROVE  j \div k = y
<1>1. PICK q \in Nat : q = j \div k
  BY DivType
<1>2. k * q <= j /\ j < k * q + k
  BY <1>1
<1>3. y * k = k * y /\ k * y \in Nat /\ k * q \in Nat
  OBVIOUS
<1>4. q <= y
  <2> SUFFICES ASSUME q >= y + 1 PROVE FALSE
    OBVIOUS
  <2>1. k * q >= k * (y + 1) /\ k * (y + 1) = k * y + k
    OBVIOUS
  <2> QED BY <1>2, <1>3, <2>1
<1>5. q >= y
  <2> SUFFICES ASSUME q + 1 <= y PROVE FALSE
    OBVIOUS
  <2>1. k * (q + 1) <= k * y /\ k * (q + 1) = k * q + k
    OBVIOUS
  <2> QED BY <1>2, <1>3, <2>1
<1> QED BY <1>1, <1>4, <1>5

\* The epochs together get what the years are due.
LEMMA SpreadSum ==
  ASSUME TypeOK, NEW e \in 0 .. MaxEpoch
  PROVE  /\ \A i \in Epochs : Spread(e)[i] \in Nat
         /\ SumOf(Spread(e), Epochs) = SumOf(YearShares, 1 .. PERPETUAL_STORAGE_YEARS)
<1>1. PICK k \in Nat \ {0}, n \in Nat \ {0} : k = EPOCHS_PER_YEAR /\ n = PERPETUAL_STORAGE_YEARS
  BY EpochAssumption
<1>2. PICK P \in Nat \ {0} : P = PERPETUAL_STORAGE_EPOCHS /\ P = n * k
  BY <1>1, EpochAssumption DEF PERPETUAL_STORAGE_EPOCHS
<1>3. e \in Nat /\ MaxEpoch \in Nat /\ e <= MaxEpoch
  BY BoundAssumption
<1>4. PICK E : E = Epochs /\ E = 0 .. (MaxEpoch + P)
  BY <1>2 DEF Epochs
<1>5. IsFiniteSet(E)
  <2>1. 0 \in Int /\ MaxEpoch + P \in Int
    BY <1>3
  <2> QED BY <1>4, <2>1, FS_Interval
<1>6. e .. (e + P - 1) \in SUBSET E
  BY <1>3, <1>4
<1>7. PICK s : s = Spread(e)
  OBVIOUS
<1>8. \A i \in E : s[i] = IF i \in e .. (e + P - 1) THEN EpochFeeShare((i - e) \div k + 1) ELSE 0
  BY <1>1, <1>2, <1>4, <1>7 DEF Spread
<1>9. \A y \in 1 .. n : EpochFeeShare(y) \in Nat /\ YearShares[y] = EpochFeeShare(y) * k
                        /\ YearShares[y] \in Nat
  <2> TAKE y \in 1 .. n
  <2>1. EpochFeeShare(y) \in Nat
    BY <1>1, EpochFeeShareType
  <2>2. YearShares[y] = EpochFeeShare(y) * k
    BY <1>1 DEF YearShares
  <2> QED BY <2>1, <2>2
<1>10. \A i \in E : s[i] \in Nat /\ s[i] \in Int
  <2> TAKE i \in E
  <2>1. CASE i \in e .. (e + P - 1)
    <3>1. (i - e) \div k + 1 \in 1 .. n
      BY <1>1, <1>2, <1>3, <2>1, YearInTable
    <3>2. PICK y \in 1 .. n : y = (i - e) \div k + 1
      BY <3>1
    <3>3. s[i] = EpochFeeShare(y)
      BY <1>8, <2>1, <3>2
    <3> QED BY <1>9, <3>3
  <2>2. CASE i \notin e .. (e + P - 1)
    BY <1>8, <2>2
  <2> QED BY <2>1, <2>2
<1>11. SumOf(s, E) = SumOf(s, e .. (e + P - 1))
  <2>1. \A x \in E \ (e .. (e + P - 1)) : s[x] = 0
    BY <1>8
  <2>2. \A x \in E : s[x] \in Int
    BY <1>10
  <2>3. PICK T \in SUBSET E : T = e .. (e + P - 1)
    BY <1>6
  <2>4. \A x \in E \ T : s[x] = 0
    BY <2>1, <2>3
  <2>5. SumOf(s, E) = SumOf(s, T)
    BY <1>5, <2>2, <2>4, SumOfRest
  <2> QED BY <2>3, <2>5
<1> DEFINE Upto(y) == e .. (e + y * k - 1)
           Good == {y \in 0 .. n : SumOf(s, Upto(y)) = SumOf(YearShares, 1 .. y)}
<1>12. 0 \in Good
  <2>1. Upto(0) = {} /\ 1 .. 0 = {} /\ 0 \in 0 .. n
    BY <1>3
  <2>2. SumOf(s, Upto(0)) = 0 /\ SumOf(YearShares, 1 .. 0) = 0
    BY <2>1, SumOfNone
  <2> HIDE DEF Upto
  <2> QED BY <2>1, <2>2
<1>13. ASSUME NEW y \in Nat, y < n, y \in Good PROVE y + 1 \in Good
  <2>1. PICK a \in Nat : a = y * k
    OBVIOUS
  <2>2. (y + 1) * k = a + k
    BY <2>1
  <2>3. a + k <= P
    <3>1. (y + 1) * k <= n * k
      BY <1>13
    <3> QED BY <1>2, <2>2, <3>1
  <2>4. PICK A, B : A = e .. (e + a - 1) /\ B = (e + a) .. (e + a + k - 1)
    OBVIOUS
  <2>5. Upto(y) = A /\ Upto(y + 1) = A \cup B /\ A \cap B = {}
    <3>1. Upto(y) = e .. (e + a - 1) /\ Upto(y + 1) = e .. (e + (a + k) - 1)
      BY <2>1, <2>2
    <3> HIDE DEF Upto
    <3> QED BY <1>3, <2>4, <3>1
  <2>6. IsFiniteSet(A) /\ IsFiniteSet(B) /\ Cardinality(B) = k
    <3>1. e \in Int /\ e + a - 1 \in Int /\ e + a \in Int /\ e + a + k - 1 \in Int
      BY <1>3
    <3>2. IsFiniteSet(e .. (e + a - 1))
      BY <3>1, FS_Interval
    <3>3. /\ IsFiniteSet((e + a) .. (e + a + k - 1))
          /\ Cardinality((e + a) .. (e + a + k - 1))
               = IF e + a > e + a + k - 1 THEN 0 ELSE (e + a + k - 1) - (e + a) + 1
      BY <3>1, FS_Interval
    <3> QED BY <1>3, <2>4, <3>2, <3>3
  <2>7. A \cup B \subseteq E /\ \A x \in A \cup B : s[x] \in Int
    <3>1. A \cup B \subseteq E
      BY <1>3, <1>4, <2>3, <2>4
    <3> QED BY <1>10, <3>1
  <2>8. SumOf(s, A \cup B) = SumOf(s, A) + SumOf(s, B)
    BY <2>5, <2>6, <2>7, SumOfUnion
  <2>9. y + 1 \in 1 .. n
    BY <1>13
  <2>10. PICK c \in Nat : c = EpochFeeShare(y + 1)
    BY <1>9, <2>9
  <2>11. ASSUME NEW i \in B PROVE s[i] = c
    <3>1. i \in E /\ i \in e .. (e + P - 1) /\ i \in Nat /\ i - e \in Nat
      BY <1>3, <1>4, <2>3, <2>4
    <3>2. a <= i - e /\ i - e < a + k
      BY <1>3, <2>4, <3>1
    <3>3. (i - e) \div k = y
      BY <2>1, <3>1, <3>2, YearOfEpoch
    <3> QED BY <1>8, <2>10, <3>1, <3>3
  <2>12. SumOf(s, B) = k * c
    BY <2>6, <2>11, SumOfConstant
  <2>13. SumOf(YearShares, 1 .. (y + 1)) = YearShares[y + 1] + SumOf(YearShares, 1 .. y)
    <3>1. IsFiniteSet(1 .. y) /\ y + 1 \notin 1 .. y /\ (1 .. y) \cup {y + 1} = 1 .. (y + 1)
      <4>1. IsFiniteSet(1 .. y)
        BY FS_Interval
      <4>2. y + 1 \notin 1 .. y /\ (1 .. y) \cup {y + 1} = 1 .. (y + 1)
        OBVIOUS
      <4> QED BY <4>1, <4>2
    <3>2. \A x \in (1 .. y) \cup {y + 1} : YearShares[x] \in Int
      <4>1. \A x \in (1 .. y) \cup {y + 1} : x \in 1 .. n
        BY <1>13
      <4>2. \A x \in 1 .. n : YearShares[x] \in Int
        BY <1>9
      <4> QED BY <4>1, <4>2
    <3>3. SumOf(YearShares, (1 .. y) \cup {y + 1}) = YearShares[y + 1] + SumOf(YearShares, 1 .. y)
      BY <3>1, <3>2, SumOfOneMore
    <3> QED BY <3>1, <3>3
  <2>14. SumOf(YearShares, 1 .. y) \in Nat
    <3>1. \A x \in 1 .. y : YearShares[x] \in Nat
      <4>1. \A x \in 1 .. y : x \in 1 .. n
        BY <1>13
      <4> QED BY <1>9, <4>1
    <3>2. IsFiniteSet(1 .. y)
      BY FS_Interval
    <3> QED BY <3>1, <3>2, SumOfNat
  <2>15. YearShares[y + 1] = c * k /\ c * k = k * c /\ k * c \in Nat
    BY <1>9, <2>9, <2>10
  <2>16. SumOf(s, A) = SumOf(YearShares, 1 .. y)
    BY <1>13, <2>5
  <2>17. SumOf(s, Upto(y + 1)) = SumOf(YearShares, 1 .. (y + 1))
    <3> HIDE DEF Upto
    <3>1. PICK t \in Nat, m \in Nat : t = SumOf(YearShares, 1 .. y) /\ m = k * c
      BY <2>14, <2>15
    <3>2. SumOf(YearShares, 1 .. (y + 1)) = m + t
      BY <2>13, <2>15, <3>1
    <3>3. SumOf(s, A \cup B) = t + m
      BY <2>8, <2>12, <2>16, <3>1
    <3>4. t + m = m + t
      BY <3>1
    <3> QED BY <2>5, <3>2, <3>3, <3>4
  <2>18. y + 1 \in 0 .. n
    BY <1>13
  <2> HIDE DEF Upto
  <2> QED BY <2>17, <2>18
<1>14. \A y \in 0 .. n : y \in Good
  <2> HIDE DEF Good
  <2> QED BY <1>12, <1>13, UpTo
<1>15. n \in Good
  BY <1>14
<1>16. Upto(n) = e .. (e + P - 1)
  BY <1>2
<1>17. SumOf(s, E) = SumOf(YearShares, 1 .. n)
  <2> HIDE DEF Upto
  <2> QED BY <1>11, <1>15, <1>16
<1> QED BY <1>1, <1>4, <1>7, <1>10, <1>17

\* The credits in the pool of each epoch.
Held == [i \in Epochs |-> Credits(storage[i]) + Credits(processing[i])]

\* The wealth, as sums.
WealthIsSum ==
  /\ SumBalances = SumOf(balances, Identities)
  /\ Wealth = storagePool + SumOf(balances, Identities) + SumOf(Held, Epochs)

\* It is that in every state.
LEMMA WealthSum == WealthIsSum
<1>1. SumBalances = SumOf(balances, Identities)
  BY DEF SumBalances, SumOf
<1> DEFINE S == Epochs
           f == Held
<1> HIDE DEF S, f
<1>2. ASSUME NEW g
      PROVE  (g = [s \in SUBSET S |-> IF s = {} THEN 0
                                      ELSE f[First(s)] + g[s \ {First(s)}]])
             <=> (g = [s \in SUBSET S |->
                         IF s = {} THEN 0
                         ELSE (Credits(storage[First(s)]) + Credits(processing[First(s)]))
                                + g[s \ {First(s)}]])
  <2>1. ASSUME NEW s \in SUBSET S, s # {}
        PROVE  f[First(s)] = Credits(storage[First(s)]) + Credits(processing[First(s)])
    BY <2>1, FirstIn DEF f, S, Held
  <2> QED BY <2>1
<1>3. (CHOOSE g : g = [s \in SUBSET S |-> IF s = {} THEN 0
                                          ELSE f[First(s)] + g[s \ {First(s)}]])
      = (CHOOSE g : g = [s \in SUBSET S |->
                           IF s = {} THEN 0
                           ELSE (Credits(storage[First(s)]) + Credits(processing[First(s)]))
                                  + g[s \ {First(s)}]])
  BY <1>2
<1>4. MapThenSumSet(LAMBDA i : Credits(storage[i]) + Credits(processing[i]), S) = SumOf(f, S)
  BY <1>3 DEF SumOf, MapThenSumSet, MapThenFoldSet, First
<1>5. Wealth = storagePool + SumBalances + SumOf(Held, Epochs)
  BY <1>4 DEF S, f, Wealth
<1> QED BY <1>1, <1>5 DEF WealthIsSum

\* Credits of an item.
LEMMA CreditsType ==
  ASSUME NEW x \in CreditItem
  PROVE  Credits(x) \in Nat /\ (x # NoItem => Credits(x) = x)
BY ItemAssumption DEF Credits, CreditItem

\* Each pool, and all of them, hold a number of credits.
LEMMA HeldType ==
  ASSUME TypeOK
  PROVE  /\ IsFiniteSet(Epochs)
         /\ \A i \in Epochs : /\ Held[i] = Credits(storage[i]) + Credits(processing[i])
                              /\ Credits(storage[i]) \in Nat /\ Credits(processing[i]) \in Nat
                              /\ Held[i] \in Nat
         /\ SumOf(Held, Epochs) \in Nat
<1>1. IsFiniteSet(Epochs)
  <2>1. 0 \in Int /\ MaxEpoch + PERPETUAL_STORAGE_EPOCHS \in Int
    BY BoundAssumption, EpochAssumption
  <2> QED BY <2>1, FS_Interval DEF Epochs
<1>2. ASSUME NEW i \in Epochs
      PROVE  /\ Held[i] = Credits(storage[i]) + Credits(processing[i])
             /\ Credits(storage[i]) \in Nat /\ Credits(processing[i]) \in Nat
             /\ Held[i] \in Nat
  <2>1. storage[i] \in CreditItem /\ processing[i] \in CreditItem
    BY DEF TypeOK
  <2>2. Credits(storage[i]) \in Nat /\ Credits(processing[i]) \in Nat
    BY <2>1, CreditsType
  <2>3. Held[i] = Credits(storage[i]) + Credits(processing[i])
    BY DEF Held
  <2> QED BY <2>2, <2>3
<1>3. SumOf(Held, Epochs) \in Nat
  BY <1>1, <1>2, SumOfNat
<1> QED BY <1>1, <1>2, <1>3

\* An epoch without a tree has no storage item.
NoItemBeyondTrees == \A i \in Epochs \ trees : storage[i] = NoItem

\* The trees a block creates are new.
LEMMA NewTreesAreNew ==
  ASSUME PoolsInv, NEW e \in NextEpochs
  PROVE  NewTrees(e) \cap trees = {}
<1>0. TypeOK /\ TreesContiguous
  BY DEF PoolsInv
<1>1. /\ e \in 0 .. MaxEpoch /\ e \in Nat /\ PERPETUAL_STORAGE_EPOCHS \in Nat
      /\ currentEpoch \in Nat /\ height \in Nat
  BY <1>0, NextEpochsType, EpochAssumption, BoundAssumption DEF TypeOK
<1>2. CASE height = 0
  BY <1>0, <1>1, <1>2 DEF NewTrees, TreesContiguous, LastInitiatedEpoch, GENESIS_EPOCH_INDEX
<1>3. CASE height # 0
  BY <1>0, <1>1, <1>3 DEF NewTrees, TreesContiguous, LastInitiatedEpoch
<1> QED BY <1>2, <1>3

\* The storage items after a block's distribution, in credits.
LEMMA StorageAfterCredits ==
  ASSUME PoolsInv, NoItemBeyondTrees, NEW e \in NextEpochs, NEW i \in Epochs
  PROVE  Credits(StorageAfterDistribution(e)[i])
           = Credits(storage[i])
               + (IF Distributes(e) /\ storagePool # 0 THEN Spread(e)[i] ELSE 0)
<1>0. TypeOK /\ e \in 0 .. MaxEpoch
  BY NextEpochsType DEF PoolsInv
<1>1. Spread(e)[i] \in Nat /\ Credits(storage[i]) \in Nat /\ storage[i] \in CreditItem
  BY <1>0, SpreadSum, HeldType DEF TypeOK
<1>2. CASE Distributes(e) /\ storagePool # 0 /\ i \in e .. (e + PERPETUAL_STORAGE_EPOCHS - 1)
  <2>1. StorageAfterDistribution(e)[i] = Credits(storage[i])
          + EpochFeeShare((i - e) \div EPOCHS_PER_YEAR + 1)
    BY <1>2 DEF StorageAfterDistribution, Credits
  <2>2. Spread(e)[i] = EpochFeeShare((i - e) \div EPOCHS_PER_YEAR + 1)
    BY <1>2 DEF Spread
  <2>3. StorageAfterDistribution(e)[i] = Credits(storage[i]) + Spread(e)[i]
    BY <2>1, <2>2
  <2>4. StorageAfterDistribution(e)[i] \in Nat
    BY <1>1, <2>3
  <2> QED BY <1>2, <2>3, <2>4, ItemAssumption DEF Credits
<1>3. CASE ~(Distributes(e) /\ storagePool # 0 /\ i \in e .. (e + PERPETUAL_STORAGE_EPOCHS - 1))
  <2>1. Distributes(e) /\ storagePool # 0 => Spread(e)[i] = 0
    BY <1>3 DEF Spread
  <2>2. StorageAfterDistribution(e)[i] = IF i \in NewTrees(e) THEN NoItem ELSE storage[i]
    BY <1>3 DEF StorageAfterDistribution
  <2>3. i \in NewTrees(e) => storage[i] = NoItem
    BY NewTreesAreNew DEF NoItemBeyondTrees
  <2>4. StorageAfterDistribution(e)[i] = storage[i]
    BY <2>2, <2>3
  <2> QED BY <1>1, <2>1, <2>4
<1> QED BY <1>2, <1>3

\* What leaves the distribution pool is what the epochs get.
LEMMA DistributionSum ==
  ASSUME TypeOK, NEW e \in 0 .. MaxEpoch
  PROVE  /\ Leftover(e) \in Nat
         /\ storagePool = Leftover(e)
              + (IF Distributes(e) /\ storagePool # 0 THEN SumOf(Spread(e), Epochs) ELSE 0)
<1>1. storagePool \in Nat
  BY DEF TypeOK
<1>2. PICK t \in Nat : t = SumOf(YearShares, 1 .. PERPETUAL_STORAGE_YEARS) /\ t <= storagePool
  BY SharesWithinPool
<1>3. SumOf(Spread(e), Epochs) = t
  BY <1>2, SpreadSum
<1>4. CASE Distributes(e)
  <2>1. Leftover(e) = storagePool - t
    BY <1>2, <1>4, LeftoverSum
  <2>2. CASE storagePool # 0
    BY <1>1, <1>2, <1>3, <1>4, <2>1, <2>2
  <2>3. CASE storagePool = 0
    BY <1>1, <1>2, <1>3, <1>4, <2>1, <2>3
  <2> QED BY <2>2, <2>3
<1>5. CASE ~ Distributes(e)
  <2>1. Leftover(e) = storagePool
    BY <1>5 DEF Leftover
  <2> QED BY <1>1, <1>5, <2>1
<1> QED BY <1>4, <1>5

\* Epochs without a tree stay without a storage item.
LEMMA BeyondTreesKept ==
  ASSUME PoolsInv, PoolsInv', NoItemBeyondTrees, NEW e \in NextEpochs, NEW p \in Proposers,
         NEW f \in Fees, BlockEndOk(p, e, f)
  PROVE  NoItemBeyondTrees'
<1>0. TypeOK /\ TreesContiguous /\ TreesContiguous' /\ e \in 0 .. MaxEpoch /\ height \in Nat
  BY NextEpochsType DEF PoolsInv, TypeOK
<1>1. e \in Nat /\ PERPETUAL_STORAGE_EPOCHS \in Nat
  BY <1>0, EpochAssumption, BoundAssumption
<1>2. /\ trees' = trees \cup NewTrees(e) /\ height' = height + 1 /\ currentEpoch' = e
      /\ storage' = [i \in Epochs |-> IF MarksAsPaid(e) /\ i = unpaidEpoch THEN NoItem
                                      ELSE StorageAfterDistribution(e)[i]]
  BY DEF BlockEndOk
<1>3. trees' = 0 .. (e + PERPETUAL_STORAGE_EPOCHS)
  BY <1>0, <1>2 DEF TreesContiguous
<1> SUFFICES ASSUME NEW i \in Epochs, i \notin trees' PROVE storage'[i] = NoItem
  BY DEF NoItemBeyondTrees
<1>4. i \notin e .. (e + PERPETUAL_STORAGE_EPOCHS - 1)
  BY <1>1, <1>3
<1>5. i \notin NewTrees(e) /\ storage[i] = NoItem
  BY <1>2 DEF NoItemBeyondTrees
<1>6. StorageAfterDistribution(e)[i] = NoItem
  BY <1>4, <1>5 DEF StorageAfterDistribution
<1> QED BY <1>2, <1>6

\* Each pool after a block.
LEMMA HeldAfterBlock ==
  ASSUME PoolsInv, PoolsInv', NoItemBeyondTrees, NEW e \in NextEpochs, NEW p \in Proposers,
         NEW f \in Fees, BlockEndOk(p, e, f), NEW i \in Epochs
  PROVE  Held'[i] = IF MarksAsPaid(e) /\ i = unpaidEpoch THEN 0
                    ELSE Held[i] + (IF Distributes(e) /\ storagePool # 0 THEN Spread(e)[i] ELSE 0)
                           + (IF i = e THEN f.processing ELSE 0)
<1>0. TypeOK /\ e \in 0 .. MaxEpoch /\ e \in Epochs
  BY NextEpochsType, EpochAssumption, BoundAssumption DEF PoolsInv, Epochs
<1>1. f.processing \in Nat
  BY FeesAssumption
<1>2. PICK t \in Nat : t = IF Distributes(e) /\ storagePool # 0 THEN Spread(e)[i] ELSE 0
  BY <1>0, SpreadSum
<1>3. PICK s \in Nat, q \in Nat : /\ s = Credits(storage[i]) /\ q = Credits(processing[i])
                                  /\ Held[i] = s + q
  BY <1>0, HeldType
<1>4. /\ storage'[i] = IF MarksAsPaid(e) /\ i = unpaidEpoch THEN NoItem
                       ELSE StorageAfterDistribution(e)[i]
      /\ processing'[i] = ProcessingAfter(e, f)[i]
  BY DEF BlockEndOk
<1>5. Held'[i] = Credits(storage'[i]) + Credits(processing'[i])
  BY DEF Held, Credits
<1>6. CASE MarksAsPaid(e) /\ i = unpaidEpoch
  <2>1. i # e
    BY <1>6 DEF MarksAsPaid, NeedsPayment
  <2>2. storage'[i] = NoItem /\ processing'[i] = NoItem
    BY <1>4, <1>6, <2>1 DEF ProcessingAfter
  <2>3. Credits(storage'[i]) = 0 /\ Credits(processing'[i]) = 0
    BY <2>2 DEF Credits
  <2> QED BY <1>5, <1>6, <2>3
<1>7. CASE ~(MarksAsPaid(e) /\ i = unpaidEpoch)
  <2>1. Credits(storage'[i]) = s + t
    <3>1. storage'[i] = StorageAfterDistribution(e)[i]
      BY <1>4, <1>7
    <3> QED BY <1>2, <1>3, <3>1, StorageAfterCredits
  <2>2. CASE i = e
    <3>1. processing'[i] = q + f.processing
      BY <1>3, <1>4, <2>2 DEF ProcessingAfter, Credits
    <3>2. processing'[i] \in Nat
      BY <1>1, <3>1
    <3>3. Credits(processing'[i]) = q + f.processing
      BY <3>1, <3>2, ItemAssumption DEF Credits
    <3>4. PICK w \in Nat : w = f.processing
      BY <1>1
    <3>5. (s + t) + (q + w) = (s + q) + t + w
      OBVIOUS
    <3>6. Held'[i] = (s + q) + t + w
      BY <1>5, <2>1, <3>3, <3>4, <3>5
    <3> QED BY <1>2, <1>3, <1>7, <2>2, <3>4, <3>6
  <2>3. CASE i # e
    <3>1. processing'[i] = processing[i]
      BY <1>4, <1>7, <2>3 DEF ProcessingAfter
    <3>2. Credits(processing'[i]) = q
      BY <1>3, <3>1
    <3>3. (s + t) + q = (s + q) + t + 0
      OBVIOUS
    <3>4. Held'[i] = (s + q) + t + 0
      BY <1>5, <2>1, <3>2, <3>3
    <3> QED BY <1>2, <1>3, <1>7, <2>3, <3>4
  <2> QED BY <2>2, <2>3
<1> QED BY <1>6, <1>7

\* The fees of a block join the pools, the pool of a closed epoch leaves them,
\* and nothing else changes their total.
LEMMA PoolsTotal ==
  ASSUME PoolsInv, PoolsInv', NoItemBeyondTrees, NEW e \in NextEpochs, NEW p \in Proposers,
         NEW f \in Fees, BlockEndOk(p, e, f)
  PROVE  /\ f.processing \in Nat /\ f.storage \in Nat
         /\ storagePool' + SumOf(Held', Epochs)
              = storagePool + SumOf(Held, Epochs) + f.processing + f.storage
                  - (IF MarksAsPaid(e) THEN Held[unpaidEpoch] ELSE 0)
<1>0. /\ TypeOK /\ e \in 0 .. MaxEpoch /\ e \in Epochs /\ e \in Nat /\ unpaidEpoch \in Epochs
      /\ unpaidEpoch \in Nat
  <2>1. TypeOK
    BY DEF PoolsInv
  <2>2. e \in 0 .. MaxEpoch /\ unpaidEpoch \in 0 .. MaxEpoch
    BY <2>1, NextEpochsType DEF TypeOK
  <2> QED BY <2>1, <2>2, EpochAssumption, BoundAssumption DEF Epochs
<1>1. f.processing \in Nat /\ f.storage \in Nat
  BY FeesAssumption
<1>2. PICK E : E = Epochs
  OBVIOUS
<1>3. PICK a : a = Held
  OBVIOUS
<1>4. PICK z : z = Held'
  OBVIOUS
<1>5. IsFiniteSet(E) /\ (\A i \in E : a[i] \in Nat) /\ SumOf(a, E) \in Nat
  BY <1>0, <1>2, <1>3, HeldType
<1>6. PICK w \in Nat : w = f.processing
  BY <1>1
<1>7. PICK u \in E : u = unpaidEpoch /\ (MarksAsPaid(e) => u # e)
  BY <1>0, <1>2 DEF MarksAsPaid, NeedsPayment
<1> DEFINE t == [i \in E |-> IF Distributes(e) /\ storagePool # 0 THEN Spread(e)[i] ELSE 0]
<1>8. \A i \in E : t[i] \in Nat /\ (MarksAsPaid(e) /\ i = u => t[i] = 0)
  <2> TAKE i \in E
  <2>1. Spread(e)[i] \in Nat
    BY <1>0, <1>2, SpreadSum
  <2>2. MarksAsPaid(e) /\ i = u => Spread(e)[i] = 0
    <3> SUFFICES ASSUME MarksAsPaid(e), i = u PROVE Spread(e)[i] = 0
      OBVIOUS
    <3>1. unpaidEpoch < e
      BY NeedsPaymentEarlier DEF MarksAsPaid
    <3>2. i \notin e .. (e + PERPETUAL_STORAGE_EPOCHS - 1)
      BY <1>0, <1>7, <3>1, EpochAssumption
    <3> QED BY <1>2, <3>2 DEF Spread
  <2> QED BY <2>1, <2>2
<1>9. PICK d \in Nat : d = SumOf(t, E) /\ storagePool = Leftover(e) + d /\ Leftover(e) \in Nat
  <2>1. storagePool = Leftover(e) + (IF Distributes(e) /\ storagePool # 0
                                     THEN SumOf(Spread(e), Epochs) ELSE 0)
        /\ Leftover(e) \in Nat
    BY <1>0, DistributionSum
  <2>2. SumOf(t, E) \in Nat
    <3>1. \A i \in E : t[i] \in Nat
      BY <1>8
    <3> HIDE DEF t
    <3> QED BY <1>5, <3>1, SumOfNat
  <2>3. CASE Distributes(e) /\ storagePool # 0
    <3>1. PICK s : s = Spread(e)
      OBVIOUS
    <3>2. \A i \in E : s[i] \in Int /\ t[i] = s[i]
      <4>1. \A i \in E : s[i] \in Nat
        BY <1>0, <1>2, <3>1, SpreadSum
      <4> QED BY <2>3, <3>1, <4>1
    <3> HIDE DEF t
    <3>3. SumOf(t, E) = SumOf(s, E)
      BY <1>5, <3>2, SumOfSame
    <3> QED BY <1>2, <2>1, <2>2, <2>3, <3>1, <3>3
  <2>4. CASE ~(Distributes(e) /\ storagePool # 0)
    <3>1. \A i \in E : t[i] = 0
      BY <2>4
    <3> HIDE DEF t
    <3>2. SumOf(t, E) = 0
      BY <1>5, <3>1, SumOfZero
    <3> QED BY <2>1, <2>4, <3>2
  <2> QED BY <2>3, <2>4
<1> DEFINE b == [i \in E |-> a[i] + t[i]]
           c == [i \in E |-> IF i = e THEN b[i] + w ELSE b[i]]
<1>10. /\ \A i \in E : a[i] \in Int /\ t[i] \in Int /\ b[i] = a[i] + t[i] /\ b[i] \in Int
       /\ \A i \in E : b[i] \in Int /\ c[i] \in Int
       /\ \A i \in E \ {e} : c[i] = b[i]
       /\ c[e] - b[e] = w
       /\ \A i \in E : c[i] = a[i] + t[i] + (IF i = e THEN w ELSE 0)
  <2>1. \A i \in E : a[i] \in Int /\ t[i] \in Int /\ b[i] = a[i] + t[i] /\ b[i] \in Int
    <3>1. \A i \in E : a[i] \in Nat /\ t[i] \in Nat
      BY <1>5, <1>8
    <3> HIDE DEF t
    <3> QED BY <3>1
  <2> HIDE DEF b, t
  <2>2. \A i \in E : c[i] = IF i = e THEN b[i] + w ELSE b[i]
    OBVIOUS
  <2>3. e \in E
    BY <1>0, <1>2
  <2> HIDE DEF c
  <2> QED BY <2>1, <2>2, <2>3
<1> HIDE DEF t, b, c
<1>11. SumOf(b, E) = SumOf(a, E) + SumOf(t, E)
  <2>1. PICK bb, tt : bb = b /\ tt = t
    OBVIOUS
  <2>2. \A x \in E : a[x] \in Int /\ tt[x] \in Int /\ bb[x] = a[x] + tt[x]
    BY <1>10, <2>1
  <2>3. SumOf(bb, E) = SumOf(a, E) + SumOf(tt, E)
    BY <1>5, <2>2, SumOfLinear
  <2> QED BY <2>1, <2>3
<1>12. SumOf(c, E) = SumOf(b, E) + w
  <2>1. PICK bb, cc : bb = b /\ cc = c
    OBVIOUS
  <2>2. e \in E
    BY <1>0, <1>2
  <2>3. (\A x \in E : bb[x] \in Int /\ cc[x] \in Int) /\ \A x \in E \ {e} : cc[x] = bb[x]
    BY <1>10, <2>1
  <2>4. SumOf(cc, E) = SumOf(bb, E) + (cc[e] - bb[e])
    BY <1>5, <2>2, <2>3, SumOfChange
  <2> QED BY <1>10, <2>1, <2>4
<1>13. PICK v \in Nat : v = SumOf(c, E) /\ v = SumOf(a, E) + d + w
  BY <1>5, <1>9, <1>11, <1>12
<1>14. \A i \in E : z[i] = IF MarksAsPaid(e) /\ i = u THEN 0 ELSE c[i]
  <2> TAKE i \in E
  <2>1. z[i] = IF MarksAsPaid(e) /\ i = unpaidEpoch THEN 0
               ELSE Held[i] + (IF Distributes(e) /\ storagePool # 0 THEN Spread(e)[i] ELSE 0)
                      + (IF i = e THEN f.processing ELSE 0)
    BY <1>2, <1>4, HeldAfterBlock
  <2>2. t[i] = IF Distributes(e) /\ storagePool # 0 THEN Spread(e)[i] ELSE 0
    BY DEF t
  <2>3. z[i] = IF MarksAsPaid(e) /\ i = u THEN 0
               ELSE a[i] + t[i] + (IF i = e THEN w ELSE 0)
    BY <1>3, <1>6, <1>7, <2>1, <2>2
  <2> QED BY <1>10, <2>3
<1>15. SumOf(z, E) = v - (IF MarksAsPaid(e) THEN a[u] ELSE 0)
  <2>1. PICK cc : cc = c
    OBVIOUS
  <2>2. \A x \in E : cc[x] \in Int /\ z[x] \in Int
    BY <1>10, <1>14, <2>1
  <2>3. CASE MarksAsPaid(e)
    <3>1. \A x \in E \ {u} : z[x] = cc[x]
      BY <1>14, <2>1
    <3>2. SumOf(z, E) = SumOf(cc, E) + (z[u] - cc[u])
      <4>1. u \in E /\ IsFiniteSet(E)
        BY <1>5, <1>7
      <4> QED BY <2>2, <3>1, <4>1, SumOfChange
    <3>3. z[u] = 0 /\ u # e /\ t[u] = 0
      BY <1>7, <1>8, <1>14, <2>3
    <3>4. cc[u] = a[u] /\ a[u] \in Nat
      BY <1>5, <1>10, <2>1, <3>3
    <3>5. PICK n \in Nat : n = a[u]
      BY <3>4
    <3>6. SumOf(z, E) = v + (0 - n)
      BY <1>13, <2>1, <3>2, <3>3, <3>4, <3>5
    <3>7. v + (0 - n) = v - n
      OBVIOUS
    <3> QED BY <2>3, <3>5, <3>6, <3>7
  <2>4. CASE ~ MarksAsPaid(e)
    <3>1. \A x \in E : cc[x] \in Int /\ z[x] = cc[x]
      BY <1>14, <2>1, <2>2, <2>4
    <3>2. SumOf(z, E) = SumOf(cc, E)
      BY <1>5, <3>1, SumOfSame
    <3>3. v = v - 0
      OBVIOUS
    <3>4. SumOf(z, E) = v
      BY <1>13, <2>1, <3>2
    <3> QED BY <2>4, <3>3, <3>4
  <2> QED BY <2>3, <2>4
<1>16. storagePool' = Leftover(e) + f.storage
  BY DEF BlockEndOk
<1>17. PICK g \in Nat, l \in Nat, s \in Nat : g = f.storage /\ l = Leftover(e) /\ s = SumOf(a, E)
  BY <1>1, <1>5, <1>9
<1>18. PICK m \in Nat : m = IF MarksAsPaid(e) THEN a[u] ELSE 0
  BY <1>5, <1>7
<1>19. storagePool = l + d /\ storagePool' = l + g /\ SumOf(z, E) = s + d + w - m
  BY <1>9, <1>13, <1>15, <1>16, <1>17, <1>18
<1>20. storagePool' + SumOf(z, E) = storagePool + s + w + g - m
  BY <1>19
<1> QED BY <1>1, <1>2, <1>3, <1>4, <1>6, <1>7, <1>17, <1>18, <1>20

-----------------------------------------------------------------------------
(* A chunk of a payout: its share of the pool and its rounding.            *)

\* The blocks of the proposers a block pays.
ChunkBlocks(e) == SumOf(blockCounts[unpaidEpoch], PaidProposers(e))

\* Each reward is rounded by at most half a unit, so that the rewards of a
\* chunk stay within half a unit per proposer of its share of the pool.
LEMMA ChunkRewards ==
  ASSUME PoolsInv, ShareIdsUnique, NEW e \in NextEpochs, NeedsPayment(e), PayoutReadable(e),
         NEW N, N = UnpaidBlockCount(e), NEW T, T = Held[unpaidEpoch]
  PROVE  /\ N \in Nat \ {0} /\ T \in Nat /\ ChunkBlocks(e) \in Nat
         /\ Cardinality(PaidProposers(e)) \in Nat
         /\ (2 * N) * SumOf(Rewards(e), PaidProposers(e))
              <= (2 * (T * DECIMAL_ONE)) * ChunkBlocks(e) + Cardinality(PaidProposers(e)) * N
         /\ (2 * (T * DECIMAL_ONE)) * ChunkBlocks(e)
              <= (2 * N) * SumOf(Rewards(e), PaidProposers(e))
                   + Cardinality(PaidProposers(e)) * N
<1>0. TypeOK /\ unpaidEpoch \in Epochs
  BY EpochAssumption, BoundAssumption DEF PoolsInv, TypeOK, Epochs
<1>1. N \in Nat \ {0} /\ N \in Int
  BY UnpaidBlockCountType
<1>2. T \in Nat /\ T = storage[unpaidEpoch] + processing[unpaidEpoch]
  <2>1. Held[unpaidEpoch] = Credits(storage[unpaidEpoch]) + Credits(processing[unpaidEpoch])
        /\ Held[unpaidEpoch] \in Nat
    BY <1>0, HeldType
  <2>2. /\ Credits(storage[unpaidEpoch]) = storage[unpaidEpoch]
        /\ Credits(processing[unpaidEpoch]) = processing[unpaidEpoch]
    BY DEF PayoutReadable, Credits
  <2> QED BY <2>1, <2>2
<1>3. PICK D \in Nat \ {0} : D = DECIMAL_ONE
  BY PayoutAssumption
<1>4. PICK P : P = PaidProposers(e)
  OBVIOUS
<1>5. IsFiniteSet(P) /\ P \subseteq Proposers
  BY <1>4, PaidProposersType
<1>6. PICK c : c = blockCounts[unpaidEpoch]
  OBVIOUS
<1>7. PICK r : r = Rewards(e)
  OBVIOUS
<1>8. \A p \in P : c[p] \in Nat /\ c[p] \in Int /\ r[p] \in Nat /\ r[p] \in Int
                   /\ r[p] = DecimalDiv(T * c[p] * D, N)
  <2> TAKE p \in P
  <2>1. p \in Proposers
    BY <1>5
  <2>2. c[p] \in Nat
    BY <1>0, <1>6, <2>1 DEF TypeOK
  <2>3. r[p] \in Nat /\ r[p] = MasternodeReward(e, p)
    BY <1>4, <1>7, RewardsType
  <2>4. MasternodeReward(e, p) = DecimalDiv(T * c[p] * D, N)
    BY <1>2, <1>3, <1>6 DEF MasternodeReward
  <2> QED BY <2>2, <2>3, <2>4
<1>9. PICK a \in Nat : a = 2 * N
  BY <1>1
<1>10. PICK b \in Nat : b = 2 * (T * D)
  BY <1>2
<1> DEFINE ar == [p \in P |-> a * r[p]]
           bc == [p \in P |-> b * c[p]]
           n == [p \in P |-> N]
           arn == [p \in P |-> ar[p] + n[p]]
           bcn == [p \in P |-> bc[p] + n[p]]
<1>11. ASSUME NEW p \in P
       PROVE  /\ ar[p] \in Int /\ bc[p] \in Int /\ arn[p] \in Int /\ bcn[p] \in Int
              /\ ar[p] = a * r[p] /\ bc[p] = b * c[p] /\ n[p] = N
              /\ arn[p] = ar[p] + n[p] /\ bcn[p] = bc[p] + n[p]
              /\ ar[p] <= bcn[p] /\ bc[p] <= arn[p]
  <2>1. PICK x \in Nat, y \in Nat : x = c[p] /\ y = r[p]
    BY <1>8
  <2>2. PICK m \in Nat : m = T * x * D
    BY <1>2
  <2>3. y = DecimalDiv(m, N)
    BY <1>8, <2>1, <2>2
  <2>4. 2 * (N * y) <= 2 * m + N /\ 2 * m <= 2 * (N * y) + N
    BY <1>1, <2>3, DecimalDivBounds
  <2>5. a * y = 2 * (N * y) /\ a * y \in Nat
    BY <1>1, <1>9
  <2>6. b * x = 2 * m /\ b * x \in Nat
    <3>1. PICK k \in Nat : k = T * D
      BY <1>2
    <3>2. m = k * x
      BY <1>2, <2>2, <3>1
    <3> QED BY <1>10, <3>1, <3>2
  <2>7. /\ ar[p] = a * y /\ bc[p] = b * x /\ n[p] = N /\ arn[p] = a * y + N
        /\ bcn[p] = b * x + N
    BY <2>1
  <2>8. a * y <= b * x + N /\ b * x <= a * y + N
    BY <2>4, <2>5, <2>6
  <2> HIDE DEF ar, bc, n, arn, bcn
  <2> QED BY <1>1, <2>1, <2>5, <2>6, <2>7, <2>8
<1> HIDE DEF ar, bc, n, arn, bcn
<1>12. PICK sr \in Nat, sc \in Nat : sr = SumOf(r, P) /\ sc = SumOf(c, P)
  <2>1. SumOf(r, P) \in Nat
    BY <1>5, <1>8, SumOfNat
  <2>2. SumOf(c, P) \in Nat
    BY <1>5, <1>8, SumOfNat
  <2> QED BY <2>1, <2>2
<1>13. PICK q \in Nat : q = Cardinality(P)
  BY <1>5, FS_CardinalityType
<1>14. SumOf(ar, P) = a * sr
  <2>1. PICK g : g = ar
    OBVIOUS
  <2>2. \A p \in P : r[p] \in Int /\ g[p] = a * r[p]
    BY <1>8, <1>11, <2>1
  <2>3. a \in Int
    OBVIOUS
  <2>4. SumOf(g, P) = a * SumOf(r, P)
    BY <1>5, <2>2, <2>3, SumOfScaled
  <2> QED BY <1>12, <2>1, <2>4
<1>15. SumOf(bc, P) = b * sc
  <2>1. PICK g : g = bc
    OBVIOUS
  <2>2. \A p \in P : c[p] \in Int /\ g[p] = b * c[p]
    BY <1>8, <1>11, <2>1
  <2>3. b \in Int
    OBVIOUS
  <2>4. SumOf(g, P) = b * SumOf(c, P)
    BY <1>5, <2>2, <2>3, SumOfScaled
  <2> QED BY <1>12, <2>1, <2>4
<1>16. SumOf(n, P) = q * N
  <2>1. PICK g : g = n
    OBVIOUS
  <2>2. \A p \in P : g[p] = N
    BY <1>11, <2>1
  <2>3. SumOf(g, P) = Cardinality(P) * N
    BY <1>1, <1>5, <2>2, SumOfConstant
  <2> QED BY <1>13, <2>1, <2>3
<1>17. SumOf(arn, P) = SumOf(ar, P) + SumOf(n, P)
  <2>1. PICK g, h, k : g = ar /\ h = n /\ k = arn
    OBVIOUS
  <2>2. \A p \in P : g[p] \in Int /\ h[p] \in Int /\ k[p] = g[p] + h[p]
    BY <1>1, <1>11, <2>1
  <2>3. SumOf(k, P) = SumOf(g, P) + SumOf(h, P)
    BY <1>5, <2>2, SumOfLinear
  <2> QED BY <2>1, <2>3
<1>18. SumOf(bcn, P) = SumOf(bc, P) + SumOf(n, P)
  <2>1. PICK g, h, k : g = bc /\ h = n /\ k = bcn
    OBVIOUS
  <2>2. \A p \in P : g[p] \in Int /\ h[p] \in Int /\ k[p] = g[p] + h[p]
    BY <1>1, <1>11, <2>1
  <2>3. SumOf(k, P) = SumOf(g, P) + SumOf(h, P)
    BY <1>5, <2>2, SumOfLinear
  <2> QED BY <2>1, <2>3
<1>19. SumOf(ar, P) <= SumOf(bcn, P)
  <2>1. PICK g, h : g = ar /\ h = bcn
    OBVIOUS
  <2>2. \A p \in P : g[p] \in Int /\ h[p] \in Int /\ g[p] <= h[p]
    BY <1>11, <2>1
  <2>3. SumOf(g, P) <= SumOf(h, P)
    BY <1>5, <2>2, SumOfOrder
  <2> QED BY <2>1, <2>3
<1>20. SumOf(bc, P) <= SumOf(arn, P)
  <2>1. PICK g, h : g = bc /\ h = arn
    OBVIOUS
  <2>2. \A p \in P : g[p] \in Int /\ h[p] \in Int /\ g[p] <= h[p]
    BY <1>11, <2>1
  <2>3. SumOf(g, P) <= SumOf(h, P)
    BY <1>5, <2>2, SumOfOrder
  <2> QED BY <2>1, <2>3
<1>21. a * sr <= b * sc + q * N /\ b * sc <= a * sr + q * N
  BY <1>14, <1>15, <1>16, <1>17, <1>18, <1>19, <1>20
<1>22. ChunkBlocks(e) = sc
  BY <1>4, <1>6, <1>12 DEF ChunkBlocks
<1> QED BY <1>1, <1>2, <1>3, <1>4, <1>7, <1>9, <1>10, <1>12, <1>13, <1>21, <1>22

\* What a chunk hands out, against its share of the pool: never more than its
\* rounded rewards, and less by less than one credit.
LEMMA ChunkPays ==
  ASSUME PoolsInv, ShareIdsUnique, NEW e \in NextEpochs, NeedsPayment(e), PayoutReadable(e),
         NEW N, N = UnpaidBlockCount(e), NEW T, T = Held[unpaidEpoch]
  PROVE  /\ N \in Nat \ {0} /\ T \in Nat /\ ChunkBlocks(e) \in Nat /\ HandedOut(e) \in Nat
         /\ Cardinality(PaidProposers(e)) \in Nat
         /\ (2 * N) * (DECIMAL_ONE * HandedOut(e))
              <= (2 * (T * DECIMAL_ONE)) * ChunkBlocks(e) + Cardinality(PaidProposers(e)) * N
         /\ (2 * (T * DECIMAL_ONE)) * ChunkBlocks(e)
              <= (2 * N) * (DECIMAL_ONE * HandedOut(e)) + Cardinality(PaidProposers(e)) * N
                   + (IF PaidProposers(e) = {} THEN 0 ELSE (2 * N) * (DECIMAL_ONE - 1))
<1>1. PICK D \in Nat \ {0} : D = DECIMAL_ONE
  BY PayoutAssumption
<1>2. PICK c \in Nat, q \in Nat, r \in Nat, x \in Nat :
        /\ c = ChunkBlocks(e) /\ q = Cardinality(PaidProposers(e))
        /\ r = SumOf(Rewards(e), PaidProposers(e)) /\ x = HandedOut(e)
  <2>1. ChunkBlocks(e) \in Nat /\ Cardinality(PaidProposers(e)) \in Nat
    BY ChunkRewards
  <2>2. HandedOut(e) \in Nat /\ SumOf(Rewards(e), PaidProposers(e)) \in Nat
    BY HandedOutBounds
  <2> QED BY <2>1, <2>2
<1>3. N \in Nat \ {0} /\ T \in Nat
  BY ChunkRewards
<1>4. PICK a \in Nat, b \in Nat : a = 2 * N /\ b = 2 * (T * D)
  BY <1>3
<1>5. a * r <= b * c + q * N /\ b * c <= a * r + q * N
  BY <1>1, <1>2, <1>4, ChunkRewards
<1>6. D * x <= r /\ r < D * x + D
  BY <1>1, <1>2, HandedOutBounds
<1>7. PICK y \in Nat : y = D * x
  OBVIOUS
<1>8. y <= r /\ r <= y + (D - 1) /\ D - 1 \in Nat
  BY <1>6, <1>7
<1>9. a * y <= a * r /\ a * r <= a * (y + (D - 1))
  BY <1>8
<1>10. a * (y + (D - 1)) = a * y + a * (D - 1) /\ a * y \in Nat /\ a * (D - 1) \in Nat
       /\ b * c \in Nat /\ q * N \in Nat /\ a * r \in Nat
  BY <1>3, <1>8
<1>11. a * y <= b * c + q * N
  BY <1>5, <1>9, <1>10
<1>12. b * c <= a * y + q * N + (IF PaidProposers(e) = {} THEN 0 ELSE a * (D - 1))
  <2>1. CASE PaidProposers(e) # {}
    <3>1. b * c <= a * y + q * N + a * (D - 1)
      BY <1>5, <1>9, <1>10
    <3> QED BY <2>1, <3>1
  <2>2. CASE PaidProposers(e) = {}
    <3>1. c = 0
      BY <1>2, <2>2, SumOfNone DEF ChunkBlocks
    <3>2. b * c = 0
      BY <3>1
    <3>3. b * c <= a * y + q * N + 0
      BY <1>10, <3>2
    <3> QED BY <2>2, <3>3
  <2> QED BY <2>1, <2>2
<1> QED BY <1>1, <1>2, <1>3, <1>4, <1>7, <1>11, <1>12

\* Of a pool of T credits for N blocks, x credits have been paid for G blocks
\* of F proposers: no more than their share, with half a unit per proposer for
\* the rounding of its reward.
PaidAtMost(N, T, G, F, x) ==
  (2 * N) * (DECIMAL_ONE * x) <= (2 * (T * DECIMAL_ONE)) * G + F * N

\* And no less, with one unit less than a credit for each of k chunks.
PaidAtLeast(N, T, G, F, x, k) ==
  (2 * (T * DECIMAL_ONE)) * G
    <= (2 * N) * (DECIMAL_ONE * x) + F * N + (2 * N) * ((DECIMAL_ONE - 1) * k)

\* A chunk keeps the upper bound.
LEMMA ChunkKeepsAtMost ==
  ASSUME NEW N \in Nat, NEW T \in Nat, NEW G \in Nat, NEW F \in Nat, NEW x \in Nat,
         NEW c \in Nat, NEW q \in Nat, NEW y \in Nat,
         PaidAtMost(N, T, G, F, x), PaidAtMost(N, T, c, q, y)
  PROVE  PaidAtMost(N, T, G + c, F + q, x + y)
<1>1. PICK D \in Nat : D = DECIMAL_ONE
  BY PayoutAssumption
<1>2. PICK a \in Nat, b \in Nat : a = 2 * N /\ b = 2 * (T * D)
  OBVIOUS
<1>3. a * (D * x) <= b * G + F * N /\ a * (D * y) <= b * c + q * N
  BY <1>1, <1>2 DEF PaidAtMost
<1>4. b * (G + c) = b * G + b * c /\ (F + q) * N = F * N + q * N
      /\ b * G \in Nat /\ b * c \in Nat /\ F * N \in Nat /\ q * N \in Nat
  OBVIOUS
<1>5. a * (D * (x + y)) = a * (D * x) + a * (D * y)
      /\ a * (D * x) \in Nat /\ a * (D * y) \in Nat
  <2>1. PICK u \in Nat, v \in Nat : u = D * x /\ v = D * y
    OBVIOUS
  <2>2. D * (x + y) = u + v
    BY <2>1
  <2>3. a * (u + v) = a * u + a * v /\ a * u \in Nat /\ a * v \in Nat
    OBVIOUS
  <2> QED BY <2>1, <2>2, <2>3
<1>6. a * (D * (x + y)) <= b * (G + c) + (F + q) * N
  BY <1>3, <1>4, <1>5
<1> QED BY <1>1, <1>2, <1>6 DEF PaidAtMost

\* And the lower one.
LEMMA ChunkKeepsAtLeast ==
  ASSUME NEW N \in Nat, NEW T \in Nat, NEW G \in Nat, NEW F \in Nat, NEW x \in Nat, NEW k \in Nat,
         NEW c \in Nat, NEW q \in Nat, NEW y \in Nat, NEW j \in Nat,
         PaidAtLeast(N, T, G, F, x, k), PaidAtLeast(N, T, c, q, y, j)
  PROVE  PaidAtLeast(N, T, G + c, F + q, x + y, k + j)
<1>1. PICK D \in Nat \ {0} : D = DECIMAL_ONE
  BY PayoutAssumption
<1>2. PICK a \in Nat, b \in Nat, d \in Nat : a = 2 * N /\ b = 2 * (T * D) /\ d = D - 1
  OBVIOUS
<1>3. /\ b * G <= a * (D * x) + F * N + a * (d * k)
      /\ b * c <= a * (D * y) + q * N + a * (d * j)
  BY <1>1, <1>2 DEF PaidAtLeast
<1>4. b * (G + c) = b * G + b * c /\ (F + q) * N = F * N + q * N
      /\ b * G \in Nat /\ b * c \in Nat /\ F * N \in Nat /\ q * N \in Nat
  OBVIOUS
<1>5. a * (D * (x + y)) = a * (D * x) + a * (D * y)
      /\ a * (D * x) \in Nat /\ a * (D * y) \in Nat
  <2>1. PICK u \in Nat, v \in Nat : u = D * x /\ v = D * y
    OBVIOUS
  <2>2. D * (x + y) = u + v
    BY <2>1
  <2>3. a * (u + v) = a * u + a * v /\ a * u \in Nat /\ a * v \in Nat
    OBVIOUS
  <2> QED BY <2>1, <2>2, <2>3
<1>6. a * (d * (k + j)) = a * (d * k) + a * (d * j)
      /\ a * (d * k) \in Nat /\ a * (d * j) \in Nat
  <2>1. PICK u \in Nat, v \in Nat : u = d * k /\ v = d * j
    OBVIOUS
  <2>2. d * (k + j) = u + v
    BY <2>1
  <2>3. a * (u + v) = a * u + a * v /\ a * u \in Nat /\ a * v \in Nat
    OBVIOUS
  <2> QED BY <2>1, <2>2, <2>3
<1>7. b * (G + c) <= a * (D * (x + y)) + (F + q) * N + a * (d * (k + j))
  BY <1>3, <1>4, <1>5, <1>6
<1> QED BY <1>1, <1>2, <1>7 DEF PaidAtLeast

\* Payouts for some of the blocks of an epoch fit its pool: fewer than two
\* proposers per unit of a credit cannot round up to a whole credit.
LEMMA AtMostThePool ==
  ASSUME NEW N \in Nat \ {0}, NEW T \in Nat, NEW G \in 0 .. N, NEW F \in Nat, NEW x \in Nat,
         F < 2 * DECIMAL_ONE, PaidAtMost(N, T, G, F, x)
  PROVE  x <= T
<1>1. PICK D \in Nat \ {0} : D = DECIMAL_ONE
  BY PayoutAssumption
<1>2. PICK a \in Nat, b \in Nat : a = 2 * N /\ b = 2 * (T * D)
  OBVIOUS
<1>3. a * (D * x) <= b * G + F * N
  BY <1>1, <1>2 DEF PaidAtMost
<1>4. b * G <= b * N /\ b * G \in Nat /\ b * N \in Nat /\ F * N \in Nat
  OBVIOUS
<1>5. PICK u \in Nat : u = 2 * (D * x)
  OBVIOUS
<1>6. a * (D * x) = N * u /\ b * N = N * b /\ F * N = N * F
  BY <1>2, <1>5
<1>7. N * u <= N * b + N * F
  BY <1>3, <1>4, <1>6
<1>8. N * (b + F) = N * b + N * F
  OBVIOUS
<1>9. u <= b + F
  <2> SUFFICES ASSUME u >= b + F + 1 PROVE FALSE
    OBVIOUS
  <2>1. N * u >= N * (b + F + 1) /\ N * (b + F + 1) = N * (b + F) + N
    OBVIOUS
  <2>2. N * (b + F) \in Nat /\ N * u \in Nat
    OBVIOUS
  <2> QED BY <1>7, <1>8, <2>1, <2>2
<1> SUFFICES ASSUME x >= T + 1 PROVE FALSE
  OBVIOUS
<1>10. D * x >= D * (T + 1) /\ D * (T + 1) = D * T + D /\ T * D = D * T /\ D * T \in Nat /\ D * x \in Nat
  OBVIOUS
<1> QED BY <1>1, <1>2, <1>5, <1>9, <1>10

\* Payouts for all the blocks of an epoch leave at most a credit per chunk.
LEMMA AtLeastThePool ==
  ASSUME NEW N \in Nat \ {0}, NEW T \in Nat, NEW F \in Nat, NEW x \in Nat, NEW k \in Nat,
         F < 2 * DECIMAL_ONE, PaidAtLeast(N, T, N, F, x, k)
  PROVE  T <= x + k
<1>1. PICK D \in Nat \ {0} : D = DECIMAL_ONE
  BY PayoutAssumption
<1>2. PICK a \in Nat, b \in Nat, d \in Nat : a = 2 * N /\ b = 2 * (T * D) /\ d = D - 1
  OBVIOUS
<1>3. b * N <= a * (D * x) + F * N + a * (d * k)
  BY <1>1, <1>2 DEF PaidAtLeast
<1>4. PICK u \in Nat, v \in Nat : u = 2 * (D * x) /\ v = 2 * (d * k)
  OBVIOUS
<1>5. a * (D * x) = N * u /\ a * (d * k) = N * v /\ b * N = N * b /\ F * N = N * F
      /\ N * u \in Nat /\ N * v \in Nat /\ N * b \in Nat /\ N * F \in Nat
  <2>1. a * (D * x) = N * u
    BY <1>2, <1>4
  <2>2. a * (d * k) = N * v
    BY <1>2, <1>4
  <2>3. b * N = N * b /\ F * N = N * F
    OBVIOUS
  <2>4. N * u \in Nat /\ N * v \in Nat /\ N * b \in Nat /\ N * F \in Nat
    OBVIOUS
  <2> QED BY <2>1, <2>2, <2>3, <2>4
<1>6. N * (u + F + v) = N * u + N * F + N * v
  OBVIOUS
<1>7. N * b <= N * (u + F + v)
  BY <1>3, <1>5, <1>6
<1>8. b <= u + F + v
  <2> SUFFICES ASSUME b >= u + F + v + 1 PROVE FALSE
    OBVIOUS
  <2>1. N * b >= N * (u + F + v + 1) /\ N * (u + F + v + 1) = N * (u + F + v) + N
    OBVIOUS
  <2>2. N * (u + F + v) \in Nat /\ N * b \in Nat
    OBVIOUS
  <2> QED BY <1>7, <2>1, <2>2
<1> SUFFICES ASSUME T >= x + k + 1 PROVE FALSE
  OBVIOUS
<1>9. D * T >= D * (x + k + 1) /\ D * (x + k + 1) = D * x + D * k + D
  OBVIOUS
<1>10. T * D = D * T /\ D * T \in Nat /\ D * x \in Nat /\ D * k \in Nat /\ d * k \in Nat
  OBVIOUS
<1>11. d * k = D * k - k
  BY <1>2
<1> QED BY <1>1, <1>2, <1>4, <1>8, <1>9, <1>10, <1>11

-----------------------------------------------------------------------------
(* The books of the payouts.                                               *)

\* Before the first chunk nothing is paid and nothing is owed.
LEMMA NothingPaid ==
  ASSUME NEW N \in Nat, NEW T \in Nat, NEW F \in Nat, NEW k \in Nat
  PROVE  PaidAtMost(N, T, 0, F, 0) /\ PaidAtLeast(N, T, 0, F, 0, k)
<1>1. PICK D \in Nat \ {0} : D = DECIMAL_ONE
  BY PayoutAssumption
<1>2. PICK a \in Nat, b \in Nat, d \in Nat : a = 2 * N /\ b = 2 * (T * D) /\ d = D - 1
  OBVIOUS
<1>3. D * 0 = 0 /\ a * 0 = 0 /\ b * 0 = 0 /\ F * N \in Nat
  OBVIOUS
<1>4. a * (d * k) \in Nat
  <2>1. d * k \in Nat
    OBVIOUS
  <2> QED BY <2>1
<1>5. a * (D * 0) <= b * 0 + F * N
  BY <1>3
<1>6. b * 0 <= a * (D * 0) + F * N + a * (d * k)
  BY <1>3, <1>4
<1> QED BY <1>1, <1>2, <1>5, <1>6 DEF PaidAtMost, PaidAtLeast

\* A chunk takes its blocks and its proposers out of the counts of the epoch
\* under payout.
LEMMA ChunkCounts ==
  ASSUME PoolsInv, PoolsInv', NEW e \in NextEpochs, NEW p \in Proposers, NEW f \in Fees,
         BlockEndOk(p, e, f), NeedsPayment(e), NEW u, u = unpaidEpoch
  PROVE  /\ SumCounts(u)' \in Nat /\ ChunkBlocks(e) \in Nat
         /\ SumCounts(u) = SumCounts(u)' + ChunkBlocks(e)
         /\ Cardinality(EpochProposers(u)') \in Nat /\ Cardinality(PaidProposers(e)) \in Nat
         /\ Cardinality(EpochProposers(u))
              = Cardinality(EpochProposers(u)') + Cardinality(PaidProposers(e))
<1>0. TypeOK /\ TypeOK' /\ u \in Epochs
  <2>1. TypeOK /\ TypeOK'
    BY DEF PoolsInv
  <2>2. unpaidEpoch \in 0 .. MaxEpoch
    BY <2>1 DEF TypeOK
  <2> QED BY <2>1, <2>2, EpochAssumption, BoundAssumption DEF Epochs
<1>1. PICK P : P = PaidProposers(e)
  OBVIOUS
<1>2. P \subseteq EpochProposers(u) /\ EpochProposers(u) \subseteq Proposers
      /\ IsFiniteSet(Proposers)
  BY <1>1, IdentityAssumption, FS_Subset DEF PaidProposers, EpochProposers
<1>3. PICK c, d : c = blockCounts[u] /\ d = blockCounts'[u]
  OBVIOUS
<1>4. \A q \in Proposers : d[q] = IF q \in P THEN 0 ELSE c[q]
  BY <1>0, <1>1, <1>3, CountsAfterBlock
<1>5. \A q \in Proposers : c[q] \in Nat /\ c[q] \in Int /\ d[q] \in Nat /\ d[q] \in Int
  BY <1>0, <1>3 DEF TypeOK
<1>6. SumCounts(u) = SumOf(c, Proposers) /\ SumCounts(u)' = SumOf(d, Proposers)
  <2>1. CountsAreSums /\ CountsAreSums'
    BY SumCountsSum, PTL
  <2> QED BY <1>0, <1>3, <2>1 DEF CountsAreSums
<1>7. PICK R : R = Proposers \ P
  OBVIOUS
<1>8. IsFiniteSet(P) /\ IsFiniteSet(R) /\ R \cap P = {} /\ R \cup P = Proposers
  BY <1>2, <1>7, FS_Subset
<1>9. SumOf(c, Proposers) = SumOf(c, R) + SumOf(c, P)
  <2>1. \A q \in R \cup P : c[q] \in Int
    BY <1>5, <1>8
  <2>2. SumOf(c, R \cup P) = SumOf(c, R) + SumOf(c, P)
    BY <1>8, <2>1, SumOfUnion
  <2> QED BY <1>8, <2>2
<1>10. SumOf(d, Proposers) = SumOf(d, R)
  <2>1. R \in SUBSET Proposers /\ \A q \in Proposers \ R : d[q] = 0
    BY <1>2, <1>4, <1>7
  <2>2. \A q \in Proposers : d[q] \in Int
    BY <1>5
  <2> QED BY <1>2, <2>1, <2>2, SumOfRest
<1>11. SumOf(d, R) = SumOf(c, R)
  <2>1. \A q \in R : d[q] \in Int /\ c[q] \in Int /\ d[q] = c[q]
    BY <1>4, <1>5, <1>7
  <2> QED BY <1>8, <2>1, SumOfSame
<1>12. SumOf(c, P) \in Nat /\ SumOf(c, R) \in Nat /\ ChunkBlocks(e) = SumOf(c, P)
  <2>1. \A q \in P : c[q] \in Nat
    BY <1>2, <1>5
  <2>2. \A q \in R : c[q] \in Nat
    BY <1>5, <1>7
  <2>3. SumOf(c, P) \in Nat
    BY <1>8, <2>1, SumOfNat
  <2>4. SumOf(c, R) \in Nat
    BY <1>8, <2>2, SumOfNat
  <2> QED BY <1>1, <1>3, <2>3, <2>4 DEF ChunkBlocks
<1>13. PICK E : E = EpochProposers(u)
  OBVIOUS
<1>14. EpochProposers(u)' = E \ P
  <2>1. EpochProposers(u)' = {q \in Proposers : d[q] > 0}
    BY <1>3 DEF EpochProposers
  <2>2. E = {q \in Proposers : c[q] > 0}
    BY <1>3, <1>13 DEF EpochProposers
  <2> QED BY <1>4, <2>1, <2>2
<1>15. IsFiniteSet(E) /\ E \cap P = P
  BY <1>2, <1>13, FS_Subset
<1>16. /\ IsFiniteSet(E \ P)
       /\ Cardinality(E \ P) = Cardinality(E) - Cardinality(E \cap P)
  BY <1>15, FS_Difference
<1>17. Cardinality(E) \in Nat /\ Cardinality(E \ P) \in Nat /\ Cardinality(P) \in Nat
  BY <1>8, <1>15, <1>16, FS_CardinalityType
<1>18. SumOf(c, Proposers) = SumOf(d, Proposers) + SumOf(c, P)
  BY <1>9, <1>10, <1>11
<1>19. /\ SumCounts(u)' \in Nat /\ ChunkBlocks(e) \in Nat
       /\ SumCounts(u) = SumCounts(u)' + ChunkBlocks(e)
  BY <1>6, <1>10, <1>11, <1>12, <1>18
<1>20. /\ Cardinality(EpochProposers(u)') \in Nat /\ Cardinality(PaidProposers(e)) \in Nat
       /\ Cardinality(EpochProposers(u))
            = Cardinality(EpochProposers(u)') + Cardinality(PaidProposers(e))
  <2>1. PICK m, n, q : m = Cardinality(E) /\ n = Cardinality(E \ P) /\ q = Cardinality(P)
    OBVIOUS
  <2>2. m \in Nat /\ n \in Nat /\ q \in Nat /\ n = m - q
    BY <1>15, <1>16, <1>17, <2>1
  <2>3. m = n + q
    BY <2>2
  <2>4. PICK W : W = EpochProposers(u)'
    OBVIOUS
  <2>5. W = E \ P
    BY <1>14, <2>4
  <2>6. Cardinality(W) = n
    BY <2>1, <2>5
  <2> QED BY <1>1, <1>13, <2>1, <2>2, <2>3, <2>4, <2>6
<1> QED BY <1>19, <1>20

\* All the pools together hold a number of credits.
HeldIsNat == TypeOK => SumOf(Held, Epochs) \in Nat

\* They do in every state.
LEMMA HeldSum == HeldIsNat
BY HeldType DEF HeldIsNat

\* What a block does to the books: a payout moves credits from the pool to the
\* balances, and closing an epoch gives up what its payout has left.
LEMMA LostAfterBlock ==
  ASSUME BATCHING_ENABLED, PoolsInv, PoolsInv', ShareIdsUnique, NoItemBeyondTrees,
         NEW e \in NextEpochs, NEW p \in Proposers, NEW f \in Fees,
         BlockEndOk(p, e, f), Account(e, f),
         collected \in Nat, paidOpen \in Nat
  PROVE  /\ collected' \in Nat
         /\ Lost \in Int
         /\ ~ NeedsPayment(e) => Lost' = Lost /\ paidOpen' = paidOpen
         /\ NeedsPayment(e) /\ ~ MarksAsPaid(e) =>
              Lost' = Lost /\ paidOpen' = paidOpen + HandedOut(e)
         /\ MarksAsPaid(e) =>
              Lost' = Lost + Held[unpaidEpoch] - (paidOpen + HandedOut(e)) /\ paidOpen' = 0
<1>0. TypeOK /\ TypeOK' /\ unpaidEpoch \in Epochs
  <2>1. TypeOK /\ TypeOK'
    BY DEF PoolsInv
  <2>2. unpaidEpoch \in 0 .. MaxEpoch
    BY <2>1 DEF TypeOK
  <2> QED BY <2>1, <2>2, EpochAssumption, BoundAssumption DEF Epochs
<1>1. WealthIsSum /\ WealthIsSum'
  BY WealthSum, PTL
<1>2. PICK b \in Nat, bb \in Nat : b = SumOf(balances, Identities) /\ bb = SumOf(balances', Identities)
  <2>1. \A id \in Identities : balances[id] \in Nat /\ balances'[id] \in Nat
    BY <1>0 DEF TypeOK
  <2>2. SumOf(balances, Identities) \in Nat
    BY <2>1, IdentityAssumption, SumOfNat
  <2>3. SumOf(balances', Identities) \in Nat
    BY <2>1, IdentityAssumption, SumOfNat
  <2> QED BY <2>2, <2>3
<1>3. PICK h \in Nat, hh \in Nat : h = SumOf(Held, Epochs) /\ hh = SumOf(Held', Epochs)
  <2>1. SumOf(Held, Epochs) \in Nat
    BY <1>0, HeldType
  <2>2. SumOf(Held', Epochs) \in Nat
    <3>1. HeldIsNat'
      BY HeldSum, PTL
    <3> QED BY <1>0, <3>1 DEF HeldIsNat
  <2> QED BY <2>1, <2>2
<1>4. PICK s \in Nat, ss \in Nat : s = storagePool /\ ss = storagePool'
  BY <1>0 DEF TypeOK
<1>5. PICK T \in Nat : T = Held[unpaidEpoch]
  BY <1>0, HeldType
<1>6. PICK y \in Nat, c \in Nat, o \in Nat :
        y = f.processing + f.storage /\ c = collected /\ o = paidOpen
  BY FeesAssumption
<1>7. ss + hh = s + h + y - (IF MarksAsPaid(e) THEN T ELSE 0)
  <2>1. /\ f.processing \in Nat /\ f.storage \in Nat
        /\ ss + hh = s + h + f.processing + f.storage - (IF MarksAsPaid(e) THEN T ELSE 0)
    BY <1>3, <1>4, <1>5, PoolsTotal
  <2> QED BY <1>6, <2>1
<1>8. /\ collected' = c + y
      /\ paidOpen' = IF MarksAsPaid(e) THEN 0 ELSE o + (SumBalances' - SumBalances)
  BY <1>6, FeesAssumption DEF Account
<1>9. /\ SumBalances = b /\ SumBalances' = bb
      /\ Wealth = s + b + h /\ Wealth' = ss + bb + hh
  BY <1>1, <1>2, <1>3, <1>4 DEF WealthIsSum
<1>10. Lost = c - ((s + b + h) - o) /\ Lost' = c + y - ((ss + bb + hh) - paidOpen')
  BY <1>6, <1>8, <1>9 DEF Lost
<1>11. balances' = ProcessedBalances(e) /\ PayoutSucceeds(e)
  BY DEF BlockEndOk, BlockEndSucceeds
<1>12. collected' \in Nat /\ Lost \in Int
  BY <1>8, <1>10
<1>13. CASE ~ NeedsPayment(e)
  <2>1. bb = b
    BY <1>2, <1>11, <1>13 DEF ProcessedBalances
  <2>2. ~ MarksAsPaid(e)
    BY <1>13 DEF MarksAsPaid
  <2>3. paidOpen' = o /\ ss + hh = s + h + y
    BY <1>7, <1>8, <1>9, <2>1, <2>2
  <2>4. Lost' = Lost
    BY <1>10, <2>1, <2>3
  <2> QED BY <1>6, <1>12, <1>13, <2>2, <2>3, <2>4
<1>14. CASE NeedsPayment(e)
  <2>1. PICK x \in Nat : x = HandedOut(e)
    BY <1>11, <1>14, HandedOutBounds DEF PayoutSucceeds
  <2>2. bb = b + x
    BY <1>2, <1>11, <1>14, <2>1, BalancesTotal
  <2>3. CASE MarksAsPaid(e)
    <3>1. paidOpen' = 0 /\ ss + hh = s + h + y - T
      BY <1>7, <1>8, <2>3
    <3>2. Lost' = Lost + T - (o + x)
      BY <1>10, <2>2, <3>1
    <3> QED BY <1>5, <1>6, <1>12, <1>14, <2>1, <2>3, <3>1, <3>2
  <2>4. CASE ~ MarksAsPaid(e)
    <3>1. paidOpen' = o + x /\ ss + hh = s + h + y
      BY <1>7, <1>8, <1>9, <2>2, <2>4
    <3>2. Lost' = Lost
      BY <1>10, <2>2, <3>1
    <3> QED BY <1>6, <1>12, <1>14, <2>1, <2>4, <3>1, <3>2
  <2> QED BY <2>3, <2>4
<1> QED BY <1>13, <1>14

\* The blocks of started epoch u.
Length(u) == EpochEnd(u) - startBlock[u]

\* What has been paid of epoch u is the share of the blocks it was paid for, up
\* to the rounding of the rewards and the credits given up in earlier epochs.
PayoutBounds(u) ==
  /\ PaidAtMost(Length(u), Held[u], Length(u) - SumCounts(u),
                Cardinality(Proposers) - Cardinality(EpochProposers(u)), paidOpen)
  /\ PaidAtLeast(Length(u), Held[u], Length(u) - SumCounts(u),
                 Cardinality(Proposers) - Cardinality(EpochProposers(u)), paidOpen,
                 chunks - Lost)

\* The inductive invariant of the books.
BooksInv ==
  /\ collected \in Nat /\ paidOpen \in Nat /\ chunks \in Nat
  /\ Lost \in 0 .. chunks
  /\ NoItemBeyondTrees
  /\ unpaidEpoch = currentEpoch => paidOpen = 0
  /\ height > 0 => PayoutBounds(unpaidEpoch)

\* The blocks counted of the epoch under payout are blocks of it, and their
\* proposers are proposers.
LEMMA CountsWithin ==
  ASSUME PoolsInv, CountsInv, height > 0, NEW u, u = unpaidEpoch
  PROVE  /\ u \in Epochs /\ u \in Started
         /\ Length(u) \in Nat \ {0} /\ Held[u] \in Nat /\ SumCounts(u) \in 0 .. Length(u)
         /\ IsFiniteSet(EpochProposers(u)) /\ EpochProposers(u) \subseteq Proposers
         /\ Cardinality(Proposers) \in Nat /\ Cardinality(EpochProposers(u)) \in Nat
         /\ Cardinality(EpochProposers(u)) <= Cardinality(Proposers)
<1>0. TypeOK /\ u \in Started
  BY DEF PoolsInv, OpenEpochsReadable
<1>1. Length(u) \in Nat \ {0} /\ u \in Epochs
  BY <1>0, EpochEndProperties DEF Length
<1>2. SumCounts(u) \in Nat /\ SumCounts(u) <= Length(u)
  <2>1. SumCounts(u) \in Nat
    BY <1>0, <1>1, SumCountsType
  <2>2. SumCounts(u) <= EpochEnd(u) - startBlock[u]
    BY <1>0 DEF CountsInv, EpochBlocksAccounted
  <2> QED BY <2>1, <2>2 DEF Length
<1>3. Held[u] \in Nat
  BY <1>0, <1>1, HeldType
<1>4. EpochProposers(u) \subseteq Proposers /\ IsFiniteSet(Proposers)
  BY IdentityAssumption, FS_Subset DEF EpochProposers
<1>5. IsFiniteSet(EpochProposers(u)) /\ Cardinality(EpochProposers(u)) <= Cardinality(Proposers)
  BY <1>4, FS_Subset
<1>6. Cardinality(Proposers) \in Nat /\ Cardinality(EpochProposers(u)) \in Nat
  BY <1>4, <1>5, FS_CardinalityType
<1> QED BY <1>0, <1>1, <1>2, <1>3, <1>4, <1>5, <1>6

\* The bounds after a chunk, on the pool as it was before the block.
LEMMA BoundsAfterChunk ==
  ASSUME PoolsInv, PoolsInv', CountsInv, ShareIdsUnique, BooksInv,
         NEW e \in NextEpochs, NEW p \in Proposers, NEW f \in Fees,
         BlockEndOk(p, e, f), NeedsPayment(e), NEW u, u = unpaidEpoch,
         NEW N, N = Length(u), NEW T, T = Held[u],
         NEW G, G = N - SumCounts(u)',
         NEW F, F = Cardinality(Proposers) - Cardinality(EpochProposers(u)'),
         NEW x, x = paidOpen + HandedOut(e),
         NEW k, k = (IF PaidProposers(e) = {} THEN chunks ELSE chunks + 1) - Lost
  PROVE  /\ N \in Nat \ {0} /\ T \in Nat /\ G \in 0 .. N /\ F \in Nat /\ F < 2 * DECIMAL_ONE
         /\ x \in Nat /\ k \in Nat
         /\ PaidAtMost(N, T, G, F, x)
         /\ PaidAtLeast(N, T, G, F, x, k)
<1>0. TypeOK /\ height > 0 /\ PayoutReadable(e)
  <2>1. TypeOK /\ PayoutSucceeds(e)
    BY DEF PoolsInv, BlockEndOk, BlockEndSucceeds
  <2>2. height # 0
    BY DEF NeedsPayment, NextEpochs
  <2> QED BY <2>1, <2>2 DEF TypeOK, PayoutSucceeds
<1>1. /\ N \in Nat \ {0} /\ T \in Nat /\ SumCounts(u) \in 0 .. N
      /\ Cardinality(Proposers) \in Nat /\ Cardinality(EpochProposers(u)) \in Nat
      /\ Cardinality(EpochProposers(u)) <= Cardinality(Proposers)
  BY <1>0, CountsWithin
<1>2. PICK c \in Nat, q \in Nat, y \in Nat :
        c = ChunkBlocks(e) /\ q = Cardinality(PaidProposers(e)) /\ y = HandedOut(e)
  <2>1. UnpaidBlockCount(e) = N
    BY UnpaidBlockCountIsLength DEF Length
  <2> QED BY <1>0, <2>1, ChunkPays
<1>3. PICK s \in Nat, a \in Nat :
        s = SumCounts(u) /\ a = SumCounts(u)' /\ s = a + c
  BY <1>2, ChunkCounts, <1>1
<1>4. PICK r \in Nat, n \in Nat, m \in Nat :
        /\ r = Cardinality(Proposers) /\ n = Cardinality(EpochProposers(u))
        /\ m = Cardinality(EpochProposers(u)') /\ n = m + q
  <2>1. PICK m \in Nat : m = Cardinality(EpochProposers(u)') /\ Cardinality(EpochProposers(u)) = m + q
    BY <1>2, ChunkCounts
  <2> QED BY <1>1, <2>1
<1>5. PICK o \in Nat, z \in Nat, w \in Nat : o = paidOpen /\ w = chunks /\ z = chunks - Lost
  BY DEF BooksInv
<1>6. PICK j \in Nat : j = IF PaidProposers(e) = {} THEN 0 ELSE 1
  OBVIOUS
<1>7. /\ N - s \in Nat /\ r - n \in Nat /\ G = (N - s) + c /\ F = (r - n) + q /\ x = o + y
      /\ k = z + j
  <2>1. N - s \in Nat /\ r - n \in Nat
    BY <1>1, <1>3, <1>4
  <2>2. G = (N - s) + c
    BY <1>1, <1>2, <1>3
  <2>3. F = (r - n) + q
    BY <1>2, <1>4
  <2>4. k = z + j
    <3>1. Lost \in Int
      BY DEF BooksInv
    <3> QED BY <1>5, <1>6, <3>1
  <2> QED BY <1>2, <1>5, <2>1, <2>2, <2>3, <2>4
<1>8. PaidAtMost(N, T, N - s, r - n, o) /\ PaidAtLeast(N, T, N - s, r - n, o, z)
  BY <1>0, <1>3, <1>4, <1>5 DEF BooksInv, PayoutBounds
<1>9. PaidAtMost(N, T, c, q, y) /\ PaidAtLeast(N, T, c, q, y, j)
  <2>1. UnpaidBlockCount(e) = N
    BY UnpaidBlockCountIsLength DEF Length
  <2>2. /\ (2 * N) * (DECIMAL_ONE * y) <= (2 * (T * DECIMAL_ONE)) * c + q * N
        /\ (2 * (T * DECIMAL_ONE)) * c
             <= (2 * N) * (DECIMAL_ONE * y) + q * N
                  + (IF PaidProposers(e) = {} THEN 0 ELSE (2 * N) * (DECIMAL_ONE - 1))
    BY <1>0, <1>2, <2>1, ChunkPays
  <2>3. (2 * N) * ((DECIMAL_ONE - 1) * j)
          = IF PaidProposers(e) = {} THEN 0 ELSE (2 * N) * (DECIMAL_ONE - 1)
    <3>1. PICK d \in Nat : d = DECIMAL_ONE - 1
      BY PayoutAssumption
    <3>2. PICK g \in Nat : g = 2 * N
      BY <1>1
    <3>3. d * 0 = 0 /\ g * 0 = 0 /\ d * 1 = d
      OBVIOUS
    <3>4. CASE PaidProposers(e) = {}
      BY <1>6, <3>1, <3>2, <3>3, <3>4
    <3>5. CASE PaidProposers(e) # {}
      BY <1>6, <3>1, <3>2, <3>3, <3>5
    <3> QED BY <3>4, <3>5
  <2>4. PaidAtMost(N, T, c, q, y)
    BY <2>2 DEF PaidAtMost
  <2>5. PaidAtLeast(N, T, c, q, y, j)
    BY <2>2, <2>3 DEF PaidAtLeast
  <2> QED BY <2>4, <2>5
<1>10. N \in Nat
  BY <1>1
<1>11. PaidAtMost(N, T, G, F, x)
  <2>1. PICK g \in Nat, h \in Nat : g = N - s /\ h = r - n
    BY <1>7
  <2>2. PaidAtMost(N, T, g, h, o)
    BY <1>8, <2>1
  <2>3. PaidAtMost(N, T, g + c, h + q, o + y)
    BY <1>1, <1>2, <1>5, <1>9, <1>10, <2>1, <2>2, ChunkKeepsAtMost
  <2> QED BY <1>7, <2>1, <2>3
<1>12. PaidAtLeast(N, T, G, F, x, k)
  <2>1. PICK g \in Nat, h \in Nat : g = N - s /\ h = r - n
    BY <1>7
  <2>2. PaidAtLeast(N, T, g, h, o, z)
    BY <1>8, <2>1
  <2>3. PaidAtLeast(N, T, g + c, h + q, o + y, z + j)
    BY <1>1, <1>2, <1>5, <1>6, <1>9, <1>10, <2>1, <2>2, ChunkKeepsAtLeast
  <2> QED BY <1>7, <2>1, <2>3
<1>13. G \in 0 .. N
  BY <1>1, <1>3
<1>14. F \in Nat /\ F < 2 * DECIMAL_ONE
  <2>1. F = r - m /\ F \in Nat /\ r < 2 * DECIMAL_ONE
    BY <1>4, <1>7, PayoutAssumption
  <2>2. DECIMAL_ONE \in Nat
    BY PayoutAssumption
  <2> QED BY <1>4, <2>1, <2>2
<1> QED BY <1>1, <1>2, <1>5, <1>6, <1>7, <1>11, <1>12, <1>13, <1>14

\* The books of an epoch whose payout has not begun are within the bounds.
FreshWithin ==
  \A u \in Epochs :
    /\ PoolsInv /\ CountsInv /\ height > 0 /\ u = unpaidEpoch
    /\ SumCounts(u) = Length(u) /\ paidOpen = 0 /\ chunks - Lost \in Nat
    => PayoutBounds(u)

\* They are in every state.
LEMMA FreshBounds == FreshWithin
<1> SUFFICES ASSUME NEW u \in Epochs, PoolsInv, CountsInv, height > 0, u = unpaidEpoch,
                    SumCounts(u) = Length(u), paidOpen = 0, chunks - Lost \in Nat
             PROVE  PayoutBounds(u)
  BY DEF FreshWithin
<1>1. PICK N \in Nat, T \in Nat, F \in Nat, k \in Nat :
        /\ N = Length(u) /\ T = Held[u] /\ k = chunks - Lost
        /\ F = Cardinality(Proposers) - Cardinality(EpochProposers(u))
  <2>1. /\ Length(u) \in Nat /\ Held[u] \in Nat
        /\ Cardinality(Proposers) \in Nat /\ Cardinality(EpochProposers(u)) \in Nat
        /\ Cardinality(EpochProposers(u)) <= Cardinality(Proposers)
    BY CountsWithin
  <2> QED BY <2>1
<1>2. Length(u) - SumCounts(u) = 0
  BY <1>1
<1>3. PaidAtMost(N, T, 0, F, 0) /\ PaidAtLeast(N, T, 0, F, 0, k)
  BY NothingPaid
<1> QED BY <1>1, <1>2, <1>3 DEF PayoutBounds

\* An epoch that comes under payout has all its blocks in its counts.
LEMMA NextEpochCounted ==
  ASSUME PoolsInv, PoolsInv', CountsInv, CountsInv', NEW e \in NextEpochs,
         NEW p \in Proposers, NEW f \in Fees, BlockEndOk(p, e, f),
         NEW v, v = unpaidEpoch', v # unpaidEpoch \/ v = e
  PROVE  SumCounts(v)' = Length(v)'
<1>0. /\ TypeOK /\ TypeOK' /\ unpaidEpoch \in Nat /\ v \in 0 .. MaxEpoch /\ v \in Epochs
      /\ height' > 0 /\ currentEpoch' = e
  <2>1. TypeOK /\ TypeOK'
    BY DEF PoolsInv
  <2>2. unpaidEpoch \in Nat /\ v \in 0 .. MaxEpoch /\ height \in Nat
    BY <2>1 DEF TypeOK
  <2>3. height' = height + 1 /\ currentEpoch' = e
    BY DEF BlockEndOk
  <2> QED BY <2>1, <2>2, <2>3, EpochAssumption, BoundAssumption DEF Epochs
<1>1. CASE v = e
  <2>1. (SumCounts(unpaidEpoch) = EpochEnd(unpaidEpoch) - startBlock[unpaidEpoch])'
    BY <1>0, <1>1 DEF CountsInv
  <2> QED BY <2>1 DEF Length
<1>2. CASE v # e
  <2>1. v # unpaidEpoch
    BY <1>2
  <2>2. MarksAsPaid(e) /\ v = NextUnpaidEpoch(e)
    BY <2>1 DEF BlockEndOk
  <2>3. unpaidEpoch < e /\ e \in 0 .. MaxEpoch
    BY <1>0, <2>2, NeedsPaymentEarlier, NextEpochsType DEF MarksAsPaid
  <2>4. v > unpaidEpoch /\ startBlock[v] # NoItem
    BY <1>0, <1>2, <2>2, <2>3, NextUnpaidEpochProperties
  <2>5. v \in Started \ {e}
    BY <1>0, <1>2, <2>4 DEF Started
  <2>6. SumCounts(v) = EpochEnd(v) - startBlock[v]
    BY <2>4, <2>5 DEF CountsInv, EpochBlocksAccounted
  <2>7. SumCounts(v)' = SumCounts(v)
    BY <1>0, <2>1, <2>5, CountsAfterBlock
  <2>8. EpochEnd(v)' = EpochEnd(v) /\ startBlock'[v] = startBlock[v]
    BY <2>5, EndsAfterBlock
  <2> QED BY <2>6, <2>7, <2>8 DEF Length
<1> QED BY <1>1, <1>2

\* A block keeps the books.
LEMMA BooksAfterBlock ==
  ASSUME BATCHING_ENABLED, PoolsInv, PoolsInv', CountsInv, CountsInv', ShareIdsUnique, BooksInv,
         NEW e \in NextEpochs, NEW p \in Proposers, NEW f \in Fees,
         BlockEndOk(p, e, f), Account(e, f)
  PROVE  BooksInv'
<1>0. /\ TypeOK /\ TypeOK' /\ unpaidEpoch \in Nat /\ currentEpoch \in Nat /\ height \in Nat
      /\ unpaidEpoch \in Epochs /\ e \in Nat
  <2>1. TypeOK /\ TypeOK'
    BY DEF PoolsInv
  <2>2. unpaidEpoch \in 0 .. MaxEpoch /\ currentEpoch \in Nat /\ height \in Nat /\ e \in 0 .. MaxEpoch
    BY <2>1, NextEpochsType DEF TypeOK
  <2> QED BY <2>1, <2>2, EpochAssumption, BoundAssumption DEF Epochs
<1>1. /\ height' = height + 1 /\ height' > 0 /\ currentEpoch' = e
      /\ unpaidEpoch' = IF MarksAsPaid(e) THEN NextUnpaidEpoch(e) ELSE unpaidEpoch
  BY <1>0 DEF BlockEndOk
<1>2. PICK v : v = unpaidEpoch'
  OBVIOUS
<1>3. v \in Epochs
  <2>1. v \in 0 .. MaxEpoch
    BY <1>0, <1>2 DEF TypeOK
  <2> QED BY <2>1, EpochAssumption, BoundAssumption DEF Epochs
<1>4. /\ collected \in Nat /\ paidOpen \in Nat /\ chunks \in Nat /\ Lost \in 0 .. chunks
      /\ NoItemBeyondTrees
  BY DEF BooksInv
<1>5. /\ collected' \in Nat
      /\ ~ NeedsPayment(e) => Lost' = Lost /\ paidOpen' = paidOpen
      /\ NeedsPayment(e) /\ ~ MarksAsPaid(e) =>
           Lost' = Lost /\ paidOpen' = paidOpen + HandedOut(e)
      /\ MarksAsPaid(e) =>
           Lost' = Lost + Held[unpaidEpoch] - (paidOpen + HandedOut(e)) /\ paidOpen' = 0
  BY <1>4, LostAfterBlock
<1>6. chunks' = IF NeedsPayment(e) /\ PaidProposers(e) # {} THEN chunks + 1 ELSE chunks
  BY DEF Account
<1>7. NoItemBeyondTrees'
  BY <1>4, BeyondTreesKept
<1>8. unpaidEpoch <= currentEpoch /\ currentEpoch <= e /\ (NeedsPayment(e) => unpaidEpoch < e)
  BY NeedsPaymentEarlier
<1>9. ASSUME SumCounts(v)' = Length(v)', paidOpen' = 0, chunks' \in Nat, Lost' \in 0 .. chunks'
      PROVE  BooksInv'
  <2>1. FreshWithin'
    BY FreshBounds, PTL
  <2>2. (chunks - Lost)' \in Nat
    <3>1. PICK a, b : a = chunks' /\ b = Lost'
      OBVIOUS
    <3>2. a \in Nat /\ b \in 0 .. a
      BY <1>9, <3>1
    <3>3. a - b \in Nat
      BY <3>2
    <3> QED BY <3>1, <3>3
  <2>3. PayoutBounds(v)'
    BY <1>1, <1>2, <1>3, <1>9, <2>1, <2>2 DEF FreshWithin
  <2>4. PayoutBounds(unpaidEpoch)'
    BY <1>2, <2>3
  <2> QED BY <1>5, <1>7, <1>9, <2>4 DEF BooksInv
<1>10. CASE ~ NeedsPayment(e)
  <2>1. v = unpaidEpoch /\ unpaidEpoch = e /\ unpaidEpoch = currentEpoch
    <3>1. ~ MarksAsPaid(e)
      BY <1>10 DEF MarksAsPaid
    <3>2. unpaidEpoch = e
      BY <1>0, <1>8, <1>10 DEF NeedsPayment, GENESIS_EPOCH_INDEX
    <3> QED BY <1>0, <1>1, <1>2, <1>8, <3>1, <3>2
  <2>2. SumCounts(v)' = Length(v)'
    BY <1>2, <2>1, NextEpochCounted
  <2>3. paidOpen' = 0 /\ Lost' = Lost /\ chunks' = chunks
    BY <1>5, <1>6, <1>10, <2>1 DEF BooksInv
  <2> QED BY <1>4, <1>9, <2>2, <2>3
<1>11. CASE NeedsPayment(e)
  <2>1. PICK u : u = unpaidEpoch
    OBVIOUS
  <2>2. PICK N, T, G, F, x, k :
          /\ N = Length(u) /\ T = Held[u] /\ G = N - SumCounts(u)'
          /\ F = Cardinality(Proposers) - Cardinality(EpochProposers(u)')
          /\ x = paidOpen + HandedOut(e)
          /\ k = (IF PaidProposers(e) = {} THEN chunks ELSE chunks + 1) - Lost
    OBVIOUS
  <2>3. /\ N \in Nat \ {0} /\ T \in Nat /\ G \in 0 .. N /\ F \in Nat /\ F < 2 * DECIMAL_ONE
        /\ x \in Nat /\ k \in Nat
        /\ PaidAtMost(N, T, G, F, x)
        /\ PaidAtLeast(N, T, G, F, x, k)
    BY <1>11, <2>1, <2>2, BoundsAfterChunk
  <2>4. chunks' \in Nat /\ k = chunks' - Lost
    BY <1>4, <1>6, <1>11, <2>2
  <2>5. u \in Started /\ u \in Epochs /\ u # e /\ u < e
    BY <1>0, <1>8, <1>11, <2>1, UnpaidBlockCountIsLength
  <2>6. CASE ~ MarksAsPaid(e)
    <3>1. v = u
      BY <1>1, <1>2, <2>1, <2>6
    <3>2. Length(u)' = N
      <4>1. EpochEnd(u)' = EpochEnd(u) /\ startBlock'[u] = startBlock[u]
        BY <2>5, EndsAfterBlock
      <4> QED BY <2>2, <4>1 DEF Length
    <3>3. Held'[u] = T
      <4>1. Held'[u] = Held[u] + (IF Distributes(e) /\ storagePool # 0 THEN Spread(e)[u] ELSE 0)
                         + (IF u = e THEN f.processing ELSE 0)
        BY <1>4, <2>5, <2>6, HeldAfterBlock
      <4>2. Spread(e)[u] = 0
        <5>1. u \notin e .. (e + PERPETUAL_STORAGE_EPOCHS - 1)
          BY <1>0, <2>1, <2>5, EpochAssumption
        <5> QED BY <2>5, <5>1 DEF Spread
      <4> QED BY <2>2, <2>3, <2>5, <4>1, <4>2
    <3>4. Lost' = Lost /\ paidOpen' = x
      BY <1>5, <1>11, <2>2, <2>6
    <3>5. PayoutBounds(u)'
      <4>1. PaidAtMost(Length(u)', Held'[u], Length(u)' - SumCounts(u)', F, paidOpen')
        BY <2>2, <2>3, <3>2, <3>3, <3>4
      <4>2. PaidAtLeast(Length(u)', Held'[u], Length(u)' - SumCounts(u)', F, paidOpen',
                        chunks' - Lost')
        BY <2>2, <2>3, <2>4, <3>2, <3>3, <3>4
      <4> QED BY <2>2, <4>1, <4>2 DEF PayoutBounds
    <3>6. PayoutBounds(unpaidEpoch)'
      BY <1>2, <3>1, <3>5
    <3>7. Lost' \in 0 .. chunks'
      <4>1. PICK n \in Nat : n = Lost
        BY <1>4
      <4>2. PICK m \in Nat : m = chunks'
        BY <2>4
      <4>3. k = m - n
        BY <2>4, <4>1, <4>2
      <4>4. PICK j \in Nat : j = k
        BY <2>3
      <4>5. m - n = j
        BY <4>3, <4>4
      <4>6. \A q, r, t \in Nat : q - r = t => r <= q
        OBVIOUS
      <4>7. n <= m
        <5>1. n \in Nat /\ m \in Nat /\ j \in Nat
          BY <4>1, <4>2, <4>4
        <5>2. m - n = j => n <= m
          BY <4>6, <5>1
        <5> QED BY <4>5, <5>2
      <4> QED BY <3>4, <4>1, <4>2, <4>7
    <3>8. unpaidEpoch' # currentEpoch'
      BY <1>1, <1>2, <2>5, <3>1
    <3> QED BY <1>5, <1>7, <2>3, <2>4, <3>4, <3>6, <3>7, <3>8 DEF BooksInv
  <2>7. CASE MarksAsPaid(e)
    <3>1. v > u /\ v # unpaidEpoch
      <4>1. v = NextUnpaidEpoch(e) /\ e \in 0 .. MaxEpoch
        BY <1>0, <1>1, <1>2, <2>7, NextEpochsType
      <4>2. v \in (unpaidEpoch + 1) .. e
        BY <1>0, <2>1, <2>5, <4>1, NextUnpaidEpochProperties
      <4> QED BY <1>0, <2>1, <4>2
    <3>2. SumCounts(v)' = Length(v)'
      BY <1>2, <3>1, NextEpochCounted
    <3>3. SumCounts(u)' = 0
      <4>1. u \in Started' /\ u < unpaidEpoch'
        <5>1. u \in Started'
          BY <2>5, EndsAfterBlock
        <5>2. u \in Nat /\ v \in Nat
          BY <1>0, <1>2, <2>1, BoundAssumption DEF TypeOK
        <5> QED BY <1>2, <3>1, <5>1, <5>2
      <4> QED BY <4>1 DEF CountsInv, EpochBlocksAccounted
    <3>4. G = N
      BY <2>2, <2>3, <3>3
    <3>5. x <= T
      BY <2>3, AtMostThePool
    <3>6. T <= x + k
      BY <2>3, <3>4, AtLeastThePool
    <3>7. Lost' = Lost + T - x /\ paidOpen' = 0
      BY <1>5, <2>1, <2>2, <2>7
    <3>8. Lost' \in 0 .. chunks'
      <4>1. PICK n \in Nat : n = Lost
        BY <1>4
      <4>2. PICK m \in Nat : m = chunks'
        BY <2>4
      <4>3. k = m - n
        BY <2>4, <4>1, <4>2
      <4>4. PICK j \in Nat, t \in Nat, y \in Nat : j = k /\ t = T /\ y = x
        BY <2>3
      <4>5. m - n = j /\ y <= t /\ t <= y + j
        BY <3>5, <3>6, <4>3, <4>4
      <4>6. \A a, b, c, d, g \in Nat :
              a - b = c /\ g <= d /\ d <= g + c => b + d - g \in 0 .. a
        OBVIOUS
      <4>7. n + t - y \in 0 .. m
        <5>1. n \in Nat /\ m \in Nat /\ j \in Nat /\ t \in Nat /\ y \in Nat
          BY <4>1, <4>2, <4>4
        <5>2. m - n = j /\ y <= t /\ t <= y + j => n + t - y \in 0 .. m
          BY <4>6, <5>1
        <5> QED BY <4>5, <5>2
      <4> QED BY <3>7, <4>1, <4>2, <4>4, <4>7
    <3> QED BY <1>9, <2>4, <3>2, <3>7, <3>8
  <2> QED BY <2>6, <2>7
<1> QED BY <1>10, <1>11

\* The books of an initial state are empty.
LEMMA BooksInit == CreditsInit => BooksInv
<1> SUFFICES ASSUME CreditsInit PROVE BooksInv
  OBVIOUS
<1>0. /\ Init /\ collected = 0 /\ paidOpen = 0 /\ chunks = 0 /\ height = 0 /\ storagePool = 0
      /\ trees = 0 .. (PERPETUAL_STORAGE_EPOCHS - 1)
      /\ storage = [i \in Epochs |-> IF i < PERPETUAL_STORAGE_EPOCHS THEN 0 ELSE NoItem]
      /\ processing = [i \in Epochs |-> NoItem] /\ balances = [id \in Identities |-> 0]
  BY DEF CreditsInit, Init
<1>1. SumOf(balances, Identities) = 0
  <2>1. \A id \in Identities : balances[id] = 0
    BY <1>0
  <2> QED BY <2>1, IdentityAssumption, SumOfZero
<1>2. SumOf(Held, Epochs) = 0
  <2>1. PICK h : h = Held
    OBVIOUS
  <2>2. \A i \in Epochs : h[i] = 0
    <3> TAKE i \in Epochs
    <3>1. Credits(storage[i]) = 0 /\ Credits(processing[i]) = 0
      BY <1>0 DEF Credits
    <3> QED BY <2>1, <3>1 DEF Held
  <2>3. IsFiniteSet(Epochs)
    BY <1>0, PoolsInvInit, HeldType DEF PoolsInv
  <2>4. SumOf(h, Epochs) = 0
    BY <2>2, <2>3, SumOfZero
  <2> QED BY <2>1, <2>4
<1>3. Lost = 0
  <2>1. Wealth = 0
    BY <1>0, <1>1, <1>2, WealthSum DEF WealthIsSum
  <2> QED BY <1>0, <2>1 DEF Lost
<1>4. NoItemBeyondTrees
  <2> SUFFICES ASSUME NEW i \in Epochs \ trees PROVE storage[i] = NoItem
    BY DEF NoItemBeyondTrees
  <2>1. ~(i < PERPETUAL_STORAGE_EPOCHS)
    BY <1>0, EpochAssumption, BoundAssumption DEF Epochs
  <2> QED BY <1>0, <2>1
<1> QED BY <1>0, <1>3, <1>4 DEF BooksInv

\* The other steps do not touch them.
LEMMA BooksUnchanged ==
  ASSUME PoolsInv, BooksInv, UNCHANGED <<height, currentEpoch, pools, history>>
  PROVE  BooksInv'
<1>1. /\ UNCHANGED <<height, currentEpoch, trees, startBlock, blockCounts, storage, processing>>
      /\ UNCHANGED <<storagePool, unpaidEpoch, balances, collected, paidOpen, chunks>>
  BY DEF pools, history
<1>2. Held' = Held
  BY <1>1 DEF Held, Credits
<1>3. Lost' = Lost
  <2>1. WealthIsSum /\ WealthIsSum'
    BY WealthSum, PTL
  <2>2. Wealth' = Wealth
    BY <1>1, <1>2, <2>1 DEF WealthIsSum
  <2> QED BY <1>1, <2>2 DEF Lost
<1>4. PayoutBounds(unpaidEpoch)' = PayoutBounds(unpaidEpoch)
  <2>1. PICK u : u = unpaidEpoch
    OBVIOUS
  <2>2. Started' = Started
    BY <1>1 DEF Started
  <2>3. EpochEnd(u)' = EpochEnd(u)
    BY <1>1, <2>2 DEF EpochEnd
  <2>4. Length(u)' = Length(u)
    BY <1>1, <2>3 DEF Length
  <2>5. SumCounts(u)' = SumCounts(u) /\ EpochProposers(u)' = EpochProposers(u)
    <3>1. u \in Epochs
      BY <2>1, EpochAssumption, BoundAssumption DEF PoolsInv, TypeOK, Epochs
    <3>2. CountsAreSums /\ CountsAreSums'
      BY SumCountsSum, PTL
    <3>3. SumCounts(u)' = SumCounts(u)
      BY <1>1, <3>1, <3>2 DEF CountsAreSums
    <3> QED BY <1>1, <3>3 DEF EpochProposers
  <2>6. PayoutBounds(u)' = PayoutBounds(u)
    BY <1>1, <1>2, <1>3, <2>4, <2>5 DEF PayoutBounds
  <2> QED BY <1>1, <2>1, <2>6
<1>5. NoItemBeyondTrees'
  BY <1>1 DEF BooksInv, NoItemBeyondTrees
<1> QED BY <1>1, <1>3, <1>4, <1>5 DEF BooksInv

\* Where the batches of GroveDB are on, no credit is minted and at most one is
\* left behind per chunk, however the payouts are cut into blocks and whatever
\* the proposers share.
THEOREM BooksAlwaysKept == BATCHING_ENABLED => (CreditsSpec => []BooksKept)
<1> SUFFICES ASSUME BATCHING_ENABLED PROVE CreditsSpec => []BooksKept
  OBVIOUS
<1>1. CreditsSpec => [](PoolsInv /\ CountsInv /\ ShareIdsUnique)
  BY BooksFollowPools, PoolsInvariant, CountsAlwaysKept, ShareIdsAlwaysUnique, PTL
<1>2. CreditsInit => BooksInv
  BY BooksInit
<1>3. /\ PoolsInv /\ CountsInv /\ ShareIdsUnique /\ BooksInv
      /\ PoolsInv' /\ CountsInv' /\ [CreditsNext]_allVars
      => BooksInv'
  <2> SUFFICES ASSUME PoolsInv, CountsInv, ShareIdsUnique, BooksInv, PoolsInv', CountsInv',
                      [CreditsNext]_allVars
               PROVE  BooksInv'
    OBVIOUS
  <2>1. CASE AccountedBlockEnd
    <3>1. PICK e \in NextEpochs, p \in Proposers, f \in Fees : BlockEndOk(p, e, f) /\ Account(e, f)
      BY <2>1 DEF AccountedBlockEnd
    <3> QED BY <3>1, BooksAfterBlock
  <2>2. CASE UNCHANGED <<height, currentEpoch, pools, history>>
    BY <2>2, BooksUnchanged
  <2>3. CASE FailedBlockEnd
    BY <2>2, <2>3 DEF FailedBlockEnd, BlockEndError
  <2>4. CASE ShareStep
    BY <2>2, <2>4 DEF ShareStep, CreateRewardShare, ReplaceRewardShare, DeleteRewardShare
  <2>5. CASE UNCHANGED allVars
    BY <2>2, <2>5 DEF allVars, vars
  <2> QED BY <2>1, <2>3, <2>4, <2>5 DEF CreditsNext
<1>4. PoolsInv /\ CountsInv /\ BooksInv => BooksKept
  <2> SUFFICES ASSUME PoolsInv, CountsInv, BooksInv PROVE BooksKept
    OBVIOUS
  <2>1. EpochBlocksAccounted /\ Lost >= 0 /\ DustBounded
    BY DEF CountsInv, BooksInv, DustBounded
  <2>2. paidOpen <= Held[unpaidEpoch]
    <3>1. PICK u : u = unpaidEpoch
      OBVIOUS
    <3>2. CASE height > 0
      <4>1. PICK N, T, G, F, x :
              /\ N = Length(u) /\ T = Held[u] /\ G = N - SumCounts(u)
              /\ F = Cardinality(Proposers) - Cardinality(EpochProposers(u)) /\ x = paidOpen
        OBVIOUS
      <4>2. N \in Nat \ {0} /\ T \in Nat /\ G \in 0 .. N /\ F \in Nat /\ F < 2 * DECIMAL_ONE
        <5>1. /\ N \in Nat \ {0} /\ T \in Nat /\ SumCounts(u) \in 0 .. N
              /\ Cardinality(Proposers) \in Nat /\ Cardinality(EpochProposers(u)) \in Nat
              /\ Cardinality(EpochProposers(u)) <= Cardinality(Proposers)
          BY <3>1, <3>2, <4>1, CountsWithin
        <5>2. Cardinality(Proposers) < 2 * DECIMAL_ONE /\ DECIMAL_ONE \in Nat
          BY PayoutAssumption
        <5>3. G \in 0 .. N
          BY <4>1, <5>1
        <5>4. F \in Nat /\ F < 2 * DECIMAL_ONE
          BY <4>1, <5>1, <5>2
        <5> QED BY <5>1, <5>3, <5>4
      <4>3. x \in Nat /\ PaidAtMost(N, T, G, F, x)
        BY <3>1, <3>2, <4>1 DEF BooksInv, PayoutBounds
      <4>4. x <= T
        BY <4>2, <4>3, AtMostThePool
      <4> QED BY <3>1, <4>1, <4>4
    <3>3. CASE ~(height > 0)
      <4>1. TypeOK /\ unpaidEpoch = currentEpoch
        BY <3>3 DEF PoolsInv, TypeOK
      <4>2. unpaidEpoch \in Epochs
        BY <4>1, EpochAssumption, BoundAssumption DEF TypeOK, Epochs
      <4>3. paidOpen = 0 /\ Held[unpaidEpoch] \in Nat
        BY <4>1, <4>2, HeldType DEF BooksInv
      <4> QED BY <4>3
    <3> QED BY <3>2, <3>3
  <2>3. Held[unpaidEpoch] = Credits(storage[unpaidEpoch]) + Credits(processing[unpaidEpoch])
    <3>1. TypeOK /\ unpaidEpoch \in Epochs
      BY EpochAssumption, BoundAssumption DEF PoolsInv, TypeOK, Epochs
    <3> QED BY <3>1, HeldType
  <2> QED BY <2>1, <2>2, <2>3 DEF BooksKept, NoCreditMinted
<1> QED BY <1>1, <1>2, <1>3, <1>4, PTL DEF CreditsSpec
=============================================================================
