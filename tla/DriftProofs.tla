----------------------------- MODULE DriftProofs -----------------------------
(***************************************************************************)
(* The decisions of the drift detector are sound, for any trainings,       *)
(* windows, orders, sizes and quantile.  Two facts of arithmetic carry     *)
(* this.  The scores, as logarithms of fractions over lengths, are in a    *)
(* total order that takes no logarithm, so that the quantile exists and    *)
(* leaves enough of the benign windows at or below it.  And the ratios of  *)
(* what a model expects of a known window to what was observed sum to no   *)
(* more than its length, so that by the inequality of the means their      *)
(* product is at most one: the divergence is not negative.                 *)
(*                                                                         *)
(* Sums and products are folds; the first sections give the induction and  *)
(* the laws of folds that the rest is built on.                            *)
(***************************************************************************)
EXTENDS DriftDetection, FiniteSetTheorems, TLAPS

-----------------------------------------------------------------------------
(* Induction, over sets: what holds of 0 and of a successor is a set of numbers *)

LEMMA NatSteps ==
  ASSUME NEW Good, 0 \in Good, \A n \in Nat : n \in Good => n + 1 \in Good
  PROVE  \A n \in Nat : n \in Good
<1> DEFINE bad == Nat \ Good
<1> SUFFICES ASSUME bad # {} PROVE FALSE
  OBVIOUS
<1>1. PICK m \in bad : \A k \in bad : <<k, m>> \notin OpToRel(<, Nat)
  <2> HIDE DEF bad
  <2>1. bad \subseteq Nat
    BY DEF bad
  <2> QED BY <2>1, WFMin, NatLessThanWellFounded
<1>2. m # 0 /\ m \in Nat
  OBVIOUS
<1>3. m - 1 \in Nat /\ <<m - 1, m>> \in OpToRel(<, Nat) /\ (m - 1) + 1 = m
  BY <1>2 DEF OpToRel
<1>4. m - 1 \in Good
  BY <1>1, <1>3
<1>5. (m - 1) + 1 \in Good
  BY <1>3, <1>4
<1> QED BY <1>3, <1>5

LEMMA SmallerSets ==
  ASSUME NEW S, IsFiniteSet(S)
  PROVE  \A T \in SUBSET S :
           /\ IsFiniteSet(T) /\ Cardinality(T) \in Nat
           /\ \A U \in SUBSET T : U # T => Cardinality(U) < Cardinality(T)
           /\ \A x \in T : Cardinality(T \ {x}) = Cardinality(T) - 1
<1> TAKE T \in SUBSET S
<1>1. IsFiniteSet(T) /\ Cardinality(T) \in Nat
  BY FS_Subset, FS_CardinalityType
<1>2. ASSUME NEW U \in SUBSET T, U # T PROVE Cardinality(U) < Cardinality(T)
  BY <1>1, <1>2, FS_Subset, FS_CardinalityType
<1>3. ASSUME NEW x \in T PROVE Cardinality(T \ {x}) = Cardinality(T) - 1
  BY <1>1, FS_RemoveElement
<1> QED BY <1>1, <1>2, <1>3

LEMMA SetSteps ==
  ASSUME NEW S, IsFiniteSet(S), NEW Good,
         \A T \in SUBSET S : (\A U \in SUBSET T : U # T => U \in Good) => T \in Good
  PROVE  \A T \in SUBSET S : T \in Good
<1> DEFINE sized == {n \in Nat : \A T \in SUBSET S : Cardinality(T) < n => T \in Good}
<1>1. 0 \in sized
  BY SmallerSets
<1>2. ASSUME NEW n \in Nat, n \in sized PROVE n + 1 \in sized
  BY SmallerSets, <1>2
<1>3. \A n \in Nat : n \in sized
  <2> HIDE DEF sized
  <2> QED BY <1>1, <1>2, NatSteps
<1> QED
  <2> TAKE T \in SUBSET S
  <2>1. Cardinality(T) + 1 \in sized
    BY SmallerSets, <1>3
  <2> QED BY SmallerSets, <2>1

-----------------------------------------------------------------------------
(* Folds *)

Any(T) == CHOOSE x \in T : TRUE

\* The values of a fold on the subsets of a set.
IsFold(it, op, base, f, S) ==
  /\ it \in [SUBSET S -> Nat]
  /\ \A T \in SUBSET S :
       it[T] = IF T = {} THEN base ELSE op[<<f[Any(T)], it[T \ {Any(T)}]>>]

IsOperation(op) ==
  /\ op \in [Nat \X Nat -> Nat]
  /\ \A a, b \in Nat : op[<<a, b>>] = op[<<b, a>>]
  /\ \A a, b, c \in Nat : op[<<a, op[<<b, c>>]>>] = op[<<op[<<a, b>>], c>>]

LEMMA OperationSwaps ==
  ASSUME NEW op, IsOperation(op), NEW a \in Nat, NEW b \in Nat, NEW c \in Nat
  PROVE  op[<<a, op[<<b, c>>]>>] = op[<<b, op[<<a, c>>]>>]
<1>1. op[<<a, op[<<b, c>>]>>] = op[<<op[<<a, b>>], c>>]
  BY DEF IsOperation
<1>2. op[<<b, op[<<a, c>>]>>] = op[<<op[<<b, a>>], c>>]
  BY DEF IsOperation
<1>3. op[<<a, b>>] = op[<<b, a>>]
  BY DEF IsOperation
<1> QED BY <1>1, <1>2, <1>3

LEMMA FoldExists ==
  ASSUME NEW S, IsFiniteSet(S), NEW f \in [S -> Nat], NEW op, IsOperation(op), NEW base \in Nat
  PROVE  \E it : IsFold(it, op, base, f, S)
<1> DEFINE step(it, T) == IF T = {} THEN base ELSE op[<<f[Any(T)], it[T \ {Any(T)}]>>]
           Upto(it, n) == \A T \in SUBSET S : Cardinality(T) <= n => it[T] = step(it, T)
           good == {n \in Nat : \E it \in [SUBSET S -> Nat] : Upto(it, n)}
<1>0. \A T \in SUBSET S : T # {} => Any(T) \in T
  BY DEF Any
<1>1. 0 \in good
  <2> DEFINE it == [T \in SUBSET S |-> base]
  <2>1. it \in [SUBSET S -> Nat]
    OBVIOUS
  <2>2. Upto(it, 0)
    <3> SUFFICES ASSUME NEW T \in SUBSET S, Cardinality(T) <= 0 PROVE T = {}
      OBVIOUS
    <3> QED BY SmallerSets, FS_EmptySet
  <2> QED BY <2>1, <2>2
<1>2. ASSUME NEW n \in Nat, n \in good PROVE n + 1 \in good
  <2>1. PICK it \in [SUBSET S -> Nat] : Upto(it, n)
    BY <1>2
  <2> DEFINE next == [T \in SUBSET S |-> step(it, T)]
  <2>2. \A T \in SUBSET S : step(it, T) \in Nat
    BY <1>0 DEF IsOperation
  <2>3. next \in [SUBSET S -> Nat]
    <3> HIDE DEF step
    <3> QED BY <2>2
  <2>4. Upto(next, n + 1)
    <3> SUFFICES ASSUME NEW T \in SUBSET S, Cardinality(T) <= n + 1 PROVE next[T] = step(next, T)
      OBVIOUS
    <3>1. CASE T = {}
      BY <3>1
    <3>2. CASE T # {}
      <4> DEFINE U == T \ {Any(T)}
      <4>1. U \in SUBSET S /\ Cardinality(U) <= n
        BY <1>0, <3>2, SmallerSets
      <4>2. it[U] = next[U]
        <5> HIDE DEF U, step
        <5> QED BY <2>1, <4>1
      <4> QED BY <3>2, <4>1, <4>2
    <3> QED BY <3>1, <3>2
  <2> QED
    <3> HIDE DEF next, Upto
    <3> QED BY <2>3, <2>4
<1>3. \A n \in Nat : n \in good
  <2> HIDE DEF good
  <2> QED BY <1>1, <1>2, NatSteps
<1>4. Cardinality(S) \in good
  BY <1>3, SmallerSets
<1>5. PICK it \in [SUBSET S -> Nat] : Upto(it, Cardinality(S))
  BY <1>4
<1>6. \A T \in SUBSET S : Cardinality(T) <= Cardinality(S)
  BY FS_Subset
<1> QED BY <1>5, <1>6 DEF IsFold

\* The order in which a fold takes the elements does not matter.
LEMMA FoldAny ==
  ASSUME NEW S, IsFiniteSet(S), NEW f \in [S -> Nat], NEW op, IsOperation(op), NEW base \in Nat,
         NEW it, IsFold(it, op, base, f, S)
  PROVE  \A T \in SUBSET S : \A x \in T : it[T] = op[<<f[x], it[T \ {x}]>>]
<1> DEFINE good == {T \in SUBSET S : \A x \in T : it[T] = op[<<f[x], it[T \ {x}]>>]}
<1>1. ASSUME NEW T \in SUBSET S, \A U \in SUBSET T : U # T => U \in good PROVE T \in good
  <2> SUFFICES ASSUME NEW x \in T PROVE it[T] = op[<<f[x], it[T \ {x}]>>]
    OBVIOUS
  <2> DEFINE y == Any(T)
             rest == (T \ {x}) \ {y}
  <2>1. y \in T /\ it[T] = op[<<f[y], it[T \ {y}]>>]
    BY DEF IsFold, Any
  <2>2. CASE x = y
    BY <2>1, <2>2
  <2>3. CASE x # y
    <3>1. it[T \ {y}] = op[<<f[x], it[(T \ {y}) \ {x}]>>]
      BY <1>1, <2>1, <2>3
    <3>2. it[T \ {x}] = op[<<f[y], it[rest]>>]
      BY <1>1, <2>1, <2>3
    <3>3. (T \ {y}) \ {x} = rest
      OBVIOUS
    <3>4. f[x] \in Nat /\ f[y] \in Nat /\ it[rest] \in Nat
      BY <2>1 DEF IsFold
    <3> HIDE DEF y, rest
    <3>5. op[<<f[y], op[<<f[x], it[rest]>>]>>] = op[<<f[x], op[<<f[y], it[rest]>>]>>]
      BY <3>4, OperationSwaps
    <3> QED BY <2>1, <3>1, <3>2, <3>3, <3>5
  <2> QED BY <2>2, <2>3
<1>2. \A T \in SUBSET S : T \in good
  <2> HIDE DEF good
  <2> QED BY <1>1, SetSteps
<1> QED BY <1>2

\* A fold of part of a function is the fold of the function on that part.
LEMMA FoldPart ==
  ASSUME NEW S, IsFiniteSet(S), NEW P \in SUBSET S, NEW f, NEW op, NEW base,
         NEW it, IsFold(it, op, base, f, S),
         NEW jt, IsFold(jt, op, base, [i \in P |-> f[i]], P)
  PROVE  \A T \in SUBSET P : jt[T] = it[T]
<1> DEFINE good == {T \in SUBSET P : jt[T] = it[T]}
<1>1. ASSUME NEW T \in SUBSET P, \A U \in SUBSET T : U # T => U \in good PROVE T \in good
  <2>1. CASE T = {}
    BY <2>1 DEF IsFold
  <2>2. CASE T # {}
    <3>1. Any(T) \in T
      BY <2>2 DEF Any
    <3>2. jt[T \ {Any(T)}] = it[T \ {Any(T)}]
      BY <1>1, <3>1
    <3> QED BY <2>2, <3>1, <3>2 DEF IsFold
  <2> QED BY <2>1, <2>2
<1>2. IsFiniteSet(P)
  BY FS_Subset
<1>3. \A T \in SUBSET P : T \in good
  <2> HIDE DEF good
  <2> QED BY <1>1, <1>2, SetSteps
<1> QED BY <1>3

-----------------------------------------------------------------------------
(* Sums and products *)

Times == [p \in Nat \X Nat |-> p[1] * p[2]]
Plus == [p \in Nat \X Nat |-> p[1] + p[2]]

LEMMA TimesPlus == IsOperation(Times) /\ IsOperation(Plus)
<1>1. \A a, b \in Nat : a * b \in Nat /\ a + b \in Nat
  OBVIOUS
<1>2. Times \in [Nat \X Nat -> Nat] /\ Plus \in [Nat \X Nat -> Nat]
  BY <1>1 DEF Times, Plus
<1>3. \A a, b \in Nat : Times[<<a, b>>] = a * b /\ Plus[<<a, b>>] = a + b
  BY DEF Times, Plus
<1>4. \A a, b \in Nat : a * b = b * a /\ a + b = b + a
  OBVIOUS
<1>5. \A a, b, c \in Nat : a * (b * c) = (a * b) * c /\ a + (b + c) = (a + b) + c
  OBVIOUS
<1> HIDE DEF Times, Plus
<1> QED BY <1>1, <1>2, <1>3, <1>4, <1>5 DEF IsOperation

LEMMA ProductIsFold ==
  ASSUME NEW S, IsFiniteSet(S), NEW f \in [S -> Nat]
  PROVE  \E it : IsFold(it, Times, 1, f, S) /\ Product(f) = it[S]
<1> DEFINE Equation(g) ==
             g = [s \in SUBSET S |-> IF s = {} THEN 1 ELSE f[CHOOSE x \in s : TRUE] * g[s \ {CHOOSE x \in s : TRUE}]]
           it == CHOOSE g : Equation(g)
<1>1. Product(f) = it[S]
  BY DEF Product, FoldFunction, FoldFunctionOnSet, MapThenFoldSet
<1>2. PICK jt : IsFold(jt, Times, 1, f, S)
  BY FoldExists, TimesPlus
<1>3. \A T \in SUBSET S : jt[T] \in Nat /\ (T # {} => f[Any(T)] \in Nat)
  BY <1>2 DEF IsFold, Any
<1>4. \A T \in SUBSET S : T # {} => Times[<<f[Any(T)], jt[T \ {Any(T)}]>>] = f[Any(T)] * jt[T \ {Any(T)}]
  BY <1>3 DEF Times
<1>5. Equation(jt)
  BY <1>2, <1>4 DEF IsFold, Any
<1>6. Equation(it)
  <2> HIDE DEF Equation
  <2> QED BY <1>5
<1>7. \A T \in SUBSET S : T # {} => it[T] = f[Any(T)] * it[T \ {Any(T)}]
  <2> HIDE DEF it
  <2> QED BY <1>6 DEF Any
<1>8. it[{}] = 1 /\ jt[{}] = 1
  <2> HIDE DEF it
  <2> QED BY <1>2, <1>6 DEF IsFold
<1> DEFINE good == {T \in SUBSET S : it[T] = jt[T]}
<1> HIDE DEF it, Equation
<1>9. ASSUME NEW T \in SUBSET S, \A U \in SUBSET T : U # T => U \in good PROVE T \in good
  <2>1. CASE T = {}
    BY <1>8, <2>1
  <2>2. CASE T # {}
    <3>1. Any(T) \in T /\ T \ {Any(T)} \in good
      BY <1>9, <2>2 DEF Any
    <3> QED BY <1>2, <1>4, <1>7, <2>2, <3>1 DEF IsFold
  <2> QED BY <2>1, <2>2
<1>10. \A T \in SUBSET S : T \in good
  <2> HIDE DEF good
  <2> QED BY <1>9, SetSteps
<1> QED BY <1>1, <1>2, <1>10

LEMMA SumIsFold ==
  ASSUME NEW S, IsFiniteSet(S), NEW f \in [S -> Nat]
  PROVE  \E it : IsFold(it, Plus, 0, f, S) /\ SumFunction(f) = it[S]
<1> DEFINE Equation(g) ==
             g = [s \in SUBSET S |-> IF s = {} THEN 0 ELSE f[CHOOSE x \in s : TRUE] + g[s \ {CHOOSE x \in s : TRUE}]]
           it == CHOOSE g : Equation(g)
<1>1. SumFunction(f) = it[S]
  BY DEF SumFunction, SumFunctionOnSet, FoldFunctionOnSet, MapThenFoldSet
<1>2. PICK jt : IsFold(jt, Plus, 0, f, S)
  BY FoldExists, TimesPlus
<1>3. \A T \in SUBSET S : jt[T] \in Nat /\ (T # {} => f[Any(T)] \in Nat)
  BY <1>2 DEF IsFold, Any
<1>4. \A T \in SUBSET S : T # {} => Plus[<<f[Any(T)], jt[T \ {Any(T)}]>>] = f[Any(T)] + jt[T \ {Any(T)}]
  BY <1>3 DEF Plus
<1>5. Equation(jt)
  BY <1>2, <1>4 DEF IsFold, Any
<1>6. Equation(it)
  <2> HIDE DEF Equation
  <2> QED BY <1>5
<1>7. \A T \in SUBSET S : T # {} => it[T] = f[Any(T)] + it[T \ {Any(T)}]
  <2> HIDE DEF it
  <2> QED BY <1>6 DEF Any
<1>8. it[{}] = 0 /\ jt[{}] = 0
  <2> HIDE DEF it
  <2> QED BY <1>2, <1>6 DEF IsFold
<1> DEFINE good == {T \in SUBSET S : it[T] = jt[T]}
<1> HIDE DEF it, Equation
<1>9. ASSUME NEW T \in SUBSET S, \A U \in SUBSET T : U # T => U \in good PROVE T \in good
  <2>1. CASE T = {}
    BY <1>8, <2>1
  <2>2. CASE T # {}
    <3>1. Any(T) \in T /\ T \ {Any(T)} \in good
      BY <1>9, <2>2 DEF Any
    <3> QED BY <1>2, <1>4, <1>7, <2>2, <3>1 DEF IsFold
  <2> QED BY <2>1, <2>2
<1>10. \A T \in SUBSET S : T \in good
  <2> HIDE DEF good
  <2> QED BY <1>9, SetSteps
<1> QED BY <1>1, <1>2, <1>10

\* The product of a function on part of its domain, and its sum.
Prod(f, T) == Product([i \in T |-> f[i]])
Sum(f, T) == SumFunction([i \in T |-> f[i]])

LEMMA ProdFacts ==
  ASSUME NEW S, IsFiniteSet(S), NEW f \in [S -> Nat]
  PROVE  /\ Prod(f, {}) = 1 /\ Product(f) = Prod(f, S)
         /\ \A T \in SUBSET S : Prod(f, T) \in Nat
         /\ \A T \in SUBSET S : \A x \in T : Prod(f, T) = f[x] * Prod(f, T \ {x})
<1>1. PICK it : IsFold(it, Times, 1, f, S) /\ Product(f) = it[S]
  BY ProductIsFold
<1>2. ASSUME NEW T \in SUBSET S PROVE Prod(f, T) = it[T]
  <2>1. IsFiniteSet(T) /\ [i \in T |-> f[i]] \in [T -> Nat]
    BY FS_Subset
  <2>2. PICK jt : IsFold(jt, Times, 1, [i \in T |-> f[i]], T) /\ Prod(f, T) = jt[T]
    BY <2>1, ProductIsFold DEF Prod
  <2>3. jt[T] = it[T]
    BY <1>1, <2>2, FoldPart
  <2> QED BY <2>2, <2>3
<1>3. ASSUME NEW T \in SUBSET S, NEW x \in T PROVE it[T] = f[x] * it[T \ {x}]
  <2>1. it[T] = Times[<<f[x], it[T \ {x}]>>]
    <3> DEFINE one == 1
    <3>1. one \in Nat /\ IsFold(it, Times, one, f, S)
      BY <1>1
    <3>2. IsOperation(Times)
      BY TimesPlus
    <3> HIDE DEF one
    <3> QED BY <3>1, <3>2, FoldAny
  <2>2. it[T \ {x}] \in Nat /\ f[x] \in Nat
    BY <1>1 DEF IsFold
  <2> QED BY <2>1, <2>2 DEF Times
<1>4. it[{}] = 1 /\ \A T \in SUBSET S : it[T] \in Nat
  BY <1>1 DEF IsFold
<1>5. \A T \in SUBSET S : \A x \in T : Prod(f, T) = f[x] * Prod(f, T \ {x})
  BY <1>2, <1>3
<1> QED BY <1>1, <1>2, <1>4, <1>5

LEMMA SumFacts ==
  ASSUME NEW S, IsFiniteSet(S), NEW f \in [S -> Nat]
  PROVE  /\ Sum(f, {}) = 0 /\ SumFunction(f) = Sum(f, S)
         /\ \A T \in SUBSET S : Sum(f, T) \in Nat
         /\ \A T \in SUBSET S : \A x \in T : Sum(f, T) = f[x] + Sum(f, T \ {x})
<1>1. PICK it : IsFold(it, Plus, 0, f, S) /\ SumFunction(f) = it[S]
  BY SumIsFold
<1>2. ASSUME NEW T \in SUBSET S PROVE Sum(f, T) = it[T]
  <2>1. IsFiniteSet(T) /\ [i \in T |-> f[i]] \in [T -> Nat]
    BY FS_Subset
  <2>2. PICK jt : IsFold(jt, Plus, 0, [i \in T |-> f[i]], T) /\ Sum(f, T) = jt[T]
    BY <2>1, SumIsFold DEF Sum
  <2>3. jt[T] = it[T]
    BY <1>1, <2>2, FoldPart
  <2> QED BY <2>2, <2>3
<1>3. ASSUME NEW T \in SUBSET S, NEW x \in T PROVE it[T] = f[x] + it[T \ {x}]
  <2>1. it[T] = Plus[<<f[x], it[T \ {x}]>>]
    BY <1>1, FoldAny, TimesPlus
  <2>2. it[T \ {x}] \in Nat /\ f[x] \in Nat
    BY <1>1 DEF IsFold
  <2> QED BY <2>1, <2>2 DEF Plus
<1>4. it[{}] = 0 /\ \A T \in SUBSET S : it[T] \in Nat
  BY <1>1 DEF IsFold
<1>5. \A T \in SUBSET S : \A x \in T : Sum(f, T) = f[x] + Sum(f, T \ {x})
  BY <1>2, <1>3
<1> QED BY <1>1, <1>2, <1>4, <1>5

LEMMA ProdStep ==
  ASSUME NEW S, IsFiniteSet(S), NEW f \in [S -> Nat], NEW T \in SUBSET S, NEW x \in T
  PROVE  Prod(f, T) = f[x] * Prod(f, T \ {x})
BY ProdFacts

LEMMA SumStep ==
  ASSUME NEW S, IsFiniteSet(S), NEW f \in [S -> Nat], NEW T \in SUBSET S, NEW x \in T
  PROVE  Sum(f, T) = f[x] + Sum(f, T \ {x})
BY SumFacts

-----------------------------------------------------------------------------
(* Powers *)

LEMMA PowerFacts ==
  ASSUME NEW x \in Nat
  PROVE  /\ Power(x, 0) = 1
         /\ \A n \in Nat : Power(x, n) \in Nat /\ Power(x, n + 1) = x * Power(x, n)
<1>1. ASSUME NEW n \in Nat PROVE Power(x, n) \in Nat /\ Power(x, n + 1) = x * Power(x, n)
  <2> DEFINE S == 1 .. n + 1
             f == [i \in S |-> x]
  <2>1. IsFiniteSet(S) /\ f \in [S -> Nat] /\ n + 1 \in S /\ f[n + 1] = x
    BY FS_Interval
  <2>2. S \ {n + 1} = 1 .. n
    OBVIOUS
  <2>3. Prod(f, 1 .. n) = Power(x, n)
    <3>1. [i \in 1 .. n |-> f[i]] = [i \in 1 .. n |-> x]
      OBVIOUS
    <3> QED BY <3>1 DEF Prod, Power
  <2>4. Product(f) = Power(x, n + 1)
    BY DEF Power
  <2> HIDE DEF f, S
  <2>5. Product(f) = Prod(f, S) /\ Prod(f, S) = f[n + 1] * Prod(f, S \ {n + 1}) /\ Prod(f, S \ {n + 1}) \in Nat
    BY <2>1, ProdFacts
  <2> QED BY <2>1, <2>2, <2>3, <2>4, <2>5
<1>2. Power(x, 0) = 1
  <2> DEFINE f == [i \in {} |-> x]
  <2>1. IsFiniteSet({}) /\ f \in [{} -> Nat] /\ 1 .. 0 = {}
    BY FS_EmptySet
  <2>2. Product(f) = Prod(f, {}) /\ Prod(f, {}) = 1
    <3> HIDE DEF f
    <3> QED BY <2>1, ProdFacts
  <2> QED BY <2>1, <2>2 DEF Power
<1> QED BY <1>1, <1>2

LEMMA PowerPositive ==
  ASSUME NEW x \in Nat \ {0}
  PROVE  \A n \in Nat : Power(x, n) \in Nat \ {0}
<1> DEFINE good == {n \in Nat : Power(x, n) \in Nat \ {0}}
<1>1. 0 \in good
  BY PowerFacts
<1>2. ASSUME NEW n \in Nat, n \in good PROVE n + 1 \in good
  <2>1. Power(x, n + 1) = x * Power(x, n)
    BY PowerFacts
  <2>2. \A y \in Nat \ {0} : x * y \in Nat \ {0}
    OBVIOUS
  <2> QED BY <1>2, <2>1, <2>2
<1> HIDE DEF good
<1>3. \A n \in Nat : n \in good
  BY <1>1, <1>2, NatSteps
<1> QED BY <1>3 DEF good

LEMMA PowerTimes ==
  ASSUME NEW x \in Nat, NEW y \in Nat
  PROVE  \A n \in Nat : Power(x * y, n) = Power(x, n) * Power(y, n)
<1> DEFINE good == {n \in Nat : Power(x * y, n) = Power(x, n) * Power(y, n)}
<1>0. x * y \in Nat
  OBVIOUS
<1>1. 0 \in good
  BY <1>0, PowerFacts
<1>2. ASSUME NEW n \in Nat, n \in good PROVE n + 1 \in good
  <2>1. Power(x * y, n + 1) = (x * y) * (Power(x, n) * Power(y, n))
    BY <1>0, <1>2, PowerFacts
  <2>2. Power(x, n + 1) = x * Power(x, n) /\ Power(y, n + 1) = y * Power(y, n)
    BY PowerFacts
  <2>3. \A p, q \in Nat : (x * y) * (p * q) = (x * p) * (y * q)
    OBVIOUS
  <2>4. Power(x, n) \in Nat /\ Power(y, n) \in Nat
    BY PowerFacts
  <2> QED BY <2>1, <2>2, <2>3, <2>4
<1> HIDE DEF good
<1>3. \A n \in Nat : n \in good
  BY <1>1, <1>2, NatSteps
<1> QED BY <1>3 DEF good

LEMMA PowerOne == \A n \in Nat : Power(1, n) = 1
<1> DEFINE good == {n \in Nat : Power(1, n) = 1}
<1>1. 0 \in good
  BY PowerFacts
<1>2. ASSUME NEW n \in Nat, n \in good PROVE n + 1 \in good
  BY <1>2, PowerFacts
<1> HIDE DEF good
<1>3. \A n \in Nat : n \in good
  BY <1>1, <1>2, NatSteps
<1> QED BY <1>3 DEF good

LEMMA PowerPower ==
  ASSUME NEW x \in Nat, NEW m \in Nat
  PROVE  \A n \in Nat : Power(Power(x, m), n) = Power(Power(x, n), m)
<1> DEFINE y == Power(x, m)
           good == {n \in Nat : Power(y, n) = Power(Power(x, n), m)}
<1>0. y \in Nat
  BY PowerFacts
<1>1. 0 \in good
  <2>1. Power(y, 0) = 1 /\ Power(x, 0) = 1
    BY <1>0, PowerFacts
  <2> QED BY <2>1, PowerOne
<1>2. ASSUME NEW n \in Nat, n \in good PROVE n + 1 \in good
  <2>1. Power(y, n + 1) = y * Power(y, n)
    BY <1>0, PowerFacts
  <2>2. Power(x, n) \in Nat /\ Power(x, n + 1) = x * Power(x, n)
    BY PowerFacts
  <2>3. Power(x * Power(x, n), m) = Power(x, m) * Power(Power(x, n), m)
    BY <2>2, PowerTimes
  <2> QED BY <1>2, <2>1, <2>2, <2>3
<1> HIDE DEF good
<1>3. \A n \in Nat : n \in good
  BY <1>1, <1>2, NatSteps
<1> QED BY <1>3 DEF good

LEMMA PowerMonotone ==
  ASSUME NEW x \in Nat, NEW y \in Nat
  PROVE  /\ x <= y => \A n \in Nat : Power(x, n) <= Power(y, n)
         /\ x < y => \A n \in Nat \ {0} : Power(x, n) < Power(y, n)
<1>0. \A p, q \in Nat : x <= y /\ p <= q => x * p <= y * q
  OBVIOUS
<1>1. ASSUME x <= y PROVE \A n \in Nat : Power(x, n) <= Power(y, n)
  <2> DEFINE good == {n \in Nat : Power(x, n) <= Power(y, n)}
  <2>1. 0 \in good
    BY PowerFacts
  <2>2. ASSUME NEW n \in Nat, n \in good PROVE n + 1 \in good
    <3>1. /\ Power(x, n) \in Nat /\ Power(x, n + 1) = x * Power(x, n)
          /\ Power(y, n) \in Nat /\ Power(y, n + 1) = y * Power(y, n)
      BY PowerFacts
    <3> QED BY <1>0, <1>1, <2>2, <3>1
  <2> HIDE DEF good
  <2>3. \A n \in Nat : n \in good
    BY <2>1, <2>2, NatSteps
  <2> QED BY <2>3 DEF good
<1>2. ASSUME x < y, NEW n \in Nat \ {0} PROVE Power(x, n) < Power(y, n)
  <2> DEFINE k == n - 1
  <2>1. k \in Nat /\ n = k + 1
    OBVIOUS
  <2> HIDE DEF k
  <2>2. Power(x, n) = x * Power(x, k) /\ Power(y, n) = y * Power(y, k)
    BY <2>1, PowerFacts
  <2>3. Power(x, k) <= Power(y, k)
    BY <1>1, <1>2, <2>1
  <2>5. Power(x, k) \in Nat
    BY <2>1, PowerFacts
  <2>6. Power(y, k) \in Nat \ {0}
    BY <1>2, <2>1, PowerPositive
  <2>4. \A p \in Nat, q \in Nat \ {0} : p <= q => x * p < y * q
    <3> SUFFICES ASSUME NEW p \in Nat, NEW q \in Nat \ {0}, p <= q PROVE x * p < y * q
      OBVIOUS
    <3>1. x * p <= x * q
      OBVIOUS
    <3>2. x * q < y * q
      BY <1>2
    <3> QED BY <3>1, <3>2
  <2> QED BY <2>2, <2>3, <2>4, <2>5, <2>6
<1> QED BY <1>1, <1>2

-----------------------------------------------------------------------------
(* The order of the scores *)

Pos == Nat \ {0}
Triples == Pos \X Pos \X Pos

LEMMA Cancelled ==
  ASSUME NEW p \in Pos, NEW q \in Pos, NEW r \in Pos, NEW s \in Pos, NEW v \in Pos, NEW w \in Pos,
         p * q <= r * s, r * v <= w * q
  PROVE  p * v <= w * s
<1>0. \A i, j \in Pos : i * j \in Pos
  BY DEF Pos
<1>1. \A i, j, k, l \in Pos : i <= j /\ k <= l => i * k <= j * l
  <2> SUFFICES ASSUME NEW i \in Pos, NEW j \in Pos, NEW k \in Pos, NEW l \in Pos, i <= j, k <= l
               PROVE  i * k <= j * l
    OBVIOUS
  <2>1. i * k <= j * k
    BY DEF Pos
  <2>2. j * k <= j * l
    BY DEF Pos
  <2> QED BY <2>1, <2>2 DEF Pos
<1>2. (p * q) * (r * v) <= (r * s) * (w * q)
  <2>1. p * q \in Pos /\ r * s \in Pos /\ r * v \in Pos /\ w * q \in Pos
    BY <1>0
  <2> QED BY <1>1, <2>1
<1>3. (p * q) * (r * v) = (p * v) * (q * r) /\ (r * s) * (w * q) = (w * s) * (q * r)
  BY DEF Pos
<1>4. \A i, j, k \in Pos : i * k <= j * k => i <= j
  <2> SUFFICES ASSUME NEW i \in Pos, NEW j \in Pos, NEW k \in Pos, i > j PROVE i * k > j * k
    BY DEF Pos
  <2> QED BY DEF Pos
<1>5. p * v \in Pos /\ w * s \in Pos /\ q * r \in Pos
  BY <1>0
<1> QED BY <1>2, <1>3, <1>4, <1>5

LEMMA PowerInPos ==
  ASSUME NEW x \in Pos, NEW n \in Pos
  PROVE  Power(x, n) \in Pos
BY PowerPositive DEF Pos

\* For windows of one length too, the powers would decide.
LEMMA AboveIsPowers ==
  ASSUME NEW s \in Triples, NEW t \in Triples
  PROVE  Above(s, t) <=> Power(s[1], t[3]) * Power(t[2], s[3]) > Power(t[1], s[3]) * Power(s[2], t[3])
<1>1. CASE s[3] = t[3]
  <2> DEFINE n == t[3]
             p == s[1] * t[2]
             q == t[1] * s[2]
  <2>1. /\ s[1] \in Nat /\ s[2] \in Nat /\ t[1] \in Nat /\ t[2] \in Nat
        /\ n \in Nat \ {0} /\ p \in Nat /\ q \in Nat
    <3>1. /\ s[1] \in Nat /\ s[2] \in Nat /\ t[1] \in Nat /\ t[2] \in Nat /\ n \in Nat \ {0}
      BY DEF Triples, Pos
    <3>2. \A i, j \in Nat : i * j \in Nat
      OBVIOUS
    <3> QED BY <3>1, <3>2
  <2>2. Power(p, n) = Power(s[1], n) * Power(t[2], n) /\ Power(q, n) = Power(t[1], n) * Power(s[2], n)
    <3> DEFINE a == s[1]  b == t[2]  c == t[1]  d == s[2]
    <3>1. a \in Nat /\ b \in Nat /\ c \in Nat /\ d \in Nat /\ n \in Nat
      BY <2>1
    <3> HIDE DEF a, b, c, d, n
    <3>2. Power(a * b, n) = Power(a, n) * Power(b, n) /\ Power(c * d, n) = Power(c, n) * Power(d, n)
      BY <3>1, PowerTimes
    <3> QED BY <3>2 DEF a, b, c, d
  <2>3. Above(s, t) <=> p > q
    BY <1>1 DEF Above
  <2>4. s[3] = n
    BY <1>1
  <2> HIDE DEF n, p, q
  <2>5. q < p => Power(q, n) < Power(p, n)
    BY <2>1, PowerMonotone
  <2>6. p <= q => Power(p, n) <= Power(q, n)
    BY <2>1, PowerMonotone
  <2>7. Power(p, n) \in Nat /\ Power(q, n) \in Nat
    BY <2>1, PowerFacts
  <2>8. p > q <=> Power(p, n) > Power(q, n)
    BY <2>1, <2>5, <2>6, <2>7
  <2> QED BY <2>2, <2>3, <2>4, <2>8 DEF n
<1>2. CASE s[3] # t[3]
  BY <1>2 DEF Above
<1> QED BY <1>1, <1>2

LEMMA AboveAsymmetric ==
  ASSUME NEW s \in Triples, NEW t \in Triples, Above(s, t)
  PROVE  ~Above(t, s)
<1> DEFINE p == Power(s[1], t[3])
           q == Power(t[2], s[3])
           v == Power(t[1], s[3])
           w == Power(s[2], t[3])
<1>1. p \in Pos /\ q \in Pos /\ v \in Pos /\ w \in Pos
  BY PowerInPos DEF Triples
<1>2. Above(s, t) <=> p * q > v * w
  BY AboveIsPowers
<1>3. Above(t, s) <=> v * w > p * q
  BY AboveIsPowers
<1> HIDE DEF p, q, v, w
<1>4. p * q \in Nat /\ v * w \in Nat
  BY <1>1 DEF Pos
<1> QED BY <1>2, <1>3, <1>4

LEMMA AtMostTransitive ==
  ASSUME NEW s \in Triples, NEW t \in Triples, NEW u \in Triples, ~Above(s, t), ~Above(t, u)
  PROVE  ~Above(s, u)
<1> DEFINE a == s[1]  b == s[2]  l == s[3]
           c == t[1]  d == t[2]  m == t[3]
           e == u[1]  f == u[2]  k == u[3]
<1>1. /\ a \in Pos /\ b \in Pos /\ c \in Pos /\ d \in Pos /\ e \in Pos /\ f \in Pos
      /\ l \in Pos /\ m \in Pos /\ k \in Pos
  BY DEF Triples
<1>2. Above(s, t) <=> Power(a, m) * Power(d, l) > Power(c, l) * Power(b, m)
  BY AboveIsPowers
<1>3. Above(t, u) <=> Power(c, k) * Power(f, m) > Power(e, m) * Power(d, k)
  BY AboveIsPowers
<1>4. Above(s, u) <=> Power(a, k) * Power(f, l) > Power(e, l) * Power(b, k)
  BY AboveIsPowers
<1> HIDE DEF a, b, c, d, e, f, k, l, m
<1>5. \A x, n \in Pos : Power(x, n) \in Pos
  BY PowerInPos
<1>6. \A x, y \in Pos : x * y \in Pos
  BY DEF Pos
<1>7. \A x, y, z, v, i, j, n \in Pos :
        ~(Power(x, i) * Power(y, j) > Power(z, j) * Power(v, i)) =>
          Power(Power(x, n), i) * Power(Power(y, n), j) <= Power(Power(z, n), j) * Power(Power(v, n), i)
  <2> SUFFICES ASSUME NEW x \in Pos, NEW y \in Pos, NEW z \in Pos, NEW v \in Pos,
                      NEW i \in Pos, NEW j \in Pos, NEW n \in Pos,
                      ~(Power(x, i) * Power(y, j) > Power(z, j) * Power(v, i))
               PROVE  Power(Power(x, n), i) * Power(Power(y, n), j)
                        <= Power(Power(z, n), j) * Power(Power(v, n), i)
    OBVIOUS
  <2> DEFINE X == Power(x, i)  Y == Power(y, j)  Z == Power(z, j)  V == Power(v, i)
  <2>1. X \in Nat /\ Y \in Nat /\ Z \in Nat /\ V \in Nat /\ n \in Nat
    BY <1>5 DEF Pos
  <2>2. /\ Power(X, n) = Power(Power(x, n), i) /\ Power(Y, n) = Power(Power(y, n), j)
        /\ Power(Z, n) = Power(Power(z, n), j) /\ Power(V, n) = Power(Power(v, n), i)
    <3>1. \A g, h, o \in Nat : Power(Power(g, h), o) = Power(Power(g, o), h)
      BY PowerPower
    <3> QED BY <3>1 DEF Pos
  <2>0. ~(X * Y > Z * V)
    OBVIOUS
  <2> HIDE DEF X, Y, Z, V
  <2>3. X * Y \in Nat /\ Z * V \in Nat /\ X * Y <= Z * V
    BY <2>0, <2>1
  <2>4. Power(X * Y, n) <= Power(Z * V, n)
    BY <2>1, <2>3, PowerMonotone
  <2>5. Power(X * Y, n) = Power(X, n) * Power(Y, n) /\ Power(Z * V, n) = Power(Z, n) * Power(V, n)
    BY <2>1, PowerTimes
  <2> QED BY <2>2, <2>4, <2>5
<1> DEFINE A == Power(a, k)  B == Power(b, k)  E == Power(e, l)  F == Power(f, l)
           R == Power(Power(c, k), l)  Q == Power(Power(d, k), l)
<1>8. Power(A, m) * Q <= R * Power(B, m)
  BY <1>1, <1>2, <1>7
<1>9. Power(Power(c, l), k) * Power(F, m) <= Power(E, m) * Power(Power(d, l), k)
  BY <1>1, <1>3, <1>7
<1>10. Power(Power(c, l), k) = R /\ Power(Power(d, l), k) = Q
  <2>1. \A g, h, o \in Nat : Power(Power(g, h), o) = Power(Power(g, o), h)
    BY PowerPower
  <2> QED BY <1>1, <2>1 DEF Pos
<1>11. A \in Pos /\ B \in Pos /\ E \in Pos /\ F \in Pos /\ R \in Pos /\ Q \in Pos
  BY <1>1, <1>5
<1> HIDE DEF A, B, E, F, R, Q
<1>12. Power(A, m) * Power(F, m) <= Power(E, m) * Power(B, m)
  <2>1. Power(A, m) \in Pos /\ Power(B, m) \in Pos /\ Power(E, m) \in Pos /\ Power(F, m) \in Pos
    BY <1>1, <1>5, <1>11
  <2>2. R * Power(F, m) <= Power(E, m) * Q
    BY <1>9, <1>10
  <2> QED BY <1>8, <1>11, <2>1, <2>2, Cancelled
<1>13. Power(A * F, m) <= Power(E * B, m)
  <2>1. Power(A * F, m) = Power(A, m) * Power(F, m) /\ Power(E * B, m) = Power(E, m) * Power(B, m)
    BY <1>1, <1>11, PowerTimes DEF Pos
  <2> QED BY <1>12, <2>1
<1>14. A * F <= E * B
  <2> DEFINE p == A * F
             q == E * B
  <2>1. p \in Nat /\ q \in Nat /\ m \in Nat \ {0}
    BY <1>1, <1>11 DEF Pos
  <2>2. Power(p, m) <= Power(q, m)
    BY <1>13
  <2> HIDE DEF p, q
  <2>3. q < p => Power(q, m) < Power(p, m)
    BY <2>1, PowerMonotone
  <2>4. Power(p, m) \in Nat /\ Power(q, m) \in Nat
    BY <2>1, PowerFacts
  <2>5. p <= q
    BY <2>1, <2>2, <2>3, <2>4
  <2> QED BY <2>5 DEF p, q
<1>15. A * F \in Nat /\ E * B \in Nat
  BY <1>11 DEF Pos
<1> QED BY <1>4, <1>14, <1>15 DEF A, B, E, F

LEMMA AboveThrough ==
  ASSUME NEW s \in Triples, NEW t \in Triples, NEW u \in Triples
  PROVE  /\ Above(s, t) /\ ~Above(u, t) => Above(s, u)
         /\ ~Above(t, s) /\ Above(t, u) => Above(s, u)
         /\ ~Above(s, s)
<1>1. Above(s, t) /\ ~Above(u, t) => Above(s, u)
  BY AtMostTransitive
<1>2. ~Above(t, s) /\ Above(t, u) => Above(s, u)
  BY AtMostTransitive
<1>3. ~Above(s, s)
  BY AboveAsymmetric
<1> QED BY <1>1, <1>2, <1>3

-----------------------------------------------------------------------------
(* Order statistics *)

LEMMA LeastOf ==
  ASSUME NEW T, T # {}, NEW f \in [T -> Nat]
  PROVE  \E x \in T : \A y \in T : f[x] <= f[y]
<1> DEFINE values == {f[x] : x \in T}
<1>1. values \subseteq Nat /\ values # {}
  OBVIOUS
<1>2. PICK v \in values : \A k \in values : <<k, v>> \notin OpToRel(<, Nat)
  <2> HIDE DEF values
  <2> QED BY <1>1, WFMin, NatLessThanWellFounded
<1>3. PICK x \in T : v = f[x]
  OBVIOUS
<1>4. ASSUME NEW y \in T PROVE f[x] <= f[y]
  <2>1. f[y] \in values /\ f[y] \in Nat /\ f[x] \in Nat
    OBVIOUS
  <2>2. ~(f[y] < f[x])
    BY <1>2, <1>3, <2>1 DEF OpToRel
  <2> QED BY <2>1, <2>2
<1> QED BY <1>4

LEMMA HighestOf ==
  ASSUME NEW D, IsFiniteSet(D), NEW scores \in [D -> Triples], NEW T \in SUBSET D, T # {}
  PROVE  \E x \in T : \A y \in T : ~Above(scores[y], scores[x])
<1> DEFINE over(x) == {y \in T : Above(scores[y], scores[x])}
           size == [x \in T |-> Cardinality(over(x))]
<1>1. \A x \in T : IsFiniteSet(over(x)) /\ size[x] \in Nat /\ size[x] = Cardinality(over(x))
  BY SmallerSets
<1>2. size \in [T -> Nat]
  BY <1>1
<1>3. PICK x \in T : \A y \in T : size[x] <= size[y]
  <2> HIDE DEF size
  <2> QED BY <1>2, LeastOf
<1>4. ASSUME NEW y \in T, Above(scores[y], scores[x]) PROVE FALSE
  <2>1. over(y) \subseteq over(x)
    BY <1>4, AboveThrough, AboveAsymmetric
  <2>2. y \in over(x) /\ y \notin over(y)
    BY <1>4, AboveThrough
  <2>3. Cardinality(over(y)) < Cardinality(over(x))
    <3>1. over(x) \in SUBSET D /\ over(y) \in SUBSET over(x) /\ over(y) # over(x)
      BY <2>1, <2>2
    <3> HIDE DEF over
    <3> QED BY <3>1, SmallerSets
  <2>4. size[x] <= size[y] /\ size[x] = Cardinality(over(x)) /\ size[y] = Cardinality(over(y))
    BY <1>1, <1>3
  <2>5. size[x] \in Nat /\ size[y] \in Nat
    BY <1>1
  <2> HIDE DEF size, over
  <2> QED BY <2>3, <2>4, <2>5
<1> QED BY <1>4

\* The score at a place exists.
LEMMA RankedFacts ==
  ASSUME NEW D, IsFiniteSet(D), NEW scores \in [D -> Triples],
         NEW k \in Nat, k < Cardinality(D)
  PROVE  /\ Ranked(scores, k) \in Range(scores)
         /\ Cardinality({i \in D : Above(Ranked(scores, k), scores[i])}) <= k
         /\ Cardinality({i \in D : ~Above(scores[i], Ranked(scores, k))}) > k
<1> DEFINE under(x) == {i \in D : Above(scores[x], scores[i])}
           upto(x) == {i \in D : ~Above(scores[i], scores[x])}
           enough == {x \in D : Cardinality(upto(x)) > k}
           size == [x \in enough |-> Cardinality(upto(x))]
<1>1. \A x \in D : /\ under(x) \in SUBSET D /\ upto(x) \in SUBSET D
                   /\ Cardinality(under(x)) \in Nat /\ Cardinality(upto(x)) \in Nat
  BY SmallerSets
<1>2. enough # {}
  <2>1. D # {}
    BY FS_EmptySet
  <2>2. PICK x \in D : \A y \in D : ~Above(scores[y], scores[x])
    BY <2>1, HighestOf
  <2>3. upto(x) = D
    BY <2>2
  <2> QED BY <2>3
<1>3. size \in [enough -> Nat]
  BY <1>1
<1>4. PICK x \in enough : \A y \in enough : size[x] <= size[y]
  <2> HIDE DEF size, enough
  <2> QED BY <1>2, <1>3, LeastOf
<1>5. ASSUME Cardinality(under(x)) > k PROVE FALSE
  <2>0. x \in D /\ under(x) # {}
    BY <1>5, FS_EmptySet
  <2>1. PICK y \in under(x) : \A z \in under(x) : ~Above(scores[z], scores[y])
    <3> HIDE DEF under
    <3> QED BY <1>1, <2>0, HighestOf
  <2>2. y \in D /\ Above(scores[x], scores[y])
    OBVIOUS
  <2>3. under(x) \subseteq upto(y)
    BY <2>1
  <2>4. upto(y) \subseteq upto(x)
    <3> SUFFICES ASSUME NEW z \in upto(y) PROVE ~Above(scores[z], scores[x])
      OBVIOUS
    <3>1. z \in D /\ ~Above(scores[z], scores[y])
      OBVIOUS
    <3>2. ~Above(scores[y], scores[x])
      BY <2>0, <2>2, AboveAsymmetric
    <3> QED BY <2>0, <2>2, <3>1, <3>2, AtMostTransitive
  <2>5. x \in upto(x) /\ x \notin upto(y)
    BY <2>0, <2>2, AboveThrough
  <2>6. Cardinality(upto(y)) < Cardinality(upto(x)) /\ Cardinality(under(x)) <= Cardinality(upto(y))
    <3> HIDE DEF under, upto
    <3>1. IsFiniteSet(upto(y))
      BY <1>1, <2>2, FS_Subset
    <3>2. Cardinality(under(x)) <= Cardinality(upto(y))
      BY <2>3, <3>1, FS_Subset
    <3>3. upto(x) \in SUBSET D /\ upto(y) \in SUBSET upto(x) /\ upto(y) # upto(x)
      BY <1>1, <2>0, <2>4, <2>5
    <3> QED BY <3>2, <3>3, SmallerSets
  <2>7. y \in enough
    <3> HIDE DEF under, upto
    <3>1. Cardinality(upto(y)) \in Nat /\ Cardinality(under(x)) \in Nat
      BY <1>1, <2>0, <2>2
    <3> QED BY <1>5, <2>2, <2>6, <3>1
  <2>8. size[x] <= size[y] /\ size[x] = Cardinality(upto(x)) /\ size[y] = Cardinality(upto(y))
    BY <1>4, <2>7
  <2>9. size[x] \in Nat /\ size[y] \in Nat
    BY <1>3, <2>7
  <2> HIDE DEF size, upto
  <2> QED BY <2>6, <2>8, <2>9
<1>6. x \in D /\ scores[x] \in Range(scores)
  BY DEF Range
<1>7. Cardinality(under(x)) <= k /\ Cardinality(upto(x)) > k
  BY <1>1, <1>5, <1>6
<1> DEFINE AtPlace(s) == /\ Cardinality({i \in D : Above(s, scores[i])}) <= k
                         /\ Cardinality({i \in D : ~Above(scores[i], s)}) > k
<1>8. AtPlace(scores[x])
  BY <1>7
<1>9. Ranked(scores, k) = CHOOSE s \in Range(scores) : AtPlace(s)
  BY DEF Ranked
<1>10. Ranked(scores, k) \in Range(scores) /\ AtPlace(Ranked(scores, k))
  <2> HIDE DEF AtPlace
  <2> QED BY <1>6, <1>8, <1>9
<1> QED BY <1>10

-----------------------------------------------------------------------------
(* A score is of the form that the order is about *)

LEMMA ImageIsFinite ==
  ASSUME NEW S, IsFiniteSet(S), NEW f, DOMAIN f = S
  PROVE  IsFiniteSet({f[x] : x \in S})
<1> DEFINE T == {f[x] : x \in S}
           g == [x \in S |-> f[x]]
<1>1. g \in [S -> T] /\ \A y \in T : \E x \in S : g[x] = y
  OBVIOUS
<1> HIDE DEF T, g
<1>2. g \in Surjection(S, T)
  BY <1>1 DEF Surjection
<1>3. IsFiniteSet(T)
  BY <1>2, FS_Surjection
<1> QED BY <1>3 DEF T

LEMMA SequenceFacts ==
  ASSUME NEW s, IsSequence(s)
  PROVE  Len(s) \in Nat /\ DOMAIN s = 1 .. Len(s) /\ IsFiniteSet(DOMAIN s)
<1>1. s \in Seq(Range(s))
  BY DEF IsSequence
<1>2. Len(s) \in Nat /\ DOMAIN s = 1 .. Len(s)
  BY <1>1
<1> QED BY <1>2, FS_Interval

AreSequences(seqs) == IsSequence(seqs) /\ \A i \in DOMAIN seqs : IsSequence(seqs[i])

LEMMA PositionsFacts ==
  ASSUME NEW seqs, AreSequences(seqs)
  PROVE  /\ IsFiniteSet(Positions(seqs)) /\ Total(seqs) \in Nat
         /\ IsFiniteSet(TokensOf(seqs)) /\ (Total(seqs) > 0 => TokensOf(seqs) # {})
<1> DEFINE J == DOMAIN seqs
           p == [j \in J |-> {j} \X DOMAIN seqs[j]]
           t == [j \in J |-> Range(seqs[j])]
<1>1. IsFiniteSet(J) /\ \A j \in J : IsSequence(seqs[j]) /\ IsFiniteSet(DOMAIN seqs[j])
  BY SequenceFacts DEF AreSequences
<1>2. \A j \in J : IsFiniteSet({j} \X DOMAIN seqs[j])
  BY <1>1, FS_Singleton, FS_Product
<1>3. ASSUME NEW j \in J PROVE IsFiniteSet(Range(seqs[j]))
  BY <1>1, ImageIsFinite DEF Range
<1>4. IsFiniteSet({p[j] : j \in J}) /\ IsFiniteSet({t[j] : j \in J})
  <2>1. DOMAIN p = J /\ DOMAIN t = J
    OBVIOUS
  <2> HIDE DEF p, t, J
  <2> QED BY <1>1, <2>1, ImageIsFinite
<1>5. IsFiniteSet(UNION {p[j] : j \in J})
  <2> DEFINE parts == {p[j] : j \in J}
  <2>1. \A x \in parts : IsFiniteSet(x)
    BY <1>2
  <2> HIDE DEF parts, p
  <2>2. IsFiniteSet(parts)
    BY <1>4 DEF parts
  <2> QED BY <2>1, <2>2, FS_UNION DEF parts
<1>6. IsFiniteSet(UNION {t[j] : j \in J})
  <2> DEFINE parts == {t[j] : j \in J}
  <2>1. \A x \in parts : IsFiniteSet(x)
    BY <1>3
  <2> HIDE DEF parts, t
  <2>2. IsFiniteSet(parts)
    BY <1>4 DEF parts
  <2> QED BY <2>1, <2>2, FS_UNION DEF parts
<1>7. Positions(seqs) = UNION {p[j] : j \in J} /\ TokensOf(seqs) = UNION {t[j] : j \in J}
  BY DEF Positions, TokensOf
<1>8. Total(seqs) \in Nat /\ (Total(seqs) > 0 => Positions(seqs) # {})
  BY <1>5, <1>7, FS_CardinalityType, FS_EmptySet DEF Total
<1>9. Positions(seqs) # {} => TokensOf(seqs) # {}
  BY DEF Positions, TokensOf, Range
<1> QED BY <1>5, <1>6, <1>7, <1>8, <1>9

\* What was fetched, once there is enough of it.
Enough == AreSequences(fetched) /\ Total(fetched) >= MinTraining

LEMMA SigmaFacts ==
  ASSUME Enough
  PROVE  /\ IsFiniteSet(Sigma) /\ Cardinality(Sigma) \in Pos
         /\ TokensOf(fetched) \subseteq Sigma
<1>1. MinTraining \in Nat \ {0}
  BY DriftSizes
<1>2. IsFiniteSet(TokensOf(fetched)) /\ TokensOf(fetched) # {}
  BY <1>1, PositionsFacts DEF Enough
<1>3. IsFiniteSet(Sigma)
  BY <1>2, FS_Union, DriftInputs DEF Sigma
<1>4. TokensOf(fetched) \subseteq Sigma
  BY DEF Sigma
<1> QED BY <1>2, <1>3, <1>4, FS_CardinalityType, FS_EmptySet DEF Pos

LEMMA CountFacts ==
  ASSUME Enough, NEW m, NEW h
  PROVE  /\ \A x : Count(m.order, h, x) \in Nat /\ Numerator(m, h, x) \in Pos
         /\ Occurrences(m.order, h) \in Nat /\ Denominator(m, h) \in Pos
<1> DEFINE k == m.order
<1>1. IsFiniteSet(Positions(fetched))
  BY PositionsFacts DEF Enough
<1>2. \A x : Count(k, h, x) \in Nat
  <2> TAKE x
  <2> DEFINE T == {p \in Positions(fetched) :
                     /\ fetched[p[1]][p[2]] = x
                     /\ ContextAt(fetched[p[1]], p[2], IF h = <<>> THEN 0 ELSE k) = h}
  <2>1. T \subseteq Positions(fetched) /\ Count(k, h, x) = Cardinality(T)
    BY DEF Count
  <2> HIDE DEF T
  <2> QED BY <1>1, <2>1, FS_Subset, FS_CardinalityType
<1> HIDE DEF k
<1>3. Occurrences(k, h) \in Nat
  <2> DEFINE f == [x \in Sigma |-> Count(k, h, x)]
  <2>1. f \in [Sigma -> Nat]
    BY <1>2
  <2>2. SumFunction(f) \in Nat
    <3> HIDE DEF f
    <3> QED BY <2>1, SigmaFacts, SumFacts
  <2> QED BY <2>2 DEF Occurrences
<1>4. Denominator(m, h) \in Pos
  <2>1. Denominator(m, h) = Occurrences(k, h) + Cardinality(Sigma)
    BY DEF Denominator, k
  <2> QED BY <1>3, <2>1, SigmaFacts DEF Pos
<1>5. \A x : Numerator(m, h, x) = Count(k, h, x) + 1
  BY DEF Numerator, k
<1>6. \A x : Numerator(m, h, x) \in Pos
  BY <1>2, <1>5 DEF Pos
<1> QED BY <1>2, <1>3, <1>4, <1>6 DEF k

LEMMA ProdPositive ==
  ASSUME NEW S, IsFiniteSet(S), NEW f \in [S -> Pos]
  PROVE  \A T \in SUBSET S : Prod(f, T) \in Pos
<1>0. f \in [S -> Nat]
  BY DEF Pos
<1> DEFINE good == {T \in SUBSET S : Prod(f, T) \in Pos}
<1>1. ASSUME NEW T \in SUBSET S, \A U \in SUBSET T : U # T => U \in good PROVE T \in good
  <2>1. CASE T = {}
    BY <1>0, <2>1, ProdFacts DEF Pos
  <2>2. CASE T # {}
    <3>1. PICK x \in T : TRUE
      BY <2>2
    <3>2. Prod(f, T) = f[x] * Prod(f, T \ {x}) /\ T \ {x} \in good
      <4>1. T \ {x} \in SUBSET T /\ T \ {x} # T
        OBVIOUS
      <4>2. T \ {x} \in good
        BY <1>1, <4>1
      <4>3. Prod(f, T) = f[x] * Prod(f, T \ {x})
        BY <1>0, ProdStep
      <4> QED BY <4>2, <4>3
    <3>3. f[x] \in Pos /\ Prod(f, T \ {x}) \in Pos
      BY <3>2
    <3>4. \A i, j \in Pos : i * j \in Pos
      BY DEF Pos
    <3> QED BY <3>2, <3>3, <3>4
  <2> QED BY <2>1, <2>2
<1>2. \A T \in SUBSET S : T \in good
  <2> HIDE DEF good
  <2> QED BY <1>1, SetSteps
<1> QED BY <1>2

\* The parts of a divergence.
ContextsIn(m, w) == [i \in DOMAIN w |-> EffectiveContext(m, ContextAt(w, i, m.order))]
AlikeIn(c, w, i) == {j \in DOMAIN w : c[j] = c[i]}
SameIn(c, w, i) == {j \in AlikeIn(c, w, i) : w[j] = w[i]}
Observed(m, c, w) ==
  [i \in DOMAIN w |-> Cardinality(SameIn(c, w, i)) * Denominator(m, c[i])]
Expected(m, c, w) ==
  [i \in DOMAIN w |-> Cardinality(AlikeIn(c, w, i)) * Numerator(m, c[i], w[i])]

LEMMA DivergenceIs ==
  ASSUME NEW m, NEW w
  PROVE  Divergence(m, w) = <<Product(Observed(m, ContextsIn(m, w), w)),
                              Product(Expected(m, ContextsIn(m, w), w))>>
BY DEF Divergence, Observed, Expected, ContextsIn, AlikeIn, SameIn

LEMMA FactorsFacts ==
  ASSUME Enough, NEW m, NEW c, NEW w, IsFiniteSet(DOMAIN w)
  PROVE  /\ Observed(m, c, w) \in [DOMAIN w -> Pos] /\ Expected(m, c, w) \in [DOMAIN w -> Pos]
         /\ \A i \in DOMAIN w : /\ Cardinality(SameIn(c, w, i)) \in Pos
                                /\ Cardinality(AlikeIn(c, w, i)) \in Pos
<1>1. ASSUME NEW i \in DOMAIN w
      PROVE  Cardinality(SameIn(c, w, i)) \in Pos /\ Cardinality(AlikeIn(c, w, i)) \in Pos
  <2>1. i \in SameIn(c, w, i) /\ i \in AlikeIn(c, w, i)
    BY DEF SameIn, AlikeIn
  <2>2. SameIn(c, w, i) \subseteq DOMAIN w /\ AlikeIn(c, w, i) \subseteq DOMAIN w
    BY DEF SameIn, AlikeIn
  <2>3. IsFiniteSet(SameIn(c, w, i)) /\ IsFiniteSet(AlikeIn(c, w, i))
    BY <2>2, FS_Subset
  <2> QED BY <2>1, <2>3, FS_CardinalityType, FS_EmptySet DEF Pos
<1>2. \A i, j \in Pos : i * j \in Pos
  BY DEF Pos
<1>3. \A i \in DOMAIN w : Denominator(m, c[i]) \in Pos /\ Numerator(m, c[i], w[i]) \in Pos
  BY CountFacts
<1> QED BY <1>1, <1>2, <1>3 DEF Observed, Expected

LEMMA DivergenceTyped ==
  ASSUME Enough, NEW m, NEW w, IsFiniteSet(DOMAIN w)
  PROVE  Divergence(m, w) \in Pos \X Pos
<1> DEFINE S == DOMAIN w
           a == Observed(m, ContextsIn(m, w), w)
           b == Expected(m, ContextsIn(m, w), w)
<1>1. IsFiniteSet(S) /\ a \in [S -> Pos] /\ b \in [S -> Pos]
  BY FactorsFacts
<1>2. Divergence(m, w) = <<Product(a), Product(b)>>
  BY DivergenceIs
<1> HIDE DEF S, a, b
<1>3. a \in [S -> Nat] /\ b \in [S -> Nat]
  BY <1>1 DEF Pos
<1>4. Product(a) = Prod(a, S) /\ Product(b) = Prod(b, S)
  BY <1>1, <1>3, ProdFacts
<1>5. Prod(a, S) \in Pos /\ Prod(b, S) \in Pos
  BY <1>1, ProdPositive
<1> QED BY <1>2, <1>4, <1>5

LEMMA ReducedTyped ==
  ASSUME NEW d \in Pos \X Pos
  PROVE  Reduced(d) \in Pos \X Pos
<1> DEFINE p == d[1]
           q == d[2]
           common == {g \in 1 .. Least(p, q) : p % g = 0 /\ q % g = 0}
           greatest == CHOOSE g \in common : \A h \in common : h <= g
<1>1. p \in Pos /\ q \in Pos
  OBVIOUS
<1>2. Reduced(d) = <<p \div greatest, q \div greatest>>
  BY DEF Reduced
<1> HIDE DEF p, q
<1>3. 1 \in common /\ common \subseteq Pos /\ \A g \in common : g <= p /\ g <= q
  BY <1>1 DEF Least, Pos
<1>4. \E g \in common : \A h \in common : h <= g
  <2> DEFINE gap == [g \in common |-> p - g]
  <2>1. gap \in [common -> Nat]
    BY <1>1, <1>3 DEF Pos
  <2>2. PICK g \in common : \A h \in common : gap[g] <= gap[h]
    <3> HIDE DEF gap, common
    <3> QED BY <1>3, <2>1, LeastOf
  <2>3. \A h \in common : p - g <= p - h
    BY <2>2
  <2>4. \A h \in common : h <= g
    <3> HIDE DEF common
    <3> QED BY <1>1, <1>3, <2>2, <2>3 DEF Pos
  <2> QED BY <2>4
<1>5. greatest \in common
  BY <1>4
<1> HIDE DEF greatest
<1>6. greatest \in Pos /\ greatest <= p /\ greatest <= q
  BY <1>3, <1>5
<1>7. p \div greatest \in Pos /\ q \div greatest \in Pos
  BY <1>1, <1>6 DEF Pos
<1> QED BY <1>2, <1>7

LEMMA ScoreTyped ==
  ASSUME Enough, NEW m, NEW seen, IsWindow(seen), Len(seen.tokens) >= MinWindow
  PROVE  Score(m, seen) \in Triples
<1> DEFINE d == Reduced(Divergence(m, seen.tokens))
           penalty == IF seen.lost THEN LossPenalty ELSE <<1, 1>>
           over == penalty[1]
           under == penalty[2]
<1>1. IsSequence(seen.tokens) /\ MinWindow \in Nat \ {0}
  BY DriftSizes DEF IsWindow
<1>2. d \in Pos \X Pos
  BY <1>1, SequenceFacts, DivergenceTyped, ReducedTyped
<1>3. over \in Pos /\ under \in Pos
  BY DriftSizes DEF Pos
<1>4. Len(seen.tokens) \in Pos
  BY <1>1, SequenceFacts DEF Pos
<1>5. Score(m, seen) = <<Power(d[1], over), Power(d[2], over), Len(seen.tokens) * under>>
  BY DEF Score
<1> HIDE DEF d, over, under
<1>6. d[1] \in Pos /\ d[2] \in Pos
  BY <1>2
<1>7. Power(d[1], over) \in Pos /\ Power(d[2], over) \in Pos
  BY <1>3, <1>6, PowerInPos
<1>8. Len(seen.tokens) * under \in Pos
  BY <1>3, <1>4 DEF Pos
<1> QED BY <1>5, <1>7, <1>8 DEF Triples

-----------------------------------------------------------------------------
(* The threshold *)

LEMMA QuantileFacts ==
  ASSUME NEW D, IsFiniteSet(D), NEW scores \in [D -> Triples], NEW n \in Nat \ {0},
         n = Cardinality(D)
  PROVE  /\ Quantile(scores).low \in Range(scores) /\ Quantile(scores).high \in Range(scores)
         /\ Quantile(scores) = [low |-> Quantile(scores).low, high |-> Quantile(scores).high]
         /\ Cardinality({i \in D : ~Above(scores[i], Quantile(scores).low)}) > Rank(n)
         /\ Cardinality({i \in D : ~Above(scores[i], Quantile(scores).high)}) > Rank(n)
<1> DEFINE low == Rank(n)
           high == IF (Percent * (n - 1)) % 100 = 0 THEN Rank(n) ELSE Rank(n) + 1
<1>1. Percent \in 1 .. 100
  BY DriftSizes
<1>2. low \in Nat /\ low < n /\ high \in Nat /\ high < n /\ low <= high
  <2> DEFINE x == Percent * (n - 1)
  <2>1. x \in Nat /\ x <= 100 * (n - 1)
    BY <1>1
  <2> HIDE DEF x
  <2>2. x \div 100 \in Nat /\ x \div 100 <= n - 1 /\ (x % 100 # 0 => x \div 100 < n - 1)
    BY <2>1
  <2> QED BY <2>2 DEF Rank, x
<1>3. DOMAIN scores = D
  OBVIOUS
<1>4. Quantile(scores) = [low |-> Ranked(scores, low), high |-> Ranked(scores, high)]
  BY <1>3 DEF Quantile
<1> HIDE DEF low, high
<1>5. /\ Ranked(scores, low) \in Range(scores) /\ Ranked(scores, high) \in Range(scores)
      /\ Cardinality({i \in D : ~Above(scores[i], Ranked(scores, low))}) > low
      /\ Cardinality({i \in D : ~Above(scores[i], Ranked(scores, high))}) > high
  BY <1>2, RankedFacts
<1> DEFINE q == Quantile(scores)
<1>6. q.low = Ranked(scores, low) /\ q.high = Ranked(scores, high)
  BY <1>4
<1>7. q = [low |-> q.low, high |-> q.high]
  BY <1>4, <1>6
<1> DEFINE up == {i \in D : ~Above(scores[i], q.high)}
<1>8. Cardinality(up) \in Nat /\ Cardinality(up) > high
  BY <1>5, <1>6, SmallerSets
<1>9. Cardinality(up) > low
  <2> HIDE DEF up
  <2> QED BY <1>2, <1>8
<1> QED BY <1>5, <1>6, <1>7, <1>9 DEF low

LongWindows(windows) ==
  /\ IsFiniteSet(DOMAIN windows)
  /\ \A i \in DOMAIN windows : IsWindow(windows[i]) /\ Len(windows[i].tokens) >= MinWindow

LEMMA ScoresTyped ==
  ASSUME Enough, NEW windows, LongWindows(windows)
  PROVE  ScoresOf(windows) \in [DOMAIN windows -> Triples]
<1>1. \A i \in DOMAIN windows : Score(contract, windows[i]) \in Triples
  BY ScoreTyped DEF LongWindows
<1> QED BY <1>1 DEF ScoresOf

LEMMA ThresholdFacts ==
  ASSUME Enough, NEW windows, LongWindows(windows), NEW n, n = Cardinality(DOMAIN windows)
  PROVE  /\ n \in Nat /\ MinCalibration \in Nat \ {0}
         /\ ThresholdOf(windows) = None <=> n < MinCalibration
         /\ n >= MinCalibration =>
              LET scores == ScoresOf(windows)
                  q == ThresholdOf(windows)
              IN /\ q.low \in Range(scores) /\ q.high \in Range(scores)
                 /\ Cardinality({i \in DOMAIN windows : ~Above(scores[i], q.low)}) > Rank(n)
                 /\ Cardinality({i \in DOMAIN windows : ~Above(scores[i], q.high)}) > Rank(n)
<1> DEFINE D == DOMAIN windows
           scores == ScoresOf(windows)
           q == Quantile(scores)
<1>1. IsFiniteSet(D) /\ scores \in [D -> Triples]
  BY ScoresTyped DEF LongWindows
<1>2. n \in Nat /\ MinCalibration \in Nat \ {0, 1}
  BY <1>1, FS_CardinalityType, DriftSizes
<1>3. ThresholdOf(windows) = IF n < MinCalibration THEN None ELSE q
  BY DEF ThresholdOf
<1>4. CASE n < MinCalibration
  BY <1>2, <1>3, <1>4
<1>5. CASE n >= MinCalibration
  <2>1. n \in Nat \ {0} /\ n = Cardinality(D)
    BY <1>2, <1>5
  <2>2. ThresholdOf(windows) = q
    BY <1>2, <1>3, <1>5
  <2> HIDE DEF D, scores
  <2>3. /\ q.low \in Range(scores) /\ q.high \in Range(scores)
        /\ q = [low |-> q.low, high |-> q.high]
        /\ Cardinality({i \in D : ~Above(scores[i], q.low)}) > Rank(n)
        /\ Cardinality({i \in D : ~Above(scores[i], q.high)}) > Rank(n)
    BY <1>1, <2>1, QuantileFacts
  <2>4. q \in [low : Scores, high : Scores]
    <3>1. Range(scores) \subseteq Scores
      <4>1. \A i \in D : scores[i] \in Triples
        BY <1>1
      <4>2. Triples \subseteq Scores
        BY DEF Triples, Scores, Pos
      <4>3. DOMAIN scores = D
        BY <1>1
      <4> QED BY <4>1, <4>2, <4>3 DEF Range
    <3> HIDE DEF q
    <3> QED BY <2>3, <3>1
  <2>5. q # None
    BY <2>4, NoneIsNoThreshold
  <2> HIDE DEF q
  <2> QED BY <1>2, <1>5, <2>2, <2>3, <2>5 DEF D, scores
<1> QED BY <1>2, <1>4, <1>5

-----------------------------------------------------------------------------
(* What a decision rests on *)

Untouched == benign = <<>> /\ threshold = None /\ decision = None

ThresholdInv ==
  /\ stage \notin {"fetch", "raised"} => Enough
  /\ contract # None => stage = "saved"
  /\ contract = None => Untouched
  /\ LongWindows(benign)
  /\ contract # None => threshold = ThresholdOf(benign)
  /\ decision # None =>
       /\ decision.outcome \in Outcomes(decision.seen, decision.identified)
       /\ IsWindow(decision.seen)

LEMMA DecidedIsAboveBenign == ThresholdInv => DriftIsAboveBenign
<1> SUFFICES ASSUME ThresholdInv, decision # None PROVE DriftIsAboveBenign
  BY DEF DriftIsAboveBenign
<1> DEFINE seen == decision.seen
           s == Score(contract, seen)
           D == DOMAIN benign
           scores == ScoresOf(benign)
           below == {i \in D : Above(s, Score(contract, benign[i]))}
           n == Cardinality(D)
           r == Rank(n)
           q == ThresholdOf(benign)
<1>1. stage = "saved" /\ Enough /\ LongWindows(benign) /\ IsWindow(seen) /\ threshold = q
  BY DEF ThresholdInv, Untouched
<1>2. decision.outcome \in Outcomes(seen, decision.identified)
  BY DEF ThresholdInv
<1>3. /\ n \in Nat /\ MinCalibration \in Nat \ {0}
      /\ q = None <=> n < MinCalibration
      /\ n >= MinCalibration =>
           /\ q.low \in Range(scores) /\ q.high \in Range(scores)
           /\ Cardinality({i \in D : ~Above(scores[i], q.low)}) > r
           /\ Cardinality({i \in D : ~Above(scores[i], q.high)}) > r
  BY <1>1, ThresholdFacts
<1>4. /\ scores \in [D -> Triples] /\ IsFiniteSet(D)
      /\ \A i \in D : scores[i] = Score(contract, benign[i]) /\ Len(benign[i].tokens) >= MinWindow
  <2>1. \A i \in D : Len(benign[i].tokens) >= MinWindow
    BY <1>1 DEF LongWindows
  <2> QED BY <1>1, <2>1, ScoresTyped DEF LongWindows, ScoresOf
<1>5. below = {i \in D : Above(s, scores[i])}
  BY <1>4
<1>6. Cardinality(below) \in Nat
  BY <1>4, SmallerSets
<1> DEFINE upto(t) == {i \in D : ~Above(scores[i], t)}
<1>7. ASSUME decision.outcome \in {"drift", "no_drift"}
      PROVE  /\ decision.identified /\ Total(fetched) >= MinTraining
             /\ Len(seen.tokens) >= MinWindow
             /\ (q # None /\ decision.outcome = "drift" =>
                   Above(s, q.high) \/ (Above(s, q.low) /\ Above(q.high, s)))
             /\ (q = None => decision.outcome = "no_drift")
             /\ (q # None /\ decision.outcome = "no_drift" => ~Above(s, q.high) \/ Above(q.high, s))
  <2> HIDE DEF s, seen, q
  <2>0. \A a \in Nat, b \in Nat : ~(a < b) => a >= b
    OBVIOUS
  <2>1. /\ Total(fetched) \in Nat /\ MinTraining \in Nat
        /\ Len(seen.tokens) \in Nat /\ MinWindow \in Nat
    BY <1>1, DriftSizes, PositionsFacts, SequenceFacts DEF Enough, IsWindow
  <2>2. decision.identified /\ Total(fetched) >= MinTraining /\ Len(seen.tokens) >= MinWindow
    BY <1>2, <1>7, <2>1 DEF Outcomes
  <2>3. q = None => decision.outcome = "no_drift"
    BY <1>1, <1>2, <1>7, <2>1, <2>2 DEF Outcomes
  <2>4. ASSUME q # None
        PROVE decision.outcome \in {o \in {"drift", "no_drift"} :
                 o = (IF Above(s, q.high) THEN "drift" ELSE "no_drift")
                 \/ (Above(s, q.low) /\ Above(q.high, s))}
    BY <1>1, <1>2, <2>1, <2>2, <2>4 DEF Outcomes, s
  <2> QED BY <1>7, <2>2, <2>3, <2>4
<1>8. decision.outcome \in {"drift", "no_drift"} => s \in Triples
  BY <1>1, <1>7, ScoreTyped
<1>9. ASSUME decision.outcome = "drift"
      PROVE  n >= MinCalibration /\ 100 * (Cardinality(below) - 1) >= Percent * (n - 1) - 99
  <2>1. n >= MinCalibration /\ q # None
    BY <1>3, <1>7, <1>9
  <2>2. PICK t : /\ t \in Range(scores) /\ Above(s, t) /\ Cardinality(upto(t)) > r
    BY <1>3, <1>7, <1>9, <2>1
  <2>3. s \in Triples /\ t \in Triples
    BY <1>4, <1>8, <1>9, <2>2 DEF Range
  <2>4. upto(t) \subseteq below
    <3> SUFFICES ASSUME NEW i \in D, ~Above(scores[i], t) PROVE Above(s, scores[i])
      BY <1>5
    <3>1. scores[i] \in Triples
      BY <1>4
    <3> QED BY <2>2, <2>3, <3>1, AboveThrough
  <2>5. IsFiniteSet(below)
    BY <1>4, SmallerSets
  <2> HIDE DEF upto, below, n
  <2>6. Cardinality(upto(t)) <= Cardinality(below) /\ Cardinality(upto(t)) \in Nat
    BY <2>4, <2>5, FS_Subset, FS_CardinalityType
  <2>7. r \in Nat /\ 100 * r >= Percent * (n - 1) - 99
    <3> DEFINE x == Percent * (n - 1)
    <3>1. x \in Nat
      <4>1. Percent \in 1 .. 100 /\ n \in Nat \ {0}
        BY <1>3, <2>1, DriftSizes
      <4> QED BY <4>1
    <3>2. r = x \div 100
      BY DEF Rank
    <3> HIDE DEF x
    <3>3. x \div 100 \in Nat /\ 100 * (x \div 100) >= x - 99
      BY <3>1
    <3> QED BY <3>2, <3>3 DEF x
  <2> HIDE DEF r
  <2>8. Cardinality(below) - 1 >= r
    BY <1>6, <2>2, <2>6, <2>7
  <2> DEFINE y == Percent * (n - 1) - 99
  <2>9. y \in Int
    BY <1>3, DriftSizes
  <2> HIDE DEF y
  <2>10. 100 * r >= y
    BY <2>7 DEF y
  <2>11. 100 * (Cardinality(below) - 1) >= y
    BY <1>6, <2>7, <2>8, <2>9, <2>10
  <2> QED BY <2>1, <2>11 DEF y
<1>10. ASSUME decision.outcome = "no_drift", n >= MinCalibration
       PROVE  Cardinality(below) < n
  <2>1. q # None /\ q.high \in Range(scores)
    BY <1>3, <1>10
  <2>2. PICK j \in D : q.high = scores[j]
    BY <1>4, <2>1 DEF Range
  <2>3. s \in Triples /\ scores[j] \in Triples
    BY <1>4, <1>8, <1>10
  <2>4. ~Above(s, scores[j])
    BY <1>7, <1>10, <2>1, <2>2, <2>3, AboveAsymmetric
  <2>5. below \in SUBSET D /\ below # D
    BY <1>5, <2>4
  <2> HIDE DEF below, D
  <2> QED BY <1>4, <2>5, SmallerSets DEF D
<1>11. decision.outcome = "drift" => \A i \in D : Len(benign[i].tokens) >= MinWindow
  BY <1>4
<1> QED
  <2> HIDE DEF s, below, n
  <2> SUFFICES /\ decision.outcome = "drift" =>
                    /\ stage = "saved" /\ decision.identified /\ Total(fetched) >= MinTraining
                    /\ \A i \in DOMAIN benign : Len(benign[i].tokens) >= MinWindow
                    /\ Len(decision.seen.tokens) >= MinWindow /\ n >= MinCalibration
                    /\ 100 * (Cardinality(below) - 1) >= Percent * (n - 1) - 99
               /\ decision.outcome = "no_drift" /\ n >= MinCalibration => Cardinality(below) < n
    BY DEF DriftIsAboveBenign, s, below, n
  <2> QED BY <1>1, <1>7, <1>9, <1>10, <1>11

\* Scores are of what was fetched and of the contract alone.
LEMMA ScoreStays ==
  ASSUME UNCHANGED fetched, NEW CONSTANT m, NEW CONSTANT seen
  PROVE  Score(m, seen)' = Score(m, seen)
<1>1. Sigma' = Sigma
  BY DEF Sigma
<1>2. ASSUME NEW CONSTANT k, NEW CONSTANT h, NEW CONSTANT x
      PROVE  Count(k, h, x)' = Count(k, h, x)
  BY DEF Count
<1>3. ASSUME NEW CONSTANT k, NEW CONSTANT h
      PROVE  Occurrences(k, h)' = Occurrences(k, h)
  BY <1>1, <1>2 DEF Occurrences
<1>4. ASSUME NEW CONSTANT h PROVE Denominator(m, h)' = Denominator(m, h)
  BY <1>1, <1>3 DEF Denominator
<1>5. ASSUME NEW CONSTANT h, NEW CONSTANT x PROVE Numerator(m, h, x)' = Numerator(m, h, x)
  BY <1>2 DEF Numerator
<1>6. Divergence(m, seen.tokens)' = Divergence(m, seen.tokens)
  BY <1>4, <1>5 DEF Divergence
<1> QED BY <1>6 DEF Score

LEMMA ThresholdStays ==
  ASSUME UNCHANGED <<fetched, contract, benign>>
  PROVE  ThresholdOf(benign)' = ThresholdOf(benign)
<1>1. \A m, seen : Score(m, seen)' = Score(m, seen)
  BY ScoreStays
<1>2. ScoresOf(benign)' = ScoresOf(benign)
  BY <1>1 DEF ScoresOf
<1> QED BY <1>2 DEF ThresholdOf

LEMMA OutcomesStay ==
  ASSUME UNCHANGED <<fetched, contract, threshold, decision>>
  PROVE  Outcomes(decision.seen, decision.identified)' = Outcomes(decision.seen, decision.identified)
<1>1. \A m, seen : Score(m, seen)' = Score(m, seen)
  BY ScoreStays
<1>2. Score(contract, decision.seen)' = Score(contract, decision.seen)
  BY <1>1
<1>3. Total(fetched)' = Total(fetched)
  OBVIOUS
<1> QED BY <1>2, <1>3 DEF Outcomes

LEMMA NoWindows ==
  LongWindows(<<>>) /\ ThresholdOf(<<>>) = None
<1>1. DOMAIN <<>> = {}
  OBVIOUS
<1>2. IsFiniteSet({}) /\ Cardinality({}) = 0
  BY FS_EmptySet
<1>3. 0 < MinCalibration
  BY DriftSizes
<1> QED BY <1>1, <1>2, <1>3 DEF LongWindows, ThresholdOf

LEMMA ScoredAreLong ==
  ASSUME NEW windows \in Calibrations
  PROVE  LongWindows(Scored(windows))
<1> DEFINE D == {i \in DOMAIN windows : Len(windows[i].tokens) >= MinWindow}
<1>1. IsSequence(windows) /\ \A i \in DOMAIN windows : IsWindow(windows[i])
  BY DriftInputs
<1>2. IsFiniteSet(D)
  BY <1>1, SequenceFacts, FS_Subset
<1>3. Scored(windows) = [i \in D |-> windows[i]]
  BY DEF Scored, Restrict
<1> QED BY <1>1, <1>2, <1>3 DEF LongWindows

LEMMA TrainingsAreSequences ==
  ASSUME NEW seqs \in Trainings
  PROVE  AreSequences(seqs)
BY DriftInputs DEF AreSequences

LEMMA ThresholdInit == DriftInit => ThresholdInv
BY NoWindows DEF DriftInit, ThresholdInv, Untouched

LEMMA ThresholdStep == ThresholdInv /\ [DriftNext]_driftVars => ThresholdInv'
<1> SUFFICES ASSUME ThresholdInv, [DriftNext]_driftVars PROVE ThresholdInv'
  OBVIOUS
<1>1. ASSUME contract = None, contract' = None \/ (stage' = "saved" /\ stage = "save"),
             UNCHANGED <<benign, threshold, decision>>,
             stage' \notin {"fetch", "raised"} => Enough'
      PROVE  ThresholdInv'
  <2>1. benign' = <<>> /\ threshold' = None /\ decision' = None
    BY <1>1 DEF ThresholdInv, Untouched
  <2>2. LongWindows(benign)' /\ ThresholdOf(benign)' = None
    <3>1. LongWindows(benign') /\ ThresholdOf(benign)' = None
      <4>1. (LongWindows(<<>>) /\ ThresholdOf(<<>>) = None)'
        BY NoWindows, PTL
      <4> QED BY <2>1, <4>1
    <3> QED BY <3>1 DEF LongWindows
  <2> QED BY <1>1, <2>1, <2>2 DEF ThresholdInv, Untouched
<1>2. CASE Fetch
  <2>1. contract = None /\ contract' = None /\ UNCHANGED <<benign, threshold, decision>>
    BY <1>2 DEF Fetch, ThresholdInv
  <2>2. CASE stage' = "raised"
    BY <1>1, <2>1, <2>2
  <2>3. CASE stage' # "raised"
    <3>1. fetched' \in Trainings /\ ~(Total(fetched') < MinTraining)
      BY <1>2, <2>3 DEF Fetch
    <3>2. AreSequences(fetched')
      BY <3>1, TrainingsAreSequences
    <3>3. Total(fetched') \in Nat /\ MinTraining \in Nat
      BY <3>2, PositionsFacts, DriftSizes
    <3>4. Enough'
      BY <3>1, <3>2, <3>3 DEF Enough
    <3> QED BY <1>1, <2>1, <3>4
  <2> QED BY <2>2, <2>3
<1>3. CASE Train \/ Sign \/ SaveContract
  <2>1. /\ stage \notin {"fetch", "raised", "saved"} /\ fetched' = fetched
        /\ UNCHANGED <<benign, threshold, decision>>
        /\ contract' = contract \/ (stage' = "saved" /\ stage = "save")
    BY <1>3 DEF Train, Sign, SaveContract
  <2>2. contract = None /\ Enough
    BY <2>1 DEF ThresholdInv
  <2>3. Enough'
    BY <2>1, <2>2 DEF Enough
  <2> QED BY <1>1, <2>1, <2>2, <2>3
<1>4. CASE Calibrate
  <2>1. /\ contract # None /\ decision = None /\ threshold' = ThresholdOf(benign')
        /\ UNCHANGED <<fetched, stage, model, contract, decision>>
    BY <1>4 DEF Calibrate
  <2>2. PICK windows \in Calibrations : benign' = Scored(windows)
    BY <1>4 DEF Calibrate
  <2>3. LongWindows(benign')
    BY <2>2, ScoredAreLong
  <2>4. threshold' = ThresholdOf(benign)'
    <3>1. \A m, seen : Score(m, seen)' = Score(m, seen)
      BY <2>1, ScoreStays
    <3>2. ScoresOf(benign)' = ScoresOf(benign')
      BY <2>1, <3>1 DEF ScoresOf
    <3> QED BY <2>1, <3>2 DEF ThresholdOf
  <2>5. Enough' = Enough
    BY <2>1 DEF Enough
  <2> QED BY <2>1, <2>3, <2>4, <2>5 DEF ThresholdInv
<1>5. CASE Decide
  <2>1. contract # None /\ UNCHANGED <<fetched, stage, model, contract, benign, threshold>>
    BY <1>5 DEF Decide
  <2>0. PICK seen \in Observations, identified \in BOOLEAN :
          \E o \in Outcomes(seen, identified) :
            decision' = [seen |-> seen, identified |-> identified, outcome |-> o]
    BY <1>5 DEF Decide
  <2>2. PICK o \in Outcomes(seen, identified) :
          decision' = [seen |-> seen, identified |-> identified, outcome |-> o]
    BY <2>0
  <2>3. /\ IsWindow(seen) /\ decision'.seen = seen /\ decision'.identified = identified
        /\ decision'.outcome = o
    BY <2>2, DriftInputs
  <2>4. Outcomes(decision.seen, decision.identified)' = Outcomes(seen, identified)
    <3>1. \A m, s : Score(m, s)' = Score(m, s)
      BY <2>1, ScoreStays
    <3>2. Score(contract, decision.seen)' = Score(contract, seen)
      BY <2>1, <2>3, <3>1
    <3>3. Total(fetched)' = Total(fetched)
      BY <2>1
    <3> QED BY <2>1, <2>3, <3>2, <3>3 DEF Outcomes
  <2>5. IsWindow(decision.seen)'
    BY <2>3 DEF IsWindow
  <2>6. ThresholdOf(benign)' = ThresholdOf(benign) /\ Enough' = Enough
    BY <2>1, ThresholdStays DEF Enough
  <2> QED BY <2>1, <2>2, <2>3, <2>4, <2>5, <2>6 DEF ThresholdInv
<1>6. CASE UNCHANGED driftVars
  <2>1. UNCHANGED <<fetched, stage, contract, benign, threshold, decision>>
    BY <1>6 DEF driftVars
  <2>2. /\ ThresholdOf(benign)' = ThresholdOf(benign) /\ Enough' = Enough
        /\ Outcomes(decision.seen, decision.identified)' = Outcomes(decision.seen, decision.identified)
    BY <2>1, ThresholdStays, OutcomesStay DEF Enough
  <2> QED BY <2>1, <2>2 DEF ThresholdInv, Untouched
<1> QED BY <1>2, <1>3, <1>4, <1>5, <1>6 DEF DriftNext

LEMMA ThresholdHolds == DriftSpec => []ThresholdInv
BY ThresholdInit, ThresholdStep, PTL DEF DriftSpec

-----------------------------------------------------------------------------
(* Sums and products of several functions *)

LEMMA OneByOne ==
  ASSUME NEW S, IsFiniteSet(S), NEW Good, {} \in Good,
         \A T \in SUBSET S : \A x \in T : T \ {x} \in Good => T \in Good
  PROVE  \A T \in SUBSET S : T \in Good
<1>1. ASSUME NEW T \in SUBSET S, \A U \in SUBSET T : U # T => U \in Good PROVE T \in Good
  <2>1. CASE T = {}
    BY <2>1
  <2>2. CASE T # {}
    <3>1. PICK x \in T : TRUE
      BY <2>2
    <3>2. T \ {x} \in SUBSET T /\ T \ {x} # T
      OBVIOUS
    <3> QED BY <1>1, <3>2
  <2> QED BY <2>1, <2>2
<1> QED BY <1>1, SetSteps

LEMMA ProdAtMost ==
  ASSUME NEW S, IsFiniteSet(S), NEW f \in [S -> Nat], NEW B \in Nat, \A i \in S : f[i] <= B
  PROVE  Prod(f, S) <= Power(B, Cardinality(S))
<1> DEFINE good == {T \in SUBSET S : Prod(f, T) <= Power(B, Cardinality(T))}
<1>1. {} \in good
  <2>1. Prod(f, {}) = 1
    BY ProdFacts
  <2>2. Power(B, 0) = 1
    BY PowerFacts
  <2> QED BY <2>1, <2>2, FS_EmptySet
<1>2. ASSUME NEW T \in SUBSET S, NEW x \in T, T \ {x} \in good PROVE T \in good
  <2> DEFINE U == T \ {x}
             n == Cardinality(U)
  <2>1. Prod(f, T) = f[x] * Prod(f, U) /\ Prod(f, U) \in Nat
    <3>1. Prod(f, T) = f[x] * Prod(f, U)
      BY ProdStep
    <3> QED BY <3>1, ProdFacts
  <2>2. n \in Nat /\ Cardinality(T) = n + 1
    BY SmallerSets
  <2>3. Prod(f, U) <= Power(B, n)
    BY <1>2
  <2>4. Power(B, n) \in Nat /\ Power(B, n + 1) = B * Power(B, n)
    <3> HIDE DEF n
    <3> QED BY <2>2, PowerFacts
  <2>5. f[x] \in Nat /\ f[x] <= B
    OBVIOUS
  <2>6. \A p, q, r, s \in Nat : p <= q /\ r <= s => p * r <= q * s
    <3> SUFFICES ASSUME NEW p \in Nat, NEW q \in Nat, NEW r \in Nat, NEW s \in Nat, p <= q, r <= s
                 PROVE  p * r <= q * s
      OBVIOUS
    <3>1. p * r <= q * r
      OBVIOUS
    <3>2. q * r <= q * s
      OBVIOUS
    <3> QED BY <3>1, <3>2
  <2> HIDE DEF n, U
  <2>7. Prod(f, T) <= Power(B, n + 1)
    BY <2>1, <2>3, <2>4, <2>5, <2>6
  <2> QED BY <2>2, <2>7
<1>3. \A T \in SUBSET S : T \in good
  <2> HIDE DEF good
  <2> QED BY <1>1, <1>2, OneByOne
<1> QED BY <1>3

LEMMA ProdConstant ==
  ASSUME NEW S, IsFiniteSet(S), NEW B \in Nat, NEW f, f = [i \in S |-> B]
  PROVE  Prod(f, S) = Power(B, Cardinality(S))
<1> DEFINE good == {T \in SUBSET S : Prod(f, T) = Power(B, Cardinality(T))}
<1>0. f \in [S -> Nat]
  OBVIOUS
<1>1. {} \in good
  BY <1>0, ProdFacts, PowerFacts, FS_EmptySet
<1>2. ASSUME NEW T \in SUBSET S, NEW x \in T, T \ {x} \in good PROVE T \in good
  <2>1. Prod(f, T) = f[x] * Prod(f, T \ {x})
    BY <1>0, ProdStep
  <2> DEFINE n == Cardinality(T \ {x})
  <2>2. n \in Nat /\ Cardinality(T) = n + 1
    BY SmallerSets
  <2>5. f[x] = B
    OBVIOUS
  <2>3. Prod(f, T \ {x}) = Power(B, n)
    BY <1>2
  <2> HIDE DEF n
  <2>4. Power(B, n + 1) = B * Power(B, n)
    BY <2>2, PowerFacts
  <2> QED BY <2>1, <2>2, <2>3, <2>4, <2>5
<1>3. \A T \in SUBSET S : T \in good
  <2> HIDE DEF good
  <2> QED BY <1>1, <1>2, OneByOne
<1> QED BY <1>3

LEMMA ProdTimes ==
  ASSUME NEW S, IsFiniteSet(S), NEW f \in [S -> Nat], NEW g \in [S -> Nat],
         NEW h \in [S -> Nat], \A i \in S : h[i] = f[i] * g[i]
  PROVE  Prod(h, S) = Prod(f, S) * Prod(g, S)
<1> DEFINE good == {T \in SUBSET S : Prod(h, T) = Prod(f, T) * Prod(g, T)}
<1>1. {} \in good
  BY ProdFacts
<1>2. ASSUME NEW T \in SUBSET S, NEW x \in T, T \ {x} \in good PROVE T \in good
  <2> DEFINE U == T \ {x}
  <2>1. Prod(f, T) = f[x] * Prod(f, U) /\ Prod(g, T) = g[x] * Prod(g, U) /\ Prod(h, T) = h[x] * Prod(h, U)
    BY ProdStep
  <2>2. Prod(f, U) \in Nat /\ Prod(g, U) \in Nat /\ f[x] \in Nat /\ g[x] \in Nat
    BY ProdFacts
  <2>3. h[x] = f[x] * g[x] /\ Prod(h, U) = Prod(f, U) * Prod(g, U)
    BY <1>2
  <2>4. \A i, j, k, l \in Nat : (i * j) * (k * l) = (i * k) * (j * l)
    OBVIOUS
  <2> HIDE DEF U
  <2> QED BY <2>1, <2>2, <2>3, <2>4
<1>3. \A T \in SUBSET S : T \in good
  <2> HIDE DEF good
  <2> QED BY <1>1, <1>2, OneByOne
<1> QED BY <1>3

LEMMA SumAtLeast ==
  ASSUME NEW S, IsFiniteSet(S), NEW f \in [S -> Nat], NEW B \in Nat,
         NEW P \in SUBSET S, \A i \in P : f[i] >= B
  PROVE  Sum(f, P) >= Cardinality(P) * B
<1> DEFINE good == {T \in SUBSET P : Sum(f, T) >= Cardinality(T) * B}
<1>0. IsFiniteSet(P) /\ \A T \in SUBSET P : T \in SUBSET S
  BY FS_Subset
<1>1. {} \in good
  BY SumFacts, FS_EmptySet
<1>2. ASSUME NEW T \in SUBSET P, NEW x \in T, T \ {x} \in good PROVE T \in good
  <2> DEFINE U == T \ {x}
             n == Cardinality(U)
  <2>1. Sum(f, T) = f[x] + Sum(f, U)
    BY <1>0, SumStep
  <2>2. Sum(f, U) \in Nat /\ f[x] \in Nat /\ f[x] >= B
    BY <1>0, SumFacts
  <2>3. n \in Nat /\ Cardinality(T) = n + 1
    BY <1>0, SmallerSets
  <2>4. Sum(f, U) >= n * B
    BY <1>2
  <2> HIDE DEF n, U
  <2>5. (n + 1) * B = n * B + B /\ n * B \in Nat
    BY <2>3
  <2>6. Sum(f, T) >= (n + 1) * B
    BY <2>1, <2>2, <2>4, <2>5
  <2> QED BY <2>3, <2>6
<1>3. \A T \in SUBSET P : T \in good
  <2> HIDE DEF good
  <2> QED BY <1>0, <1>1, <1>2, OneByOne
<1> QED BY <1>3

LEMMA SumConstant ==
  ASSUME NEW S, IsFiniteSet(S), NEW f \in [S -> Nat], NEW B \in Nat,
         NEW P \in SUBSET S, \A i \in P : f[i] = B
  PROVE  Sum(f, P) = Cardinality(P) * B
<1> DEFINE good == {T \in SUBSET P : Sum(f, T) = Cardinality(T) * B}
<1>0. IsFiniteSet(P) /\ \A T \in SUBSET P : T \in SUBSET S
  BY FS_Subset
<1>1. {} \in good
  BY SumFacts, FS_EmptySet
<1>2. ASSUME NEW T \in SUBSET P, NEW x \in T, T \ {x} \in good PROVE T \in good
  <2> DEFINE U == T \ {x}
             n == Cardinality(U)
  <2>1. Sum(f, T) = f[x] + Sum(f, U) /\ f[x] = B
    BY <1>0, SumStep
  <2>3. n \in Nat /\ Cardinality(T) = n + 1
    BY <1>0, SmallerSets
  <2>4. Sum(f, U) = n * B
    BY <1>2
  <2> HIDE DEF n, U
  <2>5. (n + 1) * B = B + n * B
    BY <2>3
  <2> QED BY <2>1, <2>3, <2>4, <2>5
<1>3. \A T \in SUBSET P : T \in good
  <2> HIDE DEF good
  <2> QED BY <1>0, <1>1, <1>2, OneByOne
<1> QED BY <1>3

LEMMA SumUnion ==
  ASSUME NEW S, IsFiniteSet(S), NEW f \in [S -> Nat],
         NEW P \in SUBSET S, NEW Q \in SUBSET S, P \cap Q = {}
  PROVE  Sum(f, P \cup Q) = Sum(f, P) + Sum(f, Q)
<1> DEFINE good == {T \in SUBSET P : Sum(f, T \cup Q) = Sum(f, T) + Sum(f, Q)}
<1>0. IsFiniteSet(P) /\ Sum(f, Q) \in Nat
  BY FS_Subset, SumFacts
<1>1. {} \in good
  <2>1. {} \cup Q = Q
    OBVIOUS
  <2>2. Sum(f, {}) = 0
    BY SumFacts
  <2> QED BY <1>0, <2>1, <2>2
<1>2. ASSUME NEW T \in SUBSET P, NEW x \in T, T \ {x} \in good PROVE T \in good
  <2> DEFINE U == T \ {x}
             V == T \cup Q
  <2>1. T \in SUBSET S /\ U \in SUBSET S /\ V \in SUBSET S /\ x \in V /\ V \ {x} = U \cup Q
    OBVIOUS
  <2>2. Sum(f, T) = f[x] + Sum(f, U)
    BY <2>1, SumStep
  <2>3. Sum(f, V) = f[x] + Sum(f, V \ {x})
    <3> HIDE DEF V
    <3> QED BY <2>1, SumStep
  <2>4. Sum(f, U \cup Q) = Sum(f, U) + Sum(f, Q)
    BY <1>2
  <2>5. Sum(f, U) \in Nat /\ f[x] \in Nat
    BY <2>1, SumFacts
  <2>6. Sum(f, V) = Sum(f, T) + Sum(f, Q)
    <3> HIDE DEF U, V
    <3> QED BY <1>0, <2>1, <2>2, <2>3, <2>4, <2>5
  <2> QED BY <2>6
<1>3. \A T \in SUBSET P : T \in good
  <2> HIDE DEF good
  <2> QED BY <1>0, <1>1, <1>2, OneByOne
<1> QED BY <1>3

LEMMA SumPlusOne ==
  ASSUME NEW S, IsFiniteSet(S), NEW f \in [S -> Nat], NEW g \in [S -> Nat],
         \A i \in S : g[i] = f[i] + 1
  PROVE  Sum(g, S) = Sum(f, S) + Cardinality(S)
<1> DEFINE good == {T \in SUBSET S : Sum(g, T) = Sum(f, T) + Cardinality(T)}
<1>1. {} \in good
  BY SumFacts, FS_EmptySet
<1>2. ASSUME NEW T \in SUBSET S, NEW x \in T, T \ {x} \in good PROVE T \in good
  <2> DEFINE U == T \ {x}
             n == Cardinality(U)
  <2>1. Sum(f, T) = f[x] + Sum(f, U) /\ Sum(g, T) = g[x] + Sum(g, U) /\ g[x] = f[x] + 1
    BY SumStep
  <2>2. n \in Nat /\ Cardinality(T) = n + 1 /\ Sum(f, U) \in Nat /\ f[x] \in Nat
    BY SmallerSets, SumFacts
  <2>3. Sum(g, U) = Sum(f, U) + n
    BY <1>2
  <2> HIDE DEF n, U
  <2> QED BY <2>1, <2>2, <2>3
<1>3. \A T \in SUBSET S : T \in good
  <2> HIDE DEF good
  <2> QED BY <1>1, <1>2, OneByOne
<1> QED BY <1>3

-----------------------------------------------------------------------------
(* The arithmetic mean is not below the geometric one *)

LEMMA SameOnPart ==
  ASSUME NEW f, NEW g, NEW T, \A i \in T : f[i] = g[i]
  PROVE  Prod(f, T) = Prod(g, T) /\ Sum(f, T) = Sum(g, T)
<1>1. [i \in T |-> f[i]] = [i \in T |-> g[i]]
  OBVIOUS
<1> QED BY <1>1 DEF Prod, Sum

\* Two numbers on either side of a third: with one of them moved to it, and the
\* other by as much, the sum is kept and the product does not fall.
LEMMA Smoothed ==
  ASSUME NEW x \in Nat, NEW y \in Nat, NEW B \in Nat, B < x, y < B
  PROVE  x + y - B \in Nat /\ x * y <= B * (x + y - B)
<1> DEFINE u == x - B
           v == B - y
<1>1. u \in Nat /\ v \in Nat /\ x = B + u /\ y = B - v
  OBVIOUS
<1> HIDE DEF u, v
<1>2. x * y = B * B + B * u - B * v - u * v
  BY <1>1
<1>3. B * (x + y - B) = B * B + B * u - B * v
  BY <1>1
<1>4. u * v \in Nat /\ B * B \in Nat /\ B * u \in Nat /\ B * v \in Nat
  BY <1>1
<1> QED BY <1>2, <1>3, <1>4

LEMMA Means ==
  ASSUME NEW S, IsFiniteSet(S), NEW B \in Nat
  PROVE  \A f \in [S -> Nat] :
           Sum(f, S) <= Cardinality(S) * B => Prod(f, S) <= Power(B, Cardinality(S))
<1> DEFINE Balanced(f, T) == Sum(f, T) <= Cardinality(T) * B
           good == {T \in SUBSET S : \A f \in [S -> Nat] :
                      Balanced(f, T) => Prod(f, T) <= Power(B, Cardinality(T))}
<1>1. ASSUME NEW T \in SUBSET S, \A U \in SUBSET T : U # T => U \in good PROVE T \in good
  <2> SUFFICES ASSUME NEW f \in [S -> Nat], Balanced(f, T)
               PROVE  Prod(f, T) <= Power(B, Cardinality(T))
    OBVIOUS
  <2>0. IsFiniteSet(T) /\ Cardinality(T) \in Nat
    BY SmallerSets
  <2>1. CASE \A i \in T : f[i] <= B
    <3> DEFINE g == [i \in T |-> f[i]]
    <3>1. g \in [T -> Nat] /\ \A i \in T : g[i] <= B
      BY <2>1
    <3>2. Prod(g, T) = Prod(f, T)
      <4>1. \A i \in T : g[i] = f[i]
        OBVIOUS
      <4> HIDE DEF g
      <4> QED BY <4>1, SameOnPart
    <3> HIDE DEF g
    <3> QED BY <2>0, <3>1, <3>2, ProdAtMost
  <2>2. CASE \E i \in T : B < f[i]
    <3>1. PICK i \in T : B < f[i]
      BY <2>2
    <3> DEFINE U == T \ {i}
               n == Cardinality(U)
    <3>2. n \in Nat /\ Cardinality(T) = n + 1 /\ U \in SUBSET S
      BY SmallerSets
    <3>3. Sum(f, T) = f[i] + Sum(f, U) /\ Prod(f, T) = f[i] * Prod(f, U)
      BY SumStep, ProdStep
    <3>4. /\ Sum(f, U) \in Nat /\ Prod(f, U) \in Nat /\ f[i] \in Nat
      BY SumFacts, ProdFacts
    <3>5. (n + 1) * B = n * B + B /\ n * B \in Nat
      BY <3>2
    <3>6. Sum(f, T) <= n * B + B
      <4>1. Sum(f, T) <= Cardinality(T) * B
        OBVIOUS
      <4> HIDE DEF n
      <4> QED BY <3>2, <3>5, <4>1
    <3>7. \E j \in U : f[j] < B
      <4> SUFFICES ASSUME \A j \in U : ~(f[j] < B) PROVE FALSE
        OBVIOUS
      <4>1. \A j \in U : f[j] \in Nat
        OBVIOUS
      <4>2. \A j \in U : f[j] >= B
        BY <4>1
      <4> HIDE DEF U, n
      <4>3. Sum(f, U) >= n * B
        BY <3>2, <4>2, SumAtLeast DEF n
      <4> QED BY <3>1, <3>3, <3>4, <3>5, <3>6, <4>3
    <3>8. PICK j \in U : f[j] < B
      BY <3>7
    <3> DEFINE R == U \ {j}
               z == f[i] + f[j] - B
               g == [f EXCEPT ![j] = z]
    <3>9. f[j] \in Nat /\ z \in Nat /\ f[i] * f[j] <= B * z
      <4>1. f[j] \in Nat /\ f[i] \in Nat
        OBVIOUS
      <4> QED BY <3>1, <3>8, <4>1, Smoothed
    <3> HIDE DEF z
    <3>10. g \in [S -> Nat] /\ g[j] = z /\ \A k \in R : g[k] = f[k]
      BY <3>2, <3>8, <3>9
    <3>11. Sum(g, R) = Sum(f, R) /\ Prod(g, R) = Prod(f, R)
      <4> HIDE DEF g, R
      <4> QED BY <3>10, SameOnPart
    <3>12. /\ Sum(f, U) = f[j] + Sum(f, R) /\ Prod(f, U) = f[j] * Prod(f, R)
           /\ Sum(g, U) = g[j] + Sum(g, R) /\ Prod(g, U) = g[j] * Prod(g, R)
      <4> HIDE DEF g, U
      <4> QED BY <3>2, <3>8, <3>10, SumStep, ProdStep
    <3>13. Sum(f, R) \in Nat /\ Prod(f, R) \in Nat
      BY <3>2, SumFacts, ProdFacts
    <3>14. Sum(g, U) <= n * B
      <4> HIDE DEF U, R, n, g
      <4>1. Sum(g, U) = Sum(f, T) - B
        BY <3>3, <3>4, <3>9, <3>10, <3>11, <3>12, <3>13 DEF z
      <4>2. Sum(f, T) \in Nat
        BY <3>3, <3>4
      <4> QED BY <3>5, <3>6, <4>1, <4>2
    <3>15. Prod(g, U) <= Power(B, n)
      <4>1. U \in SUBSET T /\ U # T
        OBVIOUS
      <4>2. U \in good
        <5> HIDE DEF U, good
        <5> QED BY <1>1, <4>1
      <4> HIDE DEF U, g
      <4> QED BY <3>10, <3>14, <4>2
    <3>16. Prod(f, T) <= B * Prod(g, U)
      <4> DEFINE p == Prod(f, R)
      <4>1. Prod(f, T) = f[i] * (f[j] * p) /\ Prod(g, U) = z * p
        BY <3>3, <3>10, <3>11, <3>12
      <4>2. p \in Nat
        BY <3>13
      <4> HIDE DEF p, U, R, g
      <4>3. f[i] * (f[j] * p) = (f[i] * f[j]) * p /\ B * (z * p) = (B * z) * p
        BY <3>4, <3>9, <4>2
      <4>4. f[i] * f[j] \in Nat /\ B * z \in Nat
        BY <3>4, <3>9
      <4>5. (f[i] * f[j]) * p <= (B * z) * p
        <5> DEFINE a == f[i] * f[j]
                   b == B * z
        <5>1. a \in Nat /\ b \in Nat /\ a <= b
          BY <3>9, <4>4
        <5> HIDE DEF a, b
        <5>2. a * p <= b * p
          BY <4>2, <5>1
        <5> QED BY <5>2 DEF a, b
      <4> QED BY <4>1, <4>3, <4>5
    <3>17. B * Prod(g, U) <= Power(B, n + 1)
      <4>1. Power(B, n) \in Nat /\ Power(B, n + 1) = B * Power(B, n)
        <5> HIDE DEF n
        <5> QED BY <3>2, PowerFacts
      <4>2. Prod(g, U) \in Nat
        <5> HIDE DEF g, U
        <5> QED BY <3>2, <3>10, ProdFacts
      <4> HIDE DEF g, U, n
      <4>3. \A a, b \in Nat : a <= b => B * a <= B * b
        OBVIOUS
      <4> QED BY <3>15, <4>1, <4>2, <4>3
    <3> DEFINE d == B * Prod(g, U)
    <3>18. d \in Nat /\ Prod(f, T) \in Nat /\ Power(B, n + 1) \in Nat
      <4>1. Prod(g, U) \in Nat
        <5> HIDE DEF g, U
        <5> QED BY <3>2, <3>10, ProdFacts
      <4>2. Prod(f, T) \in Nat
        BY ProdFacts
      <4>3. n + 1 \in Nat
        BY <3>2
      <4> HIDE DEF g, U, n
      <4>4. Power(B, n + 1) \in Nat
        <5> DEFINE o == n + 1
        <5> HIDE DEF o
        <5>1. o \in Nat
          BY <4>3 DEF o
        <5>2. Power(B, o) \in Nat
          BY <5>1, PowerFacts
        <5> QED BY <5>2 DEF o
      <4> QED BY <4>1, <4>2, <4>4
    <3>19. Prod(f, T) <= d /\ d <= Power(B, n + 1)
      BY <3>16, <3>17
    <3> HIDE DEF d, n
    <3> QED BY <3>2, <3>18, <3>19
  <2>3. (\A i \in T : f[i] <= B) \/ \E i \in T : B < f[i]
    <3>1. \A i \in T : f[i] \in Nat
      OBVIOUS
    <3> QED BY <3>1
  <2> QED BY <2>1, <2>2, <2>3
<1>2. \A T \in SUBSET S : T \in good
  <2> HIDE DEF good
  <2> QED BY <1>1, SetSteps
<1> QED BY <1>2

-----------------------------------------------------------------------------
(* A divergence is not negative *)

LEMMA FactorsAtMost ==
  ASSUME NEW S, IsFiniteSet(S), NEW a \in [S -> Nat], NEW b \in [S -> Pos],
         NEW y \in [S -> Nat], \A i \in S : b[i] * y[i] = a[i] * Prod(b, S),
         Sum(y, S) <= Cardinality(S) * Prod(b, S)
  PROVE  Prod(a, S) <= Prod(b, S)
<1> DEFINE B == Prod(b, S)
           n == Cardinality(S)
           c == [i \in S |-> B]
           h == [i \in S |-> b[i] * y[i]]
           P == Power(B, n)
<1>1. B \in Pos /\ b \in [S -> Nat]
  BY ProdPositive DEF Pos
<1>2. n \in Nat
  BY FS_CardinalityType
<1> HIDE DEF B, n
<1>3. B \in Nat /\ P \in Pos
  BY <1>1, <1>2, PowerPositive DEF Pos
<1>4. Prod(y, S) <= P
  BY <1>3, Means DEF B, n
<1>5. c \in [S -> Nat] /\ Prod(c, S) = P
  BY <1>3, ProdConstant DEF n
<1>6. h \in [S -> Nat]
  <2>1. \A i \in S : b[i] \in Nat /\ y[i] \in Nat
    BY <1>1
  <2>2. \A p, q \in Nat : p * q \in Nat
    OBVIOUS
  <2> QED BY <2>1, <2>2
<1>7. \A i \in S : h[i] = b[i] * y[i] /\ h[i] = a[i] * c[i]
  BY DEF B
<1> HIDE DEF c, h, P
<1>8. Prod(h, S) = B * Prod(y, S)
  BY <1>1, <1>6, <1>7, ProdTimes DEF B
<1>9. Prod(h, S) = Prod(a, S) * P
  BY <1>5, <1>6, <1>7, ProdTimes
<1>10. Prod(a, S) \in Nat /\ Prod(y, S) \in Nat
  BY ProdFacts
<1> DEFINE p == Prod(a, S)
           q == Prod(y, S)
<1> HIDE DEF p, q
<1>11. p \in Nat /\ q \in Nat /\ p * P = B * q /\ q <= P
  BY <1>4, <1>8, <1>9, <1>10 DEF p, q
<1>12. B * q <= B * P
  BY <1>3, <1>11 DEF Pos
<1>13. p * P <= B * P
  BY <1>11, <1>12
<1>14. p <= B
  <2>1. ASSUME B < p PROVE B * P < p * P
    BY <1>3, <1>11, <2>1 DEF Pos
  <2>2. p * P \in Nat /\ B * P \in Nat
    BY <1>3, <1>11 DEF Pos
  <2> QED BY <1>3, <1>11, <1>13, <2>1, <2>2
<1> QED BY <1>14 DEF p, B

\* The ratios of the expected to the observed, times a common multiple.
Ratios(m, c, w, y, B) ==
  /\ y \in [DOMAIN w -> Nat] /\ B \in Pos
  /\ \A i \in DOMAIN w : Observed(m, c, w)[i] * y[i] = Expected(m, c, w)[i] * B

\* The places of a token after a context weigh, together, what the model says.
LEMMA SumOfSame ==
  ASSUME Enough, NEW m, NEW c, NEW w, IsFiniteSet(DOMAIN w), NEW y, NEW B, Ratios(m, c, w, y, B),
         NEW i \in DOMAIN w
  PROVE  Denominator(m, c[i]) * Sum(y, SameIn(c, w, i))
           = (Cardinality(AlikeIn(c, w, i)) * B) * Numerator(m, c[i], w[i])
<1> DEFINE S == DOMAIN w
           E == SameIn(c, w, i)
           a == Expected(m, c, w)
           b == Observed(m, c, w)
           d == Denominator(m, c[i])
           k == Cardinality(AlikeIn(c, w, i))
           n == Numerator(m, c[i], w[i])
           e == Cardinality(E)
<1>1. /\ a \in [S -> Pos] /\ b \in [S -> Pos] /\ d \in Pos /\ n \in Pos /\ k \in Pos /\ e \in Pos
      /\ a[i] = k * n /\ b[i] = e * d
  <2>1. a \in [S -> Pos] /\ b \in [S -> Pos] /\ k \in Pos /\ e \in Pos
    BY FactorsFacts
  <2>2. d \in Pos /\ n \in Pos
    BY CountFacts
  <2>3. a[i] = k * n /\ b[i] = e * d
    BY DEF Observed, Expected
  <2> QED BY <2>1, <2>2, <2>3
<1>2. y \in [S -> Nat] /\ B \in Pos /\ \A j \in S : b[j] * y[j] = a[j] * B
  BY DEF Ratios
<1>3. E \in SUBSET S
  BY DEF SameIn, AlikeIn
<1>4. ASSUME NEW j \in E PROVE y[j] = y[i]
  <2>1. j \in S /\ c[j] = c[i] /\ w[j] = w[i]
    BY DEF SameIn, AlikeIn
  <2>2. AlikeIn(c, w, j) = AlikeIn(c, w, i) /\ SameIn(c, w, j) = SameIn(c, w, i)
    BY <2>1 DEF SameIn, AlikeIn
  <2>3. a[j] = a[i] /\ b[j] = b[i]
    BY <2>1, <2>2 DEF Observed, Expected
  <2>4. b[i] * y[j] = b[i] * y[i] /\ b[i] \in Pos /\ y[j] \in Nat /\ y[i] \in Nat
    BY <1>1, <1>2, <2>1, <2>3
  <2>5. \A p \in Pos : \A q, r \in Nat : p * q = p * r => q = r
    BY DEF Pos
  <2> QED BY <2>4, <2>5
<1>5. Sum(y, E) = e * y[i]
  <2>1. y[i] \in Nat
    BY <1>2
  <2> HIDE DEF E
  <2> QED BY <1>2, <1>3, <1>4, <2>1, SumConstant
<1> DEFINE z == y[i]
<1>6. z \in Nat /\ b[i] * z = a[i] * B
  BY <1>2
<1> HIDE DEF S, E, a, b, d, k, n, e, z
<1>7. d * (e * z) = (e * d) * z /\ (k * n) * B = (k * B) * n
  BY <1>1, <1>2, <1>6 DEF Pos
<1> QED BY <1>1, <1>5, <1>6, <1>7 DEF d, E, k, n, z

LEMMA NumeratorsFacts ==
  ASSUME Enough, NEW m, NEW h, NEW num, num = [x \in Sigma |-> Numerator(m, h, x)]
  PROVE  num \in [Sigma -> Nat] /\ Sum(num, Sigma) = Denominator(m, h)
<1> DEFINE f == [x \in Sigma |-> Count(m.order, h, x)]
<1>1. \A x : Count(m.order, h, x) \in Nat /\ Numerator(m, h, x) = Count(m.order, h, x) + 1
  BY CountFacts DEF Numerator
<1>2. f \in [Sigma -> Nat] /\ num \in [Sigma -> Nat] /\ \A x \in Sigma : num[x] = f[x] + 1
  BY <1>1
<1>3. Denominator(m, h) = SumFunction(f) + Cardinality(Sigma)
  BY DEF Denominator, Occurrences
<1> HIDE DEF f
<1>4. SumFunction(f) = Sum(f, Sigma)
  BY <1>2, SigmaFacts, SumFacts
<1>5. Sum(num, Sigma) = Sum(f, Sigma) + Cardinality(Sigma)
  BY <1>2, SigmaFacts, SumPlusOne
<1> QED BY <1>2, <1>3, <1>4, <1>5

\* The places of a context weigh no more than they are.
LEMMA SumOfAlike ==
  ASSUME Enough, NEW m, NEW c, NEW w, IsFiniteSet(DOMAIN w), \A j \in DOMAIN w : w[j] \in Sigma,
         NEW y, NEW B, Ratios(m, c, w, y, B), NEW i \in DOMAIN w
  PROVE  Sum(y, AlikeIn(c, w, i)) <= Cardinality(AlikeIn(c, w, i)) * B
<1> DEFINE S == DOMAIN w
           A == AlikeIn(c, w, i)
           k == Cardinality(A)
           h == c[i]
           d == Denominator(m, h)
           num == [x \in Sigma |-> Numerator(m, h, x)]
           tokens(T) == {w[j] : j \in T}
           Closed(T) == T \subseteq A /\ \A j \in T : SameIn(c, w, j) \subseteq T
           good == {T \in SUBSET S : Closed(T) => d * Sum(y, T) = (k * B) * Sum(num, tokens(T))}
<1>1. d \in Pos /\ k \in Pos /\ B \in Pos /\ y \in [S -> Nat] /\ IsFiniteSet(Sigma)
  <2>1. k \in Pos
    BY FactorsFacts
  <2>2. d \in Pos
    BY CountFacts
  <2> QED BY <2>1, <2>2, SigmaFacts DEF Ratios
<1>2. num \in [Sigma -> Nat] /\ Sum(num, Sigma) = d
  BY NumeratorsFacts
<1>3. A \in SUBSET S /\ \A j \in A : c[j] = h
  BY DEF AlikeIn
<1>4. ASSUME NEW T \in SUBSET S, \A U \in SUBSET T : U # T => U \in good PROVE T \in good
  <2> SUFFICES ASSUME Closed(T) PROVE d * Sum(y, T) = (k * B) * Sum(num, tokens(T))
    OBVIOUS
  <2>1. CASE T = {}
    <3>1. tokens(T) = {}
      BY <2>1
    <3>2. Sum(y, {}) = 0 /\ Sum(num, {}) = 0
      <4> HIDE DEF num, S
      <4> QED BY <1>1, <1>2, SumFacts DEF S
    <3> HIDE DEF d, k, tokens, num
    <3>3. d * 0 = (k * B) * 0
      BY <1>1 DEF Pos
    <3> QED BY <2>1, <3>1, <3>2, <3>3
  <2>2. CASE T # {}
    <3>1. PICK j \in T : TRUE
      BY <2>2
    <3> DEFINE E == SameIn(c, w, j)
               U == T \ E
    <3>2. j \in S /\ j \in A /\ c[j] = h /\ AlikeIn(c, w, j) = A /\ w[j] \in Sigma
      BY <1>3 DEF AlikeIn
    <3>3. E = {l \in A : w[l] = w[j]} /\ j \in E /\ E \subseteq T
      BY <3>2 DEF SameIn
    <3>4. U \in SUBSET T /\ U # T /\ T = E \cup U /\ E \cap U = {}
      BY <3>1, <3>3
    <3>5. Closed(U)
      <4>1. ASSUME NEW l \in U, NEW p \in SameIn(c, w, l) PROVE p \in U
        <5>1. l \in T /\ l \in A /\ w[l] # w[j]
          BY <3>3
        <5>2. p \in T
          BY <5>1
        <5>3. w[p] = w[l]
          BY DEF SameIn
        <5> QED BY <3>3, <5>1, <5>2, <5>3
      <4> QED BY <4>1
    <3>6. tokens(U) = tokens(T) \ {w[j]} /\ w[j] \in tokens(T) /\ tokens(T) \in SUBSET Sigma
      <4>1. tokens(U) \subseteq tokens(T) \ {w[j]}
        BY <3>3
      <4>2. tokens(T) \ {w[j]} \subseteq tokens(U)
        BY <3>3
      <4> QED BY <4>1, <4>2
    <3>7. d * Sum(y, U) = (k * B) * Sum(num, tokens(U))
      <4>1. U \in good
        <5> HIDE DEF good, U
        <5> QED BY <1>4, <3>4
      <4> HIDE DEF d, k, tokens, num
      <4> QED BY <3>5, <4>1
    <3>8. d * Sum(y, E) = (k * B) * num[w[j]]
      <4>1. Denominator(m, c[j]) * Sum(y, SameIn(c, w, j))
              = (Cardinality(AlikeIn(c, w, j)) * B) * Numerator(m, c[j], w[j])
        BY <3>2, SumOfSame
      <4>2. num[w[j]] = Numerator(m, c[j], w[j])
        BY <3>2
      <4> HIDE DEF num
      <4> QED BY <3>2, <4>1, <4>2
    <3>9. Sum(y, T) = Sum(y, E) + Sum(y, U) /\ Sum(y, E) \in Nat /\ Sum(y, U) \in Nat
      <4>1. E \in SUBSET S /\ U \in SUBSET S
        BY <3>3, <3>4
      <4> HIDE DEF S, E, U
      <4>2. Sum(y, E \cup U) = Sum(y, E) + Sum(y, U)
        BY <1>1, <3>4, <4>1, SumUnion DEF S
      <4>3. Sum(y, E) \in Nat /\ Sum(y, U) \in Nat
        BY <1>1, <4>1, SumFacts DEF S
      <4> QED BY <3>4, <4>2, <4>3
    <3>10. Sum(num, tokens(T)) = num[w[j]] + Sum(num, tokens(U)) /\ num[w[j]] \in Nat /\ Sum(num, tokens(U)) \in Nat
      <4> HIDE DEF num, tokens
      <4>1. Sum(num, tokens(T)) = num[w[j]] + Sum(num, tokens(U))
        <5> DEFINE X == tokens(T)
                   v == w[j]
        <5>1. X \in SUBSET Sigma /\ v \in X /\ tokens(U) = X \ {v}
          BY <3>6
        <5> HIDE DEF X, v
        <5>2. Sum(num, X) = num[v] + Sum(num, X \ {v})
          BY <1>1, <1>2, <5>1, SumStep
        <5> QED BY <5>1, <5>2 DEF X, v
      <4>2. Sum(num, tokens(U)) \in Nat
        BY <1>1, <1>2, <3>6, SumFacts
      <4> QED BY <1>2, <3>2, <4>1, <4>2
    <3> DEFINE se == Sum(y, E)  su == Sum(y, U)  ne == num[w[j]]  nu == Sum(num, tokens(U))
    <3>11. /\ se \in Nat /\ su \in Nat /\ ne \in Nat /\ nu \in Nat /\ d \in Nat /\ k * B \in Nat
           /\ d * su = (k * B) * nu /\ d * se = (k * B) * ne
      <4>1. \A p, q \in Pos : p \in Nat /\ p * q \in Nat
        BY DEF Pos
      <4> HIDE DEF d, k, num, tokens, E, U
      <4> QED BY <1>1, <3>7, <3>8, <3>9, <3>10, <4>1
    <3> DEFINE kb == k * B
    <3> HIDE DEF se, su, ne, nu, d, kb
    <3>12. d * (se + su) = kb * (ne + nu)
      <4>1. d * (se + su) = d * se + d * su /\ kb * (ne + nu) = kb * ne + kb * nu
        BY <3>11 DEF kb
      <4>2. d * su = kb * nu /\ d * se = kb * ne
        BY <3>11 DEF kb
      <4> QED BY <4>1, <4>2
    <3> QED BY <3>9, <3>10, <3>12 DEF se, su, ne, nu, kb
  <2> QED BY <2>1, <2>2
<1>5. \A T \in SUBSET S : T \in good
  <2> HIDE DEF good
  <2>1. IsFiniteSet(S)
    OBVIOUS
  <2> HIDE DEF S
  <2> QED BY <1>4, <2>1, SetSteps
<1>6. Closed(A)
  <2>1. ASSUME NEW j \in A, NEW p \in SameIn(c, w, j) PROVE p \in A
    BY DEF SameIn, AlikeIn
  <2> QED BY <2>1
<1>7. d * Sum(y, A) = (k * B) * Sum(num, tokens(A))
  <2>1. A \in good
    <3> HIDE DEF good, A
    <3> QED BY <1>3, <1>5
  <2> HIDE DEF A, d, k, num, tokens
  <2> QED BY <1>6, <2>1
<1>8. Sum(num, tokens(A)) <= d /\ Sum(num, tokens(A)) \in Nat /\ Sum(y, A) \in Nat
  <2> DEFINE X == tokens(A)
             Y == Sigma \ X
  <2>1. X \in SUBSET Sigma /\ Y \in SUBSET Sigma /\ X \cap Y = {} /\ X \cup Y = Sigma
    BY <1>3
  <2> HIDE DEF X, Y, num, d
  <2>2. Sum(num, X \cup Y) = Sum(num, X) + Sum(num, Y)
    BY <1>1, <1>2, <2>1, SumUnion
  <2>3. Sum(num, X) \in Nat /\ Sum(num, Y) \in Nat
    BY <1>1, <1>2, <2>1, SumFacts
  <2>4. Sum(num, X) <= d
    BY <1>2, <2>1, <2>2, <2>3
  <2>5. Sum(y, A) \in Nat
    <3> HIDE DEF A, S
    <3>1. IsFiniteSet(S)
      BY DEF S
    <3> QED BY <1>1, <1>3, <3>1, SumFacts
  <2> QED BY <2>3, <2>4, <2>5 DEF X
<1> DEFINE p == Sum(y, A)
           q == Sum(num, tokens(A))
           kb == k * B
<1>9. kb \in Nat
  <2> HIDE DEF k
  <2> QED BY <1>1 DEF Pos
<1> HIDE DEF p, q, kb, d
<1>10. d * p = kb * q /\ q <= d /\ p \in Nat /\ q \in Nat
  BY <1>7, <1>8 DEF p, q, kb
<1>11. p <= kb
  <2>1. kb * q <= kb * d
    BY <1>1, <1>9, <1>10 DEF Pos
  <2>2. d * p <= d * kb
    BY <1>1, <1>9, <1>10, <2>1 DEF Pos
  <2>3. ASSUME kb < p PROVE d * kb < d * p
    BY <1>1, <1>9, <1>10, <2>3 DEF Pos
  <2>4. d * kb \in Nat /\ d * p \in Nat
    BY <1>1, <1>9, <1>10 DEF Pos
  <2> QED BY <1>9, <1>10, <2>2, <2>3, <2>4
<1> QED BY <1>11 DEF p, kb

LEMMA SumOfAll ==
  ASSUME Enough, NEW m, NEW c, NEW w, IsFiniteSet(DOMAIN w), \A j \in DOMAIN w : w[j] \in Sigma,
         NEW y, NEW B, Ratios(m, c, w, y, B)
  PROVE  Sum(y, DOMAIN w) <= Cardinality(DOMAIN w) * B
<1> DEFINE S == DOMAIN w
           Closed(T) == \A j \in T : AlikeIn(c, w, j) \subseteq T
           good == {T \in SUBSET S : Closed(T) => Sum(y, T) <= Cardinality(T) * B}
<1>1. B \in Nat /\ y \in [S -> Nat] /\ IsFiniteSet(S)
  BY DEF Ratios, Pos
<1>2. ASSUME NEW T \in SUBSET S, \A U \in SUBSET T : U # T => U \in good PROVE T \in good
  <2> SUFFICES ASSUME Closed(T) PROVE Sum(y, T) <= Cardinality(T) * B
    OBVIOUS
  <2>1. CASE T = {}
    <3> HIDE DEF S
    <3>1. Sum(y, {}) = 0
      BY <1>1, SumFacts
    <3> QED BY <1>1, <2>1, <3>1, FS_EmptySet
  <2>2. CASE T # {}
    <3>1. PICK i \in T : TRUE
      BY <2>2
    <3> DEFINE A == AlikeIn(c, w, i)
               U == T \ A
    <3>2. A \subseteq T /\ i \in A /\ A \in SUBSET S
      BY DEF AlikeIn
    <3>3. U \in SUBSET T /\ U # T /\ T = A \cup U /\ A \cap U = {} /\ U \in SUBSET S
      BY <3>1, <3>2
    <3>4. Closed(U)
      <4>1. ASSUME NEW j \in U, NEW p \in AlikeIn(c, w, j) PROVE p \in U
        <5>1. p \in T
          OBVIOUS
        <5>2. c[p] = c[j] /\ c[j] # c[i] /\ p \in S
          BY DEF AlikeIn
        <5>3. p \notin A
          BY <5>2 DEF AlikeIn
        <5> QED BY <5>1, <5>3
      <4> QED BY <4>1
    <3>5. Sum(y, U) <= Cardinality(U) * B
      <4>1. U \in good
        <5> HIDE DEF good, U
        <5> QED BY <1>2, <3>3
      <4> QED BY <3>4, <4>1
    <3>6. Sum(y, A) <= Cardinality(A) * B
      <4>1. i \in DOMAIN w
        OBVIOUS
      <4> QED BY <4>1, SumOfAlike
    <3> HIDE DEF A, U, S
    <3>7. Sum(y, A \cup U) = Sum(y, A) + Sum(y, U)
      BY <1>1, <3>2, <3>3, SumUnion
    <3>8. Sum(y, A) \in Nat /\ Sum(y, U) \in Nat
      BY <1>1, <3>2, <3>3, SumFacts
    <3>9. Cardinality(A \cup U) = Cardinality(A) + Cardinality(U) /\ Cardinality(A) \in Nat /\ Cardinality(U) \in Nat
      <4>1. IsFiniteSet(A) /\ IsFiniteSet(U)
        BY <1>1, <3>2, <3>3, FS_Subset
      <4>2. Cardinality(A \cup U) = Cardinality(A) + Cardinality(U) - Cardinality({})
        BY <3>3, <4>1, FS_Union
      <4> QED BY <4>1, <4>2, FS_EmptySet, FS_CardinalityType
    <3> DEFINE ka == Cardinality(A)  ku == Cardinality(U)
    <3>10. ka \in Nat /\ ku \in Nat
      BY <3>9
    <3> HIDE DEF ka, ku
    <3>11. (ka + ku) * B = ka * B + ku * B /\ ka * B \in Nat /\ ku * B \in Nat
      BY <1>1, <3>10
    <3>12. Sum(y, A) + Sum(y, U) <= (ka + ku) * B
      BY <3>5, <3>6, <3>8, <3>11 DEF ka, ku
    <3> QED BY <3>3, <3>7, <3>9, <3>12 DEF ka, ku
  <2> QED BY <2>1, <2>2
<1>3. \A T \in SUBSET S : T \in good
  <2> HIDE DEF good, S
  <2> QED BY <1>1, <1>2, SetSteps
<1>4. Closed(S)
  BY DEF AlikeIn
<1> QED BY <1>3, <1>4

LEMMA DivergenceIsPositive ==
  ASSUME Enough, NEW m, NEW w, IsFiniteSet(DOMAIN w), \A i \in DOMAIN w : w[i] \in TokensOf(fetched)
  PROVE  Divergence(m, w)[1] >= Divergence(m, w)[2]
<1> DEFINE S == DOMAIN w
           c == ContextsIn(m, w)
           a == Expected(m, c, w)
           b == Observed(m, c, w)
           B == Prod(b, S)
           y == [i \in S |-> a[i] * Prod(b, S \ {i})]
<1>1. \A j \in S : w[j] \in Sigma
  BY SigmaFacts
<1>2. a \in [S -> Pos] /\ b \in [S -> Pos]
  BY FactorsFacts
<1>3. Divergence(m, w) = <<Product(b), Product(a)>>
  BY DivergenceIs
<1> HIDE DEF a, b, c
<1>4. a \in [S -> Nat] /\ b \in [S -> Nat]
  BY <1>2 DEF Pos
<1>5. IsFiniteSet(S)
  OBVIOUS
<1> HIDE DEF S
<1>6. Product(a) = Prod(a, S) /\ Product(b) = B
  BY <1>4, <1>5, ProdFacts
<1>7. B \in Pos
  BY <1>2, <1>5, ProdPositive
<1>8. ASSUME NEW i \in S PROVE y[i] \in Nat /\ b[i] * y[i] = a[i] * B
  <2> DEFINE p == Prod(b, S \ {i})
  <2>1. B = b[i] * p
    BY <1>4, <1>5, ProdStep
  <2>2. p \in Nat /\ a[i] \in Nat /\ b[i] \in Nat
    BY <1>4, <1>5, ProdFacts
  <2>3. y[i] = a[i] * p
    OBVIOUS
  <2> HIDE DEF p, y, B
  <2>4. b[i] * (a[i] * p) = a[i] * (b[i] * p) /\ a[i] * p \in Nat
    BY <2>2
  <2> QED BY <2>1, <2>3, <2>4
<1>9. y \in [S -> Nat]
  BY <1>8
<1> HIDE DEF y, B
<1>10. Ratios(m, c, w, y, B)
  BY <1>7, <1>8, <1>9 DEF Ratios, S, a, b
<1>11. Sum(y, S) <= Cardinality(S) * B
  BY <1>1, <1>5, <1>10, SumOfAll DEF S
<1>12. Prod(a, S) <= Prod(b, S)
  BY <1>2, <1>4, <1>5, <1>8, <1>9, <1>11, FactorsAtMost DEF B
<1>13. Prod(a, S) \in Nat /\ Prod(b, S) \in Nat
  BY <1>4, <1>5, ProdFacts
<1> QED BY <1>3, <1>6, <1>12, <1>13 DEF B

\* Whatever the length of a window: the property that is checked bounds it.
DivergesAtAnyLength ==
  contract # None =>
    \A w \in Seq(TokensOf(fetched)) : LET d == Divergence(contract, w) IN d[1] >= d[2]

LEMMA KnownAtAnyLength == ThresholdInv => DivergesAtAnyLength
<1> SUFFICES ASSUME ThresholdInv, contract # None, NEW w \in Seq(TokensOf(fetched))
             PROVE  Divergence(contract, w)[1] >= Divergence(contract, w)[2]
  BY DEF DivergesAtAnyLength
<1>1. Enough
  BY DEF ThresholdInv
<1>2. DOMAIN w = 1 .. Len(w) /\ Len(w) \in Nat /\ \A i \in DOMAIN w : w[i] \in TokensOf(fetched)
  OBVIOUS
<1>3. IsFiniteSet(DOMAIN w)
  BY <1>2, FS_Interval
<1> QED BY <1>1, <1>2, <1>3, DivergenceIsPositive

\* The score of a window that is made of tokens the model was trained on is never
\* negative, however long the window and whatever order and contexts were chosen.
THEOREM KnownWindowsDiverge == DriftSpec => []DivergesAtAnyLength
BY KnownAtAnyLength, ThresholdHolds, PTL

LEMMA KnownScores == ThresholdInv => KnownScoresAreDivergences
<1> SUFFICES ASSUME ThresholdInv, contract # None, NEW n \in 1 .. MinWindow + 1,
                    NEW w \in [1 .. n -> TokensOf(fetched)]
             PROVE  Divergence(contract, w)[1] >= Divergence(contract, w)[2]
  BY DEF KnownScoresAreDivergences
<1>1. Enough
  BY DEF ThresholdInv
<1>2. DOMAIN w = 1 .. n /\ n \in Nat /\ \A i \in DOMAIN w : w[i] \in TokensOf(fetched)
  BY DriftSizes
<1>3. IsFiniteSet(DOMAIN w)
  BY <1>2, FS_Interval
<1> QED BY <1>1, <1>2, <1>3, DivergenceIsPositive

\* For any contract whose information criterion chose any order and contexts: a known
\* window of any length has a score that is not negative, drift is reported only of
\* a window above all but the tail of enough long benign windows, and a calibrated
\* contract that finds no drift in a window found a benign one not below it.
THEOREM DecisionsHold == DriftSpec => []DecisionsAreSound
<1>1. ThresholdInv => DecisionsAreSound
  BY DecidedIsAboveBenign, KnownScores DEF DecisionsAreSound
<1> QED BY <1>1, ThresholdHolds, PTL
=============================================================================
