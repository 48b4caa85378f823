----------------------------- MODULE WalletSums -----------------------------
(***************************************************************************)
(* Facts about SumOver, for any finite set and any integer function.  The  *)
(* recursive definition is compared with an additive function, one that    *)
(* grows by f[x] when x joins a set: there is one for every f, and it      *)
(* agrees with SumOver.  Both are shown by the minimal counterexample that *)
(* the well-founded order of finite subsets provides.                      *)
(***************************************************************************)
EXTENDS Wallets, FiniteSetTheorems, WellFoundedInduction, TLAPS

Additive(a, f, S) ==
  /\ a \in [SUBSET S -> Int]
  /\ a[{}] = 0
  /\ \A T \in SUBSET S : \A x \in S \ T : a[T \cup {x}] = a[T] + f[x]

NonNegative(a, f, S) ==
  (\A x \in S : f[x] >= 0) => \A T \in SUBSET S : a[T] >= 0

\* A property that fails for some subset of a finite set fails for a subset all
\* of whose proper subsets have it: induction over the wallets or the escrows.
LEMMA MinimalSubset ==
  ASSUME NEW S, IsFiniteSet(S), NEW Bad \in SUBSET (SUBSET S), Bad # {}
  PROVE  \E T \in Bad : \A U \in SUBSET T : U # T => U \notin Bad
<1>1. IsWellFoundedOn(StrictSubsetOrdering(S), SUBSET S)
  BY FS_StrictSubsetOrderingWellFounded, FS_FiniteSubsetsOfFinite
<1>2. PICK T \in Bad : \A U \in Bad : ~(<<U, T>> \in StrictSubsetOrdering(S))
  BY <1>1, WFMin
<1>3. \A U \in SUBSET T : U # T => U \notin Bad
  BY <1>2 DEF StrictSubsetOrdering
<1> QED BY <1>3

\* Sums of amounts exist: every integer function has an additive function, and
\* amounts that are not negative have totals that are not negative.
LEMMA AdditiveExists ==
  ASSUME NEW S, IsFiniteSet(S), NEW f \in [S -> Int]
  PROVE  \E a : Additive(a, f, S) /\ NonNegative(a, f, S)
<1> DEFINE Good(T) == \E a : Additive(a, f, T) /\ NonNegative(a, f, T)
           Bad == {T \in SUBSET S : ~Good(T)}
<1> SUFFICES ASSUME S \in Bad PROVE FALSE
  OBVIOUS
<1>0. Bad \in SUBSET (SUBSET S) /\ Bad # {}
  OBVIOUS
<1> HIDE DEF Bad
<1>1. PICK T \in Bad : \A U \in SUBSET T : U # T => U \notin Bad
  BY <1>0, MinimalSubset
<1> USE DEF Bad
<1>2. CASE T = {}
  <2> DEFINE a == [U \in {{}} |-> 0]
  <2>1. Additive(a, f, T) /\ NonNegative(a, f, T)
    BY <1>2 DEF Additive, NonNegative
  <2> QED BY <1>1, <2>1
<1>3. CASE T # {}
  <2>1. PICK y \in T : TRUE
    BY <1>3
  <2> DEFINE R == T \ {y}
  <2>2. R \in SUBSET T /\ R # T /\ R \in SUBSET S /\ y \in S
    BY <2>1, <1>1
  <2>3. PICK a : Additive(a, f, R) /\ NonNegative(a, f, R)
    BY <2>2, <1>1
  <2> DEFINE b == [U \in SUBSET T |-> IF y \in U THEN a[U \ {y}] + f[y] ELSE a[U]]
  <2>4. \A U \in SUBSET T : U \ {y} \in SUBSET R /\ (y \notin U => U \in SUBSET R)
    OBVIOUS
  <2>5. b \in [SUBSET T -> Int]
    BY <2>3, <2>4, <2>2 DEF Additive
  <2>6. b[{}] = 0
    BY <2>3 DEF Additive
  <2>7. ASSUME NEW U \in SUBSET T, NEW x \in T \ U
        PROVE  b[U \cup {x}] = b[U] + f[x]
    <3>1. CASE x = y
      <4>1. (U \cup {x}) \ {y} = U /\ y \in U \cup {x} /\ y \notin U
        BY <2>7, <3>1
      <4>2. U \cup {x} \in SUBSET T
        BY <2>7
      <4> QED BY <4>1, <4>2, <3>1
    <3>2. CASE x # y /\ y \in U
      <4>1. (U \cup {x}) \ {y} = (U \ {y}) \cup {x} /\ y \in U \cup {x}
        BY <3>2
      <4>2. U \ {y} \in SUBSET R /\ x \in R \ (U \ {y}) /\ U \cup {x} \in SUBSET T
        BY <2>7, <3>2
      <4>3. a[(U \ {y}) \cup {x}] = a[U \ {y}] + f[x]
        BY <2>3, <4>2 DEF Additive
      <4>4. a[U \ {y}] \in Int /\ f[x] \in Int /\ f[y] \in Int
        BY <2>3, <4>2, <2>2, <1>1 DEF Additive
      <4>5. b[U \cup {x}] = a[(U \cup {x}) \ {y}] + f[y] /\ b[U] = a[U \ {y}] + f[y]
        BY <4>1, <4>2, <3>2
      <4>6. a[(U \cup {x}) \ {y}] = a[U \ {y}] + f[x]
        BY <4>1, <4>3
      <4> HIDE DEF b
      <4> QED BY <4>4, <4>5, <4>6
    <3>3. CASE x # y /\ y \notin U
      <4>1. U \in SUBSET R /\ x \in R \ U /\ U \cup {x} \in SUBSET T /\ y \notin U \cup {x}
        BY <2>7, <3>3
      <4>2. a[U \cup {x}] = a[U] + f[x]
        BY <2>3, <4>1 DEF Additive
      <4> QED BY <4>1, <4>2, <3>3
    <3> QED BY <3>1, <3>2, <3>3
  <2>8. Additive(b, f, T)
    BY <2>5, <2>6, <2>7 DEF Additive
  <2>9. NonNegative(b, f, T)
    <3> SUFFICES ASSUME \A x \in T : f[x] >= 0, NEW U \in SUBSET T
                 PROVE  b[U] >= 0
      BY DEF NonNegative
    <3>1. \A V \in SUBSET R : a[V] \in Int /\ a[V] >= 0
      BY <2>3 DEF NonNegative, Additive
    <3>2. f[y] \in Int /\ f[y] >= 0
      BY <2>2
    <3> QED BY <3>1, <3>2, <2>4
  <2> QED BY <1>1, <2>8, <2>9
<1> QED BY <1>2, <1>3

\* SumOver, as TLC computes it, is the value of any additive function.
LEMMA SumOverIsAdditive ==
  ASSUME NEW S, IsFiniteSet(S), NEW f, NEW a, Additive(a, f, S)
  PROVE  SumOver(f, S) = a[S]
<1> DEFINE Step(g) == [T \in SUBSET S |->
                         IF T = {} THEN 0
                         ELSE LET x == CHOOSE x \in T : TRUE IN g[T \ {x}] + f[x]]
           sum == CHOOSE g : g = Step(g)
<1>1. a = Step(a)
  <2>1. ASSUME NEW T \in SUBSET S, T # {}
        PROVE  a[T] = LET x == CHOOSE x \in T : TRUE IN a[T \ {x}] + f[x]
    <3> DEFINE x == CHOOSE x \in T : TRUE
    <3>1. x \in T
      BY <2>1
    <3>2. a[(T \ {x}) \cup {x}] = a[T \ {x}] + f[x]
      BY <3>1 DEF Additive
    <3>3. (T \ {x}) \cup {x} = T
      BY <3>1
    <3> QED BY <3>2, <3>3
  <2> QED BY <2>1 DEF Additive
<1>2. sum = Step(sum)
  BY <1>1
<1>3. SumOver(f, S) = sum[S]
  BY DEF SumOver
<1> DEFINE Bad == {T \in SUBSET S : sum[T] # a[T]}
<1> HIDE DEF sum
<1>4. SUFFICES ASSUME Bad # {} PROVE FALSE
  BY <1>3
<1>0. Bad \in SUBSET (SUBSET S)
  OBVIOUS
<1> HIDE DEF Bad
<1>5. PICK T \in Bad : \A U \in SUBSET T : U # T => U \notin Bad
  BY <1>0, <1>4, MinimalSubset
<1> USE DEF Bad
<1>6. T # {}
  BY <1>5, <1>1, <1>2 DEF Additive
<1> DEFINE x == CHOOSE x \in T : TRUE
<1>7. x \in T /\ T \ {x} \in SUBSET T /\ T \ {x} # T /\ T \ {x} \in SUBSET S
  BY <1>6, <1>5
<1>8. sum[T \ {x}] = a[T \ {x}]
  BY <1>5, <1>7
<1>9. sum[T] = sum[T \ {x}] + f[x] /\ a[T] = a[T \ {x}] + f[x]
  BY <1>1, <1>2, <1>5, <1>6
<1> QED BY <1>5, <1>8, <1>9

\* A total of amounts is a number, and one that is at least each of them.
LEMMA SumOverBound ==
  ASSUME NEW S, IsFiniteSet(S), NEW f \in [S -> Int]
  PROVE  /\ SumOver(f, S) \in Int
         /\ (\A x \in S : f[x] >= 0) =>
              SumOver(f, S) >= 0 /\ \A x \in S : f[x] <= SumOver(f, S)
<1>1. PICK a : Additive(a, f, S) /\ NonNegative(a, f, S)
  BY AdditiveExists
<1>2. SumOver(f, S) = a[S]
  BY <1>1, SumOverIsAdditive
<1>3. a[S] \in Int
  BY <1>1 DEF Additive
<1>4. ASSUME \A x \in S : f[x] >= 0, NEW x \in S
      PROVE  f[x] <= a[S]
  <2>1. a[(S \ {x}) \cup {x}] = a[S \ {x}] + f[x]
    BY <1>1 DEF Additive
  <2>2. (S \ {x}) \cup {x} = S
    BY <1>4
  <2>3. a[S] = a[S \ {x}] + f[x]
    BY <2>1, <2>2
  <2>4. a[S \ {x}] >= 0 /\ a[S \ {x}] \in Int /\ f[x] \in Int
    BY <1>1, <1>4 DEF NonNegative, Additive
  <2> QED BY <2>3, <2>4
<1>5. (\A x \in S : f[x] >= 0) => a[S] >= 0
  BY <1>1 DEF NonNegative
<1> QED BY <1>2, <1>3, <1>4, <1>5

\* Changing one amount changes the total by the same difference.
LEMMA SumOverUpdate ==
  ASSUME NEW S, IsFiniteSet(S), NEW f \in [S -> Int], NEW g \in [S -> Int],
         NEW e \in S, \A x \in S \ {e} : g[x] = f[x]
  PROVE  SumOver(g, S) = SumOver(f, S) + (g[e] - f[e])
<1>1. PICK a : Additive(a, f, S)
  BY AdditiveExists
<1> DEFINE b == [T \in SUBSET S |-> IF e \in T THEN a[T] + (g[e] - f[e]) ELSE a[T]]
<1>2. b \in [SUBSET S -> Int] /\ b[{}] = 0
  BY <1>1 DEF Additive
<1>3. ASSUME NEW T \in SUBSET S, NEW x \in S \ T
      PROVE  b[T \cup {x}] = b[T] + g[x]
  <2>1. a[T \cup {x}] = a[T] + f[x] /\ T \cup {x} \in SUBSET S
    BY <1>1, <1>3 DEF Additive
  <2>2. a[T] \in Int /\ f[x] \in Int /\ g[x] \in Int /\ f[e] \in Int /\ g[e] \in Int
    BY <1>1 DEF Additive
  <2>3. CASE x = e
    BY <2>1, <2>2, <2>3, <1>3
  <2>4. CASE x # e
    BY <2>1, <2>2, <2>4, <1>3
  <2> QED BY <2>3, <2>4
<1>4. Additive(b, g, S)
  BY <1>2, <1>3 DEF Additive
<1>5. SumOver(f, S) = a[S] /\ SumOver(g, S) = b[S]
  BY <1>1, <1>4, SumOverIsAdditive
<1> QED BY <1>5

\* Nothing adds up to nothing.
LEMMA SumOverZero ==
  ASSUME NEW S, IsFiniteSet(S), NEW f, \A x \in S : f[x] = 0
  PROVE  SumOver(f, S) = 0
<1> DEFINE a == [T \in SUBSET S |-> 0]
<1>1. Additive(a, f, S)
  BY DEF Additive
<1> QED BY <1>1, SumOverIsAdditive

\* A total depends on the amounts of what is added up, and on nothing else.
LEMMA SumOverSame ==
  ASSUME NEW S, IsFiniteSet(S), NEW f, NEW g \in [S -> Int], \A x \in S : f[x] = g[x]
  PROVE  SumOver(f, S) = SumOver(g, S)
<1>1. PICK a : Additive(a, g, S)
  BY AdditiveExists
<1>2. Additive(a, f, S)
  BY <1>1 DEF Additive
<1> QED BY <1>1, <1>2, SumOverIsAdditive

\* The total of a part of what there is, when one more joins it and when it is
\* compared with a larger part.
LEMMA SumOverPart ==
  ASSUME NEW S, IsFiniteSet(S), NEW f \in [S -> Int]
  PROVE  /\ \A T \in SUBSET S :
              /\ SumOver(f, T) \in Int
              /\ \A e \in S \ T : SumOver(f, T \cup {e}) = SumOver(f, T) + f[e]
              /\ \A e \in T : SumOver(f, T \ {e}) = SumOver(f, T) - f[e]
         /\ SumOver(f, {}) = 0
<1>1. PICK a : Additive(a, f, S)
  BY AdditiveExists
<1>2. ASSUME NEW T \in SUBSET S
      PROVE  SumOver(f, T) = a[T]
  <2> DEFINE b == [U \in SUBSET T |-> a[U]]
  <2>1. IsFiniteSet(T)
    BY FS_Subset
  <2>2. Additive(b, f, T)
    BY <1>1 DEF Additive
  <2> QED BY <2>1, <2>2, SumOverIsAdditive
<1>3. ASSUME NEW T \in SUBSET S, NEW e \in S \ T
      PROVE  a[T \cup {e}] = a[T] + f[e] /\ T \cup {e} \in SUBSET S
  BY <1>1 DEF Additive
<1>4. ASSUME NEW T \in SUBSET S, NEW e \in T
      PROVE  SumOver(f, T \ {e}) = SumOver(f, T) - f[e]
  <2>1. T \ {e} \in SUBSET S /\ e \in S \ (T \ {e}) /\ (T \ {e}) \cup {e} = T
    BY <1>4
  <2>2. a[(T \ {e}) \cup {e}] = a[T \ {e}] + f[e]
    BY <2>1, <1>3
  <2>3. a[T] = a[T \ {e}] + f[e]
    BY <2>1, <2>2
  <2>4. a[T] \in Int /\ a[T \ {e}] \in Int /\ f[e] \in Int
    BY <2>1, <1>1 DEF Additive
  <2>5. SumOver(f, T) = a[T] /\ SumOver(f, T \ {e}) = a[T \ {e}]
    BY <1>2, <2>1
  <2> QED BY <2>3, <2>4, <2>5
<1>5. \A T \in SUBSET S : a[T] \in Int
  BY <1>1 DEF Additive
<1>6. SumOver(f, {}) = 0
  BY <1>1, <1>2 DEF Additive
<1> QED BY <1>2, <1>3, <1>4, <1>5, <1>6

\* Changing one amount changes the total of a part it belongs to.
LEMMA SumOverPartUpdate ==
  ASSUME NEW S, IsFiniteSet(S), NEW f \in [S -> Int], NEW g \in [S -> Int],
         NEW T \in SUBSET S, NEW e \in T, \A x \in S \ {e} : g[x] = f[x]
  PROVE  SumOver(g, T) = SumOver(f, T) + (g[e] - f[e])
<1> DEFINE h == [x \in T |-> f[x]]
           k == [x \in T |-> g[x]]
<1>1. /\ IsFiniteSet(T) /\ h \in [T -> Int] /\ k \in [T -> Int]
      /\ (\A x \in T : f[x] = h[x]) /\ (\A x \in T : g[x] = k[x]) /\ \A x \in T \ {e} : k[x] = h[x]
  BY FS_Subset
<1> HIDE DEF h, k
<1>2. SumOver(f, T) = SumOver(h, T)
  BY <1>1, SumOverSame
<1>3. SumOver(g, T) = SumOver(k, T)
  BY <1>1, SumOverSame
<1>4. SumOver(k, T) = SumOver(h, T) + (k[e] - h[e])
  BY <1>1, SumOverUpdate
<1> QED BY <1>1, <1>2, <1>3, <1>4

\* A part of amounts that are not negative is no more than a larger part.
LEMMA SumOverMonotone ==
  ASSUME NEW S, IsFiniteSet(S), NEW f \in [S -> Int], \A x \in S : f[x] >= 0,
         NEW T \in SUBSET S, NEW U \in SUBSET T
  PROVE  SumOver(f, U) <= SumOver(f, T) /\ SumOver(f, U) >= 0
<1>1. IsFiniteSet(T) /\ IsFiniteSet(U) /\ U \in SUBSET S
  BY FS_Subset
<1> DEFINE Bad == {V \in SUBSET T : ~(SumOver(f, V \cap U) <= SumOver(f, V))}
<1>2. SUFFICES Bad = {}
  <2>1. SumOver(f, T \cap U) <= SumOver(f, T)
    BY <1>2
  <2>2. T \cap U = U
    OBVIOUS
  <2>3. f \in [S -> Int] /\ [x \in U |-> f[x]] \in [U -> Int]
    OBVIOUS
  <2>4. SumOver(f, U) = SumOver([x \in U |-> f[x]], U)
    BY <1>1, <2>3, SumOverSame
  <2>5. SumOver([x \in U |-> f[x]], U) >= 0
    BY <1>1, <2>3, SumOverBound
  <2> QED BY <2>1, <2>2, <2>4, <2>5
<1>3. SUFFICES ASSUME Bad # {} PROVE FALSE
  OBVIOUS
<1>4. Bad \in SUBSET (SUBSET T)
  OBVIOUS
<1> HIDE DEF Bad
<1>5. PICK V \in Bad : \A W \in SUBSET V : W # V => W \notin Bad
  BY <1>1, <1>3, <1>4, MinimalSubset
<1> USE DEF Bad
<1>6. V # {}
  <2>1. SumOver(f, {}) = 0
    BY SumOverPart
  <2>2. V = {} => V \cap U = {}
    OBVIOUS
  <2>3. SUFFICES ASSUME V = {} PROVE FALSE
    OBVIOUS
  <2>4. SumOver(f, V \cap U) = 0 /\ SumOver(f, V) = 0
    BY <2>1, <2>2, <2>3
  <2>5. SumOver(f, V \cap U) <= SumOver(f, V)
    BY <2>4
  <2> QED BY <1>5, <2>5
<1>7. PICK x \in V : TRUE
  BY <1>6
<1>8. SumOver(f, (V \ {x}) \cap U) <= SumOver(f, V \ {x})
  BY <1>5, <1>7
<1>9. SumOver(f, V \ {x}) = SumOver(f, V) - f[x] /\ f[x] \in Int /\ f[x] >= 0
      /\ SumOver(f, V) \in Int /\ SumOver(f, V \cap U) \in Int
  <2>1. V \in SUBSET S /\ V \cap U \in SUBSET S /\ x \in V /\ x \in S
    BY <1>5, <1>7
  <2> QED BY <2>1, SumOverPart
<1>10. CASE x \in U
  <2>1. (V \ {x}) \cap U = (V \cap U) \ {x} /\ x \in V \cap U /\ V \cap U \in SUBSET S
    BY <1>5, <1>7, <1>10
  <2>2. SumOver(f, (V \cap U) \ {x}) = SumOver(f, V \cap U) - f[x]
    <3> DEFINE W == V \cap U
    <3>1. W \in SUBSET S /\ x \in W
      BY <2>1
    <3> HIDE DEF W
    <3>2. SumOver(f, W \ {x}) = SumOver(f, W) - f[x]
      BY <3>1, SumOverPart
    <3> QED BY <3>2 DEF W
  <2>3. SumOver(f, V \cap U) <= SumOver(f, V)
    BY <1>8, <1>9, <2>1, <2>2
  <2> QED BY <1>5, <2>3
<1>11. CASE x \notin U
  <2>1. (V \ {x}) \cap U = V \cap U
    BY <1>11
  <2>2. SumOver(f, V \cap U) <= SumOver(f, V)
    BY SMTT(30), <1>8, <1>9, <2>1
  <2> QED BY <1>5, <2>2
<1> QED BY <1>10, <1>11

\* The total of two amounts together, and of a multiple of one.
LEMMA SumOverPlus ==
  ASSUME NEW S, IsFiniteSet(S), NEW f \in [S -> Int], NEW g \in [S -> Int], NEW k \in [S -> Int],
         \A x \in S : k[x] = f[x] + g[x]
  PROVE  SumOver(k, S) = SumOver(f, S) + SumOver(g, S)
<1>1. PICK a : Additive(a, f, S)
  BY AdditiveExists
<1>2. PICK c : Additive(c, g, S)
  BY AdditiveExists
<1> DEFINE b == [T \in SUBSET S |-> a[T] + c[T]]
<1>3. \A T \in SUBSET S : a[T] \in Int /\ c[T] \in Int
  BY <1>1, <1>2 DEF Additive
<1>4. b \in [SUBSET S -> Int] /\ b[{}] = 0
  BY <1>1, <1>2, <1>3 DEF Additive
<1>5. ASSUME NEW T \in SUBSET S, NEW x \in S \ T
      PROVE  b[T \cup {x}] = b[T] + k[x]
  <2>1. a[T \cup {x}] = a[T] + f[x] /\ c[T \cup {x}] = c[T] + g[x] /\ T \cup {x} \in SUBSET S
    BY <1>1, <1>2, <1>5 DEF Additive
  <2>2. a[T] \in Int /\ c[T] \in Int /\ f[x] \in Int /\ g[x] \in Int
    BY <1>3
  <2> QED BY <2>1, <2>2
<1>6. Additive(b, k, S)
  BY <1>4, <1>5 DEF Additive
<1>7. SumOver(f, S) = a[S] /\ SumOver(g, S) = c[S] /\ SumOver(k, S) = b[S]
  BY <1>1, <1>2, <1>6, SumOverIsAdditive
<1> QED BY <1>7

LEMMA SumOverTimes ==
  ASSUME NEW S, IsFiniteSet(S), NEW f \in [S -> Int], NEW m \in Int
  PROVE  SumOver([x \in S |-> m * f[x]], S) = m * SumOver(f, S)
<1> DEFINE k == [x \in S |-> m * f[x]]
<1>1. PICK a : Additive(a, f, S)
  BY AdditiveExists
<1> DEFINE b == [T \in SUBSET S |-> m * a[T]]
<1>2. \A T \in SUBSET S : a[T] \in Int
  BY <1>1 DEF Additive
<1>3. b \in [SUBSET S -> Int] /\ b[{}] = 0
  BY <1>1, <1>2 DEF Additive
<1>4. ASSUME NEW T \in SUBSET S, NEW x \in S \ T
      PROVE  b[T \cup {x}] = b[T] + k[x]
  <2>1. a[T \cup {x}] = a[T] + f[x] /\ T \cup {x} \in SUBSET S /\ a[T] \in Int /\ f[x] \in Int
    BY <1>1, <1>2, <1>4 DEF Additive
  <2>2. b[T \cup {x}] = m * (a[T] + f[x]) /\ b[T] = m * a[T] /\ k[x] = m * f[x]
    BY <2>1
  <2>3. \A p, q \in Int : m * (p + q) = m * p + m * q
    OBVIOUS
  <2> QED BY <2>1, <2>2, <2>3
<1>5. Additive(b, k, S)
  BY <1>3, <1>4 DEF Additive
<1> QED BY <1>1, <1>5, SumOverIsAdditive

\* What adds nothing may be left out.
LEMMA SumOverRest ==
  ASSUME NEW S, IsFiniteSet(S), NEW f \in [S -> Int], NEW D \in SUBSET S,
         \A x \in S \ D : f[x] = 0
  PROVE  SumOver(f, S) = SumOver(f, D)
<1>1. PICK a : Additive(a, f, S)
  BY AdditiveExists
<1> DEFINE b == [T \in SUBSET S |-> a[T \cap D]]
           d == [T \in SUBSET D |-> a[T]]
<1>2. b \in [SUBSET S -> Int] /\ b[{}] = 0
  BY <1>1 DEF Additive
<1>3. ASSUME NEW T \in SUBSET S, NEW x \in S \ T
      PROVE  b[T \cup {x}] = b[T] + f[x]
  <2>1. CASE x \in D
    <3>1. (T \cup {x}) \cap D = (T \cap D) \cup {x} /\ x \in S \ (T \cap D) /\ T \cap D \in SUBSET S
      BY <1>3, <2>1
    <3>2. a[(T \cap D) \cup {x}] = a[T \cap D] + f[x]
      BY <1>1, <3>1 DEF Additive
    <3>3. b[T \cup {x}] = a[(T \cup {x}) \cap D] /\ b[T] = a[T \cap D]
      BY <1>3
    <3> QED BY <3>1, <3>2, <3>3
  <2>2. CASE x \notin D
    <3>1. (T \cup {x}) \cap D = T \cap D /\ T \cap D \in SUBSET S /\ f[x] = 0
      BY <1>3, <2>2
    <3>2. a[T \cap D] \in Int
      BY <1>1, <3>1 DEF Additive
    <3>3. b[T \cup {x}] = a[(T \cup {x}) \cap D] /\ b[T] = a[T \cap D]
      BY <1>3
    <3>4. f[x] = 0 /\ b[T] \in Int /\ b[T \cup {x}] = b[T]
      BY <3>1, <3>2, <3>3
    <3> QED BY <3>4
  <2> QED BY <2>1, <2>2
<1>4. Additive(b, f, S)
  BY <1>2, <1>3 DEF Additive
<1>5. Additive(d, f, D) /\ IsFiniteSet(D)
  BY <1>1, FS_Subset DEF Additive
<1>6. SumOver(f, S) = b[S] /\ SumOver(f, D) = d[D]
  BY <1>4, <1>5, SumOverIsAdditive
<1>7. S \cap D = D
  OBVIOUS
<1> QED BY <1>6, <1>7

\* Amounts added up owner by owner are the amounts added up.
LEMMA SumOverOwners ==
  ASSUME NEW D, IsFiniteSet(D), NEW U, IsFiniteSet(U), NEW f \in [D -> Int], NEW B \in [D -> U]
  PROVE  LET theirs == [u \in U |-> SumOver(f, {i \in D : B[i] = u})]
         IN  theirs \in [U -> Int] /\ SumOver(theirs, U) = SumOver(f, D)
<1>1. \A T \in SUBSET D : SumOver(f, T) \in Int
  BY SumOverPart
<1> DEFINE Of(T, u) == {i \in T : B[i] = u}
           theirs(T) == [u \in U |-> SumOver(f, Of(T, u))]
           b == [T \in SUBSET D |-> SumOver(theirs(T), U)]
<1>2. \A T \in SUBSET D : theirs(T) \in [U -> Int]
  <2>1. ASSUME NEW T \in SUBSET D, NEW u \in U PROVE Of(T, u) \in SUBSET D
    OBVIOUS
  <2> HIDE DEF Of
  <2> QED BY <1>1, <2>1
<1>3. b \in [SUBSET D -> Int]
  <2> HIDE DEF theirs
  <2> QED BY <1>2, SumOverBound
<1>4. b[{}] = 0
  <2>1. \A u \in U : Of({}, u) = {}
    OBVIOUS
  <2>2. \A u \in U : theirs({})[u] = 0
    BY <2>1, SumOverPart
  <2>3. SumOver(theirs({}), U) = 0
    BY <2>2, SumOverZero
  <2> QED BY <2>3
<1>5. ASSUME NEW T \in SUBSET D, NEW x \in D \ T
      PROVE  b[T \cup {x}] = b[T] + f[x]
  <2> DEFINE V == T \cup {x}
  <2>1. V \in SUBSET D /\ B[x] \in U
    BY <1>5
  <2>2. \A u \in U \ {B[x]} : Of(V, u) = Of(T, u)
    OBVIOUS
  <2>3. Of(V, B[x]) = Of(T, B[x]) \cup {x} /\ Of(T, B[x]) \in SUBSET D /\ x \in D \ Of(T, B[x])
    BY <1>5
  <2> HIDE DEF Of
  <2>4. SumOver(f, Of(V, B[x])) = SumOver(f, Of(T, B[x])) + f[x]
    <3> DEFINE W == Of(T, B[x])
    <3>1. W \in SUBSET D /\ x \in D \ W /\ Of(V, B[x]) = W \cup {x}
      BY <2>3
    <3> HIDE DEF W
    <3>2. SumOver(f, W \cup {x}) = SumOver(f, W) + f[x]
      BY <3>1, SumOverPart
    <3> QED BY <3>1, <3>2 DEF W
  <2>5. theirs(V)[B[x]] - theirs(T)[B[x]] = f[x]
    <3>1. SumOver(f, Of(T, B[x])) \in Int /\ f[x] \in Int
      BY <2>3, <1>1
    <3> QED BY <2>1, <2>4, <3>1
  <2>6. \A u \in U \ {B[x]} : theirs(V)[u] = theirs(T)[u]
    BY <2>2
  <2>7. theirs(V) \in [U -> Int] /\ theirs(T) \in [U -> Int]
    BY <1>2, <2>1
  <2> HIDE DEF theirs
  <2>8. SumOver(theirs(V), U) = SumOver(theirs(T), U) + (theirs(V)[B[x]] - theirs(T)[B[x]])
    <3> DEFINE v == theirs(V)
               t == theirs(T)
               e == B[x]
    <3>1. e \in U /\ v \in [U -> Int] /\ t \in [U -> Int] /\ \A u \in U \ {e} : v[u] = t[u]
      BY <2>1, <2>6, <2>7
    <3> HIDE DEF v, t, e
    <3>2. SumOver(v, U) = SumOver(t, U) + (v[e] - t[e])
      BY <3>1, SumOverUpdate
    <3> QED BY <3>2 DEF v, t, e
  <2> QED BY <2>1, <2>5, <2>8
<1> HIDE DEF b
<1>6. Additive(b, f, D)
  BY <1>3, <1>4, <1>5 DEF Additive
<1>7. SumOver(f, D) = b[D]
  BY <1>6, SumOverIsAdditive
<1>8. theirs(D) = [u \in U |-> SumOver(f, {i \in D : B[i] = u})]
  OBVIOUS
<1>9. b[D] = SumOver(theirs(D), U) /\ theirs(D) \in [U -> Int]
  BY <1>2 DEF b
<1> HIDE DEF theirs
<1> QED BY <1>7, <1>8, <1>9

\* A whole divided in proportion gives out no more than the whole.
LEMMA SharesFit ==
  ASSUME NEW S, IsFiniteSet(S), NEW T \in SUBSET S, NEW f \in [S -> Nat], NEW g \in [S -> Nat],
         NEW r \in Nat \ {0}, NEW h \in Nat,
         \A x \in S : g[x] * r <= f[x] * h, SumOver(f, T) <= r
  PROVE  SumOver(g, T) \in Nat /\ SumOver(g, T) <= h
<1> DEFINE p == [x \in T |-> f[x]]
           q == [x \in T |-> g[x]]
           hp == [x \in T |-> h * p[x]]
           rq == [x \in T |-> r * q[x]]
           k == [x \in T |-> hp[x] - rq[x]]
<1>1. /\ IsFiniteSet(T) /\ p \in [T -> Int] /\ q \in [T -> Int]
      /\ (\A x \in T : f[x] = p[x] /\ p[x] \in Nat) /\ (\A x \in T : g[x] = q[x] /\ q[x] \in Nat)
  BY FS_Subset
<1>2. \A x \in T : q[x] * r <= p[x] * h
  OBVIOUS
<1> HIDE DEF p, q
<1>3. hp \in [T -> Int] /\ rq \in [T -> Int] /\ \A x \in T : rq[x] <= hp[x]
  <2>1. ASSUME NEW x \in T
        PROVE  h * p[x] \in Int /\ r * q[x] \in Int /\ r * q[x] <= h * p[x]
    <3>1. p[x] \in Nat /\ q[x] \in Nat /\ q[x] * r <= p[x] * h
      BY <1>1, <1>2
    <3> QED BY <3>1
  <2> QED BY <2>1
<1>8. SumOver(hp, T) = h * SumOver(p, T) /\ SumOver(rq, T) = r * SumOver(q, T)
  BY <1>1, SumOverTimes
<1> HIDE DEF hp, rq
<1>9. k \in [T -> Int] /\ \A x \in T : k[x] >= 0 /\ hp[x] = k[x] + rq[x]
  BY <1>3
<1> HIDE DEF k
<1>4. SumOver(hp, T) = SumOver(k, T) + SumOver(rq, T)
  BY <1>1, <1>3, <1>9, SumOverPlus
<1>5. SumOver(k, T) \in Int /\ SumOver(k, T) >= 0 /\ SumOver(p, T) \in Int /\ SumOver(q, T) \in Int /\ SumOver(q, T) >= 0
  BY <1>1, <1>9, SumOverBound
<1>6. SumOver(f, T) = SumOver(p, T) /\ SumOver(g, T) = SumOver(q, T)
  BY <1>1, SumOverSame
<1>7. \A a, b, n \in Int : a <= r /\ n >= 0 /\ h * a = n + r * b => b <= h
  <2> SUFFICES ASSUME NEW a \in Int, NEW b \in Int, a <= r, h * a >= r * b, b >= h + 1
               PROVE  FALSE
    OBVIOUS
  <2>1. h * a <= h * r
    OBVIOUS
  <2>2. r * b >= r * (h + 1)
    OBVIOUS
  <2>3. r * (h + 1) = h * r + r /\ h * a \in Int /\ r * b \in Int /\ h * r \in Int
    OBVIOUS
  <2> QED BY <2>1, <2>2, <2>3
<1>10. /\ SumOver(p, T) \in Int /\ SumOver(q, T) \in Int /\ SumOver(k, T) \in Int /\ SumOver(k, T) >= 0
       /\ SumOver(p, T) <= r /\ h * SumOver(p, T) = SumOver(k, T) + r * SumOver(q, T)
  BY <1>4, <1>5, <1>6, <1>8
<1>11. SumOver(q, T) <= h
  BY <1>7, <1>10
<1> QED BY <1>5, <1>6, <1>11

----------------------------------------------------------------------------
(* What one increment does to a table of rows.                             *)

\* An increment changes the row it names, in the column it names, by its amount.
LEMMA Increments ==
  ASSUME NEW U, NEW rows \in [U -> Row], NEW w \in U, NEW amount \in Int
  PROVE  /\ Credit(rows, w, amount) \in [U -> Row]
         /\ Debit(rows, w, amount) \in [U -> Row]
         /\ Hold(rows, w, amount) \in [U -> Row]
         /\ Free(rows, w, amount) \in [U -> Row]
         /\ \A u \in U :
              LET d == IF u = w THEN amount ELSE 0
              IN  /\ Credit(rows, w, amount)[u].balance = rows[u].balance + d
                  /\ Credit(rows, w, amount)[u].locked = rows[u].locked
                  /\ Debit(rows, w, amount)[u].balance = rows[u].balance - d
                  /\ Debit(rows, w, amount)[u].locked = rows[u].locked
                  /\ Hold(rows, w, amount)[u].balance = rows[u].balance
                  /\ Hold(rows, w, amount)[u].locked = rows[u].locked + d
                  /\ Free(rows, w, amount)[u].balance = rows[u].balance
                  /\ Free(rows, w, amount)[u].locked = rows[u].locked - d
BY DEF Credit, Debit, Hold, Free, Row

\* Only increments of balance change the total, each by its amount.
LEMMA IncrementTotals ==
  ASSUME NEW U, IsFiniteSet(U), NEW rows \in [U -> Row], NEW w \in U, NEW amount \in Int
  PROVE  /\ Total(rows) \in Int
         /\ Total(Credit(rows, w, amount)) = Total(rows) + amount
         /\ Total(Debit(rows, w, amount)) = Total(rows) - amount
         /\ Total(Hold(rows, w, amount)) = Total(rows)
         /\ Total(Free(rows, w, amount)) = Total(rows)
<1> DEFINE Balances(r) == [u \in U |-> r[u].balance]
<1>1. \A r \in [U -> Row] : Total(r) = SumOver(Balances(r), U)
                           /\ Balances(r) \in [U -> Int]
  BY DEF Total, Row
<1>2. Total(rows) \in Int
  BY <1>1, SumOverBound
<1>3. ASSUME NEW r \in [U -> Row], NEW d \in Int,
             \A u \in U : r[u].balance = rows[u].balance + (IF u = w THEN d ELSE 0)
      PROVE  Total(r) = Total(rows) + d
  <2>1. \A u \in U \ {w} : Balances(r)[u] = Balances(rows)[u]
    BY <1>3 DEF Row
  <2>2. Balances(r)[w] - Balances(rows)[w] = d
    BY <1>3 DEF Row
  <2>3. SumOver(Balances(r), U)
          = SumOver(Balances(rows), U) + (Balances(r)[w] - Balances(rows)[w])
    BY <1>1, <2>1, SumOverUpdate
  <2> QED BY <1>1, <2>2, <2>3
<1>4. Total(Credit(rows, w, amount)) = Total(rows) + amount
  BY <1>3, Increments
<1>5. Total(Debit(rows, w, amount)) = Total(rows) - amount
  <2> DEFINE r == Debit(rows, w, amount)
  <2>1. r \in [U -> Row] /\ \A u \in U : rows[u].balance \in Int
    BY Increments DEF Row
  <2>2. r[w].balance = rows[w].balance - amount
    BY Increments
  <2>3. \A u \in U : u # w => r[u] = rows[u]
    BY DEF Debit
  <2> HIDE DEF r
  <2>4. ASSUME NEW u \in U
        PROVE  r[u].balance = rows[u].balance + (IF u = w THEN -amount ELSE 0)
    <3>1. CASE u = w
      BY <2>1, <2>2, <3>1
    <3>2. CASE u # w
      BY <2>1, <2>3, <3>2
    <3> QED BY <3>1, <3>2
  <2>5. Total(r) = Total(rows) + (-amount)
    BY <2>1, <2>4, <1>3
  <2> QED BY <1>2, <2>5 DEF r
<1>6. ASSUME NEW r \in [U -> Row], \A u \in U : r[u].balance = rows[u].balance
      PROVE  Total(r) = Total(rows)
  <2>1. Balances(r) = Balances(rows)
    BY <1>6
  <2> QED BY <1>1, <2>1
<1>7. Total(Hold(rows, w, amount)) = Total(rows)
  <2>1. Hold(rows, w, amount) \in [U -> Row]
    BY Increments
  <2>2. \A u \in U : Hold(rows, w, amount)[u].balance = rows[u].balance
    BY DEF Hold, Row
  <2> QED BY <2>1, <2>2, <1>6
<1>8. Total(Free(rows, w, amount)) = Total(rows)
  <2>1. Free(rows, w, amount) \in [U -> Row]
    BY Increments
  <2>2. \A u \in U : Free(rows, w, amount)[u].balance = rows[u].balance
    BY DEF Free, Row
  <2> QED BY <2>1, <2>2, <1>6
<1> QED BY <1>2, <1>4, <1>5, <1>7, <1>8

\* Money that reaches a row and the platform: the tables stay tables and the
\* totals change by the amounts.
LEMMA CollectTotals ==
  ASSUME NEW U, IsFiniteSet(U), NEW rows \in [U -> Row], NEW b \in U, NEW p \in U,
         NEW y \in Int, NEW z \in Int
  PROVE  /\ Credit(Credit(rows, b, y), p, z) \in [U -> Row]
         /\ Total(Credit(Credit(rows, b, y), p, z)) = Total(rows) + y + z
<1> DEFINE s == Credit(rows, b, y)
<1>1. s \in [U -> Row]
  BY Increments
<1>2. Total(s) = Total(rows) + y /\ Total(rows) \in Int
  BY IncrementTotals
<1> HIDE DEF s
<1>3. Credit(s, p, z) \in [U -> Row]
  BY <1>1, Increments
<1>4. Total(Credit(s, p, z)) = Total(s) + z
  BY <1>1, IncrementTotals
<1> QED BY <1>1, <1>2, <1>3, <1>4 DEF s

\* Money that leaves one row and reaches another.
LEMMA MoveTotals ==
  ASSUME NEW U, IsFiniteSet(U), NEW rows \in [U -> Row], NEW a \in U, NEW b \in U,
         NEW x \in Int, NEW y \in Int
  PROVE  /\ Credit(Debit(rows, a, x), b, y) \in [U -> Row]
         /\ Total(Credit(Debit(rows, a, x), b, y)) = Total(rows) - x + y
<1> DEFINE d == Debit(rows, a, x)
<1>1. d \in [U -> Row]
  BY Increments
<1>2. Total(d) = Total(rows) - x /\ Total(rows) \in Int
  BY IncrementTotals
<1> HIDE DEF d
<1>3. Credit(d, b, y) \in [U -> Row]
  BY <1>1, Increments
<1>4. Total(Credit(d, b, y)) = Total(d) + y
  BY <1>1, IncrementTotals
<1> QED BY <1>1, <1>2, <1>3, <1>4 DEF d

\* A payment: what leaves one row and reaches another, and what the platform
\* takes of it.
LEMMA PaymentTotals ==
  ASSUME NEW U, IsFiniteSet(U), NEW rows \in [U -> Row], NEW a \in U, NEW b \in U, NEW p \in U,
         NEW x \in Int, NEW y \in Int, NEW z \in Int
  PROVE  /\ Credit(Credit(Debit(rows, a, x), b, y), p, z) \in [U -> Row]
         /\ Total(Credit(Credit(Debit(rows, a, x), b, y), p, z)) = Total(rows) - x + y + z
<1> DEFINE d == Debit(rows, a, x)
<1>1. d \in [U -> Row]
  BY Increments
<1>2. Total(d) = Total(rows) - x /\ Total(rows) \in Int
  BY IncrementTotals
<1> HIDE DEF d
<1>3. /\ Credit(Credit(d, b, y), p, z) \in [U -> Row]
      /\ Total(Credit(Credit(d, b, y), p, z)) = Total(d) + y + z
  BY <1>1, CollectTotals
<1> QED BY <1>1, <1>2, <1>3 DEF d

=============================================================================
