------------------------------ MODULE SumTheorems ------------------------------
(***************************************************************************)
(* Sums over finite sets, as the reports and the registry add seconds up:  *)
(* SumFunctionOnSet of the community module Functions, for functions into  *)
(* the natural numbers.  A sum is the value of a recursive function, so    *)
(* that function is shown to exist first; every fact then follows from a   *)
(* smallest set that would violate it.                                     *)
(***************************************************************************)
EXTENDS Integers, FiniteSets, Functions, FiniteSetTheorems, WellFoundedInduction, TLAPS

--------------------------------------------------------------------------------
(* Smallest and greatest numbers, smallest sets                            *)

LEMMA Smallest == ASSUME NEW S \in SUBSET Nat, S # {}
  PROVE \E m \in S : \A n \in S : m <= n
<1>1. PICK m \in S : \A n \in Nat : <<n, m>> \in OpToRel(<, Nat) => n \notin S
  BY NatLessThanWellFounded, WFMin, Zenon
<1>2. \A n \in S : ~(n < m)
  BY <1>1 DEF OpToRel
<1> QED BY <1>2

\* A nonempty set of subsets of a finite set has one that contains no other.
LEMMA SmallestSet ==
  ASSUME NEW S, IsFiniteSet(S), NEW C \in SUBSET (SUBSET S), C # {}
  PROVE  \E T \in C : IsFiniteSet(T) /\ \A U \in C : U \subseteq T => U = T
<1> DEFINE Sizes == {Cardinality(T) : T \in C}
<1>1. \A T \in C : IsFiniteSet(T) /\ Cardinality(T) \in Nat
  BY FS_Subset, FS_CardinalityType
<1>2. Sizes \in SUBSET Nat /\ Sizes # {}
  BY <1>1
<1>3. PICK m \in Sizes : \A n \in Sizes : m <= n
  <2> HIDE DEF Sizes
  <2> QED BY <1>2, Smallest
<1>4. PICK T \in C : Cardinality(T) = m
  BY <1>3
<1>5. ASSUME NEW U \in C, U \subseteq T PROVE U = T
  <2>1. Cardinality(T) <= Cardinality(U) /\ Cardinality(U) <= Cardinality(T)
    BY <1>1, <1>3, <1>4, <1>5, FS_Subset
  <2> QED BY <1>1, <1>5, <2>1, FS_Subset
<1> QED BY <1>1, <1>5

--------------------------------------------------------------------------------
(* The sum exists                                                          *)

Pick(T) == CHOOSE x \in T : TRUE
\* g holds the sum of f over every subset of S.
IsTotal(g, f, S) ==
  g = [T \in SUBSET S |-> IF T = {} THEN 0 ELSE f[Pick(T)] + g[T \ {Pick(T)}]]
Sigma(f, S) == (CHOOSE g : IsTotal(g, f, S))[S]

LEMMA SumIsTotal == ASSUME NEW f, NEW S PROVE SumFunctionOnSet(f, S) = Sigma(f, S)
BY DEF SumFunctionOnSet, FoldFunctionOnSet, MapThenFoldSet, IsTotal, Pick, Sigma

LEMMA TotalAt ==
  ASSUME NEW f, NEW S, NEW g, IsTotal(g, f, S), NEW T \in SUBSET S
  PROVE  g[T] = IF T = {} THEN 0 ELSE f[Pick(T)] + g[T \ {Pick(T)}]
BY DEF IsTotal

LEMMA Picked == ASSUME NEW T, T # {} PROVE Pick(T) \in T
BY DEF Pick

LEMMA TotalsAgree ==
  ASSUME NEW f, NEW S, NEW R, NEW g, NEW h, IsTotal(g, f, S), IsTotal(h, f, R),
         NEW V, IsFiniteSet(V), V \subseteq S, V \subseteq R
  PROVE  g[V] = h[V]
<1> DEFINE C == {T \in SUBSET V : g[T] # h[T]}
<1>1. ASSUME C # {} PROVE FALSE
  <2>1. C \in SUBSET (SUBSET V)
    OBVIOUS
  <2>2. PICK T \in C : \A U \in C : U \subseteq T => U = T
    <3> HIDE DEF C
    <3> QED BY <1>1, <2>1, SmallestSet
  <2>3. T \subseteq S /\ T \subseteq R /\ g[T] # h[T]
    BY <2>2
  <2>4. /\ g[T] = IF T = {} THEN 0 ELSE f[Pick(T)] + g[T \ {Pick(T)}]
        /\ h[T] = IF T = {} THEN 0 ELSE f[Pick(T)] + h[T \ {Pick(T)}]
    BY <2>3, TotalAt
  <2>5. T # {} /\ Pick(T) \in T
    BY <2>3, <2>4, Picked
  <2>6. T \ {Pick(T)} \notin C
    BY <2>2, <2>5
  <2>7. g[T \ {Pick(T)}] = h[T \ {Pick(T)}]
    BY <2>3, <2>6, <2>2
  <2> QED BY <2>3, <2>4, <2>5, <2>7
<1> QED BY <1>1

LEMMA TotalExists == ASSUME NEW f, NEW S, IsFiniteSet(S) PROVE \E g : IsTotal(g, f, S)
<1> DEFINE C == {T \in SUBSET S : ~ \E g : IsTotal(g, f, T)}
<1>1. ASSUME C # {} PROVE FALSE
  <2>1. C \in SUBSET (SUBSET S)
    OBVIOUS
  <2>2. PICK T \in C : IsFiniteSet(T) /\ \A U \in C : U \subseteq T => U = T
    <3> HIDE DEF C
    <3> QED BY <1>1, <2>1, SmallestSet
  <2> DEFINE h == [V \in SUBSET T |-> IF V = {} THEN 0 ELSE f[Pick(V)] + Sigma(f, V \ {Pick(V)})]
  <2>3. ASSUME NEW V \in SUBSET T, V # T PROVE h[V] = Sigma(f, V)
    <3>1. V \notin C /\ V \in SUBSET S
      BY <2>2, <2>3
    <3>2. \E g : IsTotal(g, f, V)
      BY <3>1
    <3> DEFINE g == CHOOSE g : IsTotal(g, f, V)
    <3>3. IsTotal(g, f, V) /\ Sigma(f, V) = g[V]
      BY <3>2 DEF Sigma
    <3> HIDE DEF g
    <3>4. g[V] = IF V = {} THEN 0 ELSE f[Pick(V)] + g[V \ {Pick(V)}]
      BY <3>3, TotalAt
    <3>5. CASE V = {}
      BY <3>3, <3>4, <3>5
    <3>6. CASE V # {}
      <4> DEFINE W == V \ {Pick(V)}
      <4>1. W \subseteq V /\ W # V
        BY <3>6, Picked
      <4>2. W \in SUBSET T /\ W # T /\ W \in SUBSET S
        BY <2>3, <3>1, <4>1
      <4>3. W \notin C
        BY <2>2, <4>2
      <4> HIDE DEF W
      <4>4. \E k : IsTotal(k, f, W)
        BY <4>2, <4>3
      <4> DEFINE k == CHOOSE k : IsTotal(k, f, W)
      <4>5. IsTotal(k, f, W) /\ Sigma(f, W) = k[W]
        BY <4>4 DEF Sigma
      <4> HIDE DEF k
      <4>6. IsFiniteSet(W)
        BY <2>2, <4>2, FS_Subset
      <4>7. k[W] = g[W]
        BY <3>3, <4>1, <4>5, <4>6, TotalsAgree
      <4> QED BY <3>3, <3>4, <3>6, <4>5, <4>7 DEF W
    <3> QED BY <3>5, <3>6
  <2>4. ASSUME NEW V \in SUBSET T
        PROVE  h[V] = IF V = {} THEN 0 ELSE f[Pick(V)] + h[V \ {Pick(V)}]
    <3>1. CASE V # {}
      <4>1. V \ {Pick(V)} \in SUBSET T /\ V \ {Pick(V)} # T
        BY <3>1, Picked
      <4>2. h[V \ {Pick(V)}] = Sigma(f, V \ {Pick(V)})
        BY <2>3, <4>1
      <4> QED BY <3>1, <4>2
    <3> QED BY <3>1
  <2>5. h = [V \in SUBSET T |-> h[V]]
    OBVIOUS
  <2> HIDE DEF h
  <2>6. IsTotal(h, f, T)
    BY <2>4, <2>5 DEF IsTotal
  <2> QED BY <2>2, <2>6
<1> QED BY <1>1

--------------------------------------------------------------------------------
(* What a sum is                                                           *)

LEMMA SumOfNone == ASSUME NEW f PROVE SumFunctionOnSet(f, {}) = 0
<1>1. IsFiniteSet({})
  BY FS_EmptySet
<1>2. PICK g : IsTotal(g, f, {})
  BY <1>1, TotalExists
<1> DEFINE h == CHOOSE h : IsTotal(h, f, {})
<1>3. IsTotal(h, f, {}) /\ SumFunctionOnSet(f, {}) = h[{}]
  BY <1>2, SumIsTotal DEF Sigma
<1> HIDE DEF h
<1> QED BY <1>3, TotalAt

LEMMA SumOfSome ==
  ASSUME NEW f, NEW S, IsFiniteSet(S), S # {}
  PROVE  SumFunctionOnSet(f, S) = f[Pick(S)] + SumFunctionOnSet(f, S \ {Pick(S)})
<1> DEFINE W == S \ {Pick(S)}
<1>1. IsFiniteSet(W) /\ W \subseteq S
  BY FS_Subset
<1>2. (\E g : IsTotal(g, f, S)) /\ \E g : IsTotal(g, f, W)
  <2> HIDE DEF W
  <2> QED BY <1>1, TotalExists
<1> DEFINE g == CHOOSE g : IsTotal(g, f, S)
           h == CHOOSE h : IsTotal(h, f, W)
<1>3. /\ IsTotal(g, f, S) /\ SumFunctionOnSet(f, S) = g[S]
      /\ IsTotal(h, f, W) /\ SumFunctionOnSet(f, W) = h[W]
  <2> HIDE DEF W
  <2> QED BY <1>2, SumIsTotal DEF Sigma
<1> HIDE DEF g, h
<1>4. g[S] = f[Pick(S)] + g[W]
  BY <1>3, TotalAt
<1>5. g[W] = h[W]
  <2> HIDE DEF W
  <2> QED BY <1>1, <1>3, TotalsAgree
<1> QED BY <1>3, <1>4, <1>5

\* Equal terms, equal sums.
LEMMA SumCongruent ==
  ASSUME NEW f, NEW h, NEW S, IsFiniteSet(S), \A x \in S : f[x] = h[x]
  PROVE  SumFunctionOnSet(f, S) = SumFunctionOnSet(h, S)
<1> DEFINE C == {T \in SUBSET S : SumFunctionOnSet(f, T) # SumFunctionOnSet(h, T)}
<1>1. ASSUME C # {} PROVE FALSE
  <2>1. C \in SUBSET (SUBSET S)
    OBVIOUS
  <2>2. PICK T \in C : IsFiniteSet(T) /\ \A U \in C : U \subseteq T => U = T
    <3> HIDE DEF C
    <3> QED BY <1>1, <2>1, SmallestSet
  <2>3. T # {}
    BY <2>2, SumOfNone
  <2>4. Pick(T) \in T
    BY <2>3, Picked
  <2>5. T \ {Pick(T)} \notin C
    BY <2>2, <2>4
  <2>6. SumFunctionOnSet(f, T \ {Pick(T)}) = SumFunctionOnSet(h, T \ {Pick(T)})
    BY <2>2, <2>5
  <2>7. /\ SumFunctionOnSet(f, T) = f[Pick(T)] + SumFunctionOnSet(f, T \ {Pick(T)})
        /\ SumFunctionOnSet(h, T) = h[Pick(T)] + SumFunctionOnSet(h, T \ {Pick(T)})
    BY <2>2, <2>3, SumOfSome
  <2> QED BY <2>2, <2>4, <2>6, <2>7
<1> QED BY <1>1

LEMMA SumIsNat ==
  ASSUME NEW f, NEW S, IsFiniteSet(S), \A x \in S : f[x] \in Nat
  PROVE  SumFunctionOnSet(f, S) \in Nat
<1> DEFINE C == {T \in SUBSET S : SumFunctionOnSet(f, T) \notin Nat}
<1>1. ASSUME C # {} PROVE FALSE
  <2>1. C \in SUBSET (SUBSET S)
    OBVIOUS
  <2>2. PICK T \in C : IsFiniteSet(T) /\ \A U \in C : U \subseteq T => U = T
    <3> HIDE DEF C
    <3> QED BY <1>1, <2>1, SmallestSet
  <2>3. T # {}
    <3>1. SumFunctionOnSet(f, {}) \in Nat
      <4>1. SumFunctionOnSet(f, {}) = 0
        BY SumOfNone
      <4> QED BY <4>1
    <3> QED BY <2>2, <3>1
  <2>4. Pick(T) \in T
    BY <2>3, Picked
  <2>5. T \ {Pick(T)} \notin C
    BY <2>2, <2>4
  <2>6. SumFunctionOnSet(f, T \ {Pick(T)}) \in Nat
    BY <2>2, <2>5
  <2>7. SumFunctionOnSet(f, T) = f[Pick(T)] + SumFunctionOnSet(f, T \ {Pick(T)})
    BY <2>2, <2>3, SumOfSome
  <2> QED BY <2>2, <2>4, <2>6, <2>7
<1> QED BY <1>1

\* Any term can be taken out first.
LEMMA SumTakesOut ==
  ASSUME NEW f, NEW S, IsFiniteSet(S), \A x \in S : f[x] \in Nat, NEW z \in S
  PROVE  SumFunctionOnSet(f, S) = f[z] + SumFunctionOnSet(f, S \ {z})
<1> DEFINE Sum(T) == SumFunctionOnSet(f, T)
           C == {T \in SUBSET S : \E x \in T : Sum(T) # f[x] + Sum(T \ {x})}
<1>0. \A T \in SUBSET S : IsFiniteSet(T) /\ Sum(T) \in Nat
  <2> SUFFICES ASSUME NEW T \in SUBSET S PROVE IsFiniteSet(T) /\ Sum(T) \in Nat
    OBVIOUS
  <2>1. IsFiniteSet(T)
    BY FS_Subset
  <2> QED BY <2>1, SumIsNat
<1>1. ASSUME C # {} PROVE FALSE
  <2>1. C \in SUBSET (SUBSET S)
    OBVIOUS
  <2>2. PICK T \in C : \A U \in C : U \subseteq T => U = T
    <3> HIDE DEF C
    <3> QED BY <1>1, <2>1, SmallestSet
  <2>3. PICK x \in T : Sum(T) # f[x] + Sum(T \ {x})
    BY <2>2
  <2> DEFINE p == Pick(T)
  <2>4. p \in T /\ p # x
    <3>1. p \in T
      BY <2>3, Picked
    <3>2. Sum(T) = f[p] + Sum(T \ {p})
      BY <1>0, <2>2, <2>3, SumOfSome
    <3> QED BY <2>3, <3>1, <3>2
  <2>5. Sum(T) = f[p] + Sum(T \ {p})
    BY <1>0, <2>2, <2>3, SumOfSome
  <2> HIDE DEF p, Sum
  <2>6. T \ {p} \notin C /\ T \ {x} \notin C
    BY <2>2, <2>3, <2>4
  <2>7. T \in SUBSET S /\ T \ {p} \in SUBSET S /\ T \ {x} \in SUBSET S
    BY <2>2
  <2>8. Sum(T \ {p}) = f[x] + Sum((T \ {p}) \ {x})
    BY <2>3, <2>4, <2>6, <2>7
  <2>9. Sum(T \ {x}) = f[p] + Sum((T \ {x}) \ {p})
    BY <2>3, <2>4, <2>6, <2>7
  <2>10. (T \ {p}) \ {x} = (T \ {x}) \ {p} /\ (T \ {x}) \ {p} \in SUBSET S
    BY <2>7
  <2>11. Sum((T \ {x}) \ {p}) \in Nat /\ f[p] \in Nat /\ f[x] \in Nat
    BY <1>0, <2>3, <2>4, <2>7, <2>10
  <2>12. Sum((T \ {p}) \ {x}) = Sum((T \ {x}) \ {p})
    BY <2>10
  <2> DEFINE rest == Sum((T \ {x}) \ {p})
  <2>13. /\ Sum(T \ {p}) = f[x] + rest /\ Sum(T \ {x}) = f[p] + rest
         /\ rest \in Nat /\ f[p] \in Nat /\ f[x] \in Nat
    BY <2>8, <2>9, <2>11, <2>12
  <2> HIDE DEF rest
  <2>14. f[p] + (f[x] + rest) = f[x] + (f[p] + rest)
    BY <2>13
  <2> QED BY <2>3, <2>5, <2>13, <2>14
<1> QED BY <1>1

\* One more term.
LEMMA SumAddsOne ==
  ASSUME NEW f, NEW S, IsFiniteSet(S), NEW z, z \notin S, \A x \in S \cup {z} : f[x] \in Nat
  PROVE  SumFunctionOnSet(f, S \cup {z}) = f[z] + SumFunctionOnSet(f, S)
<1> DEFINE T == S \cup {z}
<1>1. IsFiniteSet(T) /\ z \in T /\ T \ {z} = S /\ \A x \in T : f[x] \in Nat
  BY FS_AddElement
<1> HIDE DEF T
<1>2. SumFunctionOnSet(f, T) = f[z] + SumFunctionOnSet(f, T \ {z})
  BY <1>1, SumTakesOut
<1> QED BY <1>1, <1>2 DEF T

\* Two parts without a common term.
LEMMA SumOfParts ==
  ASSUME NEW f, NEW A, NEW B, IsFiniteSet(A), IsFiniteSet(B), A \cap B = {},
         \A x \in A \cup B : f[x] \in Nat
  PROVE  SumFunctionOnSet(f, A \cup B) = SumFunctionOnSet(f, A) + SumFunctionOnSet(f, B)
<1> DEFINE Sum(T) == SumFunctionOnSet(f, T)
           C == {T \in SUBSET B : Sum(A \cup T) # Sum(A) + Sum(T)}
<1>1. ASSUME C # {} PROVE FALSE
  <2>1. C \in SUBSET (SUBSET B)
    OBVIOUS
  <2>2. PICK T \in C : IsFiniteSet(T) /\ \A U \in C : U \subseteq T => U = T
    <3> HIDE DEF C
    <3> QED BY <1>1, <2>1, SmallestSet
  <2>a. T \subseteq B /\ Sum(A \cup T) # Sum(A) + Sum(T)
    BY <2>2
  <2>b. Sum(A) \in Nat
    BY SumIsNat
  <2>3. T # {}
    <3>1. A \cup {} = A /\ Sum({}) = 0
      BY SumOfNone
    <3> HIDE DEF Sum
    <3> QED BY <2>a, <2>b, <3>1
  <2>4. PICK z \in T : TRUE
    BY <2>3
  <2> DEFINE R == T \ {z}
  <2>5. R \in SUBSET B /\ R \notin C /\ IsFiniteSet(R)
    BY <2>2, <2>4, FS_Subset
  <2>6. Sum(A \cup R) = Sum(A) + Sum(R)
    BY <2>5
  <2>7. z \notin A /\ z \notin R /\ R \cup {z} = T /\ (A \cup R) \cup {z} = A \cup T
    BY <2>a, <2>4
  <2> HIDE DEF R
  <2>8. IsFiniteSet(A \cup R)
    BY <2>5, FS_Union
  <2>9. Sum(T) = f[z] + Sum(R)
    <3>1. \A x \in R \cup {z} : f[x] \in Nat
      BY <2>a, <2>7
    <3>2. SumFunctionOnSet(f, R \cup {z}) = f[z] + SumFunctionOnSet(f, R)
      BY <2>5, <2>7, <3>1, SumAddsOne
    <3> QED BY <2>7, <3>2
  <2>10. Sum(A \cup T) = f[z] + Sum(A \cup R)
    <3> DEFINE D == A \cup R
    <3>1. IsFiniteSet(D) /\ z \notin D /\ D \cup {z} = A \cup T
          /\ \A x \in D \cup {z} : f[x] \in Nat
      BY <2>a, <2>5, <2>7, <2>8
    <3> HIDE DEF D
    <3>2. SumFunctionOnSet(f, D \cup {z}) = f[z] + SumFunctionOnSet(f, D)
      BY <3>1, SumAddsOne
    <3> QED BY <3>1, <3>2 DEF D
  <2>11. f[z] \in Nat /\ Sum(R) \in Nat
    <3>1. \A x \in R : f[x] \in Nat
      BY <2>5
    <3> QED BY <2>a, <2>4, <2>5, <3>1, SumIsNat
  <2> HIDE DEF Sum
  <2> QED BY <2>a, <2>b, <2>6, <2>9, <2>10, <2>11
<1>2. B \notin C
  BY <1>1
<1> QED BY <1>2

--------------------------------------------------------------------------------
(* Sums over the domain of a function                                      *)

LEMMA SumOfEmpty == ASSUME NEW f, DOMAIN f = {} PROVE SumFunction(f) = 0
BY SumOfNone DEF SumFunction

LEMMA SumFunctionIsNat ==
  ASSUME NEW f, IsFiniteSet(DOMAIN f), \A x \in DOMAIN f : f[x] \in Nat
  PROVE  SumFunction(f) \in Nat
BY SumIsNat DEF SumFunction

\* A function with one more argument.
LEMMA SumGrows ==
  ASSUME NEW f, IsFiniteSet(DOMAIN f), NEW z, z \notin DOMAIN f,
         NEW h, DOMAIN h = DOMAIN f \cup {z}, \A x \in DOMAIN f : h[x] = f[x] /\ f[x] \in Nat,
         h[z] \in Nat
  PROVE  SumFunction(h) = SumFunction(f) + h[z]
<1> DEFINE S == DOMAIN f
<1>1. /\ IsFiniteSet(S) /\ z \notin S /\ DOMAIN h = S \cup {z}
      /\ \A x \in S \cup {z} : h[x] \in Nat
      /\ \A x \in S : h[x] = f[x] /\ f[x] \in Nat
  OBVIOUS
<1>2. SumFunction(f) = SumFunctionOnSet(f, S)
  BY DEF SumFunction
<1>3. SumFunction(h) = SumFunctionOnSet(h, S \cup {z})
  BY <1>1 DEF SumFunction
<1> HIDE DEF S
<1>4. SumFunctionOnSet(h, S \cup {z}) = h[z] + SumFunctionOnSet(h, S)
  BY <1>1, SumAddsOne
<1>5. SumFunctionOnSet(h, S) = SumFunctionOnSet(f, S) /\ SumFunctionOnSet(f, S) \in Nat
  BY <1>1, SumCongruent, SumIsNat
<1>6. SumFunctionOnSet(h, S) \in Nat /\ h[z] \in Nat
  BY <1>1, <1>5
<1> QED BY <1>2, <1>3, <1>4, <1>5, <1>6

\* A function that differs in one argument.
LEMMA SumChanges ==
  ASSUME NEW f, IsFiniteSet(DOMAIN f), NEW z \in DOMAIN f, NEW h, DOMAIN h = DOMAIN f,
         \A x \in DOMAIN f : f[x] \in Nat /\ h[x] \in Nat /\ (x # z => h[x] = f[x])
  PROVE  SumFunction(h) + f[z] = SumFunction(f) + h[z]
<1> DEFINE S == DOMAIN f
           R == S \ {z}
<1>1. /\ IsFiniteSet(S) /\ z \in S
      /\ \A x \in S : h[x] \in Nat
      /\ \A x \in S : f[x] \in Nat
  OBVIOUS
<1>2. IsFiniteSet(R) /\ \A x \in R : h[x] = f[x] /\ f[x] \in Nat
  BY FS_RemoveElement
<1>3. SumFunction(f) = SumFunctionOnSet(f, S) /\ SumFunction(h) = SumFunctionOnSet(h, S)
  BY DEF SumFunction
<1> HIDE DEF S
<1>4. /\ SumFunctionOnSet(f, S) = f[z] + SumFunctionOnSet(f, R)
      /\ SumFunctionOnSet(h, S) = h[z] + SumFunctionOnSet(h, R)
  BY <1>1, SumTakesOut
<1> HIDE DEF R
<1>5. SumFunctionOnSet(h, R) = SumFunctionOnSet(f, R) /\ SumFunctionOnSet(f, R) \in Nat
  BY <1>2, SumCongruent, SumIsNat
<1>6. SumFunctionOnSet(h, R) \in Nat /\ h[z] \in Nat /\ f[z] \in Nat
  BY <1>1, <1>5
<1> QED BY <1>3, <1>4, <1>5, <1>6

--------------------------------------------------------------------------------
(* Sums of sums                                                            *)

LEMMA SumOfZeros ==
  ASSUME NEW f, NEW S, IsFiniteSet(S), \A x \in S : f[x] = 0
  PROVE  SumFunctionOnSet(f, S) = 0
<1> DEFINE C == {T \in SUBSET S : SumFunctionOnSet(f, T) # 0}
<1>1. ASSUME C # {} PROVE FALSE
  <2>1. C \in SUBSET (SUBSET S)
    OBVIOUS
  <2>2. PICK T \in C : IsFiniteSet(T) /\ \A U \in C : U \subseteq T => U = T
    <3> HIDE DEF C
    <3> QED BY <1>1, <2>1, SmallestSet
  <2>3. T # {}
    BY <2>2, SumOfNone
  <2>4. Pick(T) \in T
    BY <2>3, Picked
  <2>5. T \ {Pick(T)} \notin C
    BY <2>2, <2>4
  <2>6. SumFunctionOnSet(f, T \ {Pick(T)}) = 0 /\ f[Pick(T)] = 0
    BY <2>2, <2>4, <2>5
  <2>7. SumFunctionOnSet(f, T) = f[Pick(T)] + SumFunctionOnSet(f, T \ {Pick(T)})
    BY <2>2, <2>3, SumOfSome
  <2> QED BY <2>2, <2>6, <2>7
<1> QED BY <1>1

\* Terms that are zero can be left out.
LEMMA SumOfNonzero ==
  ASSUME NEW f, NEW A, NEW B, IsFiniteSet(A), B \subseteq A,
         \A x \in A : f[x] \in Nat, \A x \in A \ B : f[x] = 0
  PROVE  SumFunctionOnSet(f, A) = SumFunctionOnSet(f, B)
<1> DEFINE Z == A \ B
<1>1. IsFiniteSet(B) /\ IsFiniteSet(Z)
  BY FS_Subset
<1>2. B \cap Z = {} /\ B \cup Z = A /\ \A x \in Z : f[x] = 0
  OBVIOUS
<1> HIDE DEF Z
<1>3. \A x \in B \cup Z : f[x] \in Nat
  BY <1>2
<1>4. SumFunctionOnSet(f, B \cup Z) = SumFunctionOnSet(f, B) + SumFunctionOnSet(f, Z)
  BY <1>1, <1>2, <1>3, SumOfParts
<1>5. SumFunctionOnSet(f, Z) = 0
  BY <1>1, <1>2, SumOfZeros
<1>6. SumFunctionOnSet(f, B) \in Nat
  BY <1>1, SumIsNat
<1>7. SumFunctionOnSet(f, A) = SumFunctionOnSet(f, B \cup Z)
  BY <1>2
<1> QED BY <1>4, <1>5, <1>6, <1>7

\* Adding term by term.
LEMMA SumOfTwo ==
  ASSUME NEW f, NEW g, NEW h, NEW S, IsFiniteSet(S),
         \A x \in S : f[x] \in Nat /\ g[x] \in Nat /\ h[x] = f[x] + g[x]
  PROVE  SumFunctionOnSet(h, S) = SumFunctionOnSet(f, S) + SumFunctionOnSet(g, S)
<1> DEFINE C == {T \in SUBSET S :
                   SumFunctionOnSet(h, T) # SumFunctionOnSet(f, T) + SumFunctionOnSet(g, T)}
<1>1. ASSUME C # {} PROVE FALSE
  <2>1. C \in SUBSET (SUBSET S)
    OBVIOUS
  <2>2. PICK T \in C : IsFiniteSet(T) /\ \A U \in C : U \subseteq T => U = T
    <3> HIDE DEF C
    <3> QED BY <1>1, <2>1, SmallestSet
  <2>3. T # {}
    <3>1. SumFunctionOnSet(f, {}) = 0 /\ SumFunctionOnSet(g, {}) = 0 /\ SumFunctionOnSet(h, {}) = 0
      BY SumOfNone
    <3>2. SumFunctionOnSet(h, {}) = SumFunctionOnSet(f, {}) + SumFunctionOnSet(g, {})
      BY <3>1
    <3>3. SumFunctionOnSet(h, T) # SumFunctionOnSet(f, T) + SumFunctionOnSet(g, T)
      BY <2>2
    <3> QED BY <3>2, <3>3, Zenon
  <2> DEFINE z == Pick(T)
             R == T \ {Pick(T)}
  <2>4. z \in S /\ z \in T /\ R \in SUBSET S /\ R \notin C /\ IsFiniteSet(R)
    BY <2>2, <2>3, Picked, FS_Subset
  <2>5. SumFunctionOnSet(h, R) = SumFunctionOnSet(f, R) + SumFunctionOnSet(g, R)
    BY <2>4
  <2>6. /\ SumFunctionOnSet(f, T) = f[z] + SumFunctionOnSet(f, R)
        /\ SumFunctionOnSet(g, T) = g[z] + SumFunctionOnSet(g, R)
        /\ SumFunctionOnSet(h, T) = h[z] + SumFunctionOnSet(h, R)
    BY <2>2, <2>3, SumOfSome
  <2> HIDE DEF z, R
  <2>7. SumFunctionOnSet(f, R) \in Nat /\ SumFunctionOnSet(g, R) \in Nat
    <3>1. \A x \in R : f[x] \in Nat /\ g[x] \in Nat
      BY <2>4
    <3> QED BY <2>4, <3>1, SumIsNat
  <2>8. f[z] \in Nat /\ g[z] \in Nat /\ h[z] = f[z] + g[z]
    BY <2>4
  <2>9. SumFunctionOnSet(h, T) # SumFunctionOnSet(f, T) + SumFunctionOnSet(g, T)
    BY <2>2
  <2> QED BY <2>5, <2>6, <2>7, <2>8, <2>9
<1> QED BY <1>1

\* The sums of a family of sets, no two of which meet.
LEMMA SumOfFamily ==
  ASSUME NEW f, NEW K, IsFiniteSet(K), NEW W, NEW h,
         \A k \in K : IsFiniteSet(W[k]) /\ h[k] = SumFunctionOnSet(f, W[k]),
         \A k \in K : \A x \in W[k] : f[x] \in Nat,
         \A k, l \in K : k # l => W[k] \cap W[l] = {},
         NEW V, \A x : x \in V <=> \E k \in K : x \in W[k]
  PROVE  IsFiniteSet(V) /\ SumFunctionOnSet(f, V) = SumFunctionOnSet(h, K)
<1> DEFINE All(T) == UNION {W[k] : k \in T}
           Good(T) == IsFiniteSet(All(T)) /\ SumFunctionOnSet(f, All(T)) = SumFunctionOnSet(h, T)
           C == {T \in SUBSET K : ~Good(T)}
<1>1. ASSUME C # {} PROVE FALSE
  <2>1. C \in SUBSET (SUBSET K)
    OBVIOUS
  <2>2. PICK T \in C : IsFiniteSet(T) /\ \A U \in C : U \subseteq T => U = T
    <3> HIDE DEF C
    <3> QED BY <1>1, <2>1, SmallestSet
  <2>3. T \subseteq K /\ ~Good(T)
    BY <2>2
  <2>4. T # {}
    <3>1. All({}) = {} /\ IsFiniteSet({})
      BY FS_EmptySet
    <3>2. SumFunctionOnSet(f, {}) = 0 /\ SumFunctionOnSet(h, {}) = 0
      BY SumOfNone
    <3>3. Good({})
      BY <3>1, <3>2
    <3> HIDE DEF Good
    <3> QED BY <2>3, <3>3
  <2> DEFINE z == Pick(T)
             R == T \ {Pick(T)}
  <2>5. z \in K /\ z \in T /\ z \notin R /\ R \in SUBSET K /\ R \notin C /\ R \cup {z} = T
    BY <2>3, <2>4, <2>2, Picked
  <2>6. IsFiniteSet(R)
    BY <2>2, FS_Subset
  <2>7. SumFunctionOnSet(h, T) = h[z] + SumFunctionOnSet(h, R)
    BY <2>2, <2>4, SumOfSome
  <2>8. Good(R)
    BY <2>5
  <2> HIDE DEF z, R, C
  <2>9. All(T) = All(R) \cup W[z] /\ All(R) \cap W[z] = {}
    <3>1. \A x : x \in All(T) <=> x \in All(R) \/ x \in W[z]
      BY <2>5
    <3>2. \A k \in R : W[k] \cap W[z] = {}
      BY <2>5
    <3>3. \A x : ~(x \in All(R) /\ x \in W[z])
      BY <3>2
    <3> HIDE DEF All
    <3> QED BY <3>1, <3>3
  <2>10. IsFiniteSet(W[z]) /\ h[z] = SumFunctionOnSet(f, W[z])
    BY <2>5
  <2>11. \A x \in All(R) \cup W[z] : f[x] \in Nat
    BY <2>5
  <2> DEFINE A == All(R)
             B == W[z]
  <2>12. /\ IsFiniteSet(A) /\ IsFiniteSet(B) /\ A \cap B = {} /\ \A x \in A \cup B : f[x] \in Nat
    BY <2>8, <2>9, <2>10, <2>11
  <2>13. SumFunctionOnSet(f, A) = SumFunctionOnSet(h, R)
    BY <2>8
  <2>14. All(T) = A \cup B
    BY <2>9
  <2>15. h[z] = SumFunctionOnSet(f, B)
    BY <2>10
  <2> HIDE DEF A, B, All
  <2>16. IsFiniteSet(A \cup B)
    BY <2>12, FS_Union
  <2>17. SumFunctionOnSet(f, A \cup B) = SumFunctionOnSet(f, A) + SumFunctionOnSet(f, B)
    BY <2>12, SumOfParts
  <2>18. SumFunctionOnSet(f, A) \in Nat /\ SumFunctionOnSet(f, B) \in Nat
    BY <2>12, SumIsNat
  <2> QED BY <2>3, <2>7, <2>13, <2>14, <2>15, <2>16, <2>17, <2>18
<1>2. Good(K)
  BY <1>1
<1>3. All(K) = V
  OBVIOUS
<1> QED BY <1>2, <1>3

================================================================================
