---------------------------- MODULE SumTheorems ----------------------------
(***************************************************************************)
(* What the proofs need to know of SumFunctionOnSet and SumFunction of the *)
(* community modules, for functions with natural values on finite sets.    *)
(*                                                                         *)
(* The induction theorems of the library take an operator, which no prover *)
(* here can instantiate.  Induction over finite sets is done instead with  *)
(* a least counterexample: a set of subsets of a finite set has a minimal  *)
(* member (Minimal), and that is a first-order fact.                       *)
(***************************************************************************)
EXTENDS Integers, FiniteSets, Functions, FiniteSetTheorems,
        WellFoundedInduction, TLAPS

\* Among any subsets of a finite set there is one that contains no other.
LEMMA Minimal ==
  ASSUME NEW S, IsFiniteSet(S), NEW T \in SUBSET (SUBSET S), T # {}
  PROVE  \E m \in T : \A u \in SUBSET m : u # m => u \notin T
<1>1. IsWellFoundedOn(StrictSubsetOrdering(S), FiniteSubsetsOf(S))
  BY FS_StrictSubsetOrderingWellFounded
<1>2. FiniteSubsetsOf(S) = SUBSET S
  BY FS_FiniteSubsetsOfFinite
<1>3. PICK m \in T : \A y \in T : ~ (<<y, m>> \in StrictSubsetOrdering(S))
  BY <1>1, <1>2, WFMin
<1>4. QED
  BY <1>3 DEF StrictSubsetOrdering

\* Among any natural numbers there is a smallest.
LEMMA Smallest ==
  ASSUME NEW T \in SUBSET Nat, T # {}
  PROVE  \E k \in T : \A i \in T : k <= i
<1>1. IsWellFoundedOn(OpToRel(<, Nat), Nat)
  BY NatLessThanWellFounded
<1>2. PICK k \in T : \A i \in T : ~ (<<i, k>> \in OpToRel(<, Nat))
  BY <1>1, WFMin
<1>3. \A i \in T : ~(i < k)
  BY <1>2 DEF OpToRel
<1>4. QED
  BY <1>3

-----------------------------------------------------------------------------
(* The recursion the library's fold is defined by has a solution. *)

Chosen(s) == CHOOSE x \in s : TRUE

\* g adds up f on every subset of T, taking out the chosen element first.
AddsUp(g, f, T) ==
    g = [s \in SUBSET T |-> IF s = {} THEN 0 ELSE f[Chosen(s)] + g[s \ {Chosen(s)}]]

LEMMA SumUnfolds ==
  ASSUME NEW f, NEW T
  PROVE  SumFunctionOnSet(f, T) = (CHOOSE g : AddsUp(g, f, T))[T]
BY DEF SumFunctionOnSet, FoldFunctionOnSet, MapThenFoldSet, AddsUp, Chosen

LEMMA ChosenIn == \A s : s # {} => Chosen(s) \in s
BY DEF Chosen

LEMMA AddsUpEquation ==
  ASSUME NEW g, NEW f, NEW T, AddsUp(g, f, T), NEW s \in SUBSET T
  PROVE  /\ s = {} => g[s] = 0
         /\ s # {} => g[s] = f[Chosen(s)] + g[s \ {Chosen(s)}]
<1>1. g[s] = IF s = {} THEN 0 ELSE f[Chosen(s)] + g[s \ {Chosen(s)}]
  BY DEF AddsUp
<1>2. QED
  BY <1>1

\* Two solutions agree wherever both are defined.
LEMMA AddsUpUnique ==
  ASSUME NEW f, NEW T, NEW U, IsFiniteSet(T), NEW g, NEW h,
         AddsUp(g, f, T), AddsUp(h, f, U)
  PROVE  \A s \in SUBSET (T \cap U) : g[s] = h[s]
<1> DEFINE Bad == {s \in SUBSET (T \cap U) : g[s] # h[s]}
<1>1. SUFFICES ASSUME Bad # {} PROVE FALSE
  OBVIOUS
<1>2. IsFiniteSet(T) /\ Bad \in SUBSET (SUBSET T)
  OBVIOUS
<1>3. PICK m \in Bad : \A u \in SUBSET m : u # m => u \notin Bad
  <2> HIDE DEF Bad
  <2> QED BY <1>1, <1>2, Minimal
<1>4. m \in SUBSET T /\ m \in SUBSET U /\ g[m] # h[m]
  OBVIOUS
<1>5. m # {}
  BY <1>4, AddsUpEquation
<1>6. Chosen(m) \in m
  BY <1>5, ChosenIn
<1>7. g[m \ {Chosen(m)}] = h[m \ {Chosen(m)}]
  <2>1. m \ {Chosen(m)} \in SUBSET m /\ m \ {Chosen(m)} # m
    BY <1>6
  <2>2. m \ {Chosen(m)} \notin Bad
    BY <1>3, <2>1
  <2>3. QED
    BY <2>1, <2>2, <1>4
<1>8. QED
  BY <1>4, <1>5, <1>7, AddsUpEquation

LEMMA AddsUpExists ==
  ASSUME NEW f, NEW S, IsFiniteSet(S)
  PROVE  \E g : AddsUp(g, f, S)
<1> DEFINE Bad == {T \in SUBSET S : ~ \E g : AddsUp(g, f, T)}
<1>1. SUFFICES ASSUME Bad # {} PROVE FALSE
  OBVIOUS
<1>2. PICK m \in Bad : \A u \in SUBSET m : u # m => u \notin Bad
  <2>1. Bad \in SUBSET (SUBSET S)
    OBVIOUS
  <2> HIDE DEF Bad
  <2> QED BY <1>1, <2>1, Minimal
<1>3. m \in SUBSET S
  OBVIOUS
<1> DEFINE below(u) == CHOOSE g : AddsUp(g, f, u)
<1>4. \A u \in SUBSET m : u # m => AddsUp(below(u), f, u)
  <2>1. TAKE u \in SUBSET m
  <2>2. HAVE u # m
  <2>3. \E g : AddsUp(g, f, u)
    BY <1>2, <1>3, <2>2
  <2>4. QED
    BY <2>3
<1>5. \A u \in SUBSET m : IsFiniteSet(u)
  BY <1>3, FS_Subset
<1> DEFINE value(u) == IF u = {} THEN 0
                       ELSE f[Chosen(u)] + below(u \ {Chosen(u)})[u \ {Chosen(u)}]
           G == [u \in SUBSET m |-> value(u)]
<1> HIDE DEF Bad, below
<1>6. ASSUME NEW u \in SUBSET m, u # {}
      PROVE  G[u \ {Chosen(u)}] = below(u \ {Chosen(u)})[u \ {Chosen(u)}]
  <2> DEFINE v == u \ {Chosen(u)}
             w == v \ {Chosen(v)}
  <2>1. Chosen(u) \in u /\ v \in SUBSET m /\ v # m
    BY <1>6, ChosenIn
  <2>2. AddsUp(below(v), f, v)
    BY <2>1, <1>4
  <2>3. CASE v = {}
    <3>1. below(v)[v] = 0
      BY <2>2, <2>3, AddsUpEquation
    <3>2. QED
      BY <2>1, <2>3, <3>1
  <2>4. CASE v # {}
    <3>1. Chosen(v) \in v /\ w \in SUBSET v /\ w \in SUBSET m /\ w # m
      BY <2>1, <2>4, ChosenIn
    <3>2. AddsUp(below(w), f, w)
      BY <3>1, <1>4
    <3>3. below(v)[w] = below(w)[w]
      <4>1. w \in SUBSET (v \cap w)
        BY <3>1
      <4>2. IsFiniteSet(v)
        BY <2>1, <1>5
      <4> HIDE DEF v, w
      <4>3. QED
        BY <4>1, <4>2, <2>2, <3>2, AddsUpUnique
    <3>4. below(v)[v] = f[Chosen(v)] + below(v)[w]
      <4> HIDE DEF v
      <4> QED BY <2>2, <2>4, AddsUpEquation
    <3>5. G[v] = f[Chosen(v)] + below(w)[w]
      BY <2>1, <2>4
    <3>6. QED
      BY <3>3, <3>4, <3>5
  <2>5. QED
    BY <2>3, <2>4
<1>7. AddsUp(G, f, m)
  <2>1. G = [u \in SUBSET m |-> IF u = {} THEN 0 ELSE f[Chosen(u)] + G[u \ {Chosen(u)}]]
    <3>1. \A u \in SUBSET m :
             G[u] = IF u = {} THEN 0 ELSE f[Chosen(u)] + G[u \ {Chosen(u)}]
      BY <1>6
    <3> HIDE DEF value
    <3>2. QED BY <3>1
  <2>2. QED
    BY <2>1 DEF AddsUp
<1>8. QED
  BY <1>2, <1>7 DEF Bad

-----------------------------------------------------------------------------
(* What is cited elsewhere. *)

LEMMA SumEmpty == ASSUME NEW f PROVE SumFunctionOnSet(f, {}) = 0
<1>1. PICK g : AddsUp(g, f, {}) /\ g = CHOOSE h : AddsUp(h, f, {})
  BY FS_EmptySet, AddsUpExists
<1>2. QED
  BY <1>1, SumUnfolds, AddsUpEquation

LEMMA SumChosen ==
  ASSUME NEW f, NEW T, IsFiniteSet(T), T # {}
  PROVE  SumFunctionOnSet(f, T) = f[Chosen(T)] + SumFunctionOnSet(f, T \ {Chosen(T)})
<1> DEFINE U == T \ {Chosen(T)}
<1>1. IsFiniteSet(U)
  BY FS_Subset
<1>2. PICK g : AddsUp(g, f, T) /\ g = CHOOSE h : AddsUp(h, f, T)
  BY AddsUpExists
<1>3. PICK k : AddsUp(k, f, U) /\ k = CHOOSE h : AddsUp(h, f, U)
  BY <1>1, AddsUpExists
<1>4. g[T] = f[Chosen(T)] + g[U]
  BY <1>2, AddsUpEquation
<1>5. g[U] = k[U]
  <2>1. U \in SUBSET (T \cap U)
    OBVIOUS
  <2> HIDE DEF U
  <2>2. QED
    BY <2>1, <1>2, <1>3, AddsUpUnique
<1>6. SumFunctionOnSet(f, T) = g[T] /\ SumFunctionOnSet(f, U) = k[U]
  BY <1>2, <1>3, SumUnfolds
<1>7. QED
  BY <1>4, <1>5, <1>6

LEMMA SumNat ==
  ASSUME NEW f, NEW T, IsFiniteSet(T), \A x \in T : f[x] \in Nat
  PROVE  SumFunctionOnSet(f, T) \in Nat
<1> DEFINE Bad == {s \in SUBSET T : SumFunctionOnSet(f, s) \notin Nat}
<1>1. SUFFICES ASSUME Bad # {} PROVE FALSE
  OBVIOUS
<1>2. PICK m \in Bad : \A u \in SUBSET m : u # m => u \notin Bad
  <2>1. Bad \in SUBSET (SUBSET T)
    OBVIOUS
  <2> HIDE DEF Bad
  <2> QED BY <1>1, <2>1, Minimal
<1>3. m \in SUBSET T /\ SumFunctionOnSet(f, m) \notin Nat
  OBVIOUS
<1>4. m # {}
  BY <1>3, SumEmpty
<1>5. Chosen(m) \in m
  BY <1>4, ChosenIn
<1>6. SumFunctionOnSet(f, m \ {Chosen(m)}) \in Nat
  BY <1>2, <1>3, <1>5
<1>7. IsFiniteSet(m)
  BY <1>3, FS_Subset
<1>8. SumFunctionOnSet(f, m) = f[Chosen(m)] + SumFunctionOnSet(f, m \ {Chosen(m)})
  BY <1>4, <1>7, SumChosen
<1>9. QED
  BY <1>3, <1>5, <1>6, <1>8

\* Any member may be the one that is taken out first.
LEMMA SumStep ==
  ASSUME NEW f, NEW T, IsFiniteSet(T), \A y \in T : f[y] \in Nat, NEW x \in T
  PROVE  SumFunctionOnSet(f, T) = f[x] + SumFunctionOnSet(f, T \ {x})
<1> DEFINE Splits(s, z) == SumFunctionOnSet(f, s) = f[z] + SumFunctionOnSet(f, s \ {z})
           Bad == {s \in SUBSET T : \E z \in s : ~Splits(s, z)}
<1>1. SUFFICES ASSUME Bad # {} PROVE FALSE
  OBVIOUS
<1>2. PICK m \in Bad : \A u \in SUBSET m : u # m => u \notin Bad
  <2>1. Bad \in SUBSET (SUBSET T)
    OBVIOUS
  <2> HIDE DEF Bad
  <2> QED BY <1>1, <2>1, Minimal
<1>3. m \in SUBSET T /\ IsFiniteSet(m)
  BY FS_Subset
<1>4. PICK z \in m : ~Splits(m, z)
  OBVIOUS
<1> DEFINE c == Chosen(m)
<1>5. c \in m
  BY <1>4, ChosenIn
<1>6. SumFunctionOnSet(f, m) = f[c] + SumFunctionOnSet(f, m \ {c})
  BY <1>3, <1>4, SumChosen
<1>7. z # c
  BY <1>4, <1>6
<1>8. Splits(m \ {c}, z) /\ Splits(m \ {z}, c)
  <2>1. m \ {c} \notin Bad /\ m \ {z} \notin Bad
    BY <1>2, <1>4, <1>5
  <2>2. m \ {c} \in SUBSET T /\ m \ {z} \in SUBSET T /\ z \in m \ {c} /\ c \in m \ {z}
    BY <1>3, <1>4, <1>5, <1>7
  <2> HIDE DEF c, Splits
  <2>3. QED
    BY <2>1, <2>2
<1>9. /\ SumFunctionOnSet(f, (m \ {c}) \ {z}) \in Nat
      /\ f[c] \in Nat /\ f[z] \in Nat
  <2>1. IsFiniteSet((m \ {c}) \ {z})
    BY <1>3, FS_Subset
  <2>2. \A y \in (m \ {c}) \ {z} : f[y] \in Nat
    BY <1>3
  <2> HIDE DEF c
  <2>3. QED
    BY <2>1, <2>2, <1>3, <1>4, <1>5, SumNat
<1>10. (m \ {c}) \ {z} = (m \ {z}) \ {c}
  OBVIOUS
<1>11. QED
  <2> HIDE DEF c
  <2> QED BY <1>4, <1>6, <1>8, <1>9, <1>10

LEMMA SumEqual ==
  ASSUME NEW f, NEW g, NEW T, IsFiniteSet(T), \A x \in T : f[x] = g[x]
  PROVE  SumFunctionOnSet(f, T) = SumFunctionOnSet(g, T)
<1> DEFINE Bad == {s \in SUBSET T : SumFunctionOnSet(f, s) # SumFunctionOnSet(g, s)}
<1>1. SUFFICES ASSUME Bad # {} PROVE FALSE
  OBVIOUS
<1>2. PICK m \in Bad : \A u \in SUBSET m : u # m => u \notin Bad
  <2>1. Bad \in SUBSET (SUBSET T)
    OBVIOUS
  <2> HIDE DEF Bad
  <2> QED BY <1>1, <2>1, Minimal
<1>3. m \in SUBSET T /\ SumFunctionOnSet(f, m) # SumFunctionOnSet(g, m)
  OBVIOUS
<1>4. m # {}
  BY <1>3, SumEmpty
<1>5. Chosen(m) \in m
  BY <1>4, ChosenIn
<1>6. SumFunctionOnSet(f, m \ {Chosen(m)}) = SumFunctionOnSet(g, m \ {Chosen(m)})
  BY <1>2, <1>3, <1>5
<1>7. IsFiniteSet(m)
  BY <1>3, FS_Subset
<1>8. QED
  BY <1>3, <1>4, <1>5, <1>6, <1>7, SumChosen

\* Changing one value changes the sum by as much.
LEMMA SumOneChanged ==
  ASSUME NEW f, NEW g, NEW T, IsFiniteSet(T), NEW x \in T,
         \A y \in T : f[y] \in Nat /\ g[y] \in Nat,
         \A y \in T \ {x} : f[y] = g[y]
  PROVE  SumFunctionOnSet(g, T) + f[x] = SumFunctionOnSet(f, T) + g[x]
<1>1. IsFiniteSet(T \ {x})
  BY FS_Subset
<1>2. SumFunctionOnSet(f, T \ {x}) = SumFunctionOnSet(g, T \ {x})
  BY <1>1, SumEqual
<1>3. SumFunctionOnSet(f, T \ {x}) \in Nat
  BY <1>1, SumNat
<1>4. /\ SumFunctionOnSet(f, T) = f[x] + SumFunctionOnSet(f, T \ {x})
      /\ SumFunctionOnSet(g, T) = g[x] + SumFunctionOnSet(g, T \ {x})
  BY SumStep
<1>5. QED
  BY <1>2, <1>3, <1>4

\* Moving n from one place to another leaves the sum as it is.
LEMMA SumMoved ==
  ASSUME NEW f, NEW g, NEW T, IsFiniteSet(T), NEW x \in T, NEW y \in T, x # y,
         \A z \in T : f[z] \in Nat /\ g[z] \in Nat,
         \A z \in T \ {x, y} : f[z] = g[z],
         g[x] + g[y] = f[x] + f[y]
  PROVE  SumFunctionOnSet(g, T) = SumFunctionOnSet(f, T)
<1>1. /\ IsFiniteSet(T \ {x}) /\ y \in T \ {x}
  BY FS_Subset
<1>2. /\ SumFunctionOnSet(f, T) = f[x] + SumFunctionOnSet(f, T \ {x})
      /\ SumFunctionOnSet(g, T) = g[x] + SumFunctionOnSet(g, T \ {x})
  BY SumStep
<1>3. SumFunctionOnSet(g, T \ {x}) + f[y] = SumFunctionOnSet(f, T \ {x}) + g[y]
  <2>1. \A z \in T \ {x} : f[z] \in Nat /\ g[z] \in Nat
    OBVIOUS
  <2>2. \A z \in (T \ {x}) \ {y} : f[z] = g[z]
    OBVIOUS
  <2>3. QED
    BY <1>1, <2>1, <2>2, SumOneChanged
<1>4. /\ SumFunctionOnSet(g, T \ {x}) \in Nat
      /\ SumFunctionOnSet(f, T \ {x}) \in Nat
  BY <1>1, SumNat
<1>5. QED
  BY <1>2, <1>3, <1>4

LEMMA SumZero ==
  ASSUME NEW f, NEW T, IsFiniteSet(T), \A x \in T : f[x] = 0
  PROVE  SumFunctionOnSet(f, T) = 0
<1> DEFINE Bad == {s \in SUBSET T : SumFunctionOnSet(f, s) # 0}
<1>1. SUFFICES ASSUME Bad # {} PROVE FALSE
  OBVIOUS
<1>2. PICK m \in Bad : \A u \in SUBSET m : u # m => u \notin Bad
  <2>1. Bad \in SUBSET (SUBSET T)
    OBVIOUS
  <2> HIDE DEF Bad
  <2> QED BY <1>1, <2>1, Minimal
<1>3. m \in SUBSET T /\ SumFunctionOnSet(f, m) # 0
  OBVIOUS
<1>4. m # {}
  BY <1>3, SumEmpty
<1>5. Chosen(m) \in m
  BY <1>4, ChosenIn
<1>6. SumFunctionOnSet(f, m \ {Chosen(m)}) = 0
  BY <1>2, <1>3, <1>5
<1>7. IsFiniteSet(m)
  BY <1>3, FS_Subset
<1>8. QED
  BY <1>3, <1>4, <1>5, <1>6, <1>7, SumChosen

\* One value is at most the sum, and so are two.
LEMMA SumBounds ==
  ASSUME NEW f, NEW T, IsFiniteSet(T), \A z \in T : f[z] \in Nat, NEW x \in T
  PROVE  /\ f[x] <= SumFunctionOnSet(f, T)
         /\ \A y \in T \ {x} : f[x] + f[y] <= SumFunctionOnSet(f, T)
<1>1. IsFiniteSet(T \ {x}) /\ SumFunctionOnSet(f, T \ {x}) \in Nat
  BY FS_Subset, SumNat
<1>2. SumFunctionOnSet(f, T) = f[x] + SumFunctionOnSet(f, T \ {x})
  BY SumStep
<1>3. ASSUME NEW y \in T \ {x}
      PROVE  f[x] + f[y] <= SumFunctionOnSet(f, T)
  <2>1. SumFunctionOnSet(f, T \ {x}) = f[y] + SumFunctionOnSet(f, (T \ {x}) \ {y})
    BY <1>1, SumStep
  <2>2. SumFunctionOnSet(f, (T \ {x}) \ {y}) \in Nat
    BY <1>1, FS_Subset, SumNat
  <2>3. QED
    BY <1>2, <2>1, <2>2
<1>4. f[x] <= SumFunctionOnSet(f, T)
  BY <1>1, <1>2
<1>5. QED
  BY <1>3, <1>4

\* The numbers 1 .. n, renamed one to one, are n.
LEMMA CountList ==
  ASSUME NEW n \in Nat, NEW h, \A i, j \in 1 .. n : h[i] = h[j] => i = j,
         NEW S, \A x : x \in S <=> \E i \in 1 .. n : x = h[i]
  PROVE  IsFiniteSet(S) /\ Cardinality(S) = n
<1> DEFINE k == [i \in 1 .. n |-> h[i]]
<1>1. k \in [1 .. n -> S]
  OBVIOUS
<1>2. \A i, j \in 1 .. n : k[i] = k[j] => i = j
  OBVIOUS
<1>3. \A s \in S : \E i \in 1 .. n : k[i] = s
  OBVIOUS
<1>4. k \in Bijection(1 .. n, S)
  BY <1>1, <1>2, <1>3 DEF Bijection, Injection, Surjection, IsInjective
<1>5. ExistsBijection(1 .. n, S)
  BY <1>4 DEF ExistsBijection
<1>6. IsFiniteSet(1 .. n)
  BY FS_Interval
<1>7. IsFiniteSet(S)
  BY <1>5, <1>6, FS_Bijection
<1> QED
  BY <1>5, <1>7, FS_CountingElements

\* Adding k to each value on a part adds k to the sum for each of its members.
LEMMA SumAddedOn ==
  ASSUME NEW f, NEW g, NEW T, IsFiniteSet(T), NEW M \in SUBSET T, NEW k \in Nat,
         \A x \in T : f[x] \in Nat /\ g[x] \in Nat,
         \A x \in M : g[x] = f[x] + k,
         \A x \in T \ M : g[x] = f[x]
  PROVE  SumFunctionOnSet(g, T) = SumFunctionOnSet(f, T) + k * Cardinality(M)
<1> DEFINE Adds(s) == SumFunctionOnSet(g, s)
                        = SumFunctionOnSet(f, s) + k * Cardinality(M \cap s)
           Bad == {s \in SUBSET T : ~Adds(s)}
<1>1. SUFFICES ASSUME Bad # {} PROVE FALSE
  <2>1. M \cap T = M
    OBVIOUS
  <2> QED
    BY <1>1, <2>1
<1>2. PICK m \in Bad : \A u \in SUBSET m : u # m => u \notin Bad
  <2>1. Bad \in SUBSET (SUBSET T)
    OBVIOUS
  <2> HIDE DEF Bad
  <2> QED
    BY <1>1, <2>1, Minimal
<1>3. m \in SUBSET T /\ ~Adds(m)
  OBVIOUS
<1>4. m # {}
  <2>1. k * Cardinality({}) = 0
    BY FS_EmptySet
  <2>2. SumFunctionOnSet(f, {}) = 0 /\ SumFunctionOnSet(g, {}) = 0
    BY SumEmpty
  <2>3. M \cap {} = {}
    OBVIOUS
  <2>4. Adds({})
    BY <2>1, <2>2, <2>3
  <2> QED
    BY <1>3, <2>4
<1>5. PICK x : x \in m
  BY <1>4
<1>6. Adds(m \ {x})
  BY <1>2, <1>3, <1>5
<1>7. /\ IsFiniteSet(m) /\ IsFiniteSet(m \ {x}) /\ IsFiniteSet(M \cap (m \ {x}))
  BY <1>3, FS_Subset
<1>8. /\ SumFunctionOnSet(f, m) = f[x] + SumFunctionOnSet(f, m \ {x})
      /\ SumFunctionOnSet(g, m) = g[x] + SumFunctionOnSet(g, m \ {x})
      /\ SumFunctionOnSet(f, m \ {x}) \in Nat
  BY <1>3, <1>5, <1>7, SumStep, SumNat
<1> DEFINE c == Cardinality(M \cap (m \ {x}))
<1>9. c \in Nat
  BY <1>7, FS_CardinalityType
<1>10. Cardinality(M \cap m) = IF x \in M THEN c + 1 ELSE c
  <2>1. CASE x \in M
    <3>1. M \cap m = (M \cap (m \ {x})) \cup {x} /\ x \notin M \cap (m \ {x})
      BY <1>5, <2>1
    <3> QED
      BY <1>7, <2>1, <3>1, FS_AddElement
  <2>2. CASE x \notin M
    <3>1. M \cap m = M \cap (m \ {x})
      BY <2>2
    <3> QED
      BY <2>2, <3>1
  <2> QED
    BY <2>1, <2>2
<1>11. f[x] \in Nat /\ (x \in M => g[x] = f[x] + k) /\ (x \notin M => g[x] = f[x])
  BY <1>3, <1>5
<1>12. k * (c + 1) = k * c + k /\ k * c \in Nat
  BY <1>9
<1> HIDE DEF c, Bad
<1>13. SumFunctionOnSet(g, m \ {x}) = SumFunctionOnSet(f, m \ {x}) + k * c
  BY <1>6 DEF c
<1> QED
  <2>1. CASE x \in M
    <3>1. SumFunctionOnSet(g, m) = SumFunctionOnSet(f, m) + k * (c + 1)
      BY <1>8, <1>11, <1>12, <1>13, <2>1
    <3> QED
      BY <1>3, <1>10, <2>1, <3>1
  <2>2. CASE x \notin M
    <3>1. SumFunctionOnSet(g, m) = SumFunctionOnSet(f, m) + k * c
      BY <1>8, <1>11, <1>12, <1>13, <2>2
    <3> QED
      BY <1>3, <1>10, <2>2, <3>1
  <2> QED
    BY <2>1, <2>2
=============================================================================
