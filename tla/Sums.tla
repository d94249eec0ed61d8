-------------------------------- MODULE Sums --------------------------------
(***************************************************************************)
(* Facts about the sum of a function over a finite set, which is defined   *)
(* by recursion on the set: MapThenSumSet.  Induction is on the subsets of *)
(* the set, as the choice of a smallest subset for which a claim fails.    *)
(***************************************************************************)
EXTENDS Integers, FiniteSetsExt, FiniteSetTheorems, WellFoundedInduction, TLAPS

SumOf(f, S) == MapThenSumSet(LAMBDA x : f[x], S)

-----------------------------------------------------------------------------
(* The recursion that defines the sum of f over S is solved by g.           *)

First(U) == CHOOSE x \in U : TRUE
Body(f, g, U) == IF U = {} THEN 0 ELSE f[First(U)] + g[U \ {First(U)}]
Solves(g, f, S) == g = [U \in SUBSET S |-> Body(f, g, U)]
Solution(f, S) == CHOOSE g : Solves(g, f, S)

LEMMA SumIs == ASSUME NEW f, NEW S PROVE SumOf(f, S) = Solution(f, S)[S]
BY DEF SumOf, MapThenSumSet, MapThenFoldSet, Solution, Solves, Body, First

LEMMA FirstIn == ASSUME NEW U, U # {} PROVE First(U) \in U
BY DEF First

(* Any non-empty set of subsets of a finite set has a minimal one.          *)
LEMMA Minimal ==
  ASSUME NEW S, IsFiniteSet(S), NEW B \in SUBSET SUBSET S, B # {}
  PROVE  \E U \in B : \A V \in SUBSET U : V # U => V \notin B
<1>1. IsWellFoundedOn(StrictSubsetOrdering(S), SUBSET S)
  BY FS_StrictSubsetOrderingWellFounded, FS_FiniteSubsetsOfFinite
<1>2. PICK U \in B : \A V \in B : ~ (<<V, U>> \in StrictSubsetOrdering(S))
  BY <1>1, WFMin
<1>3. ASSUME NEW V \in SUBSET U, V # U, V \in B
      PROVE  FALSE
  <2>1. <<V, U>> \in (SUBSET S) \X (SUBSET S)
    OBVIOUS
  <2>2. <<V, U>> \in StrictSubsetOrdering(S)
    BY <1>3, <2>1 DEF StrictSubsetOrdering
  <2> QED
    BY <1>2, <1>3, <2>2
<1> QED
  BY <1>3

(* Two solutions agree wherever their functions do.                         *)
LEMMA SolutionsAgree ==
  ASSUME NEW f, NEW g, NEW S, Solves(g, f, S),
         NEW e, NEW h, NEW T, Solves(h, e, T),
         NEW W, W \subseteq S, W \subseteq T, IsFiniteSet(W),
         \A x \in W : f[x] = e[x]
  PROVE  g[W] = h[W]
<1> DEFINE B == {U \in SUBSET W : g[U] # h[U]}
<1>1. SUFFICES ASSUME B # {} PROVE FALSE
  OBVIOUS
<1>2. PICK U \in B : \A V \in SUBSET U : V # U => V \notin B
  <2>1. B \in SUBSET SUBSET W
    OBVIOUS
  <2> HIDE DEF B
  <2> QED
    BY <1>1, <2>1, Minimal
<1>3. g[U] = Body(f, g, U) /\ h[U] = Body(e, h, U)
  BY DEF Solves
<1>4. CASE U = {}
  BY <1>3, <1>4 DEF Body
<1>5. CASE U # {}
  <2>1. First(U) \in U
    BY <1>5, FirstIn
  <2>2. g[U \ {First(U)}] = h[U \ {First(U)}]
    BY <1>2, <2>1
  <2> QED
    BY <1>3, <1>5, <2>1, <2>2 DEF Body
<1> QED
  BY <1>4, <1>5

LEMMA SolutionExists ==
  ASSUME NEW f, NEW S, IsFiniteSet(S)
  PROVE  Solves(Solution(f, S), f, S)
<1> DEFINE B == {T \in SUBSET S : ~ \E g : Solves(g, f, T)}
<1>1. ASSUME B # {} PROVE FALSE
  <2>1. PICK T \in B : \A V \in SUBSET T : V # T => V \notin B
    <3>1. B \in SUBSET SUBSET S
      OBVIOUS
    <3> HIDE DEF B
    <3> QED
      BY <1>1, <3>1, Minimal
  <2>2. \A V \in SUBSET T : V # T => Solves(Solution(f, V), f, V)
    BY <2>1 DEF Solution
  <2> DEFINE below(U) == Solution(f, U \ {First(U)})[U \ {First(U)}]
             g == [U \in SUBSET T |-> IF U = {} THEN 0 ELSE f[First(U)] + below(U)]
  <2>3. ASSUME NEW U \in SUBSET T, U # {}
        PROVE  g[U \ {First(U)}] = below(U)
    <3> DEFINE V == U \ {First(U)}
    <3>1. V \in SUBSET T /\ V # T
      BY <2>3, FirstIn
    <3>2. Solves(Solution(f, V), f, V)
      BY <2>2, <3>1
    <3>3. Solution(f, V)[V] = Body(f, Solution(f, V), V)
      BY <3>2 DEF Solves
    <3>4. CASE V = {}
      BY <3>1, <3>3, <3>4 DEF Body
    <3>5. CASE V # {}
      <4> DEFINE W == V \ {First(V)}
      <4>1. W \in SUBSET T /\ W # T /\ W \subseteq V
        BY <3>1
      <4>2. Solves(Solution(f, W), f, W)
        BY <2>2, <4>1
      <4>3. IsFiniteSet(W)
        BY <4>1, FS_Subset
      <4> HIDE DEF W
      <4>4. Solution(f, W)[W] = Solution(f, V)[W]
        BY <3>2, <4>1, <4>2, <4>3, SolutionsAgree
      <4>5. Solution(f, V)[V] = f[First(V)] + Solution(f, V)[W]
        BY <3>3, <3>5 DEF Body, W
      <4>6. g[V] = f[First(V)] + Solution(f, W)[W]
        BY <3>1, <3>5 DEF W
      <4> QED
        BY <4>4, <4>5, <4>6
    <3> QED
      BY <3>4, <3>5
  <2>4. g = [U \in SUBSET T |-> Body(f, g, U)]
    <3>1. ASSUME NEW U \in SUBSET T PROVE g[U] = Body(f, g, U)
      <4>1. CASE U = {}
        BY <4>1 DEF Body
      <4>2. CASE U # {}
        <5>1. g[U] = f[First(U)] + below(U)
          BY <4>2
        <5>2. g[U \ {First(U)}] = below(U)
          BY <2>3, <4>2
        <5> HIDE DEF g, below
        <5> QED
          BY <4>2, <5>1, <5>2 DEF Body
      <4> QED
        BY <4>1, <4>2
    <3>2. g = [U \in SUBSET T |-> g[U]]
      OBVIOUS
    <3> HIDE DEF g
    <3> QED
      BY <3>1, <3>2, Zenon
  <2> HIDE DEF g
  <2> QED
    BY <2>1, <2>4 DEF Solves
<1> QED
  <2>1. S \notin B
    BY <1>1
  <2>2. \E g : Solves(g, f, S)
    BY <2>1
  <2> HIDE DEF B
  <2> QED
    BY <2>2 DEF Solution
-----------------------------------------------------------------------------
(* What the proofs of the programs use.                                     *)

LEMMA SumEmpty == ASSUME NEW f PROVE SumOf(f, {}) = 0
<1>1. Solves(Solution(f, {}), f, {})
  BY SolutionExists, FS_EmptySet
<1> QED
  BY <1>1, SumIs DEF Solves, Body

LEMMA SumEqual ==
  ASSUME NEW S, IsFiniteSet(S), NEW f, NEW e, \A x \in S : f[x] = e[x]
  PROVE  SumOf(f, S) = SumOf(e, S)
<1>1. Solves(Solution(f, S), f, S) /\ Solves(Solution(e, S), e, S)
  BY SolutionExists
<1>2. Solution(f, S)[S] = Solution(e, S)[S]
  BY <1>1, SolutionsAgree
<1> QED
  BY <1>2, SumIs

(* In whatever order the elements are chosen, one of them can be split off. *)
LEMMA SumSplit ==
  ASSUME NEW S, IsFiniteSet(S), NEW f, \A x \in S : f[x] \in Int, NEW c \in S
  PROVE  /\ SumOf(f, S) \in Int /\ SumOf(f, S \ {c}) \in Int
         /\ SumOf(f, S) = f[c] + SumOf(f, S \ {c})
<1> DEFINE g == Solution(f, S)
           Good(U) == g[U] \in Int /\ \A y \in U : g[U] = f[y] + g[U \ {y}]
           B == {U \in SUBSET S : ~Good(U)}
<1>1. Solves(g, f, S)
  BY SolutionExists
<1> HIDE DEF g
<1>2. \A U \in SUBSET S : g[U] = IF U = {} THEN 0 ELSE f[First(U)] + g[U \ {First(U)}]
  BY <1>1 DEF Solves, Body
<1>3. ASSUME B # {} PROVE FALSE
  <2>1. PICK U \in B : \A V \in SUBSET U : V # U => V \notin B
    <3>1. B \in SUBSET SUBSET S
      OBVIOUS
    <3> HIDE DEF B
    <3> QED
      BY <1>3, <3>1, Minimal
  <2>2. \A V \in SUBSET U : V # U => Good(V)
    BY <2>1
  <2>3. U # {}
    BY <1>2, <2>1
  <2>4. First(U) \in U /\ First(U) \in S
    BY <2>1, <2>3, FirstIn
  <2>5. g[U] = f[First(U)] + g[U \ {First(U)}]
    BY <1>2, <2>1, <2>3
  <2>6. Good(U \ {First(U)})
    BY <2>2, <2>4
  <2>7. f[First(U)] \in Int /\ g[U] \in Int
    BY <2>4, <2>5, <2>6
  <2>8. ASSUME NEW y \in U, y # First(U)
        PROVE  g[U] = f[y] + g[U \ {y}]
    <3> DEFINE x == First(U)
    <3> HIDE DEF x
    <3>1. g[U \ {x}] = f[y] + g[(U \ {x}) \ {y}]
      BY <2>6, <2>8 DEF x
    <3>2. Good(U \ {y})
      BY <2>2, <2>8
    <3>3. g[U \ {y}] = f[x] + g[(U \ {y}) \ {x}]
      BY <2>4, <2>8, <3>2 DEF x
    <3>4. (U \ {y}) \ {x} = (U \ {x}) \ {y}
      OBVIOUS
    <3>5. Good((U \ {x}) \ {y})
      BY <2>2, <2>4 DEF x
    <3>6. f[x] \in Int /\ f[y] \in Int /\ g[(U \ {x}) \ {y}] \in Int
      BY <2>1, <2>4, <2>8, <3>5 DEF x
    <3>7. g[U] = f[x] + g[U \ {x}]
      BY <2>5 DEF x
    <3> HIDE DEF Good, B
    <3>8. g[U \ {y}] = f[x] + g[(U \ {x}) \ {y}]
      BY <3>3, <3>4, Zenon
    <3> DEFINE d == g[(U \ {x}) \ {y}]
               a == g[U \ {x}]
               b == g[U \ {y}]
               u == g[U]
               fx == f[x]
               fy == f[y]
    <3>9. a = fy + d /\ b = fx + d /\ u = fx + a /\ d \in Int /\ fx \in Int /\ fy \in Int
      BY <3>1, <3>6, <3>7, <3>8
    <3>10. u = fy + b
      <4> HIDE DEF a, b, d, u, fx, fy
      <4> QED
        BY <3>9
    <3> QED
      BY <3>10
  <2>9. Good(U)
    BY <2>5, <2>7, <2>8
  <2> QED
    BY <2>1, <2>9
<1>4. Good(S) /\ Good(S \ {c})
  BY <1>3
<1>5. SumOf(f, S) = g[S]
  BY SumIs DEF g
<1>6. SumOf(f, S \ {c}) = g[S \ {c}]
  <2>1. IsFiniteSet(S \ {c})
    BY FS_Subset
  <2>2. Solves(Solution(f, S \ {c}), f, S \ {c})
    BY <2>1, SolutionExists
  <2>3. Solution(f, S \ {c})[S \ {c}] = g[S \ {c}]
    BY <1>1, <2>1, <2>2, SolutionsAgree
  <2> QED
    BY <2>3, SumIs
<1> QED
  BY <1>4, <1>5, <1>6

LEMMA SumInt ==
  ASSUME NEW S, IsFiniteSet(S), NEW f, \A x \in S : f[x] \in Int
  PROVE  SumOf(f, S) \in Int
<1>1. CASE S = {}
  BY <1>1, SumEmpty
<1>2. CASE S # {}
  BY <1>2, SumSplit
<1> QED
  BY <1>1, <1>2

(* A change of the value at one element changes the sum by as much.         *)
LEMMA SumUpdate ==
  ASSUME NEW S, IsFiniteSet(S), NEW f, \A x \in S : f[x] \in Int,
         NEW c \in S, NEW e, e[c] \in Int, \A x \in S \ {c} : e[x] = f[x]
  PROVE  SumOf(e, S) = SumOf(f, S) - f[c] + e[c]
<1>1. \A x \in S : e[x] \in Int
  OBVIOUS
<1>2. SumOf(e, S) = e[c] + SumOf(e, S \ {c}) /\ SumOf(f, S) = f[c] + SumOf(f, S \ {c})
  BY <1>1, SumSplit
<1>3. SumOf(e, S \ {c}) = SumOf(f, S \ {c}) /\ SumOf(f, S \ {c}) \in Int
  BY SumEqual, SumSplit, FS_Subset
<1> QED
  BY <1>2, <1>3

LEMMA SumAdd ==
  ASSUME NEW S, IsFiniteSet(S), NEW f, NEW c, c \notin S,
         \A x \in S \cup {c} : f[x] \in Int
  PROVE  SumOf(f, S \cup {c}) = SumOf(f, S) + f[c]
<1>1. IsFiniteSet(S \cup {c}) /\ (S \cup {c}) \ {c} = S
  BY FS_AddElement
<1>2. SumOf(f, S \cup {c}) = f[c] + SumOf(f, (S \cup {c}) \ {c})
  BY <1>1, SumSplit
<1>3. SumOf(f, S) \in Int /\ f[c] \in Int
  BY SumInt
<1>4. SumOf(f, S \cup {c}) = f[c] + SumOf(f, S)
  BY <1>1, <1>2, Zenon
<1> QED
  BY <1>3, <1>4

LEMMA SumConst ==
  ASSUME NEW S, IsFiniteSet(S), NEW f, NEW n \in Int, \A x \in S : f[x] = n
  PROVE  SumOf(f, S) = Cardinality(S) * n
<1> DEFINE B == {U \in SUBSET S : SumOf(f, U) # Cardinality(U) * n}
<1>1. ASSUME B # {} PROVE FALSE
  <2>1. PICK U \in B : \A V \in SUBSET U : V # U => V \notin B
    <3>1. B \in SUBSET SUBSET S
      OBVIOUS
    <3> HIDE DEF B
    <3> QED
      BY <1>1, <3>1, Minimal
  <2>2. CASE U = {}
    <3>1. SumOf(f, U) = 0 /\ Cardinality(U) = 0
      BY <2>2, SumEmpty, FS_EmptySet
    <3> QED
      BY <3>1
  <2>3. CASE U # {}
    <3>1. PICK c \in U : TRUE
      BY <2>3
    <3>2. IsFiniteSet(U) /\ IsFiniteSet(U \ {c})
      BY FS_Subset
    <3>3. /\ Cardinality(U \ {c}) = Cardinality(U) - 1
          /\ Cardinality(U) \in Nat
      BY <3>2, FS_RemoveElement, FS_CardinalityType
    <3>4. SumOf(f, U) = f[c] + SumOf(f, U \ {c})
      BY <3>2, SumSplit
    <3>5. SumOf(f, U \ {c}) = Cardinality(U \ {c}) * n
      BY <2>1
    <3>6. f[c] = n
      OBVIOUS
    <3>7. \A k \in Nat : n + (k - 1) * n = k * n
      OBVIOUS
    <3> HIDE DEF B
    <3>8. SumOf(f, U) = n + (Cardinality(U) - 1) * n
      BY <3>3, <3>4, <3>5, <3>6
    <3>9. SumOf(f, U) = Cardinality(U) * n
      BY <3>3, <3>7, <3>8
    <3> QED
      BY <3>9 DEF B
  <2> QED
    BY <2>2, <2>3
<1> QED
  BY <1>1

LEMMA SumNat ==
  ASSUME NEW S, IsFiniteSet(S), NEW f, \A x \in S : f[x] \in Nat
  PROVE  SumOf(f, S) \in Nat
<1> DEFINE B == {U \in SUBSET S : SumOf(f, U) \notin Nat}
<1>1. ASSUME B # {} PROVE FALSE
  <2>1. PICK U \in B : \A V \in SUBSET U : V # U => V \notin B
    <3>1. B \in SUBSET SUBSET S
      OBVIOUS
    <3> HIDE DEF B
    <3> QED
      BY <1>1, <3>1, Minimal
  <2>2. CASE U = {}
    BY <2>2, SumEmpty
  <2>3. CASE U # {}
    <3>1. PICK c \in U : TRUE
      BY <2>3
    <3>2. IsFiniteSet(U) /\ \A x \in U : f[x] \in Int
      BY FS_Subset
    <3>3. SumOf(f, U) = f[c] + SumOf(f, U \ {c}) /\ SumOf(f, U) \in Int
      <4> HIDE DEF B
      <4> QED
        BY <3>2, SumSplit
    <3>4. SumOf(f, U \ {c}) \in Nat /\ f[c] \in Nat
      BY <2>1
    <3> QED
      BY <3>3, <3>4
  <2> QED
    BY <2>2, <2>3
<1> QED
  BY <1>1

(* A part of a sum of naturals, without one of the elements.                *)
LEMMA SumPart ==
  ASSUME NEW S, IsFiniteSet(S), NEW f, \A x \in S : f[x] \in Nat,
         NEW c \in S, NEW T \in SUBSET (S \ {c})
  PROVE  SumOf(f, T) + f[c] <= SumOf(f, S)
<1> DEFINE B == {U \in SUBSET S : T \subseteq U /\ c \in U
                                  /\ ~ (SumOf(f, T) + f[c] <= SumOf(f, U))}
<1>1. ASSUME B # {} PROVE FALSE
  <2>1. PICK U \in B : \A V \in SUBSET U : V # U => V \notin B
    <3>1. B \in SUBSET SUBSET S
      OBVIOUS
    <3> HIDE DEF B
    <3> QED
      BY <1>1, <3>1, Minimal
  <2>2. IsFiniteSet(U) /\ IsFiniteSet(T)
    BY FS_Subset
  <2>3. SumOf(f, T) \in Nat /\ f[c] \in Nat
    BY <2>2, SumNat
  <2>4. CASE U = T \cup {c}
    <3>1. c \notin T /\ \A x \in T \cup {c} : f[x] \in Int
      OBVIOUS
    <3>2. SumOf(f, T \cup {c}) = SumOf(f, T) + f[c]
      BY <2>2, <3>1, SumAdd
    <3> QED
      BY <2>3, <2>4, <3>2
  <2>5. CASE U # T \cup {c}
    <3>1. PICK d \in U : d \notin T /\ d # c
      BY <2>5
    <3>2. SumOf(f, U) = f[d] + SumOf(f, U \ {d}) /\ SumOf(f, U \ {d}) \in Int
      BY <2>2, SumSplit
    <3>3. SumOf(f, T) + f[c] <= SumOf(f, U \ {d})
      BY <2>1, <3>1
    <3>4. f[d] \in Nat
      OBVIOUS
    <3> QED
      BY <2>3, <3>2, <3>3, <3>4
  <2> QED
    BY <2>4, <2>5
<1> QED
  BY <1>1

(* Sums over two parts of a set add up.                                      *)
LEMMA SumUnion ==
  ASSUME NEW S, NEW T, IsFiniteSet(S), IsFiniteSet(T), S \cap T = {},
         NEW f, \A x \in S \cup T : f[x] \in Int
  PROVE  SumOf(f, S \cup T) = SumOf(f, S) + SumOf(f, T)
<1> DEFINE B == {U \in SUBSET T : SumOf(f, S \cup U) # SumOf(f, S) + SumOf(f, U)}
<1>1. ASSUME B # {} PROVE FALSE
  <2>1. PICK U \in B : \A V \in SUBSET U : V # U => V \notin B
    <3>1. B \in SUBSET SUBSET T
      OBVIOUS
    <3> HIDE DEF B
    <3> QED
      BY <1>1, <3>1, Minimal
  <2>2. SumOf(f, S) \in Int
    BY SumInt
  <2>3. CASE U = {}
    <3>1. SumOf(f, U) = 0 /\ S \cup U = S
      BY <2>3, SumEmpty
    <3>2. SumOf(f, S \cup U) = SumOf(f, S)
      BY <3>1, Zenon
    <3>3. SumOf(f, S \cup U) = SumOf(f, S) + SumOf(f, U)
      <4> HIDE DEF B
      <4> QED
        BY <2>2, <3>1, <3>2
    <3> QED
      BY <3>3
  <2>4. CASE U # {}
    <3>1. PICK c \in U : TRUE
      BY <2>4
    <3> DEFINE V == U \ {c}
    <3>2. /\ IsFiniteSet(U) /\ IsFiniteSet(V) /\ IsFiniteSet(S \cup U)
          /\ V \in SUBSET U /\ V # U /\ c \in S \cup U /\ (S \cup U) \ {c} = S \cup V
      BY FS_Subset, FS_Union
    <3>3. SumOf(f, S \cup V) = SumOf(f, S) + SumOf(f, V)
      BY <2>1, <3>2
    <3>4. /\ \A x \in U : f[x] \in Int
          /\ \A x \in S \cup U : f[x] \in Int
          /\ f[c] \in Int
      OBVIOUS
    <3>5. SumOf(f, U) = f[c] + SumOf(f, V) /\ SumOf(f, V) \in Int
      <4> HIDE DEF B
      <4> QED
        BY <3>2, <3>4, SumSplit
    <3>6. SumOf(f, S \cup U) = f[c] + SumOf(f, S \cup V)
      <4> DEFINE W == S \cup U
      <4>1. IsFiniteSet(W) /\ c \in W /\ \A x \in W : f[x] \in Int
        BY <3>2, <3>4
      <4>2. W \ {c} = S \cup V
        BY <3>2
      <4> HIDE DEF W, B, V
      <4>3. SumOf(f, W) = f[c] + SumOf(f, W \ {c})
        BY <4>1, SumSplit
      <4> QED
        BY <4>2, <4>3 DEF W
    <3>7. SumOf(f, S \cup U) = SumOf(f, S) + SumOf(f, U)
      <4> HIDE DEF B, V
      <4> QED
        BY <2>2, <3>3, <3>4, <3>5, <3>6
    <3> QED
      BY <3>7
  <2> QED
    BY <2>3, <2>4
<1> QED
  BY <1>1

LEMMA SumAppend ==
  ASSUME NEW a \in Nat, NEW b \in Nat, a <= b, NEW f, \A x \in a .. b : f[x] \in Int
  PROVE  SumOf(f, a .. b) = SumOf(f, a .. b - 1) + f[b]
<1> DEFINE S == a .. b - 1
<1>1. IsFiniteSet(S)
  BY FS_Interval
<1>2. b \notin S
  OBVIOUS
<1>3. a .. b = S \cup {b}
  OBVIOUS
<1>4. \A x \in S \cup {b} : f[x] \in Int
  BY <1>3
<1> HIDE DEF S
<1>5. SumOf(f, S \cup {b}) = SumOf(f, S) + f[b]
  BY <1>1, <1>2, <1>4, SumAdd
<1> QED
  BY <1>3, <1>5, Zenon DEF S

LEMMA SumConcat ==
  ASSUME NEW a \in Nat, NEW b \in Nat, NEW c \in Nat, a <= b, b <= c,
         NEW f, \A x \in Nat : f[x] \in Int
  PROVE  SumOf(f, a .. c - 1) = SumOf(f, a .. b - 1) + SumOf(f, b .. c - 1)
<1> DEFINE S == a .. b - 1
           T == b .. c - 1
<1>1. /\ IsFiniteSet(S) /\ IsFiniteSet(T) /\ S \cap T = {} /\ S \cup T = a .. c - 1
      /\ \A x \in S \cup T : f[x] \in Int
  BY FS_Interval
<1> HIDE DEF S, T
<1>2. SumOf(f, S \cup T) = SumOf(f, S) + SumOf(f, T)
  BY <1>1, SumUnion
<1> QED
  BY <1>1, <1>2 DEF S, T

(* Induction up to k: the first number that is not in B is the least set     *)
(* 0 .. m with such an m.                                                   *)
LEMMA UpToInduction ==
  ASSUME NEW k \in Nat, NEW B, 0 \in B, \A m \in 0 .. k - 1 : m \in B => m + 1 \in B
  PROVE  \A m \in 0 .. k : m \in B
<1> DEFINE C == {0 .. m : m \in (0 .. k) \ B}
<1>1. ASSUME C # {} PROVE FALSE
  <2>1. PICK U \in C : \A V \in SUBSET U : V # U => V \notin C
    <3>1. C \in SUBSET SUBSET (0 .. k)
      OBVIOUS
    <3>2. IsFiniteSet(0 .. k)
      BY FS_Interval
    <3> DEFINE S == 0 .. k
    <3> HIDE DEF C, S
    <3> QED
      BY <1>1, <3>1, <3>2, Minimal DEF S
  <2>2. PICK m \in (0 .. k) \ B : U = 0 .. m
    BY <2>1
  <2>3. m # 0 /\ m - 1 \in 0 .. k - 1
    BY <2>2
  <2>4. m - 1 \notin B
    BY <2>2, <2>3
  <2>5. 0 .. m - 1 \in C
    BY <2>3, <2>4
  <2>6. 0 .. m - 1 \in SUBSET U /\ 0 .. m - 1 # U
    <3>1. m \in 0 .. m /\ m \notin 0 .. m - 1
      BY <2>3
    <3> QED
      BY <2>2, <3>1
  <2> HIDE DEF C
  <2> QED
    BY <2>1, <2>5, <2>6
<1> QED
  BY <1>1

(* The sums of the slices between consecutive cuts add up to the sum from   *)
(* the first cut to the last.                                               *)
LEMMA SumSlices ==
  ASSUME NEW k \in Nat, NEW cut \in [0 .. k -> Nat],
         \A t \in 0 .. k - 1 : cut[t] <= cut[t + 1],
         NEW f, \A x \in Nat : f[x] \in Int,
         NEW g, \A t \in 0 .. k - 1 : g[t] = SumOf(f, cut[t] .. cut[t + 1] - 1)
  PROVE  SumOf(g, 0 .. k - 1) = SumOf(f, cut[0] .. cut[k] - 1)
<1> DEFINE B == {m \in 0 .. k : /\ cut[0] <= cut[m]
                               /\ SumOf(g, 0 .. m - 1) = SumOf(f, cut[0] .. cut[m] - 1)}
<1>1. \A t \in 0 .. k : cut[t] \in Nat
  OBVIOUS
<1>2. 0 \in B
  <2>1. 0 .. 0 - 1 = {} /\ cut[0] .. cut[0] - 1 = {} /\ cut[0] <= cut[0]
    BY <1>1
  <2> QED
    BY <2>1, SumEmpty
<1>3. ASSUME NEW m \in 0 .. k - 1, m \in B
      PROVE  m + 1 \in B
  <2> DEFINE a == cut[0]
             b == cut[m]
             c == cut[m + 1]
  <2>1. a \in Nat /\ b \in Nat /\ c \in Nat /\ a <= b /\ b <= c
    BY <1>1, <1>3
  <2>2. SumOf(g, 0 .. m - 1) = SumOf(f, a .. b - 1) /\ g[m] = SumOf(f, b .. c - 1)
    BY <1>3
  <2>3. SumOf(g, 0 .. m) = SumOf(g, 0 .. m - 1) + g[m]
    <3>1. ASSUME NEW t \in 0 .. m PROVE g[t] \in Int
      <4>1. t \in 0 .. k - 1 /\ cut[t] \in Int /\ cut[t + 1] \in Int
        BY <1>1
      <4> DEFINE T == cut[t] .. cut[t + 1] - 1
      <4>2. IsFiniteSet(T)
        BY <4>1, FS_Interval
      <4>3. \A x \in T : f[x] \in Int
        BY <1>1, <4>1
      <4> HIDE DEF T, B
      <4>4. SumOf(f, T) \in Int
        BY <4>2, <4>3, SumInt
      <4> QED
        BY <4>1, <4>4 DEF T
    <3>2. m \in Nat /\ 0 <= m
      OBVIOUS
    <3> HIDE DEF B, a, b, c
    <3> QED
      BY <3>1, <3>2, SumAppend
  <2> HIDE DEF a, b, c
  <2>4. SumOf(f, a .. c - 1) = SumOf(f, a .. b - 1) + SumOf(f, b .. c - 1)
    BY <2>1, SumConcat
  <2>5. a <= c /\ SumOf(g, 0 .. m) = SumOf(f, a .. c - 1)
    BY <2>1, <2>2, <2>3, <2>4
  <2>6. m + 1 \in 0 .. k /\ (m + 1) - 1 = m
    OBVIOUS
  <2> QED
    BY <2>5, <2>6 DEF a, c
<1> HIDE DEF B
<1>4. k \in B
  <2>1. \A m \in 0 .. k - 1 : m \in B => m + 1 \in B
    BY <1>3
  <2>2. \A m \in 0 .. k : m \in B
    BY <1>2, <2>1, UpToInduction
  <2> QED
    BY <2>2
<1> QED
  BY <1>4 DEF B

(* The sum of the elements of a set is that of the identity.                *)
LEMMA SumSetIs ==
  ASSUME NEW S, IsFiniteSet(S)
  PROVE  SumSet(S) = SumOf([x \in S |-> x], S)
<1> DEFINE f == [x \in S |-> x]
           Is(g) == g = [U \in SUBSET S |-> IF U = {} THEN 0
                                   ELSE First(U) + g[U \ {First(U)}]]
           h == CHOOSE g : Is(g)
<1>1. SumSet(S) = h[S]
  BY DEF SumSet, FoldSet, MapThenFoldSet, First
<1>2. ASSUME NEW g PROVE Is(g) <=> Solves(g, f, S)
  <2>1. \A U \in SUBSET S : (IF U = {} THEN 0 ELSE First(U) + g[U \ {First(U)}])
                               = Body(f, g, U)
    <3>1. ASSUME NEW U \in SUBSET S, U # {} PROVE f[First(U)] = First(U)
      BY <3>1, FirstIn
    <3> HIDE DEF f
    <3> QED
      BY <3>1 DEF Body
  <2>2. [U \in SUBSET S |-> IF U = {} THEN 0 ELSE First(U) + g[U \ {First(U)}]]
          = [U \in SUBSET S |-> Body(f, g, U)]
    <3> HIDE DEF f
    <3> QED
      BY <2>1, Zenon
  <2> HIDE DEF f
  <2> QED
    BY <2>2, Zenon DEF Solves
<1>3. Solves(Solution(f, S), f, S)
  BY SolutionExists
<1> HIDE DEF f
<1>4. Is(h)
  <2>1. Is(Solution(f, S))
    BY <1>2, <1>3
  <2> HIDE DEF Is
  <2> QED
    BY <2>1
<1> HIDE DEF Is, h
<1>5. Solves(h, f, S)
  BY <1>2, <1>4
<1>6. h[S] = Solution(f, S)[S]
  BY <1>3, <1>5, SolutionsAgree
<1>7. SumOf(f, S) = Solution(f, S)[S]
  BY SumIs
<1> QED
  BY <1>1, <1>6, <1>7 DEF f
=============================================================================
