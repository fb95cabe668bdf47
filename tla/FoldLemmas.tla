----------------------------- MODULE FoldLemmas -----------------------------
(***************************************************************************)
(* Induction over data for the proofs of the other modules: the sums over  *)
(* finite sets and the folds over sequences of the community modules are   *)
(* recursive functions on the subsets of a set, and these lemmas say what  *)
(* such a function is.  Every induction here is a choice of a smallest     *)
(* counterexample, so that no lemma has an operator for a parameter.       *)
(***************************************************************************)
EXTENDS Integers, SequencesExt, FiniteSetsExt, FiniteSetTheorems, SequenceTheorems,
        WellFoundedInduction, TLAPS

-----------------------------------------------------------------------------
(* Induction. *)

Less == {p \in Nat \X Nat : p[1] < p[2]}

LEMMA LessIsWellFounded == IsWellFoundedOn(Less, Nat)
<1>1. OpToRel(<, Nat) = Less
  BY DEF OpToRel, Less
<1>. QED  BY <1>1, NatLessThanWellFounded

\* A set of numbers has a smallest one.
LEMMA Smallest ==
  ASSUME NEW T \in SUBSET Nat, T # {}
  PROVE  \E m \in T : \A k \in T : m <= k
<1>1. PICK m \in T : \A k \in T : <<k, m>> \notin Less
  BY LessIsWellFounded, WFMin
<1>2. ASSUME NEW k \in T PROVE m <= k
  <2>1. m \in Nat /\ k \in Nat
    OBVIOUS
  <2>2. k < m => <<k, m>> \in Less
    BY <2>1 DEF Less
  <2>. QED  BY <1>1, <2>1, <2>2
<1>. QED  BY <1>2

\* A set of numbers with 0 and with the next of each is all of them.
LEMMA Induction ==
  ASSUME NEW T \in SUBSET Nat, 0 \in T, \A n \in T : n + 1 \in T
  PROVE  T = Nat
<1>1. SUFFICES ASSUME Nat \ T # {} PROVE FALSE
  OBVIOUS
<1>2. PICK m \in Nat \ T : \A k \in Nat \ T : m <= k
  BY <1>1, Smallest
<1>3. m - 1 \in Nat /\ m - 1 \in T
  BY <1>2
<1>. QED  BY <1>2, <1>3

\* The same up to a bound.
LEMMA InductionUpTo ==
  ASSUME NEW n \in Nat, NEW F, 0 \in F, \A k \in 0..(n - 1) : k \in F => k + 1 \in F
  PROVE  0..n \subseteq F
<1>. DEFINE T == {k \in Nat : k <= n => k \in F}
<1>1. 0 \in T
  OBVIOUS
<1>2. ASSUME NEW k \in T PROVE k + 1 \in T
  <2>1. k \in Nat /\ (k <= n => k \in F)
    OBVIOUS
  <2>2. k + 1 <= n => k \in 0..(n - 1) /\ k <= n
    BY <2>1
  <2>. QED  BY <2>1, <2>2
<1>3. T = Nat
  <2>. HIDE DEF T
  <2>1. T \in SUBSET Nat
    BY DEF T
  <2>. QED  BY <1>1, <1>2, <2>1, Induction
<1>. QED  BY <1>3

\* A family of subsets of a finite set that has every subset whose smaller
\* subsets, by one element, it has, is all of them.
LEMMA SubsetInduction ==
  ASSUME NEW D, IsFiniteSet(D), NEW F \in SUBSET SUBSET D,
         \A s \in SUBSET D : (\A x \in s : s \ {x} \in F) => s \in F
  PROVE  F = SUBSET D
<1>1. SUFFICES ASSUME (SUBSET D) \ F # {} PROVE FALSE
  OBVIOUS
<1>2. \A s \in SUBSET D : IsFiniteSet(s) /\ Cardinality(s) \in Nat
  BY FS_Subset, FS_CardinalityType
<1>. DEFINE T == {Cardinality(s) : s \in (SUBSET D) \ F}
<1>3. T \in SUBSET Nat /\ T # {}
  BY <1>1, <1>2
<1>4. PICK m \in T : \A k \in T : m <= k
  BY <1>3, Smallest
<1>5. PICK s \in (SUBSET D) \ F : Cardinality(s) = m
  BY <1>4
<1>6. ASSUME NEW x \in s PROVE s \ {x} \in F
  <2>1. Cardinality(s \ {x}) = m - 1
    BY <1>2, <1>5, FS_RemoveElement
  <2>2. s \ {x} \in SUBSET D /\ m \in Nat
    BY <1>3, <1>4
  <2>3. SUFFICES ASSUME s \ {x} \notin F PROVE FALSE
    OBVIOUS
  <2>4. m - 1 \in T
    BY <2>1, <2>2, <2>3
  <2>. HIDE DEF T
  <2>. QED  BY <1>4, <2>2, <2>4
<1>. QED  BY <1>5, <1>6

-----------------------------------------------------------------------------
(* Recursion over the subsets of a finite set: what is left after one chosen *)
(* element, and then that element.                                           *)

Chooses(choice, D) == \A s \in SUBSET D : s # {} => choice[s] \in s

Iterates(g, D, choice, base, step) ==
    \A s \in SUBSET D :
       g[s] = IF s = {} THEN base ELSE step[g[s \ {choice[s]}]][choice[s]]

LEMMA IterationExists ==
  ASSUME NEW D, IsFiniteSet(D), NEW choice, Chooses(choice, D),
         NEW S, NEW base \in S, NEW step \in [S -> [D -> S]]
  PROVE  \E g \in [SUBSET D -> S] : Iterates(g, D, choice, base, step)
<1>. USE DEF Chooses
<1>. DEFINE Small(n) == {s \in SUBSET D : Cardinality(s) <= n}
            Solves(n, g) ==
               \A s \in Small(n) :
                  g[s] = IF s = {} THEN base ELSE step[g[s \ {choice[s]}]][choice[s]]
            T == {n \in Nat : \E g \in [Small(n) -> S] : Solves(n, g)}
<1>1. \A s \in SUBSET D : IsFiniteSet(s) /\ Cardinality(s) \in Nat
  BY FS_Subset, FS_CardinalityType
<1>2. 0 \in T
  <2>1. \A s \in Small(0) : s = {}
    BY <1>1, FS_EmptySet
  <2>2. [s \in Small(0) |-> base] \in [Small(0) -> S]
    OBVIOUS
  <2>3. Solves(0, [s \in Small(0) |-> base])
    BY <2>1
  <2>. QED  BY <2>2, <2>3
<1>3. ASSUME NEW n \in T PROVE n + 1 \in T
  <2>1. n \in Nat /\ n + 1 \in Nat
    <3>1. n \in Nat
      OBVIOUS
    <3>. HIDE DEF T
    <3>. QED  BY <3>1
  <2>2. PICK g \in [Small(n) -> S] : Solves(n, g)
    OBVIOUS
  <2>. DEFINE h == [s \in Small(n + 1) |->
                      IF s = {} THEN base ELSE step[g[s \ {choice[s]}]][choice[s]]]
  <2>3. ASSUME NEW s \in Small(n + 1), s # {}
        PROVE  s \ {choice[s]} \in Small(n) /\ choice[s] \in D
    <3>1. choice[s] \in s
      BY <2>3
    <3>2. Cardinality(s \ {choice[s]}) = Cardinality(s) - 1
      <4>1. PICK x : x = choice[s] /\ x \in s /\ IsFiniteSet(s)
        BY <1>1, <3>1
      <4>2. Cardinality(s \ {x}) = Cardinality(s) - 1
        <5>. HIDE DEF T, h, Small, Solves
        <5>. QED  BY <4>1, FS_RemoveElement
      <4>. QED  BY <4>1, <4>2
    <3>3. PICK k \in Nat : k = Cardinality(s) /\ k <= n + 1
      BY <1>1
    <3>4. s \ {choice[s]} \in SUBSET D /\ choice[s] \in D
      BY <3>1
    <3>5. k - 1 <= n
      <4>. HIDE DEF T, h, Small
      <4>. QED  BY <2>1, <3>3
    <3>. HIDE DEF T, h
    <3>. QED  BY <3>2, <3>3, <3>4, <3>5
  <2>4. ASSUME NEW s \in Small(n + 1) PROVE h[s] \in S
    <3>1. CASE s = {}
      BY <3>1
    <3>2. CASE s # {}
      <4>1. g[s \ {choice[s]}] \in S /\ choice[s] \in D
        BY <2>3, <3>2
      <4>2. h[s] = step[g[s \ {choice[s]}]][choice[s]]
        BY <3>2
      <4>. HIDE DEF h, Small, T
      <4>3. step[g[s \ {choice[s]}]] \in [D -> S]
        BY <4>1
      <4>. QED  BY <4>1, <4>2, <4>3
    <3>. QED  BY <3>1, <3>2
  <2>5. \A s \in Small(n) : s \in Small(n + 1) /\ h[s] = g[s]
    <3>1. ASSUME NEW s \in Small(n) PROVE s \in Small(n + 1)
      <4>1. s \in SUBSET D /\ Cardinality(s) <= n /\ Cardinality(s) \in Nat
        BY <1>1
      <4>. HIDE DEF T, h
      <4>. QED  BY <2>1, <4>1
    <3>. QED  BY <2>2, <3>1
  <2>6. Solves(n + 1, h)
    BY <2>3, <2>5
  <2>. HIDE DEF h
  <2>7. h \in [Small(n + 1) -> S]
    BY <2>4 DEF h
  <2>. QED  BY <2>1, <2>6, <2>7
<1>4. Cardinality(D) \in T
  <2>. HIDE DEF T
  <2>1. T = Nat
    <3>1. T \in SUBSET Nat
      BY DEF T
    <3>. QED  BY <1>2, <1>3, <3>1, Induction
  <2>. QED  BY <2>1, FS_CardinalityType
<1>5. Small(Cardinality(D)) = SUBSET D
  BY FS_Subset
<1>. QED  BY <1>4, <1>5 DEF Iterates

-----------------------------------------------------------------------------
(* Sums over a finite set. *)

Chosen(s) == CHOOSE x \in s : TRUE

SumsUp(g, f, D) ==
    /\ g[D] = SumFunctionOnSet(f, D)
    /\ \A s \in SUBSET D :
          g[s] = IF s = {} THEN 0 ELSE f[Chosen(s)] + g[s \ {Chosen(s)}]

\* A sum is that of all elements but one, and that one.
LEMMA SumIsIterated ==
  ASSUME NEW D, IsFiniteSet(D), NEW f \in [D -> Int]
  PROVE  \E g \in [SUBSET D -> Int] : SumsUp(g, f, D)
<1>. DEFINE choice == [s \in SUBSET D |-> Chosen(s)]
            step == [n \in Int |-> [x \in D |-> f[x] + n]]
            Solves(g) == g = [s \in SUBSET D |-> IF s = {} THEN 0
                                ELSE f[Chosen(s)] + g[s \ {Chosen(s)}]]
<1>1. \A s \in SUBSET D : s # {} => choice[s] \in s /\ choice[s] = Chosen(s)
  BY DEF Chosen
<1>2. step \in [Int -> [D -> Int]]
  OBVIOUS
<1>3. PICK g \in [SUBSET D -> Int] :
         \A s \in SUBSET D :
            g[s] = IF s = {} THEN 0 ELSE step[g[s \ {choice[s]}]][choice[s]]
  <2>1. Chooses(choice, D)
    BY <1>1 DEF Chooses
  <2>2. 0 \in Int
    OBVIOUS
  <2>. HIDE DEF choice, step
  <2>3. \E g \in [SUBSET D -> Int] : Iterates(g, D, choice, 0, step)
    BY <2>1, <2>2, <1>2, IterationExists
  <2>. QED  BY <2>3 DEF Iterates
<1>4. ASSUME NEW s \in SUBSET D
      PROVE  g[s] = IF s = {} THEN 0 ELSE f[Chosen(s)] + g[s \ {Chosen(s)}]
  <2>1. CASE s = {}
    BY <1>3, <2>1
  <2>2. CASE s # {}
    <3>1. g[s \ {Chosen(s)}] \in Int /\ Chosen(s) \in D
      BY <1>1, <2>2
    <3>2. step[g[s \ {Chosen(s)}]][Chosen(s)] = f[Chosen(s)] + g[s \ {Chosen(s)}]
      BY <3>1
    <3>. HIDE DEF step, choice
    <3>. QED  BY <1>1, <1>3, <2>2, <3>2
  <2>. QED  BY <2>1, <2>2
<1>5. Solves(g)
  BY <1>4
<1>6. Solves(CHOOSE h : Solves(h))
  <2>. HIDE DEF Solves
  <2>. QED  BY <1>5
<1>. DEFINE h == CHOOSE h : Solves(h)
<1>7. SumFunctionOnSet(f, D) = h[D]
  BY DEF SumFunctionOnSet, FoldFunctionOnSet, MapThenFoldSet, Chosen
<1>8. h = g
  <2>. HIDE DEF h
  <2>. DEFINE F == {s \in SUBSET D : h[s] = g[s]}
  <2>1. ASSUME NEW s \in SUBSET D, \A x \in s : s \ {x} \in F
        PROVE  s \in F
    <3>1. s # {} => Chosen(s) \in s
      BY DEF Chosen
    <3>2. h[s] = IF s = {} THEN 0 ELSE f[Chosen(s)] + h[s \ {Chosen(s)}]
      BY <1>6 DEF h
    <3>. QED  BY <1>4, <2>1, <3>1, <3>2
  <2>2. F = SUBSET D
    <3>. HIDE DEF F
    <3>1. F \in SUBSET SUBSET D
      BY DEF F
    <3>. QED  BY <2>1, <3>1, SubsetInduction
  <2>3. h = [s \in SUBSET D |-> h[s]]
    BY <1>6 DEF h
  <2>. QED  BY <2>2, <2>3
<1>. QED  BY <1>4, <1>7, <1>8 DEF SumsUp

LEMMA SumIsInt ==
  ASSUME NEW D, IsFiniteSet(D), NEW f \in [D -> Int]
  PROVE  SumFunctionOnSet(f, D) \in Int
<1>1. PICK g \in [SUBSET D -> Int] : SumsUp(g, f, D)
  BY SumIsIterated
<1>2. D \in SUBSET D
  OBVIOUS
<1>. QED  BY <1>1, <1>2 DEF SumsUp

\* The sum of two functions, element by element.
LEMMA SumOfSums ==
  ASSUME NEW D, IsFiniteSet(D),
         NEW f \in [D -> Int], NEW g \in [D -> Int], NEW h \in [D -> Int],
         \A x \in D : h[x] = f[x] + g[x]
  PROVE  SumFunctionOnSet(h, D) = SumFunctionOnSet(f, D) + SumFunctionOnSet(g, D)
<1>1. PICK F \in [SUBSET D -> Int] : SumsUp(F, f, D)
  BY SumIsIterated
<1>2. PICK G \in [SUBSET D -> Int] : SumsUp(G, g, D)
  BY SumIsIterated
<1>3. PICK H \in [SUBSET D -> Int] : SumsUp(H, h, D)
  BY SumIsIterated
<1>. DEFINE Agree == {s \in SUBSET D : H[s] = F[s] + G[s]}
<1>4. ASSUME NEW s \in SUBSET D, \A x \in s : s \ {x} \in Agree
      PROVE  s \in Agree
  <2>1. CASE s = {}
    <3>1. F[s] = 0 /\ G[s] = 0 /\ H[s] = 0
      BY <1>1, <1>2, <1>3, <2>1 DEF SumsUp
    <3>. QED  BY <3>1
  <2>2. CASE s # {}
    <3>. DEFINE x == Chosen(s)
                t == s \ {x}
    <3>1. x \in s /\ x \in D
      BY <2>2 DEF Chosen
    <3>2. t \in SUBSET D /\ H[t] = F[t] + G[t]
      BY <1>4, <3>1
    <3>3. F[s] = f[x] + F[t] /\ G[s] = g[x] + G[t] /\ H[s] = h[x] + H[t]
      BY <1>1, <1>2, <1>3, <2>2 DEF SumsUp
    <3>. HIDE DEF x, t
    <3>4. /\ F[t] \in Int /\ G[t] \in Int /\ f[x] \in Int /\ g[x] \in Int
          /\ h[x] = f[x] + g[x]
      BY <3>1, <3>2
    <3>. QED  BY <3>2, <3>3, <3>4
  <2>. QED  BY <2>1, <2>2
<1>5. D \in Agree
  <2>. HIDE DEF Agree
  <2>1. Agree \in SUBSET SUBSET D
    BY DEF Agree
  <2>2. Agree = SUBSET D
    BY <1>4, <2>1, SubsetInduction
  <2>. QED  BY <2>2
<1>. QED  BY <1>1, <1>2, <1>3, <1>5 DEF SumsUp

\* All zero but at one place.
LEMMA SumOfOne ==
  ASSUME NEW D, IsFiniteSet(D), NEW f \in [D -> Int], NEW a \in D,
         \A x \in D : x # a => f[x] = 0
  PROVE  SumFunctionOnSet(f, D) = f[a]
<1>1. PICK F \in [SUBSET D -> Int] : SumsUp(F, f, D)
  BY SumIsIterated
<1>. DEFINE Agree == {s \in SUBSET D : F[s] = IF a \in s THEN f[a] ELSE 0}
<1>2. ASSUME NEW s \in SUBSET D, \A x \in s : s \ {x} \in Agree
      PROVE  s \in Agree
  <2>1. CASE s = {}
    BY <1>1, <2>1 DEF SumsUp
  <2>2. CASE s # {}
    <3>. DEFINE x == Chosen(s)
                t == s \ {x}
    <3>1. x \in s /\ x \in D
      BY <2>2 DEF Chosen
    <3>2. t \in SUBSET D /\ F[t] = IF a \in t THEN f[a] ELSE 0
      BY <1>2, <3>1
    <3>3. F[s] = f[x] + F[t]
      BY <1>1, <2>2 DEF SumsUp
    <3>4. t = s \ {x}
      OBVIOUS
    <3>. HIDE DEF x, t
    <3>5. F[t] \in Int /\ f[x] \in Int /\ f[a] \in Int
      BY <3>1, <3>2
    <3>6. CASE x = a
      BY <3>1, <3>2, <3>3, <3>4, <3>5, <3>6
    <3>7. CASE x # a
      <4>1. f[x] = 0
        BY <3>1, <3>7
      <4>. QED  BY <3>1, <3>2, <3>3, <3>4, <3>5, <3>7, <4>1
    <3>. QED  BY <3>6, <3>7
  <2>. QED  BY <2>1, <2>2
<1>3. D \in Agree
  <2>. HIDE DEF Agree
  <2>1. Agree \in SUBSET SUBSET D
    BY DEF Agree
  <2>2. Agree = SUBSET D
    BY <1>2, <2>1, SubsetInduction
  <2>. QED  BY <2>2
<1>. QED  BY <1>1, <1>3 DEF SumsUp

\* An amount more at one place.
LEMMA SumWithMore ==
  ASSUME NEW D, IsFiniteSet(D), NEW f \in [D -> Int], NEW h \in [D -> Int],
         NEW a \in D, NEW n \in Int, h[a] = f[a] + n, \A x \in D : x # a => h[x] = f[x]
  PROVE  SumFunctionOnSet(h, D) = SumFunctionOnSet(f, D) + n
<1>. DEFINE g == [x \in D |-> IF x = a THEN n ELSE 0]
<1>1. g \in [D -> Int] /\ g[a] = n
  OBVIOUS
<1>2. \A x \in D : h[x] = f[x] + g[x]
  OBVIOUS
<1>3. \A x \in D : x # a => g[x] = 0
  OBVIOUS
<1>. HIDE DEF g
<1>4. SumFunctionOnSet(g, D) = n
  BY <1>1, <1>3, SumOfOne
<1>. QED  BY <1>1, <1>2, <1>4, SumOfSums

InAnyOrder(F, f, D) == \A s \in SUBSET D : \A x \in s : F[s] = f[x] + F[s \ {x}]

\* Any element may be the one that is set apart.
LEMMA SumInAnyOrder ==
  ASSUME NEW D, IsFiniteSet(D), NEW f \in [D -> Int], NEW F \in [SUBSET D -> Int],
         SumsUp(F, f, D)
  PROVE  InAnyOrder(F, f, D)
<1>. DEFINE Agree == {s \in SUBSET D : \A x \in s : F[s] = f[x] + F[s \ {x}]}
<1>1. ASSUME NEW s \in SUBSET D, \A x \in s : s \ {x} \in Agree
      PROVE  s \in Agree
  <2>. SUFFICES ASSUME NEW x \in s
                PROVE  F[s] = f[x] + F[s \ {x}]
    OBVIOUS
  <2>1. PICK c \in s : c = Chosen(s)
    BY DEF Chosen
  <2>2. F[s] = f[c] + F[s \ {c}]
    BY <2>1 DEF SumsUp
  <2>3. CASE c = x
    BY <2>2, <2>3
  <2>4. CASE c # x
    <3>1. PICK sc \in SUBSET D, sx \in SUBSET D, both \in SUBSET D :
             sc = s \ {c} /\ sx = s \ {x} /\ both = s \ {c, x}
      OBVIOUS
    <3>2. sc \ {x} = both /\ sx \ {c} = both /\ x \in sc /\ c \in sx
      BY <2>4, <3>1
    <3>3. F[sc] = f[x] + F[both] /\ F[sx] = f[c] + F[both]
      BY <1>1, <3>1, <3>2
    <3>4. f[x] \in Int /\ f[c] \in Int /\ F[both] \in Int
      OBVIOUS
    <3>. QED  BY <2>2, <3>1, <3>3, <3>4
  <2>. QED  BY <2>3, <2>4
<1>2. Agree = SUBSET D
  <2>. HIDE DEF Agree
  <2>1. Agree \in SUBSET SUBSET D
    BY DEF Agree
  <2>. QED  BY <1>1, <2>1, SubsetInduction
<1>. QED  BY <1>2 DEF InAnyOrder

\* What is summed up on the way are the sums over the subsets.
LEMMA SumsOfSubsets ==
  ASSUME NEW D, IsFiniteSet(D), NEW f \in [D -> Int], NEW F \in [SUBSET D -> Int],
         SumsUp(F, f, D), NEW E \in SUBSET D, NEW g \in [E -> Int], \A x \in E : g[x] = f[x]
  PROVE  SumFunctionOnSet(g, E) = F[E]
<1>1. IsFiniteSet(E)
  BY FS_Subset
<1>2. PICK G \in [SUBSET E -> Int] : SumsUp(G, g, E)
  BY <1>1, SumIsIterated
<1>. DEFINE Agree == {s \in SUBSET E : G[s] = F[s]}
<1>3. ASSUME NEW s \in SUBSET E, \A x \in s : s \ {x} \in Agree
      PROVE  s \in Agree
  <2>0. s \in SUBSET D
    OBVIOUS
  <2>1. CASE s = {}
    BY <1>2, <2>0, <2>1 DEF SumsUp
  <2>2. CASE s # {}
    <3>1. PICK x \in s : x = Chosen(s)
      BY <2>2 DEF Chosen
    <3>2. G[s] = g[x] + G[s \ {x}] /\ F[s] = f[x] + F[s \ {x}]
      BY <1>2, <2>0, <2>2, <3>1 DEF SumsUp
    <3>3. G[s \ {x}] = F[s \ {x}] /\ g[x] = f[x]
      BY <1>3
    <3>. QED  BY <3>2, <3>3
  <2>. QED  BY <2>1, <2>2
<1>4. Agree = SUBSET E
  <2>. HIDE DEF Agree
  <2>1. Agree \in SUBSET SUBSET E
    BY DEF Agree
  <2>2. \A s \in SUBSET E : (\A x \in s : s \ {x} \in Agree) => s \in Agree
    BY <1>3
  <2>. QED  BY <1>1, <2>1, <2>2, SubsetInduction
<1>. QED  BY <1>2, <1>4 DEF SumsUp

LEMMA SumOfNone ==
  ASSUME NEW f \in [{} -> Int]
  PROVE  SumFunctionOnSet(f, {}) = 0
<1>. DEFINE none == {}
<1>1. IsFiniteSet(none) /\ f \in [none -> Int] /\ none \in SUBSET none
  BY FS_EmptySet
<1>. HIDE DEF none
<1>2. PICK F \in [SUBSET none -> Int] : SumsUp(F, f, none)
  BY <1>1, SumIsIterated
<1>3. SumFunctionOnSet(f, none) = IF none = {} THEN 0 ELSE f[Chosen(none)] + F[none \ {Chosen(none)}]
  BY <1>1, <1>2 DEF SumsUp
<1>. QED  BY <1>3 DEF none

LEMMA SumOfAdded ==
  ASSUME NEW D, IsFiniteSet(D), NEW x, x \notin D,
         NEW g \in [D -> Int], NEW f \in [D \cup {x} -> Int], \A y \in D : f[y] = g[y]
  PROVE  SumFunctionOnSet(f, D \cup {x}) = f[x] + SumFunctionOnSet(g, D)
<1>1. PICK E : E = D \cup {x}
  OBVIOUS
<1>2. IsFiniteSet(E) /\ f \in [E -> Int] /\ E \in SUBSET E /\ x \in E /\ D \in SUBSET E /\ E \ {x} = D
  BY <1>1, FS_AddElement
<1>3. PICK F \in [SUBSET E -> Int] : SumsUp(F, f, E)
  BY <1>2, SumIsIterated
<1>4. F[E] = f[x] + F[D]
  <2>1. InAnyOrder(F, f, E)
    BY <1>2, <1>3, SumInAnyOrder
  <2>. QED  BY <1>2, <2>1 DEF InAnyOrder
<1>5. SumFunctionOnSet(g, D) = F[D]
  BY <1>2, <1>3, SumsOfSubsets
<1>. QED  BY <1>1, <1>3, <1>4, <1>5 DEF SumsUp

-----------------------------------------------------------------------------
(* Folds over a sequence, from left to right. *)

\* Steps on states in S, by elements in T.
IsStep(step, S, T) == step \in [S -> [T -> S]]

\* The step is a function here.  The folds of the modules have expressions for
\* steps; each is shown to be one of these.
Folded(step, base, seq) == FoldLeft(LAMBDA acc, x : step[acc][x], base, seq)

LEMMA MaxOfNumbers ==
  ASSUME NEW n \in Nat, NEW s \in SUBSET (1..n), s # {}
  PROVE  Max(s) \in s /\ \A x \in s : x <= Max(s)
<1>. DEFINE T == {n - x : x \in s}
<1>1. T \in SUBSET Nat /\ T # {}
  <2>1. \A x \in s : x \in 1..n /\ n - x \in Nat
    OBVIOUS
  <2>2. PICK x \in s : TRUE
    OBVIOUS
  <2>3. n - x \in T
    OBVIOUS
  <2>. QED  BY <2>1, <2>3
<1>2. PICK m \in T : \A k \in T : m <= k
  BY <1>1, Smallest
<1>3. PICK x \in s : m = n - x
  BY <1>2
<1>4. \A y \in s : x >= y
  <2>1. \A y \in s : n - y \in T /\ y \in Int
    OBVIOUS
  <2>. HIDE DEF T
  <2>. QED  BY <1>2, <1>3, <2>1
<1>5. /\ (CHOOSE z \in s : \A y \in s : z >= y) \in s
      /\ \A y \in s : (CHOOSE z \in s : \A v \in s : z >= v) >= y
  BY <1>3, <1>4
<1>. QED  BY <1>5 DEF Max

LEMMA MaxOfInterval ==
  ASSUME NEW n \in Nat
  PROVE  Max(1..(n + 1)) = n + 1 /\ 1..(n + 1) \ {n + 1} = 1..n
<1>. DEFINE s == 1..(n + 1)
<1>1. n + 1 \in Nat /\ n + 1 \in s /\ s \in SUBSET (1..(n + 1)) /\ s # {}
  OBVIOUS
<1>2. Max(s) \in s /\ \A x \in s : x <= Max(s)
  <2>. HIDE DEF s
  <2>. QED  BY <1>1, MaxOfNumbers
<1>3. Max(s) = n + 1
  BY <1>1, <1>2
<1>. QED  BY <1>3

\* Prefixes of the sequence are subsets of its indices.
FoldSolves(g, step, base, seq) ==
    \A s \in SUBSET DOMAIN seq :
       g[s] = IF s = {} THEN base ELSE step[g[s \ {Max(s)}]][seq[Max(s)]]

LEMMA FoldSolvable ==
  ASSUME NEW S, NEW T, NEW base \in S, NEW step, IsStep(step, S, T), NEW seq \in Seq(T)
  PROVE  \E g \in [SUBSET DOMAIN seq -> S] : FoldSolves(g, step, base, seq)
<1>. DEFINE n == Len(seq)
            D == 1..n
            choice == [s \in SUBSET D |-> Max(s)]
            walk == [acc \in S |-> [i \in D |-> step[acc][seq[i]]]]
<1>1. n \in Nat /\ DOMAIN seq = D /\ \A i \in D : seq[i] \in T
  <2>1. n \in Nat /\ DOMAIN seq = D
    OBVIOUS
  <2>2. \A i \in 1..Len(seq) : seq[i] \in T
    OBVIOUS
  <2>. QED  BY <2>1, <2>2
<1>2. IsFiniteSet(D)
  BY <1>1, FS_Interval
<1>3. Chooses(choice, D)
  <2>. HIDE DEF n
  <2>. QED  BY <1>1, MaxOfNumbers DEF Chooses
<1>4. walk \in [S -> [D -> S]]
  <2>1. \A acc \in S : step[acc] \in [T -> S]
    BY DEF IsStep
  <2>. HIDE DEF n
  <2>. QED  BY <1>1, <2>1
<1>. HIDE DEF D, choice, walk
<1>5. PICK g \in [SUBSET D -> S] : Iterates(g, D, choice, base, walk)
  BY <1>2, <1>3, <1>4, IterationExists
<1>6. FoldSolves(g, step, base, seq)
  <2>. SUFFICES ASSUME NEW s \in SUBSET D
                PROVE  g[s] = IF s = {} THEN base ELSE step[g[s \ {Max(s)}]][seq[Max(s)]]
    BY <1>1 DEF FoldSolves
  <2>1. CASE s = {}
    BY <1>5, <2>1 DEF Iterates
  <2>2. CASE s # {}
    <3>1. choice[s] = Max(s) /\ choice[s] \in D
      BY <1>3, <2>2 DEF choice, Chooses
    <3>2. g[s \ {Max(s)}] \in S
      OBVIOUS
    <3>3. walk[g[s \ {Max(s)}]][Max(s)] = step[g[s \ {Max(s)}]][seq[Max(s)]]
      BY <3>1, <3>2 DEF walk
    <3>. QED  BY <1>5, <2>2, <3>1, <3>3 DEF Iterates
  <2>. QED  BY <2>1, <2>2
<1>. QED  BY <1>1, <1>5, <1>6

\* Whatever solves a fold, if only where its values are states, has the states
\* of the fold along the sequence.
FoldFits(h, S, step, base, seq) ==
    /\ h[{}] = base
    /\ \A s \in SUBSET DOMAIN seq :
          s # {} /\ h[s \ {Max(s)}] \in S =>
             h[s] = step[h[s \ {Max(s)}]][seq[Max(s)]]

LEMMA FoldFitsOnce ==
  ASSUME NEW S, NEW T, NEW base \in S, NEW step, IsStep(step, S, T), NEW seq \in Seq(T),
         NEW g, FoldFits(g, S, step, base, seq), NEW h, FoldFits(h, S, step, base, seq)
  PROVE  g[DOMAIN seq] \in S /\ g[DOMAIN seq] = h[DOMAIN seq]
<1>. DEFINE n == Len(seq)
            Same == {i \in Nat : i <= n => g[1..i] \in S /\ g[1..i] = h[1..i]}
<1>1. n \in Nat /\ DOMAIN seq = 1..n
  OBVIOUS
<1>2. 0 \in Same
  <2>1. 1..0 = {}
    OBVIOUS
  <2>. QED  BY <2>1 DEF FoldFits
<1>3. ASSUME NEW i \in Same PROVE i + 1 \in Same
  <2>1. i \in Nat
    OBVIOUS
  <2>2. SUFFICES ASSUME i + 1 <= n
                 PROVE  g[1..(i + 1)] \in S /\ g[1..(i + 1)] = h[1..(i + 1)]
    BY <2>1
  <2>3. g[1..i] \in S /\ g[1..i] = h[1..i]
    BY <1>1, <2>1, <2>2
  <2>. DEFINE s == 1..(i + 1)
  <2>4. Max(s) = i + 1 /\ s \ {Max(s)} = 1..i /\ s # {}
    <3>1. i + 1 \in s
      BY <2>1
    <3>2. Max(s) = i + 1 /\ s \ {i + 1} = 1..i
      BY <2>1, MaxOfInterval
    <3>. QED  BY <3>1, <3>2
  <2>5. s \in SUBSET DOMAIN seq /\ seq[i + 1] \in T
    BY <1>1, <2>1, <2>2
  <2>. HIDE DEF s, n, Same
  <2>6. g[s] = step[g[1..i]][seq[i + 1]] /\ h[s] = step[h[1..i]][seq[i + 1]]
    BY <2>3, <2>4, <2>5 DEF FoldFits
  <2>7. step[g[1..i]] \in [T -> S]
    BY <2>3 DEF IsStep
  <2>8. g[s] \in S /\ g[s] = h[s]
    BY <2>3, <2>5, <2>6, <2>7
  <2>. QED  BY <2>8 DEF s
<1>4. Same = Nat
  <2>. HIDE DEF Same
  <2>1. Same \in SUBSET Nat
    BY DEF Same
  <2>. QED  BY <1>2, <1>3, <2>1, Induction
<1>5. n \in Same
  <2>. HIDE DEF Same
  <2>. QED  BY <1>1, <1>4
<1>. QED  BY <1>1, <1>5

Folds(h, S, step, base, seq) ==
    FoldFits(h, S, step, base, seq) /\ Folded(step, base, seq) = h[DOMAIN seq]

LEMMA FoldedFits ==
  ASSUME NEW S, NEW T, NEW base \in S, NEW step, IsStep(step, S, T), NEW seq \in Seq(T)
  PROVE  \E h : Folds(h, S, step, base, seq)
<1>. DEFINE Solves(h) ==
               h = [s \in SUBSET DOMAIN seq |->
                      IF s = {} THEN base ELSE step[h[s \ {Max(s)}]][seq[Max(s)]]]
<1>1. PICK g \in [SUBSET DOMAIN seq -> S] : FoldSolves(g, step, base, seq)
  BY FoldSolvable
<1>2. Solves(g)
  BY <1>1 DEF FoldSolves
<1>. DEFINE h == CHOOSE h : Solves(h)
<1>3. Solves(h)
  <2>. HIDE DEF Solves
  <2>. QED  BY <1>2
<1>4. Folded(step, base, seq) = h[DOMAIN seq]
  BY DEF Folded, FoldLeft, MapThenFoldSet
<1>5. FoldFits(h, S, step, base, seq)
  <2>. HIDE DEF h
  <2>. QED  BY <1>3 DEF FoldFits
<1>. HIDE DEF h
<1>. QED  BY <1>4, <1>5 DEF Folds

LEMMA FoldIsFolded ==
  ASSUME NEW S, NEW T, NEW base \in S, NEW step, IsStep(step, S, T), NEW seq \in Seq(T),
         NEW g, FoldFits(g, S, step, base, seq)
  PROVE  g[DOMAIN seq] = Folded(step, base, seq) /\ Folded(step, base, seq) \in S
<1>1. PICK h : Folds(h, S, step, base, seq)
  BY FoldedFits
<1>. QED  BY <1>1, FoldFitsOnce DEF Folds

LEMMA FoldedType ==
  ASSUME NEW S, NEW T, NEW base \in S, NEW step, IsStep(step, S, T), NEW seq \in Seq(T)
  PROVE  Folded(step, base, seq) \in S
<1>1. PICK h : Folds(h, S, step, base, seq)
  BY FoldedFits
<1>. QED  BY <1>1, FoldIsFolded DEF Folds

LEMMA FoldedEmpty ==
  ASSUME NEW S, NEW T, NEW base \in S, NEW step, IsStep(step, S, T)
  PROVE  Folded(step, base, <<>>) = base
<1>. DEFINE none == <<>>
<1>1. none \in Seq(T) /\ DOMAIN none = {}
  OBVIOUS
<1>. HIDE DEF none
<1>2. PICK h : Folds(h, S, step, base, none)
  BY <1>1, FoldedFits
<1>3. Folded(step, base, none) = base
  BY <1>1, <1>2 DEF Folds, FoldFits
<1>. QED  BY <1>3 DEF none

LEMMA FoldedAppend ==
  ASSUME NEW S, NEW T, NEW base \in S, NEW step, IsStep(step, S, T), NEW seq \in Seq(T),
         NEW x \in T
  PROVE  Folded(step, base, Append(seq, x)) = step[Folded(step, base, seq)][x]
<1>. DEFINE n == Len(seq)
            more == Append(seq, x)
<1>1. n \in Nat /\ DOMAIN seq = 1..n /\ n + 1 \in 1..(n + 1)
  OBVIOUS
<1>2. /\ more \in Seq(T) /\ DOMAIN more = 1..(n + 1)
      /\ more[n + 1] = x /\ \A i \in 1..n : more[i] = seq[i]
  BY <1>1
<1>. HIDE DEF n, more
<1>3. PICK h : Folds(h, S, step, base, more)
  BY <1>2, FoldedFits
<1>4. FoldFits(h, S, step, base, seq)
  <2>1. h[{}] = base
    BY <1>3 DEF Folds, FoldFits
  <2>2. ASSUME NEW s \in SUBSET (1..n), s # {}, h[s \ {Max(s)}] \in S
        PROVE  h[s] = step[h[s \ {Max(s)}]][seq[Max(s)]]
    <3>1. Max(s) \in 1..n
      BY <1>1, <2>2, MaxOfNumbers
    <3>2. s \in SUBSET DOMAIN more
      BY <1>1, <1>2
    <3>. QED  BY <1>2, <1>3, <2>2, <3>1, <3>2 DEF Folds, FoldFits
  <2>. QED  BY <1>1, <2>1, <2>2 DEF FoldFits
<1>5. h[1..n] = Folded(step, base, seq) /\ h[1..n] \in S
  BY <1>1, <1>4, FoldIsFolded
<1>6. h[1..(n + 1)] = step[h[1..n]][x]
  <2>1. Max(1..(n + 1)) = n + 1 /\ 1..(n + 1) \ {n + 1} = 1..n
    BY <1>1, MaxOfInterval
  <2>2. 1..(n + 1) \in SUBSET DOMAIN more /\ 1..(n + 1) # {}
    BY <1>1, <1>2
  <2>. QED  BY <1>2, <1>3, <1>5, <2>1, <2>2 DEF Folds, FoldFits
<1>. QED  BY <1>2, <1>3, <1>5, <1>6 DEF Folds, more

\* The states of a fold after each prefix of the sequence.
Runs(f, S, step, base, seq) ==
    /\ f[0] = base /\ f[Len(seq)] = Folded(step, base, seq)
    /\ \A i \in 0..Len(seq) : f[i] \in S
    /\ \A i \in 0..(Len(seq) - 1) : f[i + 1] = step[f[i]][seq[i + 1]]

LEMMA FoldRuns ==
  ASSUME NEW S, NEW T, NEW base \in S, NEW step, IsStep(step, S, T), NEW seq \in Seq(T)
  PROVE  \E f : Runs(f, S, step, base, seq)
<1>1. PICK h : Folds(h, S, step, base, seq)
  BY FoldedFits
<1>. DEFINE n == Len(seq)
            F == {i \in 0..n : h[1..i] \in S}
            f == [i \in 0..n |-> h[1..i]]
<1>2. n \in Nat /\ DOMAIN seq = 1..n /\ \A i \in 1..n : seq[i] \in T
  OBVIOUS
<1>. HIDE DEF n
<1>3. h[1..0] = base /\ 0 \in 0..n
  <2>1. 1..0 = {}
    OBVIOUS
  <2>. QED  BY <1>1, <1>2, <2>1 DEF Folds, FoldFits
<1>4. ASSUME NEW i \in 0..(n - 1), h[1..i] \in S
      PROVE  /\ i + 1 \in 1..n
             /\ h[1..(i + 1)] = step[h[1..i]][seq[i + 1]]
             /\ h[1..(i + 1)] \in S
  <2>1. i \in Nat /\ i + 1 \in 1..n
    BY <1>2
  <2>2. Max(1..(i + 1)) = i + 1 /\ 1..(i + 1) \ {i + 1} = 1..i
    BY <2>1, MaxOfInterval
  <2>3. PICK s : s = 1..(i + 1)
    OBVIOUS
  <2>4. s \in SUBSET DOMAIN seq /\ s # {} /\ Max(s) = i + 1 /\ s \ {Max(s)} = 1..i
    <3>1. i + 1 \in s /\ s \in SUBSET (1..n)
      BY <1>2, <2>1, <2>3
    <3>2. Max(s) = i + 1 /\ s \ {i + 1} = 1..i
      BY <2>2, <2>3
    <3>. QED  BY <1>2, <3>1, <3>2
  <2>5. h[s] = step[h[1..i]][seq[i + 1]]
    <3>1. FoldFits(h, S, step, base, seq)
      BY <1>1 DEF Folds
    <3>2. h[s \ {Max(s)}] \in S
      BY <1>4, <2>4
    <3>3. h[s] = step[h[s \ {Max(s)}]][seq[Max(s)]]
      BY <2>4, <3>1, <3>2 DEF FoldFits
    <3>. QED  BY <2>4, <3>3
  <2>6. step[h[1..i]] \in [T -> S]
    BY <1>4 DEF IsStep
  <2>. QED  BY <1>2, <2>1, <2>3, <2>5, <2>6
<1>5. 0..n \subseteq F
  <2>1. 0 \in F
    BY <1>3
  <2>2. \A i \in 0..(n - 1) : i \in F => i + 1 \in F
    <3>1. \A i \in 0..(n - 1) : i + 1 \in 0..n
      BY <1>2
    <3>. QED  BY <1>4, <3>1
  <2>. HIDE DEF F
  <2>. QED  BY <1>2, <2>1, <2>2, InductionUpTo
<1>6. \A i \in 0..n : f[i] = h[1..i] /\ f[i] \in S
  BY <1>5
<1>7. \A i \in 0..(n - 1) : f[i + 1] = step[f[i]][seq[i + 1]]
  <2>1. \A i \in 0..(n - 1) : i \in 0..n /\ i + 1 \in 0..n
    BY <1>2
  <2>. HIDE DEF f
  <2>. QED  BY <1>4, <1>6, <2>1
<1>8. n \in 0..n /\ f[n] = Folded(step, base, seq)
  BY <1>1, <1>2 DEF Folds
<1>. HIDE DEF f
<1>9. f[0] = base
  BY <1>3, <1>6
<1>10. Runs(f, S, step, base, seq)
  BY <1>6, <1>7, <1>8, <1>9 DEF Runs, n
<1>. QED  BY <1>10

\* Stretches of a sequence.
LEMMA StretchFacts ==
  ASSUME NEW T, NEW seq \in Seq(T), NEW i \in 1..(Len(seq) + 1), NEW k \in (i - 1)..Len(seq)
  PROVE  /\ SubSeq(seq, i, k) \in Seq(T)
         /\ Len(SubSeq(seq, i, k)) = k - i + 1
         /\ \A j \in 1..(k - i + 1) : SubSeq(seq, i, k)[j] = seq[i + j - 1]
         /\ k < Len(seq) => SubSeq(seq, i, k + 1) = Append(SubSeq(seq, i, k), seq[k + 1])
         /\ k = i - 1 => SubSeq(seq, i, k) = <<>>
<1>1. /\ SubSeq(seq, i, k) \in Seq(T)
      /\ Len(SubSeq(seq, i, k)) = k - i + 1
      /\ \A j \in 1..(k - i + 1) : SubSeq(seq, i, k)[j] = seq[i + j - 1]
  BY SubSeqProperties
<1>2. ASSUME k < Len(seq)
      PROVE  SubSeq(seq, i, k + 1) = Append(SubSeq(seq, i, k), seq[k + 1])
  <2>1. k + 1 \in (i - 1)..Len(seq) /\ seq[k + 1] \in T /\ i \in Int /\ k \in Int
    BY <1>2
  <2>. DEFINE a == SubSeq(seq, i, k + 1)
              b == Append(SubSeq(seq, i, k), seq[k + 1])
  <2>2. /\ a \in Seq(T) /\ Len(a) = k + 1 - i + 1
        /\ \A j \in 1..(k + 1 - i + 1) : a[j] = seq[i + j - 1]
    BY <2>1, SubSeqProperties
  <2>3. /\ b \in Seq(T) /\ Len(b) = k - i + 1 + 1
        /\ \A j \in 1..(k - i + 1) : b[j] = seq[i + j - 1]
        /\ b[k - i + 1 + 1] = seq[k + 1]
    BY <1>1, <2>1, AppendProperties
  <2>. HIDE DEF a, b
  <2>4. \A j \in 1..Len(a) : a[j] = b[j]
    <3>. SUFFICES ASSUME NEW j \in 1..Len(a) PROVE a[j] = b[j]
      OBVIOUS
    <3>1. CASE j = k - i + 1 + 1
      BY <2>1, <2>2, <2>3, <3>1
    <3>2. CASE j # k - i + 1 + 1
      <4>1. j \in 1..(k - i + 1)
        BY <2>1, <2>2, <3>2
      <4>. QED  BY <2>1, <2>2, <2>3, <4>1
    <3>. QED  BY <3>1, <3>2
  <2>5. a = b
    BY <2>1, <2>2, <2>3, <2>4, SeqEqual
  <2>. QED  BY <2>5 DEF a, b
<1>3. ASSUME k = i - 1 PROVE SubSeq(seq, i, k) = <<>>
  <2>1. Len(SubSeq(seq, i, k)) = 0
    BY <1>1, <1>3
  <2>. QED  BY <1>1, <2>1, EmptySeq
<1>. QED  BY <1>1, <1>2, <1>3
=============================================================================
