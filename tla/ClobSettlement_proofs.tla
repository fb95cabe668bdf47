------------------------ MODULE ClobSettlement_proofs ------------------------
(***************************************************************************)
(* Proofs about the CLOB and its consumer contract, for any users, trades, *)
(* deposits and withdrawals, any number of orders and any width of the     *)
(* amounts.                                                                *)
(***************************************************************************)
EXTENDS ClobSettlement, FoldLemmas

-----------------------------------------------------------------------------
(* Amounts and functions. *)

LEMMA WrapFacts == \A n \in Int : Wrap(n) \in U64
<1>1. \A m \in Nat \ {0}, n \in Int : n % m \in 0..(m - 1)
  OBVIOUS
<1>. QED  BY <1>1, AmountAssumption DEF Wrap, U64

LEMMA U64Facts == \A n \in U64 : n \in Nat /\ n \in Int /\ n < Modulus
  BY AmountAssumption DEF U64

LEMMA MinOfTwo ==
  ASSUME NEW m \in Nat, NEW n \in Nat
  PROVE  Min({m, n}) \in {m, n} /\ Min({m, n}) <= m /\ Min({m, n}) <= n
<1>1. \E x \in {m, n} : \A y \in {m, n} : x <= y
  BY m <= n \/ n <= m
<1>2. /\ (CHOOSE x \in {m, n} : \A y \in {m, n} : x <= y) \in {m, n}
      /\ \A y \in {m, n} : (CHOOSE x \in {m, n} : \A v \in {m, n} : x <= v) <= y
  BY <1>1
<1>. QED  BY <1>2 DEF Min

\* Functions from some elements of D to R.
Maps(D, R) == UNION {[S -> R] : S \in SUBSET D}

LEMMA MapsFacts ==
  ASSUME NEW D, NEW R, NEW f \in Maps(D, R)
  PROVE  /\ DOMAIN f \subseteq D
         /\ f = [x \in DOMAIN f |-> f[x]]
         /\ \A x \in DOMAIN f : f[x] \in R
  BY DEF Maps

LEMMA IsMap ==
  ASSUME NEW D, NEW R, NEW S \in SUBSET D, NEW f \in [S -> R]
  PROVE  f \in Maps(D, R)
  BY DEF Maps

\* What g is, with regard to f: one place is added or replaced, some are kept,
\* one is removed.
Added(g, f, x, v) ==
    DOMAIN g = DOMAIN f \cup {x} /\ \A y \in DOMAIN g : g[y] = IF y = x THEN v ELSE f[y]
Kept(g, f, S) == DOMAIN g = DOMAIN f \cap S /\ \A y \in DOMAIN g : g[y] = f[y]
Removed(g, f, x) == DOMAIN g = DOMAIN f \ {x} /\ \A y \in DOMAIN g : g[y] = f[y]

Only(f, S) == Restrict(f, {y \in DOMAIN f : y \in S})
Without(f, x) == Restrict(f, {y \in DOMAIN f : y # x})

LEMMA PutFacts ==
  ASSUME NEW D, NEW R, NEW f \in Maps(D, R), NEW x \in D, NEW v \in R
  PROVE  Put(f, x, v) \in Maps(D, R) /\ Added(Put(f, x, v), f, x, v)
<1>1. DOMAIN f \in SUBSET D /\ \A y \in DOMAIN f : f[y] \in R
  BY MapsFacts
<1>2. Put(f, x, v) \in [DOMAIN f \cup {x} -> R]
  BY <1>1 DEF Put
<1>3. Put(f, x, v) \in Maps(D, R)
  BY <1>1, <1>2, IsMap
<1>. QED  BY <1>3 DEF Put, Added

LEMMA OnlyFacts ==
  ASSUME NEW D, NEW R, NEW f \in Maps(D, R), NEW S
  PROVE  Only(f, S) \in Maps(D, R) /\ Kept(Only(f, S), f, S)
<1>. DEFINE T == {x \in DOMAIN f : x \in S}
<1>1. T \in SUBSET D /\ \A y \in DOMAIN f : f[y] \in R
  BY MapsFacts
<1>2. Restrict(f, T) \in [T -> R]
  BY <1>1 DEF Restrict
<1>3. Restrict(f, T) \in Maps(D, R)
  BY <1>1, <1>2, IsMap
<1>. QED  BY <1>3 DEF Restrict, Only, Kept

LEMMA WithoutFacts ==
  ASSUME NEW D, NEW R, NEW f \in Maps(D, R), NEW x
  PROVE  Without(f, x) \in Maps(D, R) /\ Removed(Without(f, x), f, x)
<1>. DEFINE T == {y \in DOMAIN f : y # x}
<1>1. T \in SUBSET D /\ \A y \in DOMAIN f : f[y] \in R
  BY MapsFacts
<1>2. Restrict(f, T) \in [T -> R]
  BY <1>1 DEF Restrict
<1>3. Restrict(f, T) \in Maps(D, R)
  BY <1>1, <1>2, IsMap
<1>. QED  BY <1>3 DEF Restrict, Without, Removed

-----------------------------------------------------------------------------
(* Matching: one level. *)

Fill == [maker : Order, size : U64]

Filling(n) ==
    {acc \in [remaining : 0..n, fills : Seq(Fill), level : Seq(Order)] :
        acc.remaining > 0 => acc.level = <<>>}

StartOfLevel(n) == [remaining |-> n, fills |-> <<>>, level |-> <<>>]

FillSteps(n) == [acc \in Filling(n) |-> [maker \in Order |-> FillMaker(acc, maker)]]

LEMMA OrderFacts ==
  ASSUME NEW o \in Order
  PROVE  /\ o.size \in U64 /\ o.limit_price \in U64 /\ o.oid \in Nat
         /\ o.is_buy \in BOOLEAN /\ o.address \in User
         /\ \A n \in U64 : [o EXCEPT !.size = n] \in Order
  BY DEF Order

\* Three ways for a maker: nothing remains of the taker, the maker is filled,
\* or the taker is.
LEMMA FillMakerFacts ==
  ASSUME NEW n \in U64, NEW acc \in Filling(n), NEW maker \in Order
  PROVE  \/ /\ acc.remaining = 0
            /\ FillMaker(acc, maker).remaining = 0
            /\ FillMaker(acc, maker).fills = acc.fills
            /\ FillMaker(acc, maker).level = Append(acc.level, maker)
         \/ /\ acc.remaining > 0 /\ maker.size <= acc.remaining /\ acc.level = <<>>
            /\ FillMaker(acc, maker).remaining = acc.remaining - maker.size
            /\ FillMaker(acc, maker).fills
                  = Append(acc.fills, [maker |-> maker, size |-> maker.size])
            /\ FillMaker(acc, maker).level = <<>>
         \/ /\ acc.remaining > 0 /\ maker.size > acc.remaining /\ acc.level = <<>>
            /\ FillMaker(acc, maker).remaining = 0
            /\ FillMaker(acc, maker).fills
                  = Append(acc.fills, [maker |-> maker, size |-> acc.remaining])
            /\ FillMaker(acc, maker).level
                  = <<[maker EXCEPT !.size = @ - acc.remaining]>>
<1>1. /\ acc.remaining \in 0..n /\ acc.fills \in Seq(Fill) /\ acc.level \in Seq(Order)
      /\ acc.remaining > 0 => acc.level = <<>>
  BY DEF Filling
<1>2. maker.size \in Nat /\ acc.remaining \in Nat
  BY <1>1, OrderFacts, U64Facts
<1>3. PICK size : size = Min({maker.size, acc.remaining})
  OBVIOUS
<1>4. CASE acc.remaining = 0
  <2>1. FillMaker(acc, maker) = [acc EXCEPT !.level = Append(@, maker)]
    BY <1>4 DEF FillMaker
  <2>2. acc \in [remaining : 0..n, fills : Seq(Fill), level : Seq(Order)]
    BY DEF Filling
  <2>. QED  BY <1>4, <2>1, <2>2
<1>5. ASSUME acc.remaining # 0
      PROVE  /\ FillMaker(acc, maker).remaining = acc.remaining - size
             /\ FillMaker(acc, maker).fills = Append(acc.fills, [maker |-> maker, size |-> size])
             /\ FillMaker(acc, maker).level
                   = IF size = maker.size THEN <<>>
                     ELSE Append(<<>>, [maker EXCEPT !.size = @ - size])
  <2>1. FillMaker(acc, maker)
           = [remaining |-> acc.remaining - size,
              fills |-> Append(acc.fills, [maker |-> maker, size |-> size]),
              level |-> IF size = maker.size THEN acc.level
                        ELSE Append(acc.level, [maker EXCEPT !.size = @ - size])]
    BY <1>3, <1>5 DEF FillMaker
  <2>2. acc.level = <<>>
    BY <1>1, <1>2, <1>5
  <2>. QED  BY <2>1, <2>2
<1>6. CASE acc.remaining > 0 /\ maker.size <= acc.remaining
  <2>1. size = maker.size
    BY <1>2, <1>3, <1>6, MinOfTwo
  <2>2. acc.level = <<>> /\ acc.remaining # 0
    BY <1>1, <1>2, <1>6
  <2>. QED  BY <1>5, <1>6, <2>1, <2>2
<1>7. CASE acc.remaining > 0 /\ maker.size > acc.remaining
  <2>1. size = acc.remaining /\ acc.remaining # maker.size
    BY <1>2, <1>3, <1>7, MinOfTwo
  <2>2. acc.level = <<>> /\ acc.remaining # 0 /\ acc.remaining - size = 0
    BY <1>1, <1>2, <1>7, <2>1
  <2>3. \A x : Append(<<>>, x) = <<x>>
    OBVIOUS
  <2>. QED  BY <1>5, <1>7, <2>1, <2>2, <2>3
<1>. QED  BY <1>2, <1>4, <1>6, <1>7

LEMMA FillMakerType ==
  ASSUME NEW n \in U64, NEW acc \in Filling(n), NEW maker \in Order
  PROVE  FillMaker(acc, maker) \in Filling(n) /\ FillSteps(n)[acc][maker] = FillMaker(acc, maker)
<1>. DEFINE after == FillMaker(acc, maker)
<1>1. /\ acc.remaining \in 0..n /\ acc.fills \in Seq(Fill) /\ acc.level \in Seq(Order)
      /\ maker.size \in U64 /\ maker.size \in Nat /\ n \in Nat /\ n < Modulus
  BY OrderFacts, U64Facts DEF Filling
<1>2. /\ acc.remaining \in U64
      /\ maker.size > acc.remaining => maker.size - acc.remaining \in U64
      /\ maker.size <= acc.remaining => acc.remaining - maker.size \in 0..n
  <2>1. PICK r, m \in Nat : r = acc.remaining /\ m = maker.size
    BY <1>1
  <2>2. r \in 0..n /\ m \in 0..(Modulus - 1) /\ Modulus \in Nat
    BY <1>1, <2>1, AmountAssumption DEF U64
  <2>3. r \in 0..(Modulus - 1) /\ (m > r => m - r \in 0..(Modulus - 1)) /\ (m <= r => r - m \in 0..n)
    BY <1>1, <2>2
  <2>. QED  BY <2>1, <2>3 DEF U64
<1>3. \A m \in U64 : [maker |-> maker, size |-> m] \in Fill
  BY DEF Fill
<1>4. \A m \in U64 : Append(acc.fills, [maker |-> maker, size |-> m]) \in Seq(Fill)
  BY <1>1, <1>3
<1>5. Append(acc.level, maker) \in Seq(Order) /\ <<>> \in Seq(Order) /\ 0 \in 0..n
  BY <1>1
<1>6. maker.size > acc.remaining => <<[maker EXCEPT !.size = @ - acc.remaining]>> \in Seq(Order)
  <2>1. \A x \in Order : <<x>> \in Seq(Order)
    OBVIOUS
  <2>2. maker.size > acc.remaining => [maker EXCEPT !.size = @ - acc.remaining] \in Order
    BY <1>2, OrderFacts
  <2>. QED  BY <2>1, <2>2
<1>7. after = [remaining |-> after.remaining, fills |-> after.fills, level |-> after.level]
  <2>1. acc \in [remaining : 0..n, fills : Seq(Fill), level : Seq(Order)]
    BY DEF Filling
  <2>. QED  BY <2>1 DEF FillMaker
<1>8. /\ after.remaining \in 0..n /\ after.fills \in Seq(Fill) /\ after.level \in Seq(Order)
      /\ after.remaining > 0 => after.level = <<>>
  <2>. HIDE DEF after
  <2>1. \/ /\ acc.remaining = 0 /\ after.remaining = 0 /\ after.fills = acc.fills
           /\ after.level = Append(acc.level, maker)
        \/ /\ acc.remaining > 0 /\ maker.size <= acc.remaining
           /\ after.remaining = acc.remaining - maker.size
           /\ after.fills = Append(acc.fills, [maker |-> maker, size |-> maker.size])
           /\ after.level = <<>>
        \/ /\ acc.remaining > 0 /\ maker.size > acc.remaining
           /\ after.remaining = 0
           /\ after.fills = Append(acc.fills, [maker |-> maker, size |-> acc.remaining])
           /\ after.level = <<[maker EXCEPT !.size = @ - acc.remaining]>>
    BY FillMakerFacts DEF after
  <2>2. after.fills \in Seq(Fill)
    BY <1>1, <1>2, <1>4, <2>1
  <2>3. after.level \in Seq(Order)
    BY <1>1, <1>5, <1>6, <2>1
  <2>4. after.remaining \in 0..n
    BY <1>2, <1>5, <2>1
  <2>5. after.remaining > 0 => after.level = <<>>
    <3>1. ~(0 > 0)
      OBVIOUS
    <3>. QED  BY <2>1, <3>1
  <2>. QED  BY <2>2, <2>3, <2>4, <2>5
<1>. HIDE DEF after
<1>9. after \in Filling(n)
  BY <1>7, <1>8 DEF Filling
<1>. QED  BY <1>9 DEF FillSteps, after

LEMMA FillStepsIsStep == \A n \in U64 : IsStep(FillSteps(n), Filling(n), Order)
<1>. SUFFICES ASSUME NEW n \in U64 PROVE IsStep(FillSteps(n), Filling(n), Order)
  OBVIOUS
<1>1. \A acc \in Filling(n) : [maker \in Order |-> FillMaker(acc, maker)] \in [Order -> Filling(n)]
  BY FillMakerType
<1>. QED  BY <1>1 DEF FillSteps, IsStep

LEMMA StartOfLevelType == \A n \in U64 : StartOfLevel(n) \in Filling(n)
<1>1. \A n \in U64 : n \in 0..n
  BY U64Facts
<1>2. <<>> \in Seq(Fill) /\ <<>> \in Seq(Order)
  OBVIOUS
<1>. QED  BY <1>1, <1>2 DEF StartOfLevel, Filling

LEMMA FillIsFolded ==
  ASSUME NEW n \in U64, NEW level \in Seq(Order)
  PROVE  FillAtPriceLevel(level, n) = Folded(FillSteps(n), StartOfLevel(n), level)
<1>. DEFINE Solves(h) ==
               h = [s \in SUBSET DOMAIN level |->
                      IF s = {} THEN StartOfLevel(n)
                      ELSE FillMaker(h[s \ {Max(s)}], level[Max(s)])]
<1>1. /\ StartOfLevel(n) \in Filling(n) /\ IsStep(FillSteps(n), Filling(n), Order)
      /\ DOMAIN level = 1..Len(level) /\ Len(level) \in Nat
  BY StartOfLevelType, FillStepsIsStep
<1>2. \A s \in SUBSET DOMAIN level : s # {} => level[Max(s)] \in Order
  <2>. SUFFICES ASSUME NEW s \in SUBSET DOMAIN level, s # {} PROVE level[Max(s)] \in Order
    OBVIOUS
  <2>1. Max(s) \in 1..Len(level)
    BY <1>1, MaxOfNumbers
  <2>. QED  BY <2>1
<1>3. PICK g \in [SUBSET DOMAIN level -> Filling(n)] :
         FoldSolves(g, FillSteps(n), StartOfLevel(n), level)
  BY <1>1, FoldSolvable
<1>4. Solves(g)
  <2>1. ASSUME NEW s \in SUBSET DOMAIN level
        PROVE  g[s] = IF s = {} THEN StartOfLevel(n) ELSE FillMaker(g[s \ {Max(s)}], level[Max(s)])
    <3>1. g[s \ {Max(s)}] \in Filling(n)
      OBVIOUS
    <3>. QED  BY <1>2, <1>3, <3>1, FillMakerType DEF FoldSolves
  <2>. QED  BY <2>1
<1>. DEFINE h == CHOOSE h : Solves(h)
<1>5. Solves(h)
  <2>. HIDE DEF Solves
  <2>. QED  BY <1>4
<1>6. FillAtPriceLevel(level, n) = h[DOMAIN level]
  BY DEF FillAtPriceLevel, FoldLeft, MapThenFoldSet, StartOfLevel
<1>. HIDE DEF h
<1>7. FoldFits(h, Filling(n), FillSteps(n), StartOfLevel(n), level)
  <2>1. h[{}] = StartOfLevel(n)
    BY <1>5
  <2>2. ASSUME NEW s \in SUBSET DOMAIN level, s # {}, h[s \ {Max(s)}] \in Filling(n)
        PROVE  h[s] = FillSteps(n)[h[s \ {Max(s)}]][level[Max(s)]]
    <3>1. h[s] = FillMaker(h[s \ {Max(s)}], level[Max(s)])
      BY <1>5, <2>2
    <3>. QED  BY <1>2, <2>2, <3>1, FillMakerType
  <2>. QED  BY <2>1, <2>2 DEF FoldFits
<1>. QED  BY <1>1, <1>6, <1>7, FoldIsFolded

LEMMA FillType ==
  ASSUME NEW n \in U64, NEW level \in Seq(Order)
  PROVE  FillAtPriceLevel(level, n) \in Filling(n)
  BY FillIsFolded, StartOfLevelType, FillStepsIsStep, FoldedType

-----------------------------------------------------------------------------
(* Matching: level after level. *)

Queue == Seq(Order)

Levels == Maps(U64, Queue)

Match0(n, levels) == [remaining |-> n, fills |-> <<>>, levels |-> levels]

Matching(n) == [remaining : 0..n, fills : Seq(Fill), levels : Levels]

\* What the levels at s have become, and that the others are as they were.
Swept(acc, n, levels, s) ==
    /\ acc \in Matching(n)
    /\ DOMAIN acc.levels \subseteq DOMAIN levels
    /\ \A p \in DOMAIN levels \ s : p \in DOMAIN acc.levels /\ acc.levels[p] = levels[p]
    /\ acc.remaining > 0 => DOMAIN acc.levels = DOMAIN levels \ s

LEMMA MaxOfAmounts ==
  ASSUME NEW s \in SUBSET U64, s # {}
  PROVE  Max(s) \in s /\ \A y \in s : Max(s) >= y
<1>. DEFINE T == {Modulus - x : x \in s}
<1>1. \A x \in s : x \in Nat /\ Modulus - x \in Nat /\ Modulus \in Nat
  <2>1. \A x \in U64 : x \in Nat /\ Modulus - x \in Nat
    BY AmountAssumption DEF U64
  <2>. QED  BY <2>1, AmountAssumption
<1>2. T \in SUBSET Nat /\ T # {}
  BY <1>1
<1>3. PICK m \in T : \A k \in T : m <= k
  <2>. HIDE DEF T
  <2>. QED  BY <1>2, Smallest
<1>4. PICK x \in s : m = Modulus - x
  BY <1>3
<1>5. \A y \in s : x >= y
  <2>1. \A y \in s : Modulus - y \in T
    OBVIOUS
  <2>. HIDE DEF T
  <2>. QED  BY <1>1, <1>3, <1>4, <2>1
<1>6. /\ (CHOOSE z \in s : \A y \in s : z >= y) \in s
      /\ \A y \in s : (CHOOSE z \in s : \A v \in s : z >= v) >= y
  BY <1>5
<1>. QED  BY <1>6 DEF Max

LEMMA MinOfAmounts ==
  ASSUME NEW s \in SUBSET U64, s # {}
  PROVE  Min(s) \in s /\ \A y \in s : Min(s) <= y
<1>1. s \in SUBSET Nat
  BY U64Facts
<1>2. \E z \in s : \A y \in s : z <= y
  BY <1>1, Smallest
<1>3. /\ (CHOOSE z \in s : \A y \in s : z <= y) \in s
      /\ \A y \in s : (CHOOSE z \in s : \A v \in s : z <= v) <= y
  BY <1>2
<1>. QED  BY <1>3 DEF Min

LEMMA LastPriceFacts ==
  ASSUME NEW order, NEW s \in SUBSET U64, s # {}
  PROVE  LastPrice(order, s) \in s
  BY MaxOfAmounts, MinOfAmounts DEF LastPrice

LEMMA ConcatFacts ==
  ASSUME NEW T, NEW a \in Seq(T), NEW b \in Seq(T)
  PROVE  a \o b \in Seq(T)
  OBVIOUS

LEMMA TakeLevelFacts ==
  ASSUME NEW n \in U64, NEW acc \in Matching(n), NEW p \in DOMAIN acc.levels
  PROVE  LET taken == FillAtPriceLevel(acc.levels[p], acc.remaining)
             after == TakeLevel(p, acc)
         IN  /\ acc.levels[p] \in Seq(Order) /\ acc.remaining \in U64
             /\ taken \in Filling(acc.remaining)
             /\ after \in Matching(n)
             /\ acc.remaining = 0 => after = acc
             /\ acc.remaining # 0 =>
                   /\ after.remaining = taken.remaining
                   /\ after.fills = acc.fills \o taken.fills
                   /\ DOMAIN after.levels = IF taken.level = <<>> THEN DOMAIN acc.levels \ {p}
                                            ELSE DOMAIN acc.levels
                   /\ \A q \in DOMAIN acc.levels \ {p} : after.levels[q] = acc.levels[q]
                   /\ taken.level # <<>> => after.levels[p] = taken.level
<1>1. PICK level, left : level = acc.levels[p] /\ left = acc.remaining
  OBVIOUS
<1>2. PICK taken, after : taken = FillAtPriceLevel(level, left) /\ after = TakeLevel(p, acc)
  OBVIOUS
<1>3. acc.remaining \in 0..n /\ acc.fills \in Seq(Fill) /\ acc.levels \in Levels
  BY DEF Matching
<1>4. level \in Seq(Order) /\ left \in U64 /\ 0..left \subseteq 0..n
  <2>1. level \in Seq(Order)
    BY <1>1, <1>3, MapsFacts DEF Levels, Queue
  <2>2. left \in U64 /\ 0..left \subseteq 0..n
    <3>1. n \in Nat /\ n < Modulus /\ Modulus \in Nat
      BY U64Facts, AmountAssumption
    <3>. QED  BY <1>1, <1>3, <3>1 DEF U64
  <2>. QED  BY <2>1, <2>2
<1>5. taken \in Filling(left)
  BY <1>2, <1>4, FillType
<1>6. taken.remaining \in 0..n /\ taken.fills \in Seq(Fill) /\ taken.level \in Seq(Order)
  <2>1. taken.remaining \in 0..left
    BY <1>5 DEF Filling
  <2>. QED  BY <1>4, <1>5, <2>1 DEF Filling
<1>7. CASE left = 0
  <2>1. after = acc
    BY <1>1, <1>2, <1>7 DEF TakeLevel
  <2>. QED  BY <1>1, <1>2, <1>4, <1>5, <1>7, <2>1
<1>8. CASE left # 0
  <2>1. PICK levels2 : levels2 = IF taken.level = <<>>
                                 THEN RestrictDomain(acc.levels, LAMBDA q : q # p)
                                 ELSE [acc.levels EXCEPT ![p] = taken.level]
    OBVIOUS
  <2>2. after = [remaining |-> taken.remaining, fills |-> acc.fills \o taken.fills,
                 levels |-> levels2]
    BY <1>1, <1>2, <1>8, <2>1 DEF TakeLevel
  <2>3. /\ levels2 \in Levels
        /\ DOMAIN levels2 = IF taken.level = <<>> THEN DOMAIN acc.levels \ {p}
                            ELSE DOMAIN acc.levels
        /\ \A q \in DOMAIN acc.levels \ {p} : levels2[q] = acc.levels[q]
        /\ taken.level # <<>> => levels2[p] = taken.level
    <3>1. CASE taken.level = <<>>
      <4>1. levels2 = Without(acc.levels, p)
        BY <2>1, <3>1 DEF RestrictDomain, Without
      <4>2. PICK f \in Maps(U64, Queue) : f = acc.levels
        BY <1>3 DEF Levels
      <4>3. Without(f, p) \in Maps(U64, Queue) /\ Removed(Without(f, p), f, p)
        BY WithoutFacts
      <4>. QED  BY <3>1, <4>1, <4>2, <4>3 DEF Levels, Removed
    <3>2. CASE taken.level # <<>>
      <4>1. levels2 = [acc.levels EXCEPT ![p] = taken.level]
        BY <2>1, <3>2
      <4>2. /\ DOMAIN acc.levels \in SUBSET U64
            /\ acc.levels = [q \in DOMAIN acc.levels |-> acc.levels[q]]
            /\ \A q \in DOMAIN acc.levels : acc.levels[q] \in Seq(Order)
        BY <1>3, MapsFacts DEF Levels, Queue
      <4>3. levels2 \in [DOMAIN acc.levels -> Seq(Order)]
        BY <1>6, <4>1, <4>2
      <4>4. levels2 \in Levels
        BY <4>2, <4>3, IsMap DEF Levels, Queue
      <4>. QED  BY <3>2, <4>1, <4>2, <4>4
    <3>. QED  BY <3>1, <3>2
  <2>4. acc.fills \o taken.fills \in Seq(Fill)
    BY <1>3, <1>6, ConcatFacts
  <2>5. after \in Matching(n)
    BY <1>6, <2>2, <2>3, <2>4 DEF Matching
  <2>6. /\ after.remaining = taken.remaining
        /\ after.fills = acc.fills \o taken.fills
        /\ after.levels = levels2
    BY <2>2
  <2>. QED  BY <1>1, <1>2, <1>4, <1>5, <1>8, <2>3, <2>5, <2>6
<1>. QED  BY <1>7, <1>8

LEMMA TakeLevelSweeps ==
  ASSUME NEW n \in U64, NEW levels \in Levels, NEW s \in SUBSET DOMAIN levels, NEW p \in s,
         NEW acc, Swept(acc, n, levels, s \ {p})
  PROVE  /\ p \in DOMAIN acc.levels /\ acc \in Matching(n)
         /\ acc.levels[p] = levels[p]
         /\ TakeLevel(p, acc) \in Matching(n)
         /\ Swept(TakeLevel(p, acc), n, levels, s)
<1>1. acc \in Matching(n) /\ p \in DOMAIN acc.levels /\ acc.levels[p] = levels[p]
  BY DEF Swept
<1>2. PICK taken, after : /\ taken = FillAtPriceLevel(acc.levels[p], acc.remaining)
                          /\ after = TakeLevel(p, acc)
  OBVIOUS
<1>3. /\ taken \in Filling(acc.remaining) /\ after \in Matching(n)
      /\ acc.remaining = 0 => after = acc
      /\ acc.remaining # 0 =>
            /\ after.remaining = taken.remaining
            /\ DOMAIN after.levels = IF taken.level = <<>> THEN DOMAIN acc.levels \ {p}
                                     ELSE DOMAIN acc.levels
            /\ \A q \in DOMAIN acc.levels \ {p} : after.levels[q] = acc.levels[q]
  BY <1>1, <1>2, TakeLevelFacts
<1>4. acc.remaining \in Nat /\ after.remaining \in Nat
  BY <1>1, <1>3, U64Facts DEF Matching
<1>5. CASE acc.remaining = 0
  BY <1>1, <1>2, <1>3, <1>5 DEF Swept
<1>6. CASE acc.remaining # 0
  <2>1. DOMAIN acc.levels = DOMAIN levels \ (s \ {p})
    BY <1>4, <1>6 DEF Swept
  <2>2. after.remaining > 0 => taken.level = <<>>
    BY <1>3, <1>6 DEF Filling
  <2>3. after.remaining > 0 => DOMAIN after.levels = DOMAIN levels \ s
    BY <1>3, <1>6, <2>1, <2>2
  <2>4. \A q \in DOMAIN levels \ s : q \in DOMAIN after.levels /\ after.levels[q] = levels[q]
    <3>1. \A q \in DOMAIN levels \ s : q \in DOMAIN acc.levels \ {p} /\ acc.levels[q] = levels[q]
      BY DEF Swept
    <3>. QED  BY <1>3, <1>6, <3>1
  <2>5. DOMAIN after.levels \subseteq DOMAIN levels
    BY <1>3, <1>6, <2>1
  <2>6. Swept(after, n, levels, s)
    BY <1>3, <2>3, <2>4, <2>5 DEF Swept
  <2>. QED  BY <1>1, <1>2, <1>3, <2>6
<1>. QED  BY <1>5, <1>6

\* The states of the matching loop, by the levels that it has taken.
Sweeps(h, order, levels) ==
    LET C == CrossedPrices(order, levels) IN
    /\ h[C] = Match(order, levels)
    /\ h[{}] = Match0(order.size, levels)
    /\ \A s \in SUBSET C :
          /\ Swept(h[s], order.size, levels, s)
          /\ s # {} => /\ LastPrice(order, s) \in s
                       /\ h[s] = TakeLevel(LastPrice(order, s), h[s \ {LastPrice(order, s)}])

LEMMA MatchSweeps ==
  ASSUME NEW order \in Order, NEW levels \in Levels
  PROVE  \E h : Sweeps(h, order, levels)
<1>. DEFINE C == CrossedPrices(order, levels)
            n == order.size
            base == Match0(n, levels)
            last == [s \in SUBSET C |-> LastPrice(order, s)]
            step == [acc \in Matching(n) |-> [p \in C |->
                       IF p \in DOMAIN acc.levels THEN TakeLevel(p, acc) ELSE acc]]
            Solves(h) ==
               h = [s \in SUBSET C |->
                      IF s = {} THEN base
                      ELSE TakeLevel(LastPrice(order, s), h[s \ {LastPrice(order, s)}])]
<1>1. /\ n \in U64 /\ C \in SUBSET DOMAIN levels /\ C \in SUBSET U64 /\ IsFiniteSet(C)
      /\ DOMAIN levels \subseteq U64
  <2>1. C \subseteq DOMAIN levels /\ DOMAIN levels \subseteq U64
    BY MapsFacts DEF CrossedPrices, Levels
  <2>2. IsFiniteSet(U64)
    BY AmountAssumption, FS_Interval DEF U64
  <2>. HIDE DEF C
  <2>. QED  BY <2>1, <2>2, FS_Subset, OrderFacts
<1>. HIDE DEF C, n
<1>2. \A s \in SUBSET C : s # {} => LastPrice(order, s) \in s
  BY <1>1, LastPriceFacts
<1>3. Chooses(last, C)
  BY <1>2 DEF Chooses
<1>4. step \in [Matching(n) -> [C -> Matching(n)]]
  <2>1. \A acc \in Matching(n), p \in C : p \in DOMAIN acc.levels => TakeLevel(p, acc) \in Matching(n)
    BY <1>1, TakeLevelFacts
  <2>. QED  BY <2>1
<1>5. base \in Matching(n) /\ Swept(base, n, levels, {})
  <2>1. n \in 0..n /\ <<>> \in Seq(Fill)
    BY <1>1, U64Facts
  <2>2. base \in Matching(n)
    BY <2>1 DEF Match0, Matching
  <2>3. base.levels = levels
    BY DEF Match0
  <2>. HIDE DEF base
  <2>. QED  BY <2>2, <2>3 DEF Swept
<1>. HIDE DEF base
<1>6. PICK g \in [SUBSET C -> Matching(n)] : Iterates(g, C, last, base, step)
  <2>. HIDE DEF step, last
  <2>. QED  BY <1>1, <1>3, <1>4, <1>5, IterationExists
<1>7. ASSUME NEW s \in SUBSET C, s # {},
             Swept(g[s \ {LastPrice(order, s)}], n, levels, s \ {LastPrice(order, s)})
      PROVE  /\ g[s] = TakeLevel(LastPrice(order, s), g[s \ {LastPrice(order, s)}])
             /\ Swept(g[s], n, levels, s)
  <2>1. PICK p, acc : p = LastPrice(order, s) /\ acc = g[s \ {p}]
    OBVIOUS
  <2>2. p \in s /\ p \in C /\ last[s] = p /\ s \in SUBSET DOMAIN levels
    BY <1>1, <1>2, <1>7, <2>1
  <2>3. /\ p \in DOMAIN acc.levels /\ acc \in Matching(n)
        /\ Swept(TakeLevel(p, acc), n, levels, s)
    BY <1>1, <1>7, <2>1, <2>2, TakeLevelSweeps
  <2>4. step[acc][p] = TakeLevel(p, acc)
    BY <2>2, <2>3
  <2>. HIDE DEF step, last
  <2>5. g[s] = step[acc][p]
    BY <1>6, <1>7, <2>1, <2>2 DEF Iterates
  <2>. QED  BY <2>1, <2>3, <2>4, <2>5
<1>8. \A s \in SUBSET C : Swept(g[s], n, levels, s)
  <2>. DEFINE F == {s \in SUBSET C : Swept(g[s], n, levels, s)}
  <2>1. ASSUME NEW s \in SUBSET C, \A x \in s : s \ {x} \in F
        PROVE  s \in F
    <3>1. CASE s = {}
      BY <1>5, <1>6, <3>1 DEF Iterates
    <3>2. CASE s # {}
      <4>1. LastPrice(order, s) \in s
        BY <1>2, <3>2
      <4>. QED  BY <1>7, <2>1, <3>2, <4>1
    <3>. QED  BY <3>1, <3>2
  <2>2. F = SUBSET C
    <3>. HIDE DEF F
    <3>1. F \in SUBSET SUBSET C
      BY DEF F
    <3>. QED  BY <1>1, <2>1, <3>1, SubsetInduction
  <2>. QED  BY <2>2
<1>9. \A s \in SUBSET C : s # {} => s \ {LastPrice(order, s)} \in SUBSET C
  OBVIOUS
<1>10. g[{}] = base
  BY <1>6 DEF Iterates
<1>11. \A s \in SUBSET C :
          g[s] = IF s = {} THEN base
                 ELSE TakeLevel(LastPrice(order, s), g[s \ {LastPrice(order, s)}])
  BY <1>7, <1>8, <1>9, <1>10
<1>12. Solves(g)
  <2>. HIDE DEF step, last
  <2>1. g = [s \in SUBSET C |-> g[s]]
    OBVIOUS
  <2>. QED  BY <1>11, <2>1
<1>. DEFINE h == CHOOSE h : Solves(h)
<1>13. Solves(h)
  <2>. HIDE DEF Solves
  <2>. QED  BY <1>12
<1>14. h = g
  <2>. HIDE DEF h
  <2>. DEFINE F == {s \in SUBSET C : h[s] = g[s]}
  <2>1. ASSUME NEW s \in SUBSET C, \A x \in s : s \ {x} \in F
        PROVE  s \in F
    <3>1. CASE s = {}
      BY <1>10, <1>13, <3>1
    <3>2. CASE s # {}
      <4>1. PICK p : p = LastPrice(order, s)
        OBVIOUS
      <4>2. p \in s /\ h[s \ {p}] = g[s \ {p}]
        BY <1>2, <2>1, <3>2, <4>1
      <4>3. h[s] = TakeLevel(p, h[s \ {p}])
        BY <1>13, <3>2, <4>1
      <4>4. g[s] = TakeLevel(p, g[s \ {p}])
        BY <1>11, <3>2, <4>1
      <4>. QED  BY <4>2, <4>3, <4>4
    <3>. QED  BY <3>1, <3>2
  <2>2. F = SUBSET C
    <3>. HIDE DEF F
    <3>1. F \in SUBSET SUBSET C
      BY DEF F
    <3>. QED  BY <1>1, <2>1, <3>1, SubsetInduction
  <2>3. h = [s \in SUBSET C |-> h[s]]
    BY <1>13
  <2>. QED  BY <2>2, <2>3
<1>15. Match(order, levels) = h[C]
  BY DEF Match, MapThenFoldSet, base, Match0, C, n
<1>. HIDE DEF h
<1>16. Sweeps(g, order, levels)
  BY <1>2, <1>8, <1>10, <1>11, <1>14, <1>15 DEF Sweeps, C, n, base
<1>. QED  BY <1>16

\* All levels that the order crosses are gone when something of it remains.
LEMMA MatchFacts ==
  ASSUME NEW order \in Order, NEW levels \in Levels
  PROVE  /\ Match(order, levels) \in Matching(order.size)
         /\ DOMAIN Match(order, levels).levels \subseteq DOMAIN levels
         /\ Match(order, levels).remaining > 0 =>
               \A p \in DOMAIN Match(order, levels).levels : ~Crosses(order, p)
<1>1. PICK h : Sweeps(h, order, levels)
  BY MatchSweeps
<1>2. Swept(Match(order, levels), order.size, levels, CrossedPrices(order, levels))
  BY <1>1 DEF Sweeps
<1>. QED  BY <1>2 DEF Swept, CrossedPrices

-----------------------------------------------------------------------------
(* The book. *)

Oid == Nat

Index == Maps(Oid, U64)

Book == [oid_to_level : Index, bids : Levels, asks : Levels]

NotCrossed(book) == \A bid \in DOMAIN book.bids, ask \in DOMAIN book.asks : bid < ask

LEMMA LevelAtFacts ==
  ASSUME NEW levels \in Levels, NEW price
  PROVE  LevelAt(levels, price) \in Seq(Order)
<1>1. \A p \in DOMAIN levels : levels[p] \in Seq(Order)
  BY MapsFacts DEF Levels, Queue
<1>2. <<>> \in Seq(Order)
  OBVIOUS
<1>. QED  BY <1>1, <1>2 DEF LevelAt

LEMMA EnqueueFacts ==
  ASSUME NEW levels \in Levels, NEW order \in Order
  PROVE  /\ Enqueue(levels, order) \in Levels
         /\ DOMAIN Enqueue(levels, order) = DOMAIN levels \cup {order.limit_price}
         /\ \A p \in DOMAIN levels \cup {order.limit_price} :
               Enqueue(levels, order)[p]
                  = IF p = order.limit_price THEN Append(LevelAt(levels, p), order) ELSE levels[p]
<1>1. PICK price, longer : /\ price = order.limit_price
                           /\ longer = Append(LevelAt(levels, price), order)
  OBVIOUS
<1>2. price \in U64 /\ longer \in Seq(Order)
  BY <1>1, LevelAtFacts, OrderFacts
<1>3. Enqueue(levels, order) = Put(levels, price, longer)
  BY <1>1 DEF Enqueue
<1>4. levels \in Maps(U64, Queue) /\ longer \in Queue
  BY <1>2 DEF Levels, Queue
<1>5. /\ Put(levels, price, longer) \in Maps(U64, Queue)
      /\ Added(Put(levels, price, longer), levels, price, longer)
  BY <1>2, <1>4, PutFacts
<1>. QED  BY <1>1, <1>3, <1>5 DEF Levels, Added

\* The orders of the book that fills have used up.
FilledBy(fills) ==
    {fills[i].maker.oid : i \in {k \in DOMAIN fills : fills[k].size = fills[k].maker.size}}

\* What `limit' does, by the side of the order.
LEMMA LimitFacts ==
  ASSUME NEW book \in Book, NEW order \in Order
  PROVE  LET limit == Limit(book, order)
             match == Match(order, IF order.is_buy THEN book.asks ELSE book.bids)
             after == limit.book
             left == {oid \in DOMAIN book.oid_to_level : oid \notin FilledBy(match.fills)}
         IN  /\ limit.remaining = match.remaining /\ limit.fills = match.fills
             /\ match.remaining \in 0..order.size /\ match.fills \in Seq(Fill)
             /\ after \in Book
             /\ after.bids = IF ~order.is_buy THEN match.levels
                             ELSE IF match.remaining > 0 THEN Enqueue(book.bids, order)
                             ELSE book.bids
             /\ after.asks = IF order.is_buy THEN match.levels
                             ELSE IF match.remaining > 0 THEN Enqueue(book.asks, order)
                             ELSE book.asks
             /\ DOMAIN after.oid_to_level
                   = IF match.remaining > 0 THEN left \cup {order.oid} ELSE left
             /\ \A oid \in DOMAIN after.oid_to_level :
                   after.oid_to_level[oid]
                      = IF match.remaining > 0 /\ oid = order.oid THEN order.limit_price
                        ELSE book.oid_to_level[oid]
<1>1. PICK levels : levels = IF order.is_buy THEN book.asks ELSE book.bids
  OBVIOUS
<1>2. PICK match : match = Match(order, levels)
  OBVIOUS
<1>3. /\ book.oid_to_level \in Index /\ book.bids \in Levels /\ book.asks \in Levels
      /\ order.is_buy \in BOOLEAN
  BY OrderFacts DEF Book
<1>4. match \in Matching(order.size)
  BY <1>1, <1>2, <1>3, MatchFacts
<1>5. /\ match.remaining \in 0..order.size /\ match.fills \in Seq(Fill)
      /\ match.levels \in Levels
  BY <1>4 DEF Matching
<1>6. PICK index, filled : index = book.oid_to_level /\ filled = FilledBy(match.fills)
  OBVIOUS
<1>7. PICK left : left = RestrictDomain(index, LAMBDA oid : oid \notin filled)
  OBVIOUS
<1>8. /\ left \in Index
      /\ DOMAIN left = {oid \in DOMAIN index : oid \notin filled}
      /\ \A oid \in DOMAIN left : left[oid] = index[oid]
  <2>1. index \in Maps(Oid, U64)
    BY <1>3, <1>6 DEF Index
  <2>2. PICK S : S = DOMAIN index \ filled
    OBVIOUS
  <2>3. left = Only(index, S)
    BY <1>7, <2>2 DEF RestrictDomain, Restrict, Only
  <2>4. Only(index, S) \in Maps(Oid, U64) /\ Kept(Only(index, S), index, S)
    BY <2>1, OnlyFacts
  <2>. QED  BY <2>2, <2>3, <2>4 DEF Index, Kept
<1>9. PICK more : more = IF match.remaining > 0 THEN Put(left, order.oid, order.limit_price)
                         ELSE left
  OBVIOUS
<1>10. /\ more \in Index
       /\ DOMAIN more = IF match.remaining > 0 THEN DOMAIN left \cup {order.oid} ELSE DOMAIN left
       /\ \A oid \in DOMAIN more :
             more[oid] = IF match.remaining > 0 /\ oid = order.oid THEN order.limit_price
                         ELSE left[oid]
  <2>1. left \in Maps(Oid, U64) /\ order.oid \in Oid /\ order.limit_price \in U64
    BY <1>8, OrderFacts DEF Index, Oid
  <2>2. PICK oid, price : oid = order.oid /\ price = order.limit_price
    OBVIOUS
  <2>3. /\ Put(left, oid, price) \in Maps(Oid, U64)
        /\ Added(Put(left, oid, price), left, oid, price)
    BY <2>1, <2>2, PutFacts
  <2>. QED  BY <1>8, <1>9, <2>2, <2>3 DEF Index, Added
<1>11. PICK bids, asks :
          /\ bids = IF ~order.is_buy THEN match.levels
                    ELSE IF match.remaining > 0 THEN Enqueue(book.bids, order) ELSE book.bids
          /\ asks = IF order.is_buy THEN match.levels
                    ELSE IF match.remaining > 0 THEN Enqueue(book.asks, order) ELSE book.asks
  OBVIOUS
<1>12. bids \in Levels /\ asks \in Levels
  BY <1>3, <1>5, <1>11, EnqueueFacts
<1>13. Limit(book, order)
          = [remaining |-> match.remaining, fills |-> match.fills,
             book |-> [oid_to_level |-> more, bids |-> bids, asks |-> asks]]
  <2>1. left = RestrictDomain(book.oid_to_level, LAMBDA oid : oid \notin
                  {match.fills[i].maker.oid : i \in {k \in DOMAIN match.fills :
                       match.fills[k].size = match.fills[k].maker.size}})
    BY <1>6, <1>7 DEF FilledBy
  <2>2. Limit(book, order)
           = [remaining |-> match.remaining, fills |-> match.fills,
              book |->
                 [oid_to_level |-> IF match.remaining > 0
                                   THEN Put(left, order.oid, order.limit_price) ELSE left,
                  bids |-> IF ~order.is_buy THEN match.levels
                           ELSE IF match.remaining > 0 THEN Enqueue(book.bids, order)
                           ELSE book.bids,
                  asks |-> IF order.is_buy THEN match.levels
                           ELSE IF match.remaining > 0 THEN Enqueue(book.asks, order)
                           ELSE book.asks]]
    BY <1>1, <1>2, <2>1 DEF Limit
  <2>. QED  BY <1>9, <1>11, <2>2
<1>14. [oid_to_level |-> more, bids |-> bids, asks |-> asks] \in Book
  BY <1>10, <1>12 DEF Book
<1>. QED  BY <1>1, <1>2, <1>5, <1>6, <1>8, <1>10, <1>11, <1>13, <1>14

LEMMA LimitNotCrossed ==
  ASSUME NEW book \in Book, NEW order \in Order, NotCrossed(book)
  PROVE  NotCrossed(Limit(book, order).book)
<1>1. PICK levels, match, after :
         /\ levels = IF order.is_buy THEN book.asks ELSE book.bids
         /\ match = Match(order, levels) /\ after = Limit(book, order).book
  OBVIOUS
<1>2. /\ book.bids \in Levels /\ book.asks \in Levels /\ order.is_buy \in BOOLEAN
      /\ order.limit_price \in U64
      /\ DOMAIN book.bids \subseteq U64 /\ DOMAIN book.asks \subseteq U64
  BY OrderFacts, MapsFacts DEF Book, Levels
<1>3. /\ after.bids = IF ~order.is_buy THEN match.levels
                      ELSE IF match.remaining > 0 THEN Enqueue(book.bids, order)
                      ELSE book.bids
      /\ after.asks = IF order.is_buy THEN match.levels
                      ELSE IF match.remaining > 0 THEN Enqueue(book.asks, order)
                      ELSE book.asks
  BY <1>1, LimitFacts
<1>4. /\ DOMAIN match.levels \subseteq DOMAIN levels
      /\ match.remaining > 0 => \A p \in DOMAIN match.levels : ~Crosses(order, p)
  BY <1>1, <1>2, MatchFacts
<1>5. CASE order.is_buy
  <2>1. after.asks = match.levels /\ DOMAIN match.levels \subseteq DOMAIN book.asks
    BY <1>1, <1>3, <1>4, <1>5
  <2>2. match.remaining > 0 => \A p \in DOMAIN match.levels : order.limit_price < p
    <3>1. \A p \in DOMAIN match.levels : p \in Nat /\ order.limit_price \in Nat
      BY <1>2, <2>1, U64Facts
    <3>. QED  BY <1>4, <1>5, <3>1 DEF Crosses
  <2>3. DOMAIN after.bids \subseteq DOMAIN book.bids \cup
           (IF match.remaining > 0 THEN {order.limit_price} ELSE {})
    BY <1>2, <1>3, <1>5, EnqueueFacts
  <2>. QED  BY <1>1, <2>1, <2>2, <2>3 DEF NotCrossed
<1>6. CASE ~order.is_buy
  <2>1. after.bids = match.levels /\ DOMAIN match.levels \subseteq DOMAIN book.bids
    BY <1>1, <1>3, <1>4, <1>6
  <2>2. match.remaining > 0 => \A p \in DOMAIN match.levels : p < order.limit_price
    <3>1. \A p \in DOMAIN match.levels : p \in Nat /\ order.limit_price \in Nat
      BY <1>2, <2>1, U64Facts
    <3>. QED  BY <1>4, <1>6, <3>1 DEF Crosses
  <2>3. DOMAIN after.asks \subseteq DOMAIN book.asks \cup
           (IF match.remaining > 0 THEN {order.limit_price} ELSE {})
    BY <1>2, <1>3, <1>6, EnqueueFacts
  <2>. QED  BY <1>1, <2>1, <2>2, <2>3 DEF NotCrossed
<1>. QED  BY <1>2, <1>5, <1>6

-----------------------------------------------------------------------------
(* Balances and diffs. *)

Balances == Maps(User, AssetBalance)

LEMMA BalanceFacts ==
  ASSUME NEW b \in AssetBalance, NEW x \in U64
  PROVE  /\ b.free \in U64 /\ b.locked \in U64
         /\ [b EXCEPT !.free = x] \in AssetBalance /\ [b EXCEPT !.locked = x] \in AssetBalance
  BY DEF AssetBalance

LEMMA AdjustFacts ==
  ASSUME NEW balances \in Balances, NEW user, NEW field \in {"free", "locked"}, NEW delta \in Int
  PROVE  /\ Adjust(balances, user, field, delta) \in Balances
         /\ DOMAIN Adjust(balances, user, field, delta) = DOMAIN balances
<1>1. CASE user \notin DOMAIN balances
  BY <1>1 DEF Adjust
<1>2. CASE user \in DOMAIN balances
  <2>1. /\ DOMAIN balances \in SUBSET User
        /\ balances = [u \in DOMAIN balances |-> balances[u]]
        /\ \A u \in DOMAIN balances : balances[u] \in AssetBalance
    BY MapsFacts DEF Balances
  <2>2. PICK b : b = [balances[user] EXCEPT ![field] = Wrap(@ + delta)]
    OBVIOUS
  <2>3. b \in AssetBalance
    <3>1. balances[user] \in AssetBalance
      BY <1>2, <2>1
    <3>2. balances[user].free \in Int /\ balances[user].locked \in Int
      <4>1. PICK c \in AssetBalance : c = balances[user]
        BY <3>1
      <4>2. c.free \in U64 /\ c.locked \in U64
        BY DEF AssetBalance
      <4>. QED  BY <4>1, <4>2, U64Facts
    <3>3. /\ Wrap(balances[user].free + delta) \in U64
          /\ Wrap(balances[user].locked + delta) \in U64
      <4>1. PICK x \in Int, y \in Int : x = balances[user].free /\ y = balances[user].locked
        BY <3>2
      <4>2. x + delta \in Int /\ y + delta \in Int
        OBVIOUS
      <4>. QED  BY <4>1, <4>2, WrapFacts
    <3>4. CASE field = "free"
      BY <2>2, <3>1, <3>3, <3>4, BalanceFacts
    <3>5. CASE field = "locked"
      BY <2>2, <3>1, <3>3, <3>5, BalanceFacts
    <3>. QED  BY <3>4, <3>5
  <2>4. Adjust(balances, user, field, delta) = [balances EXCEPT ![user] = b]
    BY <1>2, <2>2 DEF Adjust
  <2>5. [balances EXCEPT ![user] = b] \in [DOMAIN balances -> AssetBalance]
    BY <2>1, <2>3
  <2>6. [balances EXCEPT ![user] = b] \in Balances
    BY <2>1, <2>5, IsMap DEF Balances
  <2>. QED  BY <2>1, <2>4, <2>6
<1>. QED  BY <1>1, <1>2

LEMMA CreditFacts ==
  ASSUME NEW balances \in Balances, NEW user \in User, NEW amount \in U64
  PROVE  /\ Credit(balances, user, amount) \in Balances
         /\ DOMAIN Credit(balances, user, amount) = DOMAIN balances \cup {user}
<1>1. CASE user \in DOMAIN balances
  BY <1>1, AdjustFacts, U64Facts DEF Credit
<1>2. CASE user \notin DOMAIN balances
  <2>1. PICK b : b = [free |-> amount, locked |-> 0]
    OBVIOUS
  <2>2. b \in AssetBalance
    <3>1. 0 \in U64
      BY AmountAssumption DEF U64
    <3>. QED  BY <2>1, <3>1 DEF AssetBalance
  <2>3. Credit(balances, user, amount) = Put(balances, user, b)
    BY <1>2, <2>1 DEF Credit
  <2>4. balances \in Maps(User, AssetBalance)
    BY DEF Balances
  <2>5. Put(balances, user, b) \in Maps(User, AssetBalance) /\ Added(Put(balances, user, b), balances, user, b)
    BY <2>2, <2>4, PutFacts
  <2>. QED  BY <2>3, <2>5 DEF Balances, Added
<1>. QED  BY <1>1, <1>2

LEMMA UnlockFacts ==
  ASSUME NEW balances \in Balances, NEW user, NEW amount \in Int
  PROVE  /\ Unlock(balances, user, amount) \in Balances
         /\ DOMAIN Unlock(balances, user, amount) = DOMAIN balances
         /\ Lock(balances, user, amount) \in Balances
         /\ DOMAIN Lock(balances, user, amount) = DOMAIN balances
<1>1. \A n \in Int : /\ Unlock(balances, user, n) \in Balances
                     /\ DOMAIN Unlock(balances, user, n) = DOMAIN balances
  <2>1. SUFFICES ASSUME NEW n \in Int
                 PROVE  /\ Unlock(balances, user, n) \in Balances
                        /\ DOMAIN Unlock(balances, user, n) = DOMAIN balances
    OBVIOUS
  <2>2. PICK once : once = Adjust(balances, user, "free", n)
    OBVIOUS
  <2>3. once \in Balances /\ DOMAIN once = DOMAIN balances
    BY <2>2, AdjustFacts
  <2>4. -n \in Int
    OBVIOUS
  <2>5. PICK m \in Int : m = -n
    BY <2>4
  <2>6. /\ Adjust(once, user, "locked", m) \in Balances
        /\ DOMAIN Adjust(once, user, "locked", m) = DOMAIN once
    BY <2>3, AdjustFacts
  <2>. QED  BY <2>2, <2>3, <2>5, <2>6 DEF Unlock
<1>2. -amount \in Int
  OBVIOUS
<1>3. PICK m \in Int : m = -amount
  BY <1>2
<1>. QED  BY <1>1, <1>3 DEF Lock

Amounts == [Asset -> Int]

UserDiff == [kind : {"deposit", "withdraw", "create", "cancel"}, user : User, amounts : Amounts]
TradeDiff == [kind : {"fill"}, buyer : User, seller : User, amounts : Amounts]
AnyDiff == UserDiff \cup TradeDiff

LEMMA BothFacts ==
  ASSUME NEW base \in Int, NEW quote \in Int
  PROVE  Both(base, quote) \in Amounts
  BY DEF Both, Amounts

LEMMA DiffFacts ==
  ASSUME NEW kind \in {"deposit", "withdraw", "create", "cancel"}, NEW user \in User,
         NEW base \in Int, NEW quote \in Int
  PROVE  <<Diff(kind, user, Both(base, quote))>> \in Seq(AnyDiff)
<1>1. PICK amounts \in Amounts : amounts = Both(base, quote)
  BY BothFacts
<1>2. Diff(kind, user, amounts) \in UserDiff
  BY DEF Diff, UserDiff
<1>3. \A x \in AnyDiff : <<x>> \in Seq(AnyDiff)
  OBVIOUS
<1>. QED  BY <1>1, <1>2, <1>3 DEF AnyDiff

LEMMA FillDiffFacts ==
  ASSUME NEW buyer \in User, NEW seller \in User, NEW base \in Int, NEW quote \in Int
  PROVE  FillDiff(buyer, seller, base, quote) \in AnyDiff
<1>1. PICK amounts \in Amounts : amounts = Both(base, quote)
  BY BothFacts
<1>. QED  BY <1>1 DEF FillDiff, TradeDiff, AnyDiff

-----------------------------------------------------------------------------
(* The requests.  In a sound state the values are of their types, an account *)
(* has both assets, and the book is not crossed.                             *)

Statuses == Maps(Oid, FillStatus)

State == [oid : Nat, base : Balances, quote : Balances, book : Book, order_status : Statuses]

Sound(state) ==
    /\ state \in State
    /\ DOMAIN state.quote = DOMAIN state.base
    /\ NotCrossed(state.book)

LEMMA StateFacts ==
  ASSUME NEW state \in State
  PROVE  /\ state.oid \in Nat /\ state.base \in Balances /\ state.quote \in Balances
         /\ state.book \in Book /\ state.order_status \in Statuses
         /\ \A n \in Nat : [state EXCEPT !.oid = n] \in State
         /\ \A b \in Balances : /\ [state EXCEPT !.base = b] \in State
                                /\ [state EXCEPT !.quote = b] \in State
         /\ \A k \in Book : [state EXCEPT !.book = k] \in State
         /\ \A f \in Statuses : [state EXCEPT !.order_status = f] \in State
  BY DEF State

\* What is asked of the outcome of a request.
SoundOutcome(out, oid) ==
    /\ Sound(out.state) /\ out.state.oid = oid
    /\ out.diffs \in Seq(AnyDiff)

LEMMA RequestFacts ==
  ASSUME NEW req \in FundsRequest
  PROVE  req.address \in User /\ req.base_free \in U64 /\ req.quote_free \in U64
  BY DEF FundsRequest

LEMMA FundsDiff ==
  ASSUME NEW kind \in {"deposit", "withdraw"}, NEW req \in FundsRequest
  PROVE  <<Diff(kind, req.address, Both(req.base_free, req.quote_free))>> \in Seq(AnyDiff)
<1>1. req.address \in User /\ req.base_free \in Int /\ req.quote_free \in Int
  BY RequestFacts, U64Facts
<1>2. PICK user \in User, base \in Int, quote \in Int :
         user = req.address /\ base = req.base_free /\ quote = req.quote_free
  BY <1>1
<1>3. <<Diff(kind, user, Both(base, quote))>> \in Seq(AnyDiff)
  BY DiffFacts
<1>. QED  BY <1>2, <1>3

LEMMA DepositIsSound ==
  ASSUME NEW state, Sound(state), NEW req \in FundsRequest
  PROVE  SoundOutcome(deposit(req, state), state.oid)
<1>1. PICK base, quote : /\ base = Credit(state.base, req.address, req.base_free)
                         /\ quote = Credit(state.quote, req.address, req.quote_free)
  OBVIOUS
<1>2. /\ state \in State /\ state.base \in Balances /\ state.quote \in Balances
      /\ DOMAIN state.quote = DOMAIN state.base /\ NotCrossed(state.book)
  BY StateFacts DEF Sound
<1>3. base \in Balances /\ quote \in Balances /\ DOMAIN base = DOMAIN quote
  <2>1. PICK user \in User, m \in U64, n \in U64 :
           user = req.address /\ m = req.base_free /\ n = req.quote_free
    BY RequestFacts, Zenon
  <2>2. /\ base \in Balances /\ DOMAIN base = DOMAIN state.base \cup {user}
        /\ quote \in Balances /\ DOMAIN quote = DOMAIN state.quote \cup {user}
    BY <1>1, <1>2, <2>1, CreditFacts
  <2>. QED  BY <1>2, <2>2
<1>4. PICK after : after = [state EXCEPT !.base = base, !.quote = quote]
  OBVIOUS
<1>5. Sound(after) /\ after.oid = state.oid
  BY <1>2, <1>3, <1>4 DEF State, Sound
<1>6. PICK diffs : diffs = <<Diff("deposit", req.address, Both(req.base_free, req.quote_free))>>
  OBVIOUS
<1>7. diffs \in Seq(AnyDiff)
  BY <1>6, FundsDiff
<1>8. deposit(req, state) = Outcome(TRUE, after, diffs)
  BY <1>1, <1>4, <1>6 DEF deposit
<1>. QED  BY <1>5, <1>7, <1>8 DEF SoundOutcome, Outcome

LEMMA PruneIsSound ==
  ASSUME NEW state, Sound(state), NEW user
  PROVE  Sound(Prune(state, user)) /\ Prune(state, user).oid = state.oid
<1>1. CASE ~(state.base[user] = Zero /\ state.quote[user] = Zero)
  BY <1>1 DEF Prune
<1>2. CASE state.base[user] = Zero /\ state.quote[user] = Zero
  <2>1. PICK base \in Maps(User, AssetBalance), quote \in Maps(User, AssetBalance) :
           base = state.base /\ quote = state.quote
    BY StateFacts DEF Sound, Balances
  <2>2. PICK base2, quote2 : base2 = Without(base, user) /\ quote2 = Without(quote, user)
    OBVIOUS
  <2>3. /\ base2 \in Maps(User, AssetBalance) /\ Removed(base2, base, user)
        /\ quote2 \in Maps(User, AssetBalance) /\ Removed(quote2, quote, user)
    BY <2>2, WithoutFacts
  <2>4. /\ base2 \in Balances /\ quote2 \in Balances /\ DOMAIN quote2 = DOMAIN base2
    BY <2>1, <2>3 DEF Balances, Removed, Sound
  <2>5. Prune(state, user) = [state EXCEPT !.base = base2, !.quote = quote2]
    BY <1>2, <2>1, <2>2 DEF Prune, RestrictDomain, Without
  <2>. QED  BY <2>4, <2>5 DEF State, Sound
<1>. QED  BY <1>1, <1>2

LEMMA WithdrawIsSound ==
  ASSUME NEW state, Sound(state), NEW req \in FundsRequest
  PROVE  SoundOutcome(withdraw(req, state), state.oid)
<1>1. CASE ~Covers(state, req.address, req.base_free, req.quote_free)
  <2>1. withdraw(req, state) = Outcome(FALSE, state, <<>>)
    BY <1>1 DEF withdraw
  <2>2. <<>> \in Seq(AnyDiff)
    OBVIOUS
  <2>. QED  BY <2>1, <2>2 DEF SoundOutcome, Outcome
<1>2. CASE Covers(state, req.address, req.base_free, req.quote_free)
  <2>0. req.base_free \in Int /\ req.quote_free \in Int
    BY RequestFacts, U64Facts
  <2>1. PICK user \in {req.address}, x \in Int, y \in Int :
           user = req.address /\ x = req.base_free /\ y = req.quote_free
    BY <2>0
  <2>2. PICK m \in Int, n \in Int : m = -x /\ n = -y
    OBVIOUS
  <2>3. PICK base, quote : /\ base = Adjust(state.base, user, "free", m)
                           /\ quote = Adjust(state.quote, user, "free", n)
    OBVIOUS
  <2>4. /\ state \in State /\ state.base \in Balances /\ state.quote \in Balances
        /\ DOMAIN state.quote = DOMAIN state.base /\ NotCrossed(state.book)
    BY StateFacts DEF Sound
  <2>5. base \in Balances /\ quote \in Balances /\ DOMAIN base = DOMAIN quote
    BY <2>3, <2>4, AdjustFacts
  <2>6. PICK lower : lower = [state EXCEPT !.base = base, !.quote = quote]
    OBVIOUS
  <2>7. Sound(lower) /\ lower.oid = state.oid
    BY <2>4, <2>5, <2>6 DEF State, Sound
  <2>8. PICK diffs :
           diffs = <<Diff("withdraw", req.address, Both(req.base_free, req.quote_free))>>
    OBVIOUS
  <2>9. diffs \in Seq(AnyDiff)
    BY <2>8, FundsDiff
  <2>10. withdraw(req, state) = Outcome(TRUE, Prune(lower, user), diffs)
    BY <1>2, <2>1, <2>2, <2>3, <2>6, <2>8 DEF withdraw
  <2>. QED  BY <2>7, <2>9, <2>10, PruneIsSound DEF SoundOutcome, Outcome
<1>. QED  BY <1>1, <1>2

LEMMA FillFacts ==
  ASSUME NEW fill \in Fill
  PROVE  /\ fill.size \in U64 /\ fill.maker \in Order /\ fill.maker.address \in User
         /\ fill.maker.oid \in Nat /\ fill.maker.limit_price \in U64
         /\ FillQuote(fill) \in U64
<1>1. fill.size \in U64 /\ fill.maker \in Order
  BY DEF Fill
<1>2. fill.maker.address \in User /\ fill.maker.oid \in Nat /\ fill.maker.limit_price \in U64
  BY <1>1, OrderFacts
<1>3. PICK m \in Int, n \in Int : m = fill.size /\ n = fill.maker.limit_price
  BY <1>1, <1>2, U64Facts
<1>4. m * n \in Int
  OBVIOUS
<1>. QED  BY <1>1, <1>2, <1>3, <1>4, WrapFacts DEF FillQuote

\* The status of the maker after a fill.
Counted(g, f, fill) ==
    LET oid == fill.maker.oid
    IN  \/ oid \notin DOMAIN f /\ g = f
        \/ /\ oid \in DOMAIN f /\ f[oid].filled_size + fill.size < f[oid].size
           /\ DOMAIN g = DOMAIN f
           /\ g[oid].size = f[oid].size
           /\ g[oid].filled_size = f[oid].filled_size + fill.size
           /\ \A o \in DOMAIN f \ {oid} : g[o] = f[o]
        \/ /\ oid \in DOMAIN f /\ ~(f[oid].filled_size + fill.size < f[oid].size)
           /\ Removed(g, f, oid)

LEMMA StatusFacts ==
  ASSUME NEW f \in Statuses
  PROVE  /\ DOMAIN f \in SUBSET Oid /\ f = [o \in DOMAIN f |-> f[o]]
         /\ \A o \in DOMAIN f : /\ f[o] \in FillStatus
                                /\ f[o].size \in U64 /\ f[o].filled_size \in U64
                                /\ f[o].filled_quote \in U64
<1>1. /\ DOMAIN f \in SUBSET Oid /\ f = [o \in DOMAIN f |-> f[o]]
      /\ \A o \in DOMAIN f : f[o] \in FillStatus
  BY MapsFacts DEF Statuses
<1>2. \A st \in FillStatus : st.size \in U64 /\ st.filled_size \in U64 /\ st.filled_quote \in U64
  BY DEF FillStatus
<1>. QED  BY <1>1, <1>2

LEMMA CountFillFacts ==
  ASSUME NEW f \in Statuses, NEW fill \in Fill
  PROVE  CountFill(f, fill) \in Statuses /\ Counted(CountFill(f, fill), f, fill)
<1>1. PICK oid, quote, size \in Nat :
         oid = fill.maker.oid /\ quote = FillQuote(fill) /\ size = fill.size
  BY FillFacts, U64Facts
<1>2. CASE oid \notin DOMAIN f
  BY <1>1, <1>2 DEF CountFill, Counted
<1>3. ASSUME oid \in DOMAIN f
      PROVE  CountFill(f, fill) \in Statuses /\ Counted(CountFill(f, fill), f, fill)
  <2>1. PICK status \in FillStatus, filled \in Nat, all \in Nat, spent \in Int :
           /\ status = f[oid] /\ filled = status.filled_size /\ all = status.size
           /\ spent = status.filled_quote
    BY <1>3, StatusFacts, U64Facts
  <2>2. CASE filled + size < all
    <3>1. PICK more : more = [status EXCEPT !.filled_size = @ + size,
                                            !.filled_quote = Wrap(@ + quote)]
      OBVIOUS
    <3>2. more \in FillStatus /\ more.size = all /\ more.filled_size = filled + size
      <4>1. filled + size \in U64
        <5>1. all \in U64
          BY <2>1 DEF FillStatus
        <5>. QED  BY <2>2, <5>1, AmountAssumption DEF U64
      <4>2. Wrap(spent + quote) \in U64
        <5>1. quote \in Int
          BY <1>1, FillFacts, U64Facts
        <5>2. spent + quote \in Int
          BY <5>1
        <5>. QED  BY <5>2, WrapFacts
      <4>3. more = [status EXCEPT !.filled_size = filled + size, !.filled_quote = Wrap(spent + quote)]
        BY <2>1, <3>1
      <4>4. PICK x \in U64, y \in U64 : x = filled + size /\ y = Wrap(spent + quote)
        BY <4>1, <4>2
      <4>. QED  BY <2>1, <4>3, <4>4 DEF FillStatus
    <3>3. CountFill(f, fill) = [f EXCEPT ![oid] = more]
      BY <1>1, <1>3, <2>1, <2>2, <3>1 DEF CountFill
    <3>4. [f EXCEPT ![oid] = more] \in [DOMAIN f -> FillStatus]
      BY <3>2, StatusFacts
    <3>5. [f EXCEPT ![oid] = more] \in Statuses
      BY <3>4, StatusFacts, IsMap DEF Statuses
    <3>6. PICK g : g = [f EXCEPT ![oid] = more]
      OBVIOUS
    <3>7. DOMAIN g = DOMAIN f /\ g[oid] = more /\ \A o \in DOMAIN f \ {oid} : g[o] = f[o]
      BY <1>3, <3>6
    <3>. QED  BY <1>1, <1>3, <2>1, <2>2, <3>2, <3>3, <3>5, <3>6, <3>7 DEF Counted
  <2>3. CASE ~(filled + size < all)
    <3>1. CountFill(f, fill) = Without(f, oid)
      BY <1>1, <1>3, <2>1, <2>3 DEF CountFill, RestrictDomain, Without
    <3>2. f \in Maps(Oid, FillStatus)
      BY DEF Statuses
    <3>3. Without(f, oid) \in Maps(Oid, FillStatus) /\ Removed(Without(f, oid), f, oid)
      BY <3>2, WithoutFacts
    <3>. QED  BY <1>1, <1>3, <2>1, <2>3, <3>1, <3>3 DEF Counted, Statuses
  <2>. QED  BY <2>2, <2>3
<1>. QED  BY <1>2, <1>3

LEMMA PartiesFacts ==
  ASSUME NEW order \in Order, NEW fill \in Fill
  PROVE  Buyer(order, fill) \in User /\ Seller(order, fill) \in User
  BY FillFacts, OrderFacts DEF Buyer, Seller

\* The states while the fills of an order are settled.
Settling(s0) ==
    {s \in State : /\ s.oid = s0.oid /\ s.book = s0.book
                   /\ DOMAIN s.base = DOMAIN s0.base /\ DOMAIN s.quote = DOMAIN s0.quote}

SettleSteps(order, s0) == [s \in Settling(s0) |-> [fill \in Fill |-> SettleFill(order, s, fill)]]

LEMMA SettleFillFacts ==
  ASSUME NEW order \in Order, NEW s0, NEW s \in Settling(s0), NEW fill \in Fill
  PROVE  /\ SettleFill(order, s, fill) \in Settling(s0)
         /\ SettleSteps(order, s0)[s][fill] = SettleFill(order, s, fill)
         /\ SettleFill(order, s, fill).order_status = CountFill(s.order_status, fill)
<1>0. fill.size \in Int /\ FillQuote(fill) \in Int
  BY FillFacts, U64Facts
<1>1. PICK buyer \in {Buyer(order, fill)}, seller \in {Seller(order, fill)},
           size \in Int, quote \in Int :
         /\ buyer = Buyer(order, fill) /\ seller = Seller(order, fill)
         /\ size = fill.size /\ quote = FillQuote(fill)
  BY <1>0
<1>2. PICK lessSize \in Int, lessQuote \in Int : lessSize = -size /\ lessQuote = -quote
  OBVIOUS
<1>3. PICK base1, base2, quote1, quote2, counted :
         /\ base1 = Adjust(s.base, seller, "locked", lessSize)
         /\ base2 = Adjust(base1, buyer, "free", size)
         /\ quote1 = Adjust(s.quote, seller, "free", quote)
         /\ quote2 = Adjust(quote1, buyer, "locked", lessQuote)
         /\ counted = CountFill(s.order_status, fill)
  OBVIOUS
<1>4. /\ s \in State /\ s.base \in Balances /\ s.quote \in Balances /\ s.order_status \in Statuses
      /\ s.oid = s0.oid /\ s.book = s0.book
      /\ DOMAIN s.base = DOMAIN s0.base /\ DOMAIN s.quote = DOMAIN s0.quote
  BY StateFacts DEF Settling
<1>5. base1 \in Balances /\ DOMAIN base1 = DOMAIN s.base
  BY <1>3, <1>4, AdjustFacts
<1>6. quote1 \in Balances /\ DOMAIN quote1 = DOMAIN s.quote
  BY <1>3, <1>4, AdjustFacts
<1>7. base2 \in Balances /\ DOMAIN base2 = DOMAIN s.base
  BY <1>3, <1>5, AdjustFacts
<1>8. quote2 \in Balances /\ DOMAIN quote2 = DOMAIN s.quote
  BY <1>3, <1>6, AdjustFacts
<1>9. counted \in Statuses
  BY <1>3, <1>4, CountFillFacts
<1>10. SettleFill(order, s, fill)
          = [s EXCEPT !.base = base2, !.quote = quote2, !.order_status = counted]
  BY <1>1, <1>2, <1>3 DEF SettleFill
<1>11. PICK after : after = [s EXCEPT !.base = base2, !.quote = quote2, !.order_status = counted]
  OBVIOUS
<1>12. /\ after \in State /\ after.oid = s.oid /\ after.book = s.book
       /\ after.base = base2 /\ after.quote = quote2 /\ after.order_status = counted
  BY <1>4, <1>7, <1>8, <1>9, <1>11 DEF State
<1>13. after \in Settling(s0)
  BY <1>4, <1>7, <1>8, <1>12 DEF Settling
<1>. QED  BY <1>3, <1>10, <1>11, <1>12, <1>13 DEF SettleSteps

LEMMA SettleStepsIsStep ==
  ASSUME NEW order \in Order, NEW s0 \in State
  PROVE  IsStep(SettleSteps(order, s0), Settling(s0), Fill) /\ s0 \in Settling(s0)
<1>1. \A s \in Settling(s0) :
         [fill \in Fill |-> SettleFill(order, s, fill)] \in [Fill -> Settling(s0)]
  BY SettleFillFacts
<1>. QED  BY <1>1 DEF SettleSteps, IsStep, Settling

LEMMA SettleIsFolded ==
  ASSUME NEW order \in Order, NEW s0 \in State, NEW fills \in Seq(Fill)
  PROVE  SettleFills(order, s0, fills) = Folded(SettleSteps(order, s0), s0, fills)
<1>. DEFINE Solves(h) ==
               h = [s \in SUBSET DOMAIN fills |->
                      IF s = {} THEN s0
                      ELSE SettleFill(order, h[s \ {Max(s)}], fills[Max(s)])]
<1>1. /\ s0 \in Settling(s0) /\ IsStep(SettleSteps(order, s0), Settling(s0), Fill)
      /\ DOMAIN fills = 1..Len(fills) /\ Len(fills) \in Nat
  BY SettleStepsIsStep
<1>2. \A s \in SUBSET DOMAIN fills : s # {} => fills[Max(s)] \in Fill
  <2>. SUFFICES ASSUME NEW s \in SUBSET DOMAIN fills, s # {} PROVE fills[Max(s)] \in Fill
    OBVIOUS
  <2>1. Max(s) \in 1..Len(fills)
    BY <1>1, MaxOfNumbers
  <2>. QED  BY <2>1
<1>3. PICK g \in [SUBSET DOMAIN fills -> Settling(s0)] :
         FoldSolves(g, SettleSteps(order, s0), s0, fills)
  BY <1>1, FoldSolvable
<1>4. Solves(g)
  <2>1. ASSUME NEW s \in SUBSET DOMAIN fills
        PROVE  g[s] = IF s = {} THEN s0
                      ELSE SettleFill(order, g[s \ {Max(s)}], fills[Max(s)])
    <3>1. CASE s = {}
      BY <1>3, <3>1 DEF FoldSolves
    <3>2. CASE s # {}
      <4>1. g[s \ {Max(s)}] \in Settling(s0) /\ fills[Max(s)] \in Fill
        BY <1>2, <3>2
      <4>2. PICK acc \in Settling(s0), fill \in Fill :
               acc = g[s \ {Max(s)}] /\ fill = fills[Max(s)]
        BY <4>1
      <4>3. SettleSteps(order, s0)[acc][fill] = SettleFill(order, acc, fill)
        BY SettleFillFacts
      <4>. QED  BY <1>3, <3>2, <4>2, <4>3 DEF FoldSolves
    <3>. QED  BY <3>1, <3>2
  <2>. QED  BY <2>1
<1>. DEFINE h == CHOOSE h : Solves(h)
<1>5. Solves(h)
  <2>. HIDE DEF Solves
  <2>. QED  BY <1>4
<1>6. SettleFills(order, s0, fills) = h[DOMAIN fills]
  BY DEF SettleFills, FoldLeft, MapThenFoldSet
<1>. HIDE DEF h
<1>7. FoldFits(h, Settling(s0), SettleSteps(order, s0), s0, fills)
  <2>1. h[{}] = s0
    BY <1>5
  <2>2. ASSUME NEW s \in SUBSET DOMAIN fills, s # {}, h[s \ {Max(s)}] \in Settling(s0)
        PROVE  h[s] = SettleSteps(order, s0)[h[s \ {Max(s)}]][fills[Max(s)]]
    <3>1. h[s] = SettleFill(order, h[s \ {Max(s)}], fills[Max(s)])
      BY <1>5, <2>2
    <3>2. PICK acc \in Settling(s0), fill \in Fill :
             acc = h[s \ {Max(s)}] /\ fill = fills[Max(s)]
      BY <1>2, <2>2
    <3>3. SettleSteps(order, s0)[acc][fill] = SettleFill(order, acc, fill)
      BY SettleFillFacts
    <3>. QED  BY <3>1, <3>2, <3>3
  <2>. QED  BY <2>1, <2>2 DEF FoldFits
<1>. QED  BY <1>1, <1>6, <1>7, FoldIsFolded

LEMMA SettleFillsFacts ==
  ASSUME NEW order \in Order, NEW s0 \in State, NEW fills \in Seq(Fill)
  PROVE  SettleFills(order, s0, fills) \in Settling(s0)
  BY SettleIsFolded, SettleStepsIsStep, FoldedType

QuoteSteps == [sum \in U64 |-> [fill \in Fill |-> Wrap(sum + FillQuote(fill))]]

LEMMA QuoteOfFillsFacts ==
  ASSUME NEW fills \in Seq(Fill)
  PROVE  QuoteOfFills(fills) \in U64
<1>. DEFINE Solves(h) ==
               h = [s \in SUBSET DOMAIN fills |->
                      IF s = {} THEN 0
                      ELSE Wrap(h[s \ {Max(s)}] + FillQuote(fills[Max(s)]))]
<1>1. \A sum \in U64, fill \in Fill :
         Wrap(sum + FillQuote(fill)) \in U64 /\ QuoteSteps[sum][fill] = Wrap(sum + FillQuote(fill))
  <2>1. \A sum \in Int, n \in Int : Wrap(sum + n) \in U64
    BY WrapFacts
  <2>. QED  BY <2>1, FillFacts, U64Facts DEF QuoteSteps
<1>2. IsStep(QuoteSteps, U64, Fill)
  <2>1. \A sum \in U64 : [fill \in Fill |-> Wrap(sum + FillQuote(fill))] \in [Fill -> U64]
    BY <1>1
  <2>. QED  BY <2>1 DEF QuoteSteps, IsStep
<1>3. 0 \in U64 /\ DOMAIN fills = 1..Len(fills) /\ Len(fills) \in Nat
  BY AmountAssumption DEF U64
<1>4. \A s \in SUBSET DOMAIN fills : s # {} => fills[Max(s)] \in Fill
  <2>. SUFFICES ASSUME NEW s \in SUBSET DOMAIN fills, s # {} PROVE fills[Max(s)] \in Fill
    OBVIOUS
  <2>1. Max(s) \in 1..Len(fills)
    BY <1>3, MaxOfNumbers
  <2>. QED  BY <2>1
<1>. DEFINE zero == 0
<1>. HIDE DEF zero
<1>5. PICK g \in [SUBSET DOMAIN fills -> U64] : FoldSolves(g, QuoteSteps, zero, fills)
  BY <1>2, <1>3, FoldSolvable DEF zero
<1>6. Solves(g)
  <2>1. ASSUME NEW s \in SUBSET DOMAIN fills
        PROVE  g[s] = IF s = {} THEN 0 ELSE Wrap(g[s \ {Max(s)}] + FillQuote(fills[Max(s)]))
    <3>1. g[s \ {Max(s)}] \in U64
      OBVIOUS
    <3>. QED  BY <1>1, <1>4, <1>5, <3>1 DEF FoldSolves, zero
  <2>. QED  BY <2>1
<1>. DEFINE h == CHOOSE h : Solves(h)
<1>7. Solves(h)
  <2>. HIDE DEF Solves
  <2>. QED  BY <1>6
<1>8. QuoteOfFills(fills) = h[DOMAIN fills]
  BY DEF QuoteOfFills, FoldLeft, MapThenFoldSet
<1>. HIDE DEF h
<1>9. FoldFits(h, U64, QuoteSteps, zero, fills)
  <2>1. h[{}] = zero
    BY <1>7 DEF zero
  <2>2. ASSUME NEW s \in SUBSET DOMAIN fills, s # {}, h[s \ {Max(s)}] \in U64
        PROVE  h[s] = QuoteSteps[h[s \ {Max(s)}]][fills[Max(s)]]
    <3>1. h[s] = Wrap(h[s \ {Max(s)}] + FillQuote(fills[Max(s)]))
      BY <1>7, <2>2
    <3>. QED  BY <1>1, <1>4, <2>2, <3>1
  <2>. QED  BY <2>1, <2>2 DEF FoldFits
<1>10. zero \in U64
  BY <1>3 DEF zero
<1>. QED  BY <1>2, <1>8, <1>9, <1>10, FoldIsFolded

-----------------------------------------------------------------------------
(* The requests that change the book. *)

LEMMA RemoveAtFacts ==
  ASSUME NEW T, NEW seq \in Seq(T), NEW i \in 1..Len(seq)
  PROVE  /\ RemoveAt(seq, i) \in Seq(T) /\ Len(RemoveAt(seq, i)) = Len(seq) - 1
         /\ \A j \in 1..(Len(seq) - 1) :
               RemoveAt(seq, i)[j] = IF j < i THEN seq[j] ELSE seq[j + 1]
<1>1. PICK a, b : a = SubSeq(seq, 1, i - 1) /\ b = SubSeq(seq, i + 1, Len(seq))
  OBVIOUS
<1>2. /\ a \in Seq(T) /\ Len(a) = i - 1 /\ \A j \in 1..(i - 1) : a[j] = seq[j]
  <2>1. /\ SubSeq(seq, 1, i - 1) \in Seq(T) /\ Len(SubSeq(seq, 1, i - 1)) = i - 1 - 1 + 1
        /\ \A j \in 1..(i - 1 - 1 + 1) : SubSeq(seq, 1, i - 1)[j] = seq[1 + j - 1]
    BY StretchFacts
  <2>. QED  BY <1>1, <2>1
<1>3. /\ b \in Seq(T) /\ Len(b) = Len(seq) - i
      /\ \A j \in 1..(Len(seq) - i) : b[j] = seq[i + j]
  <2>1. PICK k \in Nat, n \in Nat : k = i + 1 /\ n = Len(seq)
    OBVIOUS
  <2>2. k \in 1..(n + 1) /\ n \in (k - 1)..n
    BY <2>1
  <2>3. /\ SubSeq(seq, k, n) \in Seq(T) /\ Len(SubSeq(seq, k, n)) = n - k + 1
        /\ \A j \in 1..(n - k + 1) : SubSeq(seq, k, n)[j] = seq[k + j - 1]
    BY <2>1, <2>2, StretchFacts
  <2>. QED  BY <1>1, <2>1, <2>3
<1>4. PICK n \in Nat, r \in {a \o b} : n = Len(seq) /\ r = a \o b
  <2>1. Len(seq) \in Nat
    OBVIOUS
  <2>. QED  BY <2>1, Zenon
<1>5. /\ r \in Seq(T) /\ Len(r) = Len(a) + Len(b)
      /\ \A j \in 1..(Len(a) + Len(b)) : r[j] = IF j <= Len(a) THEN a[j] ELSE b[j - Len(a)]
  BY <1>2, <1>3, <1>4, ConcatProperties
<1>6. Len(a) = i - 1 /\ Len(b) = n - i /\ Len(a) + Len(b) = n - 1 /\ i \in 1..n
  BY <1>2, <1>3, <1>4
<1>7. /\ Len(r) = n - 1
      /\ \A j \in 1..(n - 1) : r[j] = IF j <= i - 1 THEN a[j] ELSE b[j - (i - 1)]
  BY <1>5, <1>6
<1>8. \A j \in 1..(n - 1) : r[j] = IF j < i THEN seq[j] ELSE seq[j + 1]
  <2>1. SUFFICES ASSUME NEW j \in 1..(n - 1)
                 PROVE  r[j] = IF j < i THEN seq[j] ELSE seq[j + 1]
    OBVIOUS
  <2>2. CASE j < i
    <3>1. j <= i - 1 /\ j \in 1..(i - 1)
      BY <1>6, <2>2
    <3>2. r[j] = a[j] /\ a[j] = seq[j]
      BY <1>2, <1>7, <3>1
    <3>. QED  BY <2>2, <3>2
  <2>3. CASE ~(j < i)
    <3>1. PICK k \in Nat : k = j - (i - 1)
      BY <1>6, <2>3
    <3>2. k \in 1..(n - i) /\ i + k = j + 1 /\ ~(j <= i - 1)
      BY <1>6, <2>3, <3>1
    <3>3. r[j] = b[k]
      BY <1>7, <3>1, <3>2
    <3>4. b[k] = seq[i + k]
      BY <1>3, <1>4, <3>2
    <3>. QED  BY <2>3, <3>2, <3>3, <3>4
  <2>. QED  BY <2>2, <2>3
<1>9. RemoveAt(seq, i) = r
  BY <1>1, <1>4 DEF RemoveAt
<1>. QED  BY <1>4, <1>5, <1>7, <1>8, <1>9

LEMMA RemoveFirstFacts ==
  ASSUME NEW T, NEW seq \in Seq(T), NEW e
  PROVE  \/ (\A i \in 1..Len(seq) : seq[i] # e) /\ RemoveFirst(seq, e) = seq
         \/ \E i \in 1..Len(seq) : seq[i] = e /\ RemoveFirst(seq, e) = RemoveAt(seq, i)
<1>1. CASE \A i \in 1..Len(seq) : seq[i] # e
  BY <1>1 DEF RemoveFirst
<1>2. CASE ~ \A i \in 1..Len(seq) : seq[i] # e
  <2>. DEFINE I == {i \in 1..Len(seq) : seq[i] = e}
  <2>1. I # {} /\ I \in SUBSET Nat
    BY <1>2
  <2>2. PICK i : i = Min(I)
    OBVIOUS
  <2>3. i \in I
    <3>. HIDE DEF I
    <3>1. \E m \in I : \A k \in I : m <= k
      BY <2>1, Smallest
    <3>2. (CHOOSE m \in I : \A k \in I : m <= k) \in I
      BY <3>1
    <3>. QED  BY <2>2, <3>2 DEF Min
  <2>4. RemoveFirst(seq, e) = RemoveAt(seq, Min(I))
    BY <1>2, <2>1 DEF RemoveFirst, SelectInSeq
  <2>. QED  BY <2>2, <2>3, <2>4
<1>. QED  BY <1>1, <1>2

LEMMA RemoveFirstType ==
  ASSUME NEW level \in Queue, NEW e
  PROVE  RemoveFirst(level, e) \in Queue
<1>1. level \in Seq(Order)
  BY DEF Queue
<1>2. \A i \in 1..Len(level) : RemoveAt(level, i) \in Seq(Order)
  BY <1>1, RemoveAtFacts
<1>. QED  BY <1>1, <1>2, RemoveFirstFacts DEF Queue

\* What the removal of an order of one level does to the levels.
Dequeued(after, levels, price, order) ==
    /\ after \in Levels /\ DOMAIN after = DOMAIN levels
    /\ after[price] = RemoveFirst(levels[price], order)
    /\ \A p \in DOMAIN levels \ {price} : after[p] = levels[p]

LEMMA DequeueFacts ==
  ASSUME NEW levels \in Levels, NEW price \in DOMAIN levels, NEW order
  PROVE  Dequeued([levels EXCEPT ![price] = RemoveFirst(@, order)], levels, price, order)
<1>1. PICK less : less = RemoveFirst(levels[price], order)
  OBVIOUS
<1>2. /\ DOMAIN levels \in SUBSET U64 /\ levels = [p \in DOMAIN levels |-> levels[p]]
      /\ \A p \in DOMAIN levels : levels[p] \in Queue
  BY MapsFacts DEF Levels
<1>3. less \in Queue
  BY <1>1, <1>2, RemoveFirstType
<1>4. PICK after : after = [levels EXCEPT ![price] = less]
  OBVIOUS
<1>5. after \in [DOMAIN levels -> Queue]
  BY <1>2, <1>3, <1>4
<1>6. after \in Levels
  BY <1>2, <1>5, IsMap DEF Levels
<1>. QED  BY <1>1, <1>2, <1>4, <1>6 DEF Dequeued

\* What `cancel' does to the book when it finds the order.
LEMMA CancelFacts ==
  ASSUME NEW book \in Book, NEW oid, NEW order \in CancelledOrders(book, oid)
  PROVE  LET price == book.oid_to_level[oid]
             after == CancelInBook(book, order)
         IN  /\ oid \in DOMAIN book.oid_to_level /\ order \in Order /\ order.oid = oid
             /\ after \in Book
             /\ Removed(after.oid_to_level, book.oid_to_level, oid)
             /\ price \in DOMAIN book.bids =>
                   /\ order \in ToSet(book.bids[price])
                   /\ Dequeued(after.bids, book.bids, price, order) /\ after.asks = book.asks
             /\ price \notin DOMAIN book.bids =>
                   /\ price \in DOMAIN book.asks /\ order \in ToSet(book.asks[price])
                   /\ Dequeued(after.asks, book.asks, price, order) /\ after.bids = book.bids
<1>1. oid \in DOMAIN book.oid_to_level
  BY DEF CancelledOrders
<1>2. PICK price, index, index2 :
         /\ price = book.oid_to_level[oid] /\ index = book.oid_to_level
         /\ index2 = Without(index, oid)
  OBVIOUS
<1>3. /\ index \in Index /\ book.bids \in Levels /\ book.asks \in Levels
  BY <1>2 DEF Book
<1>4. /\ order.oid = oid
      /\ order \in ToSet(LevelAt(book[SideToCancel(book, price)], price))
  BY <1>1, <1>2 DEF CancelledOrders
<1>5. index2 \in Index /\ Removed(index2, index, oid)
  <2>1. index \in Maps(Oid, U64)
    BY <1>3 DEF Index
  <2>. QED  BY <1>2, <2>1, WithoutFacts DEF Index
<1>6. \A levels : order \in ToSet(LevelAt(levels, price)) =>
                     price \in DOMAIN levels /\ order \in ToSet(levels[price])
  <2>1. \A x : x \notin ToSet(<<>>)
    BY DEF ToSet
  <2>. QED  BY <2>1 DEF LevelAt
<1>7. \A levels \in Levels : \A p \in DOMAIN levels :
         order \in ToSet(levels[p]) => order \in Order
  <2>1. \A q \in Seq(Order) : order \in ToSet(q) => order \in Order
    BY DEF ToSet
  <2>2. \A levels \in Levels : \A p \in DOMAIN levels : levels[p] \in Seq(Order)
    BY MapsFacts DEF Levels, Queue
  <2>. QED  BY <2>1, <2>2
<1>8. CASE price \in DOMAIN book.bids
  <2>1. PICK bids : bids = [book.bids EXCEPT ![price] = RemoveFirst(@, order)]
    OBVIOUS
  <2>2. Dequeued(bids, book.bids, price, order)
    BY <1>3, <1>8, <2>1, DequeueFacts
  <2>3. order \in ToSet(book.bids[price])
    BY <1>4, <1>6, <1>8 DEF SideToCancel
  <2>4. CancelInBook(book, order) = [book EXCEPT !.oid_to_level = index2, !.bids = bids]
    BY <1>2, <1>4, <1>8, <2>1 DEF CancelInBook, SideToCancel, RestrictDomain, Without, Book
  <2>5. PICK after : after = [book EXCEPT !.oid_to_level = index2, !.bids = bids]
    OBVIOUS
  <2>6. /\ after \in Book /\ after.oid_to_level = index2 /\ after.bids = bids
        /\ after.asks = book.asks
    BY <1>5, <2>2, <2>5 DEF Book, Dequeued
  <2>. QED  BY <1>1, <1>2, <1>3, <1>4, <1>5, <1>7, <1>8, <2>2, <2>3, <2>4, <2>5, <2>6
<1>9. CASE price \notin DOMAIN book.bids
  <2>1. PICK asks : asks = [book.asks EXCEPT ![price] = RemoveFirst(@, order)]
    OBVIOUS
  <2>2. price \in DOMAIN book.asks /\ order \in ToSet(book.asks[price])
    BY <1>4, <1>6, <1>9 DEF SideToCancel
  <2>3. Dequeued(asks, book.asks, price, order)
    BY <1>3, <2>1, <2>2, DequeueFacts
  <2>4. CancelInBook(book, order) = [book EXCEPT !.oid_to_level = index2, !.asks = asks]
    BY <1>2, <1>4, <1>9, <2>1 DEF CancelInBook, SideToCancel, RestrictDomain, Without, Book
  <2>5. PICK after : after = [book EXCEPT !.oid_to_level = index2, !.asks = asks]
    OBVIOUS
  <2>6. /\ after \in Book /\ after.oid_to_level = index2 /\ after.asks = asks
        /\ after.bids = book.bids
    BY <1>5, <2>3, <2>5 DEF Book, Dequeued
  <2>. QED  BY <1>1, <1>2, <1>3, <1>4, <1>5, <1>7, <1>9, <2>2, <2>3, <2>4, <2>5, <2>6
<1>. QED  BY <1>8, <1>9

\* The order of a state that a cancellation finds, if any.
LEMMA FoundFacts ==
  ASSUME NEW book, NEW oid, CancelledOrders(book, oid) # {}
  PROVE  (CHOOSE o \in CancelledOrders(book, oid) : TRUE) \in CancelledOrders(book, oid)
  OBVIOUS

LEMMA CancelIsSound ==
  ASSUME NEW state, Sound(state), NEW req
  PROVE  SoundOutcome(cancel_order(req, state), state.oid)
<1>1. /\ state \in State /\ state.base \in Balances /\ state.quote \in Balances
      /\ state.book \in Book /\ state.order_status \in Statuses
      /\ DOMAIN state.quote = DOMAIN state.base /\ NotCrossed(state.book)
  BY StateFacts DEF Sound
<1>2. PICK oid, book, found : /\ oid = req.oid /\ book = state.book
                              /\ found = CancelledOrders(book, oid)
  OBVIOUS
<1>3. <<>> \in Seq(AnyDiff)
  OBVIOUS
<1>4. CASE found = {}
  <2>1. PICK index : index = Without(book.oid_to_level, oid)
    OBVIOUS
  <2>2. index \in Index
    <3>1. book.oid_to_level \in Maps(Oid, U64)
      BY <1>1, <1>2 DEF Book, Index
    <3>. QED  BY <2>1, <3>1, WithoutFacts DEF Index
  <2>3. PICK book2 : book2 = [book EXCEPT !.oid_to_level = index]
    OBVIOUS
  <2>4. book2 \in Book /\ NotCrossed(book2)
    BY <1>1, <1>2, <2>2, <2>3 DEF Book, NotCrossed
  <2>5. PICK after : after = [state EXCEPT !.book = book2]
    OBVIOUS
  <2>6. Sound(after) /\ after.oid = state.oid
    BY <1>1, <2>4, <2>5 DEF Sound, State
  <2>7. cancel_order(req, state) = Outcome(FALSE, after, <<>>)
    BY <1>1, <1>2, <1>4, <2>1, <2>3, <2>5 DEF cancel_order, RestrictDomain, Without, State
  <2>. QED  BY <1>3, <2>6, <2>7 DEF SoundOutcome, Outcome
<1>5. CASE found # {}
  <2>1. PICK order \in found : order = CHOOSE o \in found : TRUE
    BY <1>5
  <2>2. PICK book2 : book2 = CancelInBook(book, order)
    OBVIOUS
  <2>3. book2 \in Book /\ order \in Order /\ NotCrossed(book2)
    <3>1. PICK price : price = book.oid_to_level[oid]
      OBVIOUS
    <3>2. /\ order \in Order /\ book2 \in Book
          /\ price \in DOMAIN book.bids =>
                Dequeued(book2.bids, book.bids, price, order) /\ book2.asks = book.asks
          /\ price \notin DOMAIN book.bids =>
                Dequeued(book2.asks, book.asks, price, order) /\ book2.bids = book.bids
      BY <1>1, <1>2, <2>2, <3>1, CancelFacts
    <3>3. DOMAIN book2.bids = DOMAIN book.bids /\ DOMAIN book2.asks = DOMAIN book.asks
      BY <3>2 DEF Dequeued
    <3>. QED  BY <1>1, <1>2, <3>2, <3>3 DEF NotCrossed
  <2>4. PICK statuses : statuses = Without(state.order_status, oid)
    OBVIOUS
  <2>5. statuses \in Statuses
    <3>1. state.order_status \in Maps(Oid, FillStatus)
      BY <1>1 DEF Statuses
    <3>. QED  BY <2>4, <3>1, WithoutFacts DEF Statuses
  <2>6. PICK unbooked, closed : /\ unbooked = [state EXCEPT !.book = book2]
                                /\ closed = [unbooked EXCEPT !.order_status = statuses]
    OBVIOUS
  <2>7. /\ Sound(unbooked) /\ unbooked.oid = state.oid
        /\ Sound(closed) /\ closed.oid = state.oid
        /\ closed \in State /\ closed.base = state.base /\ closed.quote = state.quote
    BY <1>1, <2>3, <2>5, <2>6 DEF Sound, State
  <2>8. PICK owner \in {order.address}, size \in Int, quoteSize \in Int :
           owner = order.address /\ size = order.size /\ quoteSize = QuoteSize(order)
    <3>1. PICK x \in Int, y \in Int : x = order.size /\ y = order.limit_price
      <4>1. order.size \in Int /\ order.limit_price \in Int
        BY <2>3, OrderFacts, U64Facts
      <4>. QED  BY <4>1
    <3>2. x * y \in Int
      OBVIOUS
    <3>3. QuoteSize(order) \in Int
      BY <3>1, <3>2, WrapFacts, U64Facts DEF QuoteSize
    <3>. QED  BY <3>1, <3>3
  <2>9. owner \in User
    BY <2>3, <2>8, OrderFacts
  <2>10. PICK balances : balances = IF order.is_buy THEN state.quote ELSE state.base
    OBVIOUS
  <2>11. CASE oid \notin DOMAIN state.order_status
    <3>1. cancel_order(req, state) = Outcome(FALSE, unbooked, <<>>)
      BY <1>2, <1>5, <2>1, <2>2, <2>6, <2>11 DEF cancel_order
    <3>. QED  BY <1>3, <2>7, <3>1 DEF SoundOutcome, Outcome
  <2>12. CASE oid \in DOMAIN state.order_status /\ owner \notin DOMAIN balances
    <3>1. cancel_order(req, state) = Outcome(FALSE, closed, <<>>)
      BY <1>2, <1>5, <2>1, <2>2, <2>4, <2>6, <2>8, <2>10, <2>12
         DEF cancel_order, RestrictDomain, Without
    <3>. QED  BY <1>3, <2>7, <3>1 DEF SoundOutcome, Outcome
  <2>13. ASSUME oid \in DOMAIN state.order_status, owner \in DOMAIN balances
         PROVE  SoundOutcome(cancel_order(req, state), state.oid)
    <3>0. PICK status : status = state.order_status[oid]
      OBVIOUS
    <3>1. PICK spent \in Int, filled \in Int :
             spent = status.filled_quote /\ filled = status.filled_size
      <4>1. status.filled_quote \in Int /\ status.filled_size \in Int
        BY <1>1, <2>13, <3>0, StatusFacts, U64Facts
      <4>. QED  BY <4>1
    <3>2. PICK quoteBack \in Int, baseBack \in Int :
             quoteBack = quoteSize - spent /\ baseBack = size - filled
      OBVIOUS
    <3>3. CASE order.is_buy
      <4>1. PICK quote, diffs : /\ quote = Unlock(state.quote, owner, quoteBack)
                                /\ diffs = <<Diff("cancel", owner, Both(0, quoteSize))>>
        OBVIOUS
      <4>2. quote \in Balances /\ DOMAIN quote = DOMAIN state.quote
        BY <1>1, <4>1, UnlockFacts
      <4>3. diffs \in Seq(AnyDiff)
        BY <2>9, <4>1, DiffFacts
      <4>4. PICK after : after = [closed EXCEPT !.quote = quote]
        OBVIOUS
      <4>5. Sound(after) /\ after.oid = state.oid
        BY <1>1, <2>7, <4>2, <4>4 DEF Sound, State
      <4>6. after = [closed EXCEPT !.quote = Unlock(@, owner, quoteBack)]
        BY <2>7, <4>1, <4>4 DEF State
      <4>7. cancel_order(req, state) = Outcome(TRUE, after, diffs)
        BY <1>2, <1>5, <2>1, <2>2, <2>4, <2>6, <2>8, <2>10, <2>13, <3>0, <3>1, <3>2, <3>3,
           <4>1, <4>6 DEF cancel_order, RestrictDomain, Without
      <4>. QED  BY <4>3, <4>5, <4>7 DEF SoundOutcome, Outcome
    <3>4. CASE ~order.is_buy
      <4>1. PICK base, diffs : /\ base = Unlock(state.base, owner, baseBack)
                               /\ diffs = <<Diff("cancel", owner, Both(size, 0))>>
        OBVIOUS
      <4>2. base \in Balances /\ DOMAIN base = DOMAIN state.base
        BY <1>1, <4>1, UnlockFacts
      <4>3. diffs \in Seq(AnyDiff)
        BY <2>9, <4>1, DiffFacts
      <4>4. PICK after : after = [closed EXCEPT !.base = base]
        OBVIOUS
      <4>5. Sound(after) /\ after.oid = state.oid
        BY <1>1, <2>7, <4>2, <4>4 DEF Sound, State
      <4>6. after = [closed EXCEPT !.base = Unlock(@, owner, baseBack)]
        BY <2>7, <4>1, <4>4 DEF State
      <4>7. cancel_order(req, state) = Outcome(TRUE, after, diffs)
        BY <1>2, <1>5, <2>1, <2>2, <2>4, <2>6, <2>8, <2>10, <2>13, <3>0, <3>1, <3>2, <3>4,
           <4>1, <4>6 DEF cancel_order, RestrictDomain, Without
      <4>. QED  BY <4>3, <4>5, <4>7 DEF SoundOutcome, Outcome
    <3>. QED  BY <3>3, <3>4
  <2>. QED  BY <2>11, <2>12, <2>13
<1>. QED  BY <1>4, <1>5

\* All of an order's price is locked, in an account that is there.
Charged(locked, state, order) ==
    /\ order.address \in DOMAIN state.base \cap DOMAIN state.quote
    /\ locked.base = Lock(state.base, order.address, IF order.is_buy THEN 0 ELSE order.size)
    /\ locked.quote = Lock(state.quote, order.address,
                           IF order.is_buy THEN QuoteSize(order) ELSE 0)

Created(order) ==
    Diff("create", order.address, Both(IF order.is_buy THEN 0 ELSE order.size,
                                       IF order.is_buy THEN QuoteSize(order) ELSE 0))

Asked(order, req) == order.limit_price = req.limit_price /\ order.size = req.size

\* An order that is placed: the state with its funds locked and the book after
\* `limit', the state after the fills, and its status.
Placed(out, state, order, locked, settled, status) ==
    LET limit == Limit(state.book, order)
    IN  /\ order.oid = state.oid
        /\ locked.oid = state.oid + 1 /\ locked.book = limit.book
        /\ locked.order_status = state.order_status
        /\ DOMAIN locked.base = DOMAIN state.base /\ DOMAIN locked.quote = DOMAIN state.quote
        /\ Charged(locked, state, order)
        /\ settled = SettleFills(order, locked, limit.fills)
        /\ status.size = order.size /\ status.filled_size = order.size - limit.remaining
        /\ out.diffs \in Seq(AnyDiff)
        /\ out.diffs = <<Created(order)>> \o FillDiffs(order, limit.fills)
        /\ out.state = IF limit.remaining = 0 THEN settled
                       ELSE [settled EXCEPT !.order_status = Put(@, order.oid, status)]

LEMMA FillDiffsFacts ==
  ASSUME NEW order \in Order, NEW fills \in Seq(Fill)
  PROVE  FillDiffs(order, fills) \in Seq(AnyDiff)
<1>1. \A i \in DOMAIN fills :
         FillDiff(Buyer(order, fills[i]), Seller(order, fills[i]), fills[i].size,
                  FillQuote(fills[i])) \in AnyDiff
  <2>1. SUFFICES ASSUME NEW fill \in Fill
                 PROVE  FillDiff(Buyer(order, fill), Seller(order, fill), fill.size,
                                 FillQuote(fill)) \in AnyDiff
    OBVIOUS
  <2>2. /\ Buyer(order, fill) \in User /\ Seller(order, fill) \in User
        /\ fill.size \in Int /\ FillQuote(fill) \in Int
    BY PartiesFacts, FillFacts, U64Facts
  <2>3. PICK buyer \in User, seller \in User, base \in Int, quote \in Int :
           /\ buyer = Buyer(order, fill) /\ seller = Seller(order, fill)
           /\ base = fill.size /\ quote = FillQuote(fill)
    BY <2>2
  <2>4. FillDiff(buyer, seller, base, quote) \in AnyDiff
    BY FillDiffFacts
  <2>. QED  BY <2>3, <2>4
<1>2. DOMAIN fills = 1..Len(fills) /\ Len(fills) \in Nat
  OBVIOUS
<1>3. FillDiffs(order, fills) \in [1..Len(fills) -> AnyDiff]
  BY <1>1, <1>2 DEF FillDiffs
<1>. QED  BY <1>2, <1>3

LEMMA AddOrderFacts ==
  ASSUME NEW state, Sound(state), NEW req \in AddOrderRequest
  PROVE  \/ add_order(req, state) = Outcome(FALSE, state, <<>>)
         \/ add_order(req, state) = Outcome(FALSE, [state EXCEPT !.oid = @ + 1], <<>>)
         \/ \E order \in Order, locked \in State, settled \in State, status \in FillStatus :
               /\ Asked(order, req)
               /\ Placed(add_order(req, state), state, order, locked, settled, status)
<1>1. /\ state \in State /\ state.base \in Balances /\ state.quote \in Balances
      /\ state.book \in Book /\ state.oid \in Nat
  BY StateFacts DEF Sound
<1>. DEFINE order == [is_buy |-> req.is_buy, limit_price |-> req.limit_price,
                      size |-> req.size, oid |-> state.oid, address |-> req.address]
            base == IF req.is_buy THEN 0 ELSE order.size
            quote == IF req.is_buy THEN QuoteSize(order) ELSE 0
            counted == [state EXCEPT !.oid = @ + 1]
            limit == Limit(state.book, order)
            locked == [counted EXCEPT !.base = Lock(@, req.address, base),
                                      !.quote = Lock(@, req.address, quote),
                                      !.book = limit.book]
            settled == SettleFills(order, locked, limit.fills)
            status == [size |-> req.size, filled_size |-> req.size - limit.remaining,
                       filled_quote |-> QuoteOfFills(limit.fills)]
            first == <<Diff("create", req.address, Both(base, quote))>>
            rest == FillDiffs(order, limit.fills)
            after == IF limit.remaining = 0 THEN settled
                     ELSE [settled EXCEPT !.order_status = Put(@, order.oid, status)]
<1>2. /\ order \in Order /\ order.oid = state.oid /\ order.size = req.size
      /\ order.limit_price = req.limit_price
      /\ order.is_buy = req.is_buy /\ order.address = req.address
  BY <1>1 DEF AddOrderRequest, Order
<1>. HIDE DEF order
<1>3. req.address \in User /\ req.is_buy \in BOOLEAN
  BY DEF AddOrderRequest
<1>4. order.size \in Int /\ QuoteSize(order) \in Int
  <2>1. order.size \in Int /\ order.limit_price \in Int
    BY <1>2, OrderFacts, U64Facts
  <2>2. PICK x \in Int, y \in Int : x = order.size /\ y = order.limit_price
    BY <2>1
  <2>3. x * y \in Int
    OBVIOUS
  <2>. QED  BY <2>2, <2>3, WrapFacts, U64Facts DEF QuoteSize
<1>5. base \in Int /\ quote \in Int
  BY <1>4
<1>6. limit = Limit(state.book, order)
  OBVIOUS
<1>. HIDE DEF base, quote, limit
<1>7. /\ limit.book \in Book /\ limit.remaining \in 0..order.size /\ limit.fills \in Seq(Fill)
  BY <1>1, <1>2, <1>6, LimitFacts
<1>8. PICK base2, quote2 : /\ base2 = Lock(state.base, req.address, base)
                           /\ quote2 = Lock(state.quote, req.address, quote)
  OBVIOUS
<1>9. /\ base2 \in Balances /\ DOMAIN base2 = DOMAIN state.base
       /\ quote2 \in Balances /\ DOMAIN quote2 = DOMAIN state.quote
  BY <1>1, <1>5, <1>8, UnlockFacts
<1>10. /\ counted.oid = state.oid + 1 /\ counted.base = state.base
       /\ counted.quote = state.quote /\ counted.order_status = state.order_status
       /\ counted \in State
  <2>1. PICK oid \in Nat : oid = state.oid + 1
    BY <1>1
  <2>2. counted = [state EXCEPT !.oid = oid]
    BY <2>1
  <2>. HIDE DEF counted
  <2>. QED  BY <1>1, <2>1, <2>2 DEF State
<1>11. /\ locked \in State /\ locked.oid = state.oid + 1 /\ locked.book = limit.book
       /\ locked.order_status = state.order_status
       /\ locked.base = base2 /\ locked.quote = quote2
  <2>1. locked = [counted EXCEPT !.base = base2, !.quote = quote2, !.book = limit.book]
    BY <1>8, <1>10
  <2>. HIDE DEF locked, counted
  <2>. QED  BY <1>7, <1>9, <1>10, <2>1 DEF State
<1>. HIDE DEF locked
<1>12. settled \in State
  <2>1. PICK fills \in Seq(Fill) : fills = limit.fills
    BY <1>7
  <2>2. SettleFills(order, locked, fills) \in Settling(locked)
    BY <1>2, <1>11, SettleFillsFacts
  <2>. QED  BY <2>1, <2>2 DEF Settling
<1>. HIDE DEF settled
<1>13. /\ status \in FillStatus /\ status.size = order.size
       /\ status.filled_size = order.size - limit.remaining
  <2>1. PICK n \in Nat, m \in Nat : n = order.size /\ m = limit.remaining
    BY <1>2, <1>7, OrderFacts, U64Facts
  <2>2. n \in U64 /\ m \in 0..n
    BY <1>2, <1>7, <2>1, OrderFacts
  <2>3. n - m \in U64
    BY <2>2, AmountAssumption DEF U64
  <2>4. PICK left \in U64, spent \in U64 : left = n - m /\ spent = QuoteOfFills(limit.fills)
    BY <1>7, <2>3, QuoteOfFillsFacts
  <2>. QED  BY <1>2, <2>1, <2>2, <2>4 DEF FillStatus
<1>. HIDE DEF status
<1>14. first \o rest \in Seq(AnyDiff)
  <2>1. first \in Seq(AnyDiff)
    BY <1>3, <1>5, DiffFacts
  <2>2. rest \in Seq(AnyDiff)
    BY <1>2, <1>7, FillDiffsFacts
  <2>. QED  BY <2>1, <2>2, ConcatFacts
<1>15. CASE req.address \notin DOMAIN state.base \cap DOMAIN state.quote
  BY <1>15 DEF add_order
<1>16. CASE /\ req.address \in DOMAIN state.base \cap DOMAIN state.quote
            /\ ~Covers(state, req.address, base, quote)
  <2>1. add_order(req, state) = Outcome(FALSE, counted, <<>>)
    BY <1>16 DEF add_order, order, base, quote
  <2>. QED  BY <2>1
<1>17. CASE /\ req.address \in DOMAIN state.base \cap DOMAIN state.quote
            /\ Covers(state, req.address, base, quote)
  <2>1. add_order(req, state) = Outcome(TRUE, after, first \o rest)
    BY <1>17 DEF add_order, order, base, quote, limit, locked, settled, status
  <2>2. add_order(req, state).state = after /\ add_order(req, state).diffs = first \o rest
    <3>. HIDE DEF after, first, rest
    <3>. QED  BY <2>1 DEF Outcome
  <2>3. Placed(add_order(req, state), state, order, locked, settled, status)
    <3>1. after = IF limit.remaining = 0 THEN settled
                  ELSE [settled EXCEPT !.order_status = Put(@, order.oid, status)]
      OBVIOUS
    <3>2. settled = SettleFills(order, locked, limit.fills)
      BY DEF settled
    <3>3. Charged(locked, state, order)
      BY <1>2, <1>8, <1>11, <1>17 DEF Charged, base, quote
    <3>4. first = <<Created(order)>> /\ rest = FillDiffs(order, limit.fills)
      BY <1>2 DEF Created, base, quote
    <3>. HIDE DEF after, first, rest
    <3>. QED  BY <1>2, <1>6, <1>9, <1>11, <1>13, <1>14, <2>2, <3>1, <3>2, <3>3, <3>4 DEF Placed
  <2>. QED  BY <1>2, <1>11, <1>12, <1>13, <2>3 DEF Asked
<1>. QED  BY <1>15, <1>16, <1>17

LEMMA AddOrderIsSound ==
  ASSUME NEW state, Sound(state), NEW req \in AddOrderRequest
  PROVE  /\ SoundOutcome(add_order(req, state), add_order(req, state).state.oid)
         /\ add_order(req, state).state.oid \in {state.oid, state.oid + 1}
<1>1. PICK out : out = add_order(req, state)
  OBVIOUS
<1>2. /\ state \in State /\ state.book \in Book /\ state.oid \in Nat
      /\ DOMAIN state.quote = DOMAIN state.base /\ NotCrossed(state.book)
  BY StateFacts DEF Sound
<1>3. <<>> \in Seq(AnyDiff)
  OBVIOUS
<1>4. CASE out = Outcome(FALSE, state, <<>>)
  BY <1>1, <1>3, <1>4 DEF SoundOutcome, Outcome
<1>5. CASE out = Outcome(FALSE, [state EXCEPT !.oid = @ + 1], <<>>)
  <2>1. PICK oid \in Nat : oid = state.oid + 1
    BY <1>2
  <2>2. PICK after : after = [state EXCEPT !.oid = oid]
    OBVIOUS
  <2>3. Sound(after) /\ after.oid = oid
    BY <1>2, <2>2 DEF Sound, State
  <2>4. out.state = after /\ out.diffs = <<>>
    <3>1. [state EXCEPT !.oid = @ + 1] = after
      BY <2>1, <2>2
    <3>2. out = Outcome(FALSE, after, <<>>)
      BY <1>5, <3>1
    <3>. QED  BY <3>2 DEF Outcome
  <2>. QED  BY <1>1, <1>3, <2>1, <2>3, <2>4 DEF SoundOutcome
<1>6. ASSUME NEW order \in Order, NEW locked \in State, NEW settled \in State,
             NEW status \in FillStatus,
             Placed(add_order(req, state), state, order, locked, settled, status)
      PROVE  SoundOutcome(out, out.state.oid) /\ out.state.oid \in {state.oid, state.oid + 1}
  <2>1. PICK limit : limit = Limit(state.book, order)
    OBVIOUS
  <2>2. /\ locked.oid = state.oid + 1 /\ locked.book = limit.book
        /\ DOMAIN locked.base = DOMAIN state.base /\ DOMAIN locked.quote = DOMAIN state.quote
        /\ settled = SettleFills(order, locked, limit.fills)
        /\ out.diffs \in Seq(AnyDiff) /\ order.oid = state.oid
        /\ out.state = IF limit.remaining = 0 THEN settled
                       ELSE [settled EXCEPT !.order_status = Put(@, order.oid, status)]
    BY <1>1, <1>6, <2>1 DEF Placed
  <2>3. NotCrossed(limit.book) /\ limit.fills \in Seq(Fill)
    BY <1>2, <2>1, LimitFacts, LimitNotCrossed
  <2>4. settled \in Settling(locked)
    BY <2>2, <2>3, SettleFillsFacts
  <2>5. Sound(settled) /\ settled.oid = state.oid + 1
    BY <1>2, <2>2, <2>3, <2>4 DEF Sound, Settling
  <2>6. PICK statuses : statuses = Put(settled.order_status, order.oid, status)
    OBVIOUS
  <2>7. statuses \in Statuses
    <3>1. settled.order_status \in Maps(Oid, FillStatus) /\ order.oid \in Oid
      BY <1>2, <2>2, StateFacts DEF Statuses, Oid
    <3>. QED  BY <2>6, <3>1, PutFacts DEF Statuses
  <2>8. PICK more : more = [settled EXCEPT !.order_status = statuses]
    OBVIOUS
  <2>9. Sound(more) /\ more.oid = settled.oid
    BY <2>5, <2>7, <2>8 DEF Sound, State
  <2>10. out.state \in {settled, more}
    BY <2>2, <2>6, <2>8
  <2>. QED  BY <2>2, <2>5, <2>9, <2>10 DEF SoundOutcome
<1>. QED  BY <1>1, <1>4, <1>5, <1>6, AddOrderFacts

-----------------------------------------------------------------------------
(* The deltas: what orders and fills move between the users and between free *)
(* and locked adds up to nothing.                                            *)

Owned == [User -> Amounts]
Orders == [User -> [free : Amounts, locked : Amounts]]

FreeOf(orders) == [u \in User |-> orders[u].free]
LockedOf(orders) == [u \in User |-> orders[u].locked]

Deltas == [deposits : Owned, withdraws : Owned, orders : Orders]

AddsUpToNothing(orders) ==
    \A asset \in Asset : SumOver(FreeOf(orders))[asset] + SumOver(LockedOf(orders))[asset] = 0

Balanced == {sums \in Deltas : AddsUpToNothing(sums.orders)}

LEMMA AmountsFacts ==
  ASSUME NEW a \in Amounts, NEW b \in Amounts
  PROVE  /\ Plus(a, b) \in Amounts /\ Minus(a, b) \in Amounts
         /\ \A asset \in Asset : /\ a[asset] \in Int /\ b[asset] \in Int
                                 /\ Plus(a, b)[asset] = a[asset] + b[asset]
                                 /\ Minus(a, b)[asset] = a[asset] - b[asset]
  BY DEF Amounts, Plus, Minus

AssetOf(f, asset) == [u \in User |-> f[u][asset]]

LEMMA AssetOfFacts ==
  ASSUME NEW f \in Owned, NEW asset \in Asset
  PROVE  AssetOf(f, asset) \in [User -> Int]
<1>1. \A u \in User : f[u] \in Amounts
  BY DEF Owned
<1>2. \A a \in Amounts : a[asset] \in Int
  BY DEF Amounts
<1>. QED  BY <1>1, <1>2 DEF AssetOf

LEMMA SumOverFacts ==
  ASSUME NEW f \in Owned
  PROVE  /\ SumOver(f) \in Amounts
         /\ \A asset \in Asset : /\ SumOver(f)[asset] = SumFunctionOnSet(AssetOf(f, asset), User)
                                 /\ SumOver(f)[asset] \in Int
<1>1. IsFiniteSet(User)
  BY UserAssumption
<1>2. \A asset \in Asset : SumFunctionOnSet(AssetOf(f, asset), User) \in Int
  BY <1>1, AssetOfFacts, SumIsInt
<1>3. SumOver(f) = [asset \in Asset |-> SumFunctionOnSet(AssetOf(f, asset), User)]
  BY DEF SumOver, AssetOf
<1>. QED  BY <1>2, <1>3 DEF Amounts

\* h is f and g together.
Together(h, f, g, asset) == \A u \in User : h[u][asset] = f[u][asset] + g[u][asset]

LEMMA SumOverSums ==
  ASSUME NEW f \in Owned, NEW g \in Owned, NEW h \in Owned, NEW asset \in Asset,
         Together(h, f, g, asset)
  PROVE  SumOver(h)[asset] = SumOver(f)[asset] + SumOver(g)[asset]
<1>1. IsFiniteSet(User)
  BY UserAssumption
<1>2. PICK a \in [User -> Int], b \in [User -> Int], c \in [User -> Int] :
         a = AssetOf(f, asset) /\ b = AssetOf(g, asset) /\ c = AssetOf(h, asset)
  BY AssetOfFacts
<1>3. \A u \in User : c[u] = a[u] + b[u]
  BY <1>2 DEF AssetOf, Together
<1>4. SumFunctionOnSet(c, User) = SumFunctionOnSet(a, User) + SumFunctionOnSet(b, User)
  BY <1>1, <1>3, SumOfSums
<1>. QED  BY <1>2, <1>4, SumOverFacts

\* h is f with n more for one user.
More(h, f, user, asset, n) ==
    h[user][asset] = f[user][asset] + n /\ \A u \in User \ {user} : h[u] = f[u]

LEMMA SumOverMore ==
  ASSUME NEW f \in Owned, NEW h \in Owned, NEW user \in User, NEW asset \in Asset, NEW n \in Int,
         More(h, f, user, asset, n)
  PROVE  SumOver(h)[asset] = SumOver(f)[asset] + n
<1>1. IsFiniteSet(User)
  BY UserAssumption
<1>2. PICK a \in [User -> Int], c \in [User -> Int] :
         a = AssetOf(f, asset) /\ c = AssetOf(h, asset)
  BY AssetOfFacts
<1>3. c[user] = a[user] + n /\ \A u \in User : u # user => c[u] = a[u]
  BY <1>2 DEF AssetOf, More
<1>4. SumFunctionOnSet(c, User) = SumFunctionOnSet(a, User) + n
  BY <1>1, <1>3, SumWithMore
<1>. QED  BY <1>2, <1>4, SumOverFacts

\* What an account has becomes this.
Give(orders, user, free, locked) ==
    [orders EXCEPT ![user].locked = locked, ![user].free = free]

Given(after, orders, user, free, locked) ==
    /\ FreeOf(after) = [FreeOf(orders) EXCEPT ![user] = free]
    /\ LockedOf(after) = [LockedOf(orders) EXCEPT ![user] = locked]

LEMMA OrdersFacts ==
  ASSUME NEW orders \in Orders, NEW user \in User, NEW free \in Amounts, NEW locked \in Amounts
  PROVE  LET after == Give(orders, user, free, locked)
         IN  /\ orders[user].free \in Amounts /\ orders[user].locked \in Amounts
             /\ FreeOf(orders) \in Owned /\ LockedOf(orders) \in Owned
             /\ after \in Orders
             /\ Given(after, orders, user, free, locked)
<1>1. PICK after : after = [orders EXCEPT ![user].locked = locked, ![user].free = free]
  OBVIOUS
<1>2. \A u \in User : orders[u] \in [free : Amounts, locked : Amounts]
  BY DEF Orders
<1>3. \A u \in User : orders[u].free \in Amounts /\ orders[u].locked \in Amounts
  BY <1>2
<1>4. PICK share : share = [orders[user] EXCEPT !.locked = locked, !.free = free]
  OBVIOUS
<1>5. /\ share \in [free : Amounts, locked : Amounts]
      /\ share.free = free /\ share.locked = locked
  BY <1>2, <1>4
<1>6. after = [orders EXCEPT ![user] = share]
  BY <1>1, <1>4 DEF Orders
<1>7. after \in Orders /\ after[user] = share /\ \A u \in User \ {user} : after[u] = orders[u]
  BY <1>5, <1>6 DEF Orders
<1>8. FreeOf(orders) \in Owned /\ LockedOf(orders) \in Owned
  BY <1>3 DEF FreeOf, LockedOf, Owned
<1>9. FreeOf(after) = [FreeOf(orders) EXCEPT ![user] = free]
  BY <1>5, <1>7 DEF FreeOf
<1>10. LockedOf(after) = [LockedOf(orders) EXCEPT ![user] = locked]
  BY <1>5, <1>7 DEF LockedOf
<1>. QED  BY <1>1, <1>3, <1>7, <1>8, <1>9, <1>10 DEF Give, Given

\* An account's free and locked amounts change.
LEMMA MoveFacts ==
  ASSUME NEW orders \in Orders, NEW user \in User, NEW free \in Amounts, NEW locked \in Amounts,
         NEW wasFree \in Amounts, NEW wasLocked \in Amounts,
         wasFree = orders[user].free, wasLocked = orders[user].locked
  PROVE  LET after == Give(orders, user, free, locked)
         IN  /\ after \in Orders
             /\ \A asset \in Asset :
                   /\ SumOver(FreeOf(after))[asset]
                         = SumOver(FreeOf(orders))[asset]
                              + (free[asset] - wasFree[asset])
                   /\ SumOver(LockedOf(after))[asset]
                         = SumOver(LockedOf(orders))[asset]
                              + (locked[asset] - wasLocked[asset])
<1>1. PICK after : after = Give(orders, user, free, locked)
  OBVIOUS
<1>2. PICK f, l : f = FreeOf(orders) /\ l = LockedOf(orders)
  OBVIOUS
<1>3. PICK f2, l2 : f2 = FreeOf(after) /\ l2 = LockedOf(after)
  OBVIOUS
<1>4. /\ after \in Orders /\ f \in Owned /\ l \in Owned
      /\ f2 = [f EXCEPT ![user] = free] /\ l2 = [l EXCEPT ![user] = locked]
  <2>1. /\ after \in Orders /\ f \in Owned /\ l \in Owned
        /\ Given(after, orders, user, free, locked)
    BY <1>1, <1>2, OrdersFacts
  <2>. QED  BY <1>2, <1>3, <2>1 DEF Given
<1>5. /\ f2 \in Owned /\ f2[user] = free /\ f[user] = wasFree
      /\ \A u \in User \ {user} : f2[u] = f[u]
      /\ l2 \in Owned /\ l2[user] = locked /\ l[user] = wasLocked
      /\ \A u \in User \ {user} : l2[u] = l[u]
  <2>1. f[user] = wasFree /\ l[user] = wasLocked
    BY <1>2 DEF FreeOf, LockedOf
  <2>. QED  BY <1>4, <2>1 DEF Owned
<1>6. ASSUME NEW asset \in Asset
      PROVE  /\ SumOver(f2)[asset] = SumOver(f)[asset] + (free[asset] - wasFree[asset])
             /\ SumOver(l2)[asset] = SumOver(l)[asset] + (locked[asset] - wasLocked[asset])
  <2>1. PICK x \in Int, y \in Int, v \in Int, w \in Int :
           x = free[asset] /\ y = wasFree[asset] /\ v = locked[asset] /\ w = wasLocked[asset]
    BY AmountsFacts
  <2>2. PICK n \in Int, m \in Int : n = x - y /\ m = v - w
    OBVIOUS
  <2>3. x = y + n /\ v = w + m
    BY <2>2
  <2>4. More(f2, f, user, asset, n) /\ More(l2, l, user, asset, m)
    BY <1>5, <2>1, <2>3 DEF More
  <2>5. SumOver(f2)[asset] = SumOver(f)[asset] + n
    BY <1>4, <1>5, <2>4, SumOverMore
  <2>6. SumOver(l2)[asset] = SumOver(l)[asset] + m
    BY <1>4, <1>5, <2>4, SumOverMore
  <2>. QED  BY <2>1, <2>2, <2>5, <2>6
<1>. QED  BY <1>1, <1>2, <1>3, <1>4, <1>6

InAll(orders, asset) == SumOver(FreeOf(orders))[asset] + SumOver(LockedOf(orders))[asset]

\* n comes to an account, free and locked together.
Comes(orders, user, free, locked, n) ==
    \A asset \in Asset :
        free[asset] + locked[asset]
           = orders[user].free[asset] + orders[user].locked[asset] + n[asset]

LEMMA GiveFacts ==
  ASSUME NEW orders \in Orders, NEW user \in User, NEW free \in Amounts, NEW locked \in Amounts,
         NEW n \in Amounts, Comes(orders, user, free, locked, n)
  PROVE  /\ Give(orders, user, free, locked) \in Orders
         /\ \A asset \in Asset : /\ InAll(orders, asset) \in Int
                                 /\ InAll(Give(orders, user, free, locked), asset)
                                       = InAll(orders, asset) + n[asset]
<1>1. PICK after : after = Give(orders, user, free, locked)
  OBVIOUS
<1>2. PICK wasFree \in Amounts, wasLocked \in Amounts :
         wasFree = orders[user].free /\ wasLocked = orders[user].locked
  BY OrdersFacts
<1>3. after \in Orders
  BY <1>1, OrdersFacts
<1>4. /\ FreeOf(orders) \in Owned /\ LockedOf(orders) \in Owned
      /\ FreeOf(after) \in Owned /\ LockedOf(after) \in Owned
  BY <1>3, OrdersFacts
<1>5. ASSUME NEW asset \in Asset
      PROVE  InAll(orders, asset) \in Int /\ InAll(after, asset) = InAll(orders, asset) + n[asset]
  <2>1. /\ SumOver(FreeOf(after))[asset]
              = SumOver(FreeOf(orders))[asset] + (free[asset] - wasFree[asset])
        /\ SumOver(LockedOf(after))[asset]
              = SumOver(LockedOf(orders))[asset] + (locked[asset] - wasLocked[asset])
    BY <1>1, <1>2, MoveFacts
  <2>2. free[asset] + locked[asset] = wasFree[asset] + wasLocked[asset] + n[asset]
    BY <1>2 DEF Comes
  <2>3. \A g \in Owned : SumOver(g)[asset] \in Int
    BY SumOverFacts
  <2>4. PICK f \in Int, l \in Int : /\ f = SumOver(FreeOf(orders))[asset]
                                    /\ l = SumOver(LockedOf(orders))[asset]
    BY <1>4, <2>3
  <2>5. PICK f2 \in Int, l2 \in Int : /\ f2 = SumOver(FreeOf(after))[asset]
                                      /\ l2 = SumOver(LockedOf(after))[asset]
    BY <1>4, <2>3
  <2>6. PICK x \in Int, y \in Int, v \in Int, w \in Int :
           x = free[asset] /\ y = wasFree[asset] /\ v = locked[asset] /\ w = wasLocked[asset]
    BY AmountsFacts
  <2>7. PICK k \in Int : k = n[asset]
    BY AmountsFacts
  <2>8. f2 = f + (x - y) /\ l2 = l + (v - w) /\ x + v = y + w + k
    BY <2>1, <2>2, <2>4, <2>5, <2>6, <2>7
  <2>9. f2 + l2 = f + l + k /\ f + l \in Int
    BY <2>8
  <2>10. InAll(orders, asset) = f + l /\ InAll(after, asset) = f2 + l2
    BY <2>4, <2>5 DEF InAll
  <2>. QED  BY <2>7, <2>9, <2>10
<1>. QED  BY <1>1, <1>3, <1>5

LEMMA NothingFacts ==
  /\ Nothing \in Amounts /\ \A asset \in Asset : Nothing[asset] = 0
  /\ \A x \in Int : /\ Both(x, 0) \in Amounts /\ Both(0, x) \in Amounts
<1>1. Nothing \in Amounts
  BY BothFacts DEF Nothing
<1>2. \A asset \in Asset : Nothing[asset] = 0
  BY DEF Nothing, Both
<1>. QED  BY <1>1, <1>2, BothFacts

\* Into locked or out of it.
LEMMA ShiftIsGive ==
  ASSUME NEW orders \in Orders, NEW user \in User, NEW amounts \in Amounts,
         NEW after \in {ToLocked(orders, user, amounts), ToFree(orders, user, amounts)}
  PROVE  \E free \in Amounts, locked \in Amounts :
            after = Give(orders, user, free, locked) /\ Comes(orders, user, free, locked, Nothing)
<1>1. PICK wasFree \in Amounts, wasLocked \in Amounts :
         wasFree = orders[user].free /\ wasLocked = orders[user].locked
  BY OrdersFacts
<1>2. PICK none \in Amounts : none = Nothing
  BY NothingFacts
<1>3. PICK free \in Amounts, locked \in Amounts :
         /\ after = Give(orders, user, free, locked)
         /\ \/ free = Minus(wasFree, amounts) /\ locked = Plus(wasLocked, amounts)
            \/ free = Plus(wasFree, amounts) /\ locked = Minus(wasLocked, amounts)
  <2>1. CASE after = ToLocked(orders, user, amounts)
    <3>1. PICK free \in Amounts, locked \in Amounts :
             free = Minus(wasFree, amounts) /\ locked = Plus(wasLocked, amounts)
      BY AmountsFacts
    <3>2. after = Give(orders, user, free, locked)
      BY <1>1, <2>1, <3>1 DEF ToLocked, Give, Orders
    <3>. QED  BY <3>1, <3>2
  <2>2. CASE after = ToFree(orders, user, amounts)
    <3>1. PICK free \in Amounts, locked \in Amounts :
             free = Plus(wasFree, amounts) /\ locked = Minus(wasLocked, amounts)
      BY AmountsFacts
    <3>2. after = Give(orders, user, free, locked)
      BY <1>1, <2>2, <3>1 DEF ToFree, Give, Orders
    <3>. QED  BY <3>1, <3>2
  <2>. QED  BY <2>1, <2>2
<1>4. Comes(orders, user, free, locked, none)
  <2>1. ASSUME NEW asset \in Asset
        PROVE  free[asset] + locked[asset] = wasFree[asset] + wasLocked[asset] + none[asset]
    <3>1. PICK y \in Int, w \in Int, k \in Int :
             y = wasFree[asset] /\ w = wasLocked[asset] /\ k = amounts[asset]
      BY AmountsFacts
    <3>2. \/ free[asset] = y - k /\ locked[asset] = w + k
          \/ free[asset] = y + k /\ locked[asset] = w - k
      BY <1>3, <3>1, AmountsFacts
    <3>3. none[asset] = 0
      BY <1>2, NothingFacts
    <3>. QED  BY <3>1, <3>2, <3>3
  <2>. QED  BY <1>1, <2>1 DEF Comes
<1>. QED  BY <1>2, <1>3, <1>4

LEMMA ShiftFacts ==
  ASSUME NEW orders \in Orders, NEW user \in User, NEW amounts \in Amounts,
         AddsUpToNothing(orders), NEW after \in {ToLocked(orders, user, amounts),
                                                 ToFree(orders, user, amounts)}
  PROVE  after \in Orders /\ AddsUpToNothing(after)
<1>1. PICK none \in Amounts : none = Nothing
  BY NothingFacts
<1>2. PICK free \in Amounts, locked \in Amounts :
         after = Give(orders, user, free, locked) /\ Comes(orders, user, free, locked, none)
  BY <1>1, ShiftIsGive
<1>3. /\ after \in Orders
      /\ \A asset \in Asset : /\ InAll(orders, asset) \in Int
                              /\ InAll(after, asset) = InAll(orders, asset) + none[asset]
  BY <1>2, GiveFacts
<1>4. \A asset \in Asset : InAll(orders, asset) = 0 /\ none[asset] = 0
  BY <1>1, NothingFacts DEF AddsUpToNothing, InAll
<1>5. \A asset \in Asset : InAll(after, asset) = 0
  BY <1>3, <1>4
<1>. QED  BY <1>3, <1>5 DEF AddsUpToNothing, InAll

\* An account pays one amount and receives another.
Pays(orders, user, minus, plus) ==
    [orders EXCEPT ![user].locked = Minus(@, minus), ![user].free = Plus(@, plus)]

LEMMA PaysIsGive ==
  ASSUME NEW o \in Orders, NEW user \in User, NEW plus \in Amounts, NEW minus \in Amounts
  PROVE  \E free \in Amounts, locked \in Amounts :
            /\ Pays(o, user, minus, plus) = Give(o, user, free, locked)
            /\ Comes(o, user, free, locked, Minus(plus, minus))
<1>1. PICK wasFree \in Amounts, wasLocked \in Amounts :
         wasFree = o[user].free /\ wasLocked = o[user].locked
  BY OrdersFacts
<1>2. PICK free \in Amounts, locked \in Amounts, n \in Amounts :
         /\ free = Plus(wasFree, plus) /\ locked = Minus(wasLocked, minus)
         /\ n = Minus(plus, minus)
  BY AmountsFacts
<1>3. Pays(o, user, minus, plus) = Give(o, user, free, locked)
  BY <1>1, <1>2 DEF Pays, Give, Orders
<1>4. Comes(o, user, free, locked, n)
  <2>1. ASSUME NEW asset \in Asset
        PROVE  free[asset] + locked[asset] = wasFree[asset] + wasLocked[asset] + n[asset]
    <3>1. PICK x \in Int, y \in Int, v \in Int, w \in Int :
             x = wasFree[asset] /\ y = wasLocked[asset] /\ v = plus[asset] /\ w = minus[asset]
      BY AmountsFacts
    <3>2. free[asset] = x + v /\ locked[asset] = y - w /\ n[asset] = v - w
      BY <1>2, <3>1, AmountsFacts
    <3>. QED  BY <3>1, <3>2
  <2>. QED  BY <1>1, <2>1 DEF Comes
<1>. QED  BY <1>2, <1>3, <1>4

\* The parties of a fill.
LEMMA ExchangeIsPays ==
  ASSUME NEW orders \in Orders, NEW diff \in TradeDiff
  PROVE  LET base == Both(diff.amounts["base"], 0)
             quote == Both(0, diff.amounts["quote"])
             bought == Pays(orders, diff.buyer, quote, base)
         IN  /\ diff.buyer \in User /\ diff.seller \in User
             /\ diff.amounts["base"] \in Int /\ diff.amounts["quote"] \in Int
             /\ base \in Amounts /\ quote \in Amounts
             /\ Exchange(orders, diff) = Pays(bought, diff.seller, base, quote)
<1>1. diff.buyer \in User /\ diff.seller \in User /\ diff.amounts \in Amounts
  BY DEF TradeDiff
<1>2. diff.amounts["base"] \in Int /\ diff.amounts["quote"] \in Int
  BY <1>1 DEF Amounts, Asset
<1>3. PICK x \in Int, y \in Int : x = diff.amounts["base"] /\ y = diff.amounts["quote"]
  BY <1>2
<1>4. Both(diff.amounts["base"], 0) \in Amounts /\ Both(0, diff.amounts["quote"]) \in Amounts
  BY <1>3, NothingFacts
<1>. QED  BY <1>1, <1>2, <1>4 DEF Exchange, Pays

LEMMA ExchangeFacts ==
  ASSUME NEW orders \in Orders, NEW diff \in TradeDiff, AddsUpToNothing(orders)
  PROVE  Exchange(orders, diff) \in Orders /\ AddsUpToNothing(Exchange(orders, diff))
<1>1. PICK buyer \in User, seller \in User, base \in Amounts, quote \in Amounts :
         /\ buyer = diff.buyer /\ seller = diff.seller
         /\ base = Both(diff.amounts["base"], 0) /\ quote = Both(0, diff.amounts["quote"])
  BY ExchangeIsPays
<1>2. PICK bought, after : /\ bought = Pays(orders, buyer, quote, base)
                           /\ after = Pays(bought, seller, base, quote)
  OBVIOUS
<1>3. Exchange(orders, diff) = after
  BY <1>1, <1>2, ExchangeIsPays
<1>4. ASSUME NEW o \in Orders, NEW user \in User, NEW plus \in Amounts, NEW minus \in Amounts
      PROVE  /\ Pays(o, user, minus, plus) \in Orders
             /\ \A asset \in Asset :
                   /\ InAll(o, asset) \in Int
                   /\ InAll(Pays(o, user, minus, plus), asset)
                         = InAll(o, asset) + (plus[asset] - minus[asset])
  <2>1. PICK n \in Amounts : n = Minus(plus, minus)
    BY AmountsFacts
  <2>2. PICK free \in Amounts, locked \in Amounts :
           /\ Pays(o, user, minus, plus) = Give(o, user, free, locked)
           /\ Comes(o, user, free, locked, n)
    BY <2>1, PaysIsGive
  <2>3. /\ Give(o, user, free, locked) \in Orders
        /\ \A asset \in Asset : /\ InAll(o, asset) \in Int
                                /\ InAll(Give(o, user, free, locked), asset)
                                      = InAll(o, asset) + n[asset]
    BY <2>2, GiveFacts
  <2>4. \A asset \in Asset : n[asset] = plus[asset] - minus[asset]
    BY <2>1, AmountsFacts
  <2>. QED  BY <2>2, <2>3, <2>4
<1>5. /\ bought \in Orders
      /\ \A asset \in Asset :
            /\ InAll(orders, asset) \in Int
            /\ InAll(bought, asset) = InAll(orders, asset) + (base[asset] - quote[asset])
  BY <1>2, <1>4
<1>6. /\ after \in Orders
      /\ \A asset \in Asset :
            /\ InAll(bought, asset) \in Int
            /\ InAll(after, asset) = InAll(bought, asset) + (quote[asset] - base[asset])
  BY <1>2, <1>4, <1>5
<1>7. \A asset \in Asset : InAll(after, asset) = 0
  <2>1. SUFFICES ASSUME NEW asset \in Asset PROVE InAll(after, asset) = 0
    OBVIOUS
  <2>2. PICK x \in Int, y \in Int : x = base[asset] /\ y = quote[asset]
    BY AmountsFacts
  <2>3. InAll(orders, asset) = 0
    BY DEF AddsUpToNothing, InAll
  <2>. QED  BY <1>5, <1>6, <2>2, <2>3
<1>. QED  BY <1>3, <1>6, <1>7 DEF AddsUpToNothing, InAll

LEMMA OwnedFacts ==
  ASSUME NEW f \in Owned, NEW user \in User, NEW amounts \in Amounts
  PROVE  [f EXCEPT ![user] = Plus(@, amounts)] \in Owned
<1>1. f[user] \in Amounts
  BY DEF Owned
<1>2. PICK more \in Amounts : more = Plus(f[user], amounts)
  BY <1>1, AmountsFacts
<1>3. [f EXCEPT ![user] = more] \in Owned
  BY DEF Owned
<1>. QED  BY <1>2, <1>3

LEMMA ApplyFacts ==
  ASSUME NEW sums \in Balanced, NEW diff \in AnyDiff
  PROVE  Apply(sums, diff) \in Balanced
<1>1. /\ sums \in Deltas /\ sums.deposits \in Owned /\ sums.withdraws \in Owned
      /\ sums.orders \in Orders /\ AddsUpToNothing(sums.orders)
  BY DEF Balanced, Deltas
<1>2. CASE diff \in TradeDiff
  <2>1. PICK orders : orders = Exchange(sums.orders, diff)
    OBVIOUS
  <2>2. orders \in Orders /\ AddsUpToNothing(orders)
    BY <1>1, <1>2, <2>1, ExchangeFacts
  <2>3. Apply(sums, diff) = [sums EXCEPT !.orders = orders]
    BY <1>2, <2>1 DEF Apply, TradeDiff
  <2>. QED  BY <1>1, <2>2, <2>3 DEF Balanced, Deltas
<1>3. CASE diff \in UserDiff
  <2>1. PICK user \in User, amounts \in Amounts : user = diff.user /\ amounts = diff.amounts
    BY <1>3 DEF UserDiff
  <2>2. CASE diff.kind = "deposit"
    <3>1. PICK f : f = [sums.deposits EXCEPT ![user] = Plus(@, amounts)]
      OBVIOUS
    <3>2. Apply(sums, diff) = [sums EXCEPT !.deposits = f]
      BY <1>1, <2>1, <2>2, <3>1 DEF Apply, Deltas
    <3>3. f \in Owned
      BY <1>1, <3>1, OwnedFacts
    <3>. QED  BY <1>1, <3>2, <3>3 DEF Balanced, Deltas
  <2>3. CASE diff.kind = "withdraw"
    <3>1. PICK f : f = [sums.withdraws EXCEPT ![user] = Plus(@, amounts)]
      OBVIOUS
    <3>2. Apply(sums, diff) = [sums EXCEPT !.withdraws = f]
      BY <1>1, <2>1, <2>3, <3>1 DEF Apply, Deltas
    <3>3. f \in Owned
      BY <1>1, <3>1, OwnedFacts
    <3>. QED  BY <1>1, <3>2, <3>3 DEF Balanced, Deltas
  <2>4. CASE diff.kind \in {"create", "cancel"}
    <3>1. PICK orders \in {ToLocked(sums.orders, user, amounts),
                           ToFree(sums.orders, user, amounts)} :
             Apply(sums, diff) = [sums EXCEPT !.orders = orders]
      BY <2>1, <2>4 DEF Apply
    <3>2. orders \in Orders /\ AddsUpToNothing(orders)
      BY <1>1, ShiftFacts
    <3>. QED  BY <1>1, <3>1, <3>2 DEF Balanced, Deltas
  <2>. QED  BY <1>3, <2>2, <2>3, <2>4 DEF UserDiff
<1>. QED  BY <1>2, <1>3 DEF AnyDiff

ApplySteps == [sums \in Balanced |-> [diff \in AnyDiff |-> Apply(sums, diff)]]

LEMMA ApplyStepsIsStep ==
  /\ IsStep(ApplySteps, Balanced, AnyDiff)
  /\ \A sums \in Balanced, diff \in AnyDiff : ApplySteps[sums][diff] = Apply(sums, diff)
<1>1. \A x \in Balanced : [diff \in AnyDiff |-> Apply(x, diff)] \in [AnyDiff -> Balanced]
  BY ApplyFacts
<1>. QED  BY <1>1 DEF ApplySteps, IsStep

LEMMA ApplyAllFacts ==
  ASSUME NEW sums \in Balanced, NEW diffs \in Seq(AnyDiff)
  PROVE  /\ ApplyAll(sums, diffs) = Folded(ApplySteps, sums, diffs)
         /\ ApplyAll(sums, diffs) \in Balanced
<1>. DEFINE Solves(h) ==
               h = [s \in SUBSET DOMAIN diffs |->
                      IF s = {} THEN sums ELSE Apply(h[s \ {Max(s)}], diffs[Max(s)])]
<1>1. \A x \in Balanced, diff \in AnyDiff : ApplySteps[x][diff] = Apply(x, diff)
  BY ApplyStepsIsStep
<1>2. IsStep(ApplySteps, Balanced, AnyDiff)
  BY ApplyStepsIsStep
<1>3. DOMAIN diffs = 1..Len(diffs) /\ Len(diffs) \in Nat
  OBVIOUS
<1>4. \A s \in SUBSET DOMAIN diffs : s # {} => diffs[Max(s)] \in AnyDiff
  <2>. SUFFICES ASSUME NEW s \in SUBSET DOMAIN diffs, s # {} PROVE diffs[Max(s)] \in AnyDiff
    OBVIOUS
  <2>1. Max(s) \in 1..Len(diffs)
    BY <1>3, MaxOfNumbers
  <2>. QED  BY <2>1
<1>5. PICK g \in [SUBSET DOMAIN diffs -> Balanced] : FoldSolves(g, ApplySteps, sums, diffs)
  BY <1>2, FoldSolvable
<1>6. Solves(g)
  <2>1. ASSUME NEW s \in SUBSET DOMAIN diffs
        PROVE  g[s] = IF s = {} THEN sums ELSE Apply(g[s \ {Max(s)}], diffs[Max(s)])
    <3>1. CASE s = {}
      BY <1>5, <3>1 DEF FoldSolves
    <3>2. CASE s # {}
      <4>1. PICK acc \in Balanced, diff \in AnyDiff :
               acc = g[s \ {Max(s)}] /\ diff = diffs[Max(s)]
        <5>1. g[s \ {Max(s)}] \in Balanced /\ diffs[Max(s)] \in AnyDiff
          BY <1>4, <3>2
        <5>. QED  BY <5>1
      <4>. QED  BY <1>1, <1>5, <3>2, <4>1 DEF FoldSolves
    <3>. QED  BY <3>1, <3>2
  <2>. QED  BY <2>1
<1>. DEFINE h == CHOOSE h : Solves(h)
<1>7. Solves(h)
  <2>. HIDE DEF Solves
  <2>. QED  BY <1>6
<1>8. ApplyAll(sums, diffs) = h[DOMAIN diffs]
  BY DEF ApplyAll, FoldLeft, MapThenFoldSet
<1>. HIDE DEF h
<1>9. FoldFits(h, Balanced, ApplySteps, sums, diffs)
  <2>1. h[{}] = sums
    BY <1>7
  <2>2. ASSUME NEW s \in SUBSET DOMAIN diffs, s # {}, h[s \ {Max(s)}] \in Balanced
        PROVE  h[s] = ApplySteps[h[s \ {Max(s)}]][diffs[Max(s)]]
    <3>1. h[s] = Apply(h[s \ {Max(s)}], diffs[Max(s)])
      BY <1>7, <2>2
    <3>. QED  BY <1>1, <1>4, <2>2, <3>1
  <2>. QED  BY <2>1, <2>2 DEF FoldFits
<1>. QED  BY <1>2, <1>8, <1>9, FoldIsFolded

-----------------------------------------------------------------------------
(* The contract. *)

Consumer == [deposited : Owned, free : Owned, locked : Owned, tokens : Amounts]

LEMMA SameAmounts ==
  ASSUME NEW a \in Amounts, NEW b \in Amounts, \A asset \in Asset : a[asset] = b[asset]
  PROVE  a = b
  BY DEF Amounts

\* f and g together, and f without g.
LEMMA TogetherFacts ==
  ASSUME NEW f \in Owned, NEW g \in Owned
  PROVE  /\ [u \in User |-> Plus(f[u], g[u])] \in Owned
         /\ \A asset \in Asset : Together([u \in User |-> Plus(f[u], g[u])], f, g, asset)
         /\ [u \in User |-> Minus(f[u], g[u])] \in Owned
         /\ \A asset \in Asset : Together(f, [u \in User |-> Minus(f[u], g[u])], g, asset)
<1>1. \A u \in User : f[u] \in Amounts /\ g[u] \in Amounts
  BY DEF Owned
<1>2. \A u \in User : /\ Plus(f[u], g[u]) \in Amounts /\ Minus(f[u], g[u]) \in Amounts
                      /\ \A asset \in Asset :
                            /\ f[u][asset] \in Int /\ g[u][asset] \in Int
                            /\ Plus(f[u], g[u])[asset] = f[u][asset] + g[u][asset]
                            /\ Minus(f[u], g[u])[asset] = f[u][asset] - g[u][asset]
  BY <1>1, AmountsFacts
<1>3. PICK p, m : /\ p = [u \in User |-> Plus(f[u], g[u])]
                  /\ m = [u \in User |-> Minus(f[u], g[u])]
  OBVIOUS
<1>4. p \in Owned /\ m \in Owned
  BY <1>2, <1>3 DEF Owned
<1>5. \A u \in User : p[u] = Plus(f[u], g[u]) /\ m[u] = Minus(f[u], g[u])
  BY <1>3
<1>6. \A asset \in Asset, u \in User : p[u][asset] = f[u][asset] + g[u][asset]
  BY <1>2, <1>5
<1>7. \A asset \in Asset, u \in User : f[u][asset] = m[u][asset] + g[u][asset]
  <2>1. SUFFICES ASSUME NEW asset \in Asset, NEW u \in User
                 PROVE  f[u][asset] = m[u][asset] + g[u][asset]
    OBVIOUS
  <2>2. PICK x \in Int, y \in Int : x = f[u][asset] /\ y = g[u][asset]
    BY <1>2
  <2>3. m[u][asset] = x - y
    BY <1>2, <1>5, <2>2
  <2>. QED  BY <2>2, <2>3
<1>. QED  BY <1>3, <1>4, <1>6, <1>7 DEF Together

\* A result moves the contract's balances, and its tokens by what it pays out.
LEMMA SettleFacts ==
  ASSUME consumer \in Consumer, deltas \in Balanced, ConsumerIsSolvent
  PROVE  LET deposited == [u \in User |-> DepositedAfter(u)]
             free == [u \in User |-> FreeAfter(u)]
             locked == [u \in User |-> LockedAfter(u)]
             tokens == Minus(consumer.tokens, PaidOut)
         IN  /\ deposited \in Owned /\ free \in Owned /\ locked \in Owned /\ tokens \in Amounts
             /\ tokens = Plus(SumOver(deposited), Plus(SumOver(free), SumOver(locked)))
<1>1. PICK d \in Owned, f \in Owned, l \in Owned, t \in Amounts :
         /\ d = consumer.deposited /\ f = consumer.free /\ l = consumer.locked
         /\ t = consumer.tokens
  BY DEF Consumer
<1>2. /\ deltas.deposits \in Owned /\ deltas.withdraws \in Owned /\ deltas.orders \in Orders
      /\ AddsUpToNothing(deltas.orders)
  BY DEF Balanced, Deltas
<1>3. FreeOf(deltas.orders) \in Owned /\ LockedOf(deltas.orders) \in Owned
  <2>1. \A u \in User : deltas.orders[u].free \in Amounts /\ deltas.orders[u].locked \in Amounts
    BY <1>2 DEF Orders
  <2>. QED  BY <2>1 DEF FreeOf, LockedOf, Owned
<1>4. PICK dd \in Owned, w \in Owned, fo \in Owned, lo \in Owned :
         /\ dd = deltas.deposits /\ w = deltas.withdraws
         /\ fo = FreeOf(deltas.orders) /\ lo = LockedOf(deltas.orders)
  BY <1>2, <1>3
<1>5. PICK d2 \in Owned : /\ d2 = [u \in User |-> Minus(d[u], dd[u])]
                          /\ \A asset \in Asset : Together(d, d2, dd, asset)
  BY TogetherFacts
<1>6. PICK l2 \in Owned : /\ l2 = [u \in User |-> Plus(l[u], lo[u])]
                          /\ \A asset \in Asset : Together(l2, l, lo, asset)
  BY TogetherFacts
<1>7. PICK f1 \in Owned : /\ f1 = [u \in User |-> Plus(f[u], dd[u])]
                          /\ \A asset \in Asset : Together(f1, f, dd, asset)
  BY TogetherFacts
<1>8. PICK f2 \in Owned : /\ f2 = [u \in User |-> Plus(f1[u], fo[u])]
                          /\ \A asset \in Asset : Together(f2, f1, fo, asset)
  BY TogetherFacts
<1>9. PICK f3 \in Owned : /\ f3 = [u \in User |-> Minus(f2[u], w[u])]
                          /\ \A asset \in Asset : Together(f2, f3, w, asset)
  BY TogetherFacts
<1>10. /\ d2 = [u \in User |-> DepositedAfter(u)]
       /\ l2 = [u \in User |-> LockedAfter(u)]
       /\ f3 = [u \in User |-> FreeAfter(u)]
  <2>1. \A u \in User : /\ fo[u] = deltas.orders[u].free /\ lo[u] = deltas.orders[u].locked
                        /\ f1[u] = Plus(f[u], dd[u]) /\ f2[u] = Plus(f1[u], fo[u])
    BY <1>4, <1>7, <1>8 DEF FreeOf, LockedOf
  <2>2. \A u \in User : DepositedAfter(u) = Minus(d[u], dd[u])
    BY <1>1, <1>4 DEF DepositedAfter
  <2>3. \A u \in User : LockedAfter(u) = Plus(l[u], lo[u])
    BY <1>1, <2>1 DEF LockedAfter
  <2>4. \A u \in User : FreeAfter(u) = Minus(f2[u], w[u])
    BY <1>1, <1>4, <2>1 DEF FreeAfter, OrderedAfter
  <2>. QED  BY <1>5, <1>6, <1>9, <2>2, <2>3, <2>4
<1>11. PaidOut = SumOver(w)
  BY <1>4 DEF PaidOut, SumOver
<1>12. /\ SumOver(w) \in Amounts /\ SumOver(d2) \in Amounts
       /\ SumOver(f3) \in Amounts /\ SumOver(l2) \in Amounts
       /\ SumOver(d) \in Amounts /\ SumOver(f) \in Amounts /\ SumOver(l) \in Amounts
  BY SumOverFacts
<1>13. PICK t2 \in Amounts, sum1 \in Amounts, sum \in Amounts :
          /\ t2 = Minus(t, SumOver(w))
          /\ sum1 = Plus(SumOver(f3), SumOver(l2)) /\ sum = Plus(SumOver(d2), sum1)
  BY <1>12, AmountsFacts
<1>14. ASSUME NEW asset \in Asset
       PROVE  t2[asset] = sum[asset]
  <2>1. \A g \in Owned : SumOver(g)[asset] \in Int
    BY SumOverFacts
  <2>2. PICK sd \in Int, sf \in Int, sl \in Int, sd2 \in Int, sf3 \in Int, sl2 \in Int :
           /\ sd = SumOver(d)[asset] /\ sf = SumOver(f)[asset] /\ sl = SumOver(l)[asset]
           /\ sd2 = SumOver(d2)[asset] /\ sf3 = SumOver(f3)[asset] /\ sl2 = SumOver(l2)[asset]
    BY <2>1
  <2>3. PICK sdd \in Int, sw \in Int, sfo \in Int, slo \in Int, sf1 \in Int, sf2 \in Int :
           /\ sdd = SumOver(dd)[asset] /\ sw = SumOver(w)[asset]
           /\ sfo = SumOver(fo)[asset] /\ slo = SumOver(lo)[asset]
           /\ sf1 = SumOver(f1)[asset] /\ sf2 = SumOver(f2)[asset]
    BY <2>1
  <2>4. /\ sd = sd2 + sdd /\ sl2 = sl + slo /\ sf1 = sf + sdd /\ sf2 = sf1 + sfo
        /\ sf2 = sf3 + sw
    BY <1>5, <1>6, <1>7, <1>8, <1>9, <2>2, <2>3, SumOverSums
  <2>5. sfo + slo = 0
    BY <1>2, <1>4, <2>3 DEF AddsUpToNothing
  <2>6. PICK n \in Int : n = t[asset]
    BY AmountsFacts
  <2>7. n = sd + (sf + sl)
    <3>1. t = Plus(SumOver(d), Plus(SumOver(f), SumOver(l)))
      BY <1>1 DEF ConsumerIsSolvent
    <3>2. PICK inner \in Amounts : inner = Plus(SumOver(f), SumOver(l))
      BY <1>12, AmountsFacts
    <3>3. inner[asset] = sf + sl
      BY <1>12, <2>2, <3>2, AmountsFacts
    <3>4. t[asset] = SumOver(d)[asset] + inner[asset]
      BY <1>12, <3>1, <3>2, AmountsFacts
    <3>. QED  BY <2>2, <2>6, <3>3, <3>4
  <2>8. t2[asset] = n - sw /\ sum1[asset] = sf3 + sl2 /\ sum[asset] = sd2 + sum1[asset]
    BY <1>12, <1>13, <2>2, <2>3, <2>6, AmountsFacts
  <2>9. n - sw = sd2 + (sf3 + sl2)
    BY <2>4, <2>5, <2>7
  <2>. QED  BY <2>8, <2>9
<1>15. t2 = sum
  BY <1>14, SameAmounts
<1>. QED  BY <1>1, <1>10, <1>11, <1>13, <1>15

\* Tokens come with a deposit.
LEMMA PaidIn ==
  ASSUME consumer \in Consumer, ConsumerIsSolvent, NEW user \in User, NEW amounts \in Amounts,
         NEW after, after = [consumer EXCEPT !.deposited[user] = Plus(@, amounts),
                                             !.tokens = Plus(@, amounts)]
  PROVE  /\ after \in Consumer
         /\ after.tokens = Plus(SumOver(after.deposited),
                                Plus(SumOver(after.free), SumOver(after.locked)))
<1>1. PICK d \in Owned, f \in Owned, l \in Owned, t \in Amounts :
         /\ d = consumer.deposited /\ f = consumer.free /\ l = consumer.locked
         /\ t = consumer.tokens
  BY DEF Consumer
<1>2. d[user] \in Amounts
  BY DEF Owned
<1>3. PICK had \in Amounts, has \in Amounts, t2 \in Amounts :
         had = d[user] /\ has = Plus(had, amounts) /\ t2 = Plus(t, amounts)
  BY <1>2, AmountsFacts
<1>4. PICK d2 : d2 = [d EXCEPT ![user] = has]
  OBVIOUS
<1>5. d2 \in Owned /\ d2[user] = has /\ \A u \in User \ {user} : d2[u] = d[u]
  BY <1>4 DEF Owned
<1>6. after = [consumer EXCEPT !.deposited = d2, !.tokens = t2]
  BY <1>1, <1>3, <1>4 DEF Consumer
<1>7. /\ after \in Consumer /\ after.deposited = d2 /\ after.free = f /\ after.locked = l
      /\ after.tokens = t2
  BY <1>1, <1>3, <1>5, <1>6 DEF Consumer
<1>8. /\ SumOver(d) \in Amounts /\ SumOver(d2) \in Amounts
      /\ SumOver(f) \in Amounts /\ SumOver(l) \in Amounts
  BY <1>5, SumOverFacts
<1>9. PICK inner \in Amounts, sum \in Amounts :
         inner = Plus(SumOver(f), SumOver(l)) /\ sum = Plus(SumOver(d2), inner)
  BY <1>8, AmountsFacts
<1>10. t = Plus(SumOver(d), inner)
  BY <1>1, <1>9 DEF ConsumerIsSolvent
<1>11. ASSUME NEW asset \in Asset
       PROVE  t2[asset] = sum[asset]
  <2>1. PICK n \in Int, k \in Int, m \in Int, x \in Int :
           /\ n = t[asset] /\ k = amounts[asset] /\ m = had[asset] /\ x = inner[asset]
    BY AmountsFacts
  <2>2. PICK sd \in Int, sd2 \in Int : sd = SumOver(d)[asset] /\ sd2 = SumOver(d2)[asset]
    BY <1>8, AmountsFacts
  <2>3. More(d2, d, user, asset, k)
    <3>1. has[asset] = m + k
      BY <1>3, <2>1, AmountsFacts
    <3>. QED  BY <1>3, <1>5, <2>1, <3>1 DEF More
  <2>4. sd2 = sd + k
    BY <1>5, <2>2, <2>3, SumOverMore
  <2>5. n = sd + x /\ t2[asset] = n + k /\ sum[asset] = sd2 + x
    BY <1>3, <1>8, <1>9, <1>10, <2>1, <2>2, AmountsFacts
  <2>. QED  BY <2>4, <2>5
<1>12. t2 = sum
  BY <1>11, SameAmounts
<1>. QED  BY <1>7, <1>9, <1>12

-----------------------------------------------------------------------------
(* The invariant.                                                            *)

\* What the CLOB has is sound; the deltas and the contract's balances are
\* amounts, below zero or not; what orders moved adds up to nothing; and the
\* contract is solvent.
SettlementInv ==
    /\ Sound(clob) /\ clob.oid \in 0..MaxOid
    /\ deltas \in Balanced
    /\ consumer \in Consumer /\ ConsumerIsSolvent
    /\ events \in Seq(FundsRequest)

LEMMA ZeroFacts ==
  /\ Nothing \in Amounts /\ PerUser(Nothing) \in Owned
  /\ \A asset \in Asset : SumOver(PerUser(Nothing))[asset] = 0
<1>1. Nothing \in Amounts /\ \A asset \in Asset : Nothing[asset] = 0
  BY DEF Nothing, Both, Amounts
<1>2. PICK f : f = PerUser(Nothing)
  OBVIOUS
<1>3. f \in Owned /\ \A u \in User : f[u] = Nothing
  BY <1>1, <1>2 DEF PerUser, Owned
<1>4. ASSUME NEW asset \in Asset
      PROVE  SumOver(f)[asset] = 0
  <2>1. Together(f, f, f, asset)
    BY <1>1, <1>3 DEF Together
  <2>2. PICK n \in Int : n = SumOver(f)[asset]
    BY <1>3, SumOverFacts
  <2>3. n = n + n
    BY <1>3, <2>1, <2>2, SumOverSums
  <2>4. n = 0
    BY <2>3
  <2>. QED  BY <2>2, <2>4
<1>. QED  BY <1>1, <1>2, <1>3, <1>4

LEMMA NoDeltasFacts == NoDeltas \in Balanced
<1>1. PICK f, orders : f = PerUser(Nothing) /\ orders = PerUser([free |-> Nothing, locked |-> Nothing])
  OBVIOUS
<1>2. Nothing \in Amounts /\ f \in Owned /\ \A asset \in Asset : SumOver(f)[asset] = 0
  BY <1>1, ZeroFacts
<1>3. orders \in Orders /\ FreeOf(orders) = f /\ LockedOf(orders) = f
  BY <1>1, <1>2 DEF PerUser, Orders, FreeOf, LockedOf
<1>4. AddsUpToNothing(orders)
  BY <1>2, <1>3 DEF AddsUpToNothing
<1>5. NoDeltas = [deposits |-> f, withdraws |-> f, orders |-> orders]
  BY <1>1 DEF NoDeltas
<1>. QED  BY <1>2, <1>3, <1>4, <1>5 DEF Balanced, Deltas

LEMMA GenesisIsSound == Sound(GenesisState)
<1>1. Empty \in [{} -> {}] /\ DOMAIN Empty = {}
  BY DEF Empty
<1>2. \A D, R : Empty \in Maps(D, R)
  <2>1. \A D, R : Empty \in [{} -> R] /\ {} \in SUBSET D
    BY <1>1
  <2>. QED  BY <2>1 DEF Maps
<1>3. Empty \in Balances /\ Empty \in Index /\ Empty \in Levels /\ Empty \in Statuses
  BY <1>2 DEF Balances, Index, Levels, Statuses
<1>4. PICK book : book = [bids |-> Empty, asks |-> Empty, oid_to_level |-> Empty]
  OBVIOUS
<1>5. book \in Book /\ NotCrossed(book)
  BY <1>1, <1>3, <1>4 DEF Book, NotCrossed
<1>6. GenesisState = [oid |-> 0, base |-> Empty, quote |-> Empty, book |-> book,
                      order_status |-> Empty]
  BY <1>4 DEF GenesisState
<1>. QED  BY <1>3, <1>5, <1>6 DEF Sound, State

LEMMA InitInvariant == SettlementInit => SettlementInv
<1>. SUFFICES ASSUME SettlementInit PROVE SettlementInv
  OBVIOUS
<1>1. Sound(clob) /\ clob.oid \in 0..MaxOid
  <2>1. clob = GenesisState /\ clob.oid = 0
    BY DEF SettlementInit, ClobInit, GenesisState
  <2>. QED  BY <2>1, GenesisIsSound, AmountAssumption
<1>2. deltas \in Balanced /\ events \in Seq(FundsRequest)
  BY NoDeltasFacts DEF SettlementInit
<1>3. PICK f : f = PerUser(Nothing)
  OBVIOUS
<1>4. /\ Nothing \in Amounts /\ f \in Owned
      /\ SumOver(f) \in Amounts /\ \A asset \in Asset : SumOver(f)[asset] = 0
  BY <1>3, ZeroFacts, SumOverFacts
<1>5. consumer = [deposited |-> f, free |-> f, locked |-> f, tokens |-> Nothing]
  BY <1>3 DEF SettlementInit
<1>6. consumer \in Consumer
  BY <1>4, <1>5 DEF Consumer
<1>7. Nothing = Plus(SumOver(f), Plus(SumOver(f), SumOver(f)))
  BY <1>4 DEF Nothing, Both, Plus, Amounts
<1>8. ConsumerIsSolvent
  BY <1>5, <1>7 DEF ConsumerIsSolvent
<1>. QED  BY <1>1, <1>2, <1>6, <1>8 DEF SettlementInv

\* A request that the CLOB takes.
LEMMA RequestInvariant ==
  ASSUME SettlementInv, NEW out, NEW oid, SoundOutcome(out, oid), oid \in 0..MaxOid,
         clob' = out.state, Accumulate(out), UNCHANGED consumer,
         events' \in Seq(FundsRequest)
  PROVE  SettlementInv'
<1>1. Sound(clob') /\ clob'.oid \in 0..MaxOid
  BY DEF SoundOutcome
<1>2. deltas' \in Balanced
  BY ApplyAllFacts DEF SettlementInv, SoundOutcome, Accumulate
<1>3. consumer' \in Consumer /\ ConsumerIsSolvent'
  BY DEF SettlementInv, ConsumerIsSolvent
<1>. QED  BY <1>1, <1>2, <1>3 DEF SettlementInv

LEMMA DepositInvariant ==
  ASSUME SettlementInv, NEW req \in FundsRequest, DepositOnChain(req)
  PROVE  SettlementInv'
<1>1. PICK user \in User, amounts \in Amounts :
         user = req.address /\ amounts = Both(req.base_free, req.quote_free)
  <2>1. req.address \in User /\ req.base_free \in Int /\ req.quote_free \in Int
    BY RequestFacts, U64Facts
  <2>. QED  BY <2>1, BothFacts
<1>2. consumer' = [consumer EXCEPT !.deposited[user] = Plus(@, amounts),
                                   !.tokens = Plus(@, amounts)]
  BY <1>1 DEF DepositOnChain
<1>3. consumer \in Consumer /\ ConsumerIsSolvent
  BY DEF SettlementInv
<1>4. /\ consumer' \in Consumer
      /\ consumer'.tokens = Plus(SumOver(consumer'.deposited),
                                 Plus(SumOver(consumer'.free), SumOver(consumer'.locked)))
  BY <1>2, <1>3, PaidIn
<1>5. ConsumerIsSolvent'
  BY <1>4 DEF ConsumerIsSolvent
<1>6. clob' = clob /\ deltas' = deltas /\ events' \in Seq(FundsRequest)
  BY DEF DepositOnChain, SettlementInv
<1>. QED  BY <1>4, <1>5, <1>6 DEF SettlementInv

LEMMA SettleInvariant ==
  ASSUME SettlementInv, Settle
  PROVE  SettlementInv'
<1>1. consumer \in Consumer /\ deltas \in Balanced /\ ConsumerIsSolvent
  BY DEF SettlementInv
<1>2. PICK deposited, free, locked, tokens :
         /\ deposited = [u \in User |-> DepositedAfter(u)]
         /\ free = [u \in User |-> FreeAfter(u)]
         /\ locked = [u \in User |-> LockedAfter(u)]
         /\ tokens = Minus(consumer.tokens, PaidOut)
  OBVIOUS
<1>3. /\ deposited \in Owned /\ free \in Owned /\ locked \in Owned /\ tokens \in Amounts
      /\ tokens = Plus(SumOver(deposited), Plus(SumOver(free), SumOver(locked)))
  BY <1>1, <1>2, SettleFacts
<1>4. consumer' = [deposited |-> deposited, free |-> free, locked |-> locked, tokens |-> tokens]
  BY <1>2 DEF Settle
<1>5. consumer' \in Consumer
  BY <1>3, <1>4 DEF Consumer
<1>6. ConsumerIsSolvent'
  BY <1>3, <1>4 DEF ConsumerIsSolvent
<1>7. clob' = clob /\ events' = events /\ deltas' \in Balanced
  BY NoDeltasFacts DEF Settle
<1>. QED  BY <1>5, <1>6, <1>7 DEF SettlementInv

LEMMA NextInvariant == SettlementInv /\ [SettlementNext]_settlementVars => SettlementInv'
<1>. SUFFICES ASSUME SettlementInv, [SettlementNext]_settlementVars
              PROVE  SettlementInv'
  OBVIOUS
<1>1. Sound(clob) /\ clob.oid \in 0..MaxOid /\ clob.oid \in Nat /\ events \in Seq(FundsRequest)
  BY AmountAssumption DEF SettlementInv
<1>2. CASE \E req \in Deposits : DepositOnChain(req)
  BY <1>2, DepositInvariant, AmountAssumption
<1>3. CASE CreditDeposit
  <2>1. /\ events # <<>> /\ Accumulate(deposit(Head(events), clob)) /\ events' = Tail(events)
        /\ clob' = deposit(Head(events), clob).state /\ UNCHANGED consumer
    BY <1>3 DEF CreditDeposit, Deposit
  <2>2. Head(events) \in FundsRequest /\ Tail(events) \in Seq(FundsRequest)
    BY <1>1, <2>1
  <2>3. SoundOutcome(deposit(Head(events), clob), clob.oid)
    BY <1>1, <2>2, DepositIsSound
  <2>. QED  BY <1>1, <2>1, <2>2, <2>3, RequestInvariant
<1>4. ASSUME NEW req \in Trades, RequestOrder(req)
      PROVE  SettlementInv'
  <2>1. /\ clob.oid < MaxOid /\ clob' = add_order(req, clob).state
        /\ Accumulate(add_order(req, clob)) /\ UNCHANGED <<consumer, events>>
    BY <1>4 DEF RequestOrder, AddOrder
  <2>2. req \in AddOrderRequest
    BY AmountAssumption
  <2>3. PICK oid : oid = add_order(req, clob).state.oid
    OBVIOUS
  <2>4. SoundOutcome(add_order(req, clob), oid) /\ oid \in {clob.oid, clob.oid + 1}
    BY <1>1, <2>2, <2>3, AddOrderIsSound
  <2>5. oid \in 0..MaxOid
    BY <1>1, <2>1, <2>4, AmountAssumption
  <2>. QED  BY <1>1, <2>1, <2>4, <2>5, RequestInvariant
<1>5. ASSUME NEW req, RequestCancel(req)
      PROVE  SettlementInv'
  <2>1. /\ clob' = cancel_order(req, clob).state
        /\ Accumulate(cancel_order(req, clob)) /\ UNCHANGED <<consumer, events>>
    BY <1>5 DEF RequestCancel, CancelOrder
  <2>2. SoundOutcome(cancel_order(req, clob), clob.oid)
    BY <1>1, CancelIsSound
  <2>. QED  BY <1>1, <2>1, <2>2, RequestInvariant
<1>6. ASSUME NEW req \in Withdrawals, RequestWithdraw(req)
      PROVE  SettlementInv'
  <2>1. /\ clob' = withdraw(req, clob).state
        /\ Accumulate(withdraw(req, clob)) /\ UNCHANGED <<consumer, events>>
    BY <1>6 DEF RequestWithdraw, Withdraw
  <2>2. SoundOutcome(withdraw(req, clob), clob.oid)
    BY <1>1, WithdrawIsSound, AmountAssumption
  <2>. QED  BY <1>1, <2>1, <2>2, RequestInvariant
<1>7. CASE Settle
  BY <1>7, SettleInvariant
<1>8. CASE UNCHANGED settlementVars
  BY <1>8 DEF settlementVars, SettlementInv, ConsumerIsSolvent
<1>. QED  BY <1>2, <1>3, <1>4, <1>5, <1>6, <1>7, <1>8 DEF SettlementNext

\* Whatever is asked of the CLOB and wherever a batch ends, the CLOB's state
\* stays sound, the deltas of orders add up to nothing, and the contract is
\* solvent.
THEOREM SettlementInvariant == SettlementSpec => []SettlementInv
<1>. QED  BY InitInvariant, NextInvariant, PTL DEF SettlementSpec

\* The values of the state that `tick' (core/src/lib.rs) returns are of their
\* types: no balance leaves u64, an account has both assets, and what rests in
\* the book are orders, whatever orders are matched, cut, cancelled or evicted.
THEOREM ClobTypeOKHolds == SettlementSpec => []ClobTypeOK
<1>1. SettlementInv => ClobTypeOK
  <2>. SUFFICES ASSUME SettlementInv PROVE ClobTypeOK
    OBVIOUS
  <2>1. /\ clob.oid \in 0..MaxOid /\ DOMAIN clob.quote = DOMAIN clob.base
        /\ clob.base \in Maps(User, AssetBalance) /\ clob.quote \in Maps(User, AssetBalance)
        /\ clob.order_status \in Maps(Oid, FillStatus)
        /\ clob.book.bids \in Maps(U64, Queue) /\ clob.book.asks \in Maps(U64, Queue)
    BY StateFacts DEF SettlementInv, Sound, Balances, Statuses, Book, Levels
  <2>2. /\ DOMAIN clob.base \subseteq User /\ DOMAIN clob.quote = DOMAIN clob.base
        /\ \A u \in DOMAIN clob.base : clob.base[u] \in AssetBalance /\ clob.quote[u] \in AssetBalance
        /\ \A oid \in DOMAIN clob.order_status : clob.order_status[oid] \in FillStatus
    BY <2>1, MapsFacts
  <2>3. \A levels \in Maps(U64, Queue) : OrdersAt(levels) \subseteq Order
    <3>. SUFFICES ASSUME NEW levels \in Maps(U64, Queue), NEW p \in DOMAIN levels
                  PROVE  ToSet(levels[p]) \subseteq Order
      BY DEF OrdersAt
    <3>1. levels[p] \in Queue
      BY MapsFacts
    <3>2. PICK q \in Seq(Order) : q = levels[p]
      BY <3>1 DEF Queue
    <3>. QED  BY <3>2 DEF ToSet
  <2>4. Resting \subseteq Order
    BY <2>1, <2>3 DEF Resting
  <2>. QED  BY <2>1, <2>2, <2>4 DEF ClobTypeOK
<1>. QED  BY <1>1, SettlementInvariant, PTL

\* `limit' (orderbook.rs) leaves no two orders resting that should have been
\* matched: a level of bids, even one that cancellations have emptied, is below
\* every level of asks.
THEOREM BookNotCrossedHolds == SettlementSpec => []BookNotCrossed
<1>1. SettlementInv => BookNotCrossed
  BY DEF SettlementInv, Sound, NotCrossed, BookNotCrossed
<1>. QED  BY <1>1, SettlementInvariant, PTL

\* ClobConsumer.sol: after any results, the tokens the contract holds are what
\* its balances, of all users and of all three kinds, add up to.
THEOREM ConsumerIsSolventHolds == SettlementSpec => []ConsumerIsSolvent
<1>1. SettlementInv => ConsumerIsSolvent
  BY DEF SettlementInv
<1>. QED  BY <1>1, SettlementInvariant, PTL

-----------------------------------------------------------------------------
(* What the fills of an order do to the orders that rest.                    *)

\* What a fill leaves of its maker.
Cut(fill) == [fill.maker EXCEPT !.size = @ - fill.size]

\* Each fill is of another order of `before', which it fills or cuts; the rest
\* of `before' is as it was.
Took(fills, before, after) ==
    /\ \A i \in DOMAIN fills : fills[i].maker \in before
    /\ \A i, j \in DOMAIN fills : fills[i].maker.oid = fills[j].maker.oid => i = j
    /\ \A o \in after :
          \/ o \in before /\ \A i \in DOMAIN fills : fills[i].maker.oid # o.oid
          \/ \E i \in DOMAIN fills : o = Cut(fills[i]) /\ fills[i].size # fills[i].maker.size
    /\ \A o \in before :
          \/ \E m \in after : m.oid = o.oid
          \/ \E i \in DOMAIN fills : fills[i].maker = o /\ fills[i].size = o.size

Apart(A, B) == \A o \in A, m \in B : o.oid # m.oid

LEMMA TookNothing ==
  ASSUME NEW S
  PROVE  Took(<<>>, S, S)
  BY DEF Took

LEMMA CutFacts ==
  ASSUME NEW fill \in Fill
  PROVE  /\ Cut(fill).oid = fill.maker.oid /\ Cut(fill).limit_price = fill.maker.limit_price
         /\ Cut(fill).is_buy = fill.maker.is_buy /\ Cut(fill).address = fill.maker.address
         /\ Cut(fill).size = fill.maker.size - fill.size
  BY DEF Cut, Fill, Order

LEMMA TookOne ==
  ASSUME NEW fill \in Fill
  PROVE  Took(<<fill>>, {fill.maker}, IF fill.size = fill.maker.size THEN {} ELSE {Cut(fill)})
<1>1. PICK fills : fills = <<fill>>
  OBVIOUS
<1>2. DOMAIN fills = {1} /\ fills[1] = fill
  BY <1>1
<1>3. Took(fills, {fill.maker}, IF fill.size = fill.maker.size THEN {} ELSE {Cut(fill)})
  BY <1>2, CutFacts DEF Took
<1>. QED  BY <1>1, <1>3

LEMMA ConcatIndex ==
  ASSUME NEW T, NEW f \in Seq(T), NEW g \in Seq(T)
  PROVE  /\ DOMAIN f = 1..Len(f) /\ DOMAIN g = 1..Len(g)
         /\ Len(f) \in Nat /\ Len(g) \in Nat
         /\ DOMAIN (f \o g) = 1..(Len(f) + Len(g))
         /\ \A i \in 1..Len(f) : (f \o g)[i] = f[i]
         /\ \A i \in 1..Len(g) : (f \o g)[Len(f) + i] = g[i]
<1>1. /\ f \o g \in Seq(T) /\ Len(f \o g) = Len(f) + Len(g)
      /\ \A i \in 1..(Len(f) + Len(g)) :
            (f \o g)[i] = IF i <= Len(f) THEN f[i] ELSE g[i - Len(f)]
  BY ConcatProperties
<1>2. PICK a \in Nat, b \in Nat : a = Len(f) /\ b = Len(g)
  OBVIOUS
<1>3. PICK h \in Seq(T) : h = f \o g
  BY <1>1
<1>4. \A i \in 1..(a + b) : h[i] = IF i <= a THEN f[i] ELSE g[i - a]
  BY <1>1, <1>2, <1>3
<1>5. \A i \in 1..a : i \in 1..(a + b) /\ i <= a
  OBVIOUS
<1>6. \A i \in 1..b : a + i \in 1..(a + b) /\ ~(a + i <= a) /\ a + i - a = i
  OBVIOUS
<1>7. DOMAIN h = 1..(a + b)
  BY <1>1, <1>2, <1>3
<1>8. DOMAIN f = 1..a /\ DOMAIN g = 1..b
  BY <1>2
<1>9. \A i \in 1..a : h[i] = f[i]
  BY <1>4, <1>5
<1>10. \A i \in 1..b : h[a + i] = g[i]
  <2>1. SUFFICES ASSUME NEW i \in 1..b PROVE h[a + i] = g[i]
    OBVIOUS
  <2>2. PICK k \in 1..(a + b) : k = a + i /\ ~(k <= a) /\ k - a = i
    BY <1>6
  <2>. QED  BY <1>4, <2>2
<1>. QED  BY <1>2, <1>3, <1>7, <1>8, <1>9, <1>10

\* Two lots of orders, each with its fills.
Joined(h, f, g, n, m) ==
    /\ DOMAIN f = 1..n /\ DOMAIN g = 1..m /\ DOMAIN h = 1..(n + m)
    /\ \A i \in 1..n : h[i] = f[i]
    /\ \A i \in 1..m : h[n + i] = g[i]

LEMMA TookJoined ==
  ASSUME NEW n \in Nat, NEW m \in Nat, NEW f, NEW g, NEW h, Joined(h, f, g, n, m),
         NEW A, NEW A1, NEW B, NEW B1, Took(f, A, A1), Took(g, B, B1), Apart(A, B)
  PROVE  Took(h, A \cup B, A1 \cup B1)
<1>1. /\ \A i \in 1..n : f[i].maker \in A
      /\ \A i, j \in 1..n : f[i].maker.oid = f[j].maker.oid => i = j
      /\ \A i \in 1..m : g[i].maker \in B
      /\ \A i, j \in 1..m : g[i].maker.oid = g[j].maker.oid => i = j
  BY DEF Took, Joined
<1>2. /\ DOMAIN h = 1..(n + m)
      /\ \A i \in 1..n : h[i] = f[i]
      /\ \A i \in 1..m : h[n + i] = g[i]
  BY DEF Joined
<1>0. DOMAIN f = 1..n /\ DOMAIN g = 1..m
  BY DEF Joined
<1>3. /\ \A o \in A1 :
            \/ o \in A /\ \A i \in 1..n : f[i].maker.oid # o.oid
            \/ \E i \in 1..n : o = Cut(f[i]) /\ f[i].size # f[i].maker.size
      /\ \A o \in B1 :
            \/ o \in B /\ \A i \in 1..m : g[i].maker.oid # o.oid
            \/ \E i \in 1..m : o = Cut(g[i]) /\ g[i].size # g[i].maker.size
  <2>1. \A o \in A1 :
           \/ o \in A /\ \A i \in 1..n : f[i].maker.oid # o.oid
           \/ \E i \in 1..n : o = Cut(f[i]) /\ f[i].size # f[i].maker.size
    BY <1>0 DEF Took
  <2>2. \A o \in B1 :
           \/ o \in B /\ \A i \in 1..m : g[i].maker.oid # o.oid
           \/ \E i \in 1..m : o = Cut(g[i]) /\ g[i].size # g[i].maker.size
    BY <1>0 DEF Took
  <2>. QED  BY <2>1, <2>2
<1>4. /\ \A o \in A :
            \/ \E k \in A1 : k.oid = o.oid
            \/ \E i \in 1..n : f[i].maker = o /\ f[i].size = o.size
      /\ \A o \in B :
            \/ \E k \in B1 : k.oid = o.oid
            \/ \E i \in 1..m : g[i].maker = o /\ g[i].size = o.size
  <2>2. \A o \in A :
           \/ \E k \in A1 : k.oid = o.oid
           \/ \E i \in 1..n : f[i].maker = o /\ f[i].size = o.size
    BY <1>0 DEF Took
  <2>3. \A o \in B :
           \/ \E k \in B1 : k.oid = o.oid
           \/ \E i \in 1..m : g[i].maker = o /\ g[i].size = o.size
    BY <1>0 DEF Took
  <2>. QED  BY <2>2, <2>3
<1>5. \A i \in 1..(n + m) : i \in 1..n \/ \E j \in 1..m : i = n + j
  <2>1. SUFFICES ASSUME NEW i \in 1..(n + m), i \notin 1..n
                 PROVE  \E j \in 1..m : i = n + j
    OBVIOUS
  <2>2. i - n \in 1..m /\ i = n + (i - n)
    BY <2>1
  <2>. QED  BY <2>2
<1>6. /\ \A i \in 1..n : i \in 1..(n + m)
      /\ \A i \in 1..m : n + i \in 1..(n + m)
  OBVIOUS
<1>7. /\ \A i \in 1..n : h[i].maker \in A
      /\ \A j \in 1..m : h[n + j].maker \in B
  BY <1>1, <1>2
<1>8. \A i \in 1..(n + m) : h[i].maker \in A \cup B
  BY <1>5, <1>7
<1>9. \A i, j \in 1..(n + m) : h[i].maker.oid = h[j].maker.oid => i = j
  <2>1. SUFFICES ASSUME NEW i \in 1..(n + m), NEW j \in 1..(n + m),
                        h[i].maker.oid = h[j].maker.oid
                 PROVE  i = j
    OBVIOUS
  <2>2. CASE i \in 1..n /\ j \in 1..n
    BY <1>1, <1>2, <2>1, <2>2
  <2>3. CASE i \in 1..n /\ j \notin 1..n
    BY <1>5, <1>7, <2>1, <2>3 DEF Apart
  <2>4. CASE i \notin 1..n /\ j \in 1..n
    BY <1>5, <1>7, <2>1, <2>4 DEF Apart
  <2>5. CASE i \notin 1..n /\ j \notin 1..n
    <3>1. PICK k \in 1..m, l \in 1..m : i = n + k /\ j = n + l
      BY <1>5, <2>5
    <3>2. g[k].maker.oid = g[l].maker.oid
      BY <1>2, <2>1, <3>1
    <3>3. k = l
      BY <1>1, <3>2
    <3>. QED  BY <3>1, <3>3
  <2>. QED  BY <2>2, <2>3, <2>4, <2>5
<1>10. ASSUME NEW o \in A1 \cup B1
      PROVE  \/ o \in A \cup B /\ \A i \in 1..(n + m) : h[i].maker.oid # o.oid
             \/ \E i \in 1..(n + m) : o = Cut(h[i]) /\ h[i].size # h[i].maker.size
  <2>1. CASE o \in A /\ \A i \in 1..n : f[i].maker.oid # o.oid
    BY <1>2, <1>5, <1>7, <2>1 DEF Apart
  <2>2. CASE \E i \in 1..n : o = Cut(f[i]) /\ f[i].size # f[i].maker.size
    BY <1>2, <1>6, <2>2
  <2>3. CASE o \in B /\ \A i \in 1..m : g[i].maker.oid # o.oid
    BY <1>2, <1>5, <1>7, <2>3 DEF Apart
  <2>4. CASE \E i \in 1..m : o = Cut(g[i]) /\ g[i].size # g[i].maker.size
    BY <1>2, <1>6, <2>4
  <2>. QED  BY <1>3, <2>1, <2>2, <2>3, <2>4
<1>11. ASSUME NEW o \in A \cup B
      PROVE  \/ \E k \in A1 \cup B1 : k.oid = o.oid
             \/ \E i \in 1..(n + m) : h[i].maker = o /\ h[i].size = o.size
  <2>1. CASE \E k \in A1 \cup B1 : k.oid = o.oid
    BY <2>1
  <2>2. CASE \E i \in 1..n : f[i].maker = o /\ f[i].size = o.size
    BY <1>2, <1>6, <2>2
  <2>3. CASE \E i \in 1..m : g[i].maker = o /\ g[i].size = o.size
    BY <1>2, <1>6, <2>3
  <2>. QED  BY <1>4, <2>1, <2>2, <2>3
<1>12. PICK D : D = 1..(n + m)
  OBVIOUS
<1>13. /\ \A i \in D : h[i].maker \in A \cup B
       /\ \A i, j \in D : h[i].maker.oid = h[j].maker.oid => i = j
  BY <1>8, <1>9, <1>12
<1>14. \A o \in A1 \cup B1 :
          \/ o \in A \cup B /\ \A i \in D : h[i].maker.oid # o.oid
          \/ \E i \in D : o = Cut(h[i]) /\ h[i].size # h[i].maker.size
  BY <1>10, <1>12
<1>15. \A o \in A \cup B :
          \/ \E k \in A1 \cup B1 : k.oid = o.oid
          \/ \E i \in D : h[i].maker = o /\ h[i].size = o.size
  BY <1>11, <1>12
<1>16. DOMAIN h = D
  BY <1>2, <1>12
<1>. QED  BY <1>13, <1>14, <1>15, <1>16 DEF Took

LEMMA TookBoth ==
  ASSUME NEW f \in Seq(Fill), NEW g \in Seq(Fill), NEW A, NEW A1, NEW B, NEW B1,
         Took(f, A, A1), Took(g, B, B1), Apart(A, B)
  PROVE  Took(f \o g, A \cup B, A1 \cup B1)
<1>1. PICK n \in Nat, m \in Nat, h \in {f \o g} : n = Len(f) /\ m = Len(g) /\ h = f \o g
  OBVIOUS
<1>2. Joined(h, f, g, n, m)
  BY <1>1, ConcatIndex DEF Joined
<1>. QED  BY <1>1, <1>2, TookJoined

\* The orders that are left are those that were there, with what is left of
\* them.
LEMMA TookSame ==
  ASSUME NEW fills \in Seq(Fill), NEW before, NEW after, Took(fills, before, after),
         NEW o \in after
  PROVE  \E m \in before : /\ m.oid = o.oid /\ m.limit_price = o.limit_price
                           /\ m.is_buy = o.is_buy /\ m.address = o.address
<1>1. CASE o \in before
  BY <1>1
<1>2. CASE \E i \in DOMAIN fills : o = Cut(fills[i])
  <2>1. PICK i \in DOMAIN fills : o = Cut(fills[i])
    BY <1>2
  <2>2. fills[i] \in Fill /\ fills[i].maker \in before
    BY DEF Took
  <2>. QED  BY <2>1, <2>2, CutFacts
<1>. QED  BY <1>1, <1>2 DEF Took

\* A queue is of orders with something left, oldest first.
Queued(q) ==
    /\ \A i \in DOMAIN q : q[i].size > 0
    /\ \A i, j \in DOMAIN q : i < j => q[i].oid < q[j].oid

LEMMA QueuedFacts ==
  ASSUME NEW q \in Seq(Order), Queued(q)
  PROVE  \A i, j \in DOMAIN q : q[i].oid = q[j].oid => i = j
<1>1. SUFFICES ASSUME NEW i \in DOMAIN q, NEW j \in DOMAIN q, q[i].oid = q[j].oid, i # j
               PROVE  FALSE
  OBVIOUS
<1>2. i \in Nat /\ j \in Nat
  OBVIOUS
<1>3. PICK a \in Nat, b \in Nat : a = q[i].oid /\ b = q[j].oid
  BY OrderFacts
<1>4. a < b \/ b < a
  BY <1>1, <1>2, <1>3 DEF Queued
<1>. QED  BY <1>1, <1>3, <1>4

Older(orders, x) == \A o \in orders : o.oid < x.oid

\* The first k orders of a queue.
First(q, k) == {q[i] : i \in 1..k}

LEMMA AppendSet ==
  ASSUME NEW T, NEW q \in Seq(T), NEW x
  PROVE  ToSet(Append(q, x)) = ToSet(q) \cup {x}
<1>1. PICK n \in Nat, p \in {Append(q, x)} : n = Len(q) /\ p = Append(q, x)
  OBVIOUS
<1>2. /\ DOMAIN q = 1..n /\ DOMAIN p = 1..(n + 1)
      /\ p[n + 1] = x /\ \A i \in 1..n : p[i] = q[i]
  BY <1>1
<1>3. 1..(n + 1) = 1..n \cup {n + 1}
  OBVIOUS
<1>4. ToSet(p) = ToSet(q) \cup {x}
  BY <1>2, <1>3 DEF ToSet
<1>. QED  BY <1>1, <1>4

LEMMA QueuedOne ==
  ASSUME NEW x, x.size > 0
  PROVE  Queued(<<x>>)
<1>1. PICK q : q = <<x>>
  OBVIOUS
<1>2. DOMAIN q = {1} /\ q[1] = x
  BY <1>1
<1>3. ~(1 < 1)
  OBVIOUS
<1>4. Queued(q)
  BY <1>2, <1>3 DEF Queued
<1>. QED  BY <1>1, <1>4

LEMMA AppendQueued ==
  ASSUME NEW q \in Seq(Order), Queued(q), NEW x, x.size > 0, Older(ToSet(q), x)
  PROVE  Queued(Append(q, x))
<1>1. PICK n \in Nat, p \in {Append(q, x)} : n = Len(q) /\ p = Append(q, x)
  OBVIOUS
<1>2. /\ DOMAIN q = 1..n /\ DOMAIN p = 1..(n + 1)
      /\ p[n + 1] = x /\ \A i \in 1..n : p[i] = q[i]
  BY <1>1
<1>3. \A i \in 1..n : p[i].oid < p[n + 1].oid
  BY <1>2 DEF Older, ToSet
<1>4. /\ \A i \in 1..n : p[i].size > 0
      /\ \A i, j \in 1..n : i < j => p[i].oid < p[j].oid
  BY <1>2 DEF Queued
<1>5. \A i \in 1..(n + 1) : i \in 1..n \/ i = n + 1
  OBVIOUS
<1>6. \A i, j \in 1..(n + 1) : i < j => p[i].oid < p[j].oid
  <2>1. \A j \in 1..(n + 1) : ~(n + 1 < j)
    OBVIOUS
  <2>. QED  BY <1>3, <1>4, <1>5, <2>1
<1>7. \A i \in 1..(n + 1) : p[i].size > 0
  BY <1>2, <1>4, <1>5
<1>8. Queued(p)
  BY <1>2, <1>6, <1>7 DEF Queued
<1>. QED  BY <1>1, <1>8

\* A taker at a level takes from its orders, each once.
LEMMA LevelTaken ==
  ASSUME NEW n \in U64, NEW level \in Seq(Order), Queued(level)
  PROVE  LET taken == FillAtPriceLevel(level, n)
         IN  /\ Took(taken.fills, ToSet(level), ToSet(taken.level))
             /\ Queued(taken.level)
<1>1. PICK start \in Filling(n), length \in Nat :
         start = StartOfLevel(n) /\ length = Len(level)
  BY StartOfLevelType
<1>2. PICK f : Runs(f, Filling(n), FillSteps(n), start, level)
  BY FillStepsIsStep, FoldRuns
<1>3. /\ f[0] = start /\ f[length] = FillAtPriceLevel(level, n)
      /\ \A k \in 0..length : f[k] \in Filling(n)
      /\ \A k \in 0..(length - 1) : f[k + 1] = FillSteps(n)[f[k]][level[k + 1]]
  BY <1>1, <1>2, FillIsFolded DEF Runs
<1>. DEFINE Good(acc, k) == Took(acc.fills, First(level, k), ToSet(acc.level)) /\ Queued(acc.level)
            F == {k \in 0..length : Good(f[k], k)}
<1>4. 0 \in F
  <2>1. First(level, 0) = {} /\ ToSet(<<>>) = {} /\ Queued(<<>>)
    BY DEF First, ToSet, Queued
  <2>2. start.fills = <<>> /\ start.level = <<>>
    BY <1>1 DEF StartOfLevel
  <2>3. Good(start, 0)
    BY <2>1, <2>2, TookNothing
  <2>. QED  BY <1>1, <1>3, <2>3
<1>5. ASSUME NEW k \in 0..(length - 1), k \in F
      PROVE  k + 1 \in F
  <2>1. k \in 0..length /\ k + 1 \in 0..length /\ k + 1 \in 1..length /\ Good(f[k], k)
    BY <1>5
  <2>2. PICK acc \in Filling(n), maker \in Order : acc = f[k] /\ maker = level[k + 1]
    <3>1. level[k + 1] \in Order /\ f[k] \in Filling(n)
      BY <1>1, <1>3, <2>1
    <3>. QED  BY <3>1
  <2>3. PICK after : after = FillMaker(acc, maker) /\ f[k + 1] = after
    BY <1>3, <1>5, <2>2, FillMakerType
  <2>4. acc.fills \in Seq(Fill) /\ acc.level \in Seq(Order) /\ acc.remaining \in U64
    <3>1. acc.remaining \in 0..n
      BY DEF Filling
    <3>2. acc.remaining \in U64
      BY <3>1, AmountAssumption DEF U64
    <3>. QED  BY <3>2 DEF Filling
  <2>5. PICK A \in SUBSET Order, L \in {ToSet(acc.level)} : A = First(level, k) /\ L = ToSet(acc.level)
    <3>1. \A i \in 1..k : level[i] \in Order
      BY <1>1, <2>1
    <3>. QED  BY <3>1 DEF First
  <2>6. Took(acc.fills, A, L) /\ Queued(acc.level)
    BY <2>1, <2>2, <2>5
  <2>7. First(level, k + 1) = A \cup {maker}
    <3>1. 1..(k + 1) = 1..k \cup {k + 1}
      BY <2>1
    <3>. QED  BY <2>2, <2>5, <3>1 DEF First
  <2>8. Older(A, maker) /\ Apart(A, {maker}) /\ maker.size > 0
    <3>1. \A i \in 1..k : i \in DOMAIN level /\ i < k + 1
      BY <1>1, <2>1
    <3>2. k + 1 \in DOMAIN level
      BY <1>1, <2>1
    <3>3. (\A i \in 1..k : level[i].oid < level[k + 1].oid) /\ level[k + 1].size > 0
      BY <3>1, <3>2 DEF Queued
    <3>4. Older(A, maker)
      BY <2>2, <2>5, <3>3 DEF Older, First
    <3>5. \A o \in A : o.oid \in Nat /\ maker.oid \in Nat
      BY <2>5, OrderFacts
    <3>. QED  BY <2>2, <3>3, <3>4, <3>5 DEF Apart, Older
  <2>. HIDE DEF Good
  <2>9. Good(after, k + 1)
    <3>1. CASE after.fills = acc.fills /\ after.level = Append(acc.level, maker)
      <4>. DEFINE none == <<>>
      <4>1. none \in Seq(Fill) /\ Took(none, {maker}, {maker})
        BY TookNothing
      <4>. HIDE DEF none
      <4>2. Took(acc.fills \o none, A \cup {maker}, L \cup {maker})
        BY <2>4, <2>6, <2>8, <4>1, TookBoth
      <4>3. acc.fills \o none = acc.fills
        BY <2>4 DEF none
      <4>4. ToSet(after.level) = L \cup {maker}
        BY <2>4, <2>5, <3>1, AppendSet
      <4>5. Older(ToSet(acc.level), maker)
        <5>1. \A o \in L : \E m \in A : m.oid = o.oid
          BY <2>4, <2>6, TookSame
        <5>. QED  BY <2>5, <2>8, <5>1 DEF Older
      <4>6. Queued(after.level)
        BY <2>4, <2>6, <2>8, <3>1, <4>5, AppendQueued
      <4>. QED  BY <2>7, <3>1, <4>2, <4>3, <4>4, <4>6 DEF Good
    <3>2. ASSUME NEW size \in U64, size <= maker.size, acc.level = <<>>,
                 after.fills = Append(acc.fills, [maker |-> maker, size |-> size]),
                 after.level = IF size = maker.size THEN <<>>
                               ELSE <<[maker EXCEPT !.size = @ - size]>>
          PROVE  Good(after, k + 1)
      <4>1. PICK fill \in Fill : fill = [maker |-> maker, size |-> size]
        BY DEF Fill
      <4>2. fill.maker = maker /\ fill.size = size
        BY <4>1
      <4>3. PICK rest : rest = IF fill.size = fill.maker.size THEN {} ELSE {Cut(fill)}
        OBVIOUS
      <4>4. Took(<<fill>>, {maker}, rest)
        BY <4>2, <4>3, TookOne
      <4>5. PICK one \in Seq(Fill) : one = <<fill>>
        <5>1. \A T : \A x \in T : <<x>> \in Seq(T)
          OBVIOUS
        <5>. QED  BY <5>1
      <4>6. Took(acc.fills \o one, A \cup {maker}, L \cup rest)
        BY <2>4, <2>6, <2>8, <4>4, <4>5, TookBoth
      <4>7. acc.fills \o one = after.fills
        BY <2>4, <3>2, <4>1, <4>5
      <4>8. L = {}
        BY <2>5, <3>2 DEF ToSet
      <4>9. ToSet(after.level) = rest /\ Queued(after.level)
        <5>0. \A x : x.size > 0 => Queued(<<x>>)
          BY QueuedOne
        <5>1. \A x : ToSet(<<x>>) = {x}
          BY DEF ToSet
        <5>2. ToSet(<<>>) = {} /\ Queued(<<>>)
          BY DEF ToSet, Queued
        <5>3. Cut(fill) = [maker EXCEPT !.size = @ - size] /\ Cut(fill).size = maker.size - size
          BY <4>2, CutFacts DEF Cut
        <5>4. size # maker.size => Cut(fill).size > 0
          <6>1. PICK a \in Nat, b \in Nat : a = size /\ b = maker.size
            BY <2>4, OrderFacts, U64Facts
          <6>2. b - a > 0 \/ a = b
            BY <3>2, <6>1
          <6>. QED  BY <5>3, <6>1, <6>2
        <5>. QED  BY <2>8, <3>2, <4>2, <4>3, <5>0, <5>1, <5>2, <5>3, <5>4
      <4>10. L \cup rest = rest
        BY <4>8
      <4>. QED  BY <2>7, <4>6, <4>7, <4>9, <4>10 DEF Good
    <3>3. /\ maker.size \in U64 /\ maker.size \in Int /\ acc.remaining \in Int
          /\ maker.size <= maker.size
      BY <2>4, OrderFacts, U64Facts
    <3>4. \/ after.fills = acc.fills /\ after.level = Append(acc.level, maker)
          \/ /\ acc.level = <<>> /\ after.level = <<>>
             /\ after.fills = Append(acc.fills, [maker |-> maker, size |-> maker.size])
          \/ /\ acc.level = <<>> /\ maker.size > acc.remaining
             /\ after.fills = Append(acc.fills, [maker |-> maker, size |-> acc.remaining])
             /\ after.level = <<[maker EXCEPT !.size = @ - acc.remaining]>>
      BY <2>3, FillMakerFacts
    <3>5. CASE /\ acc.level = <<>> /\ after.level = <<>>
               /\ after.fills = Append(acc.fills, [maker |-> maker, size |-> maker.size])
      BY <3>2, <3>3, <3>5
    <3>6. CASE /\ acc.level = <<>> /\ maker.size > acc.remaining
               /\ after.fills = Append(acc.fills, [maker |-> maker, size |-> acc.remaining])
               /\ after.level = <<[maker EXCEPT !.size = @ - acc.remaining]>>
      <4>1. acc.remaining # maker.size /\ acc.remaining <= maker.size
        BY <3>3, <3>6
      <4>2. after.level = IF acc.remaining = maker.size THEN <<>>
                          ELSE <<[maker EXCEPT !.size = @ - acc.remaining]>>
        BY <3>6, <4>1
      <4>. QED  BY <2>4, <3>2, <3>6, <4>1, <4>2
    <3>. QED  BY <3>1, <3>4, <3>5, <3>6
  <2>. QED  BY <2>1, <2>3, <2>9
<1>6. 0..length \subseteq F
  <2>. HIDE DEF F
  <2>. QED  BY <1>4, <1>5, InductionUpTo
<1>7. length \in 0..length /\ First(level, length) = ToSet(level)
  BY <1>1 DEF First, ToSet
<1>8. Good(f[length], length)
  BY <1>6, <1>7
<1>. QED  BY <1>3, <1>7, <1>8

\* The orders of some of the levels.
At(levels, s) == UNION {ToSet(levels[p]) : p \in DOMAIN levels \cap s}

\* A level holds orders of its side and price, each once.
Tidy(levels, is_buy) ==
    \A p \in DOMAIN levels :
        /\ Queued(levels[p])
        /\ \A o \in ToSet(levels[p]) : o.limit_price = p /\ o.is_buy = is_buy

\* An id is at one level.
OneLevel(levels) ==
    \A o, m \in OrdersAt(levels) : o.oid = m.oid => o.limit_price = m.limit_price

LEMMA AtFacts ==
  ASSUME NEW levels \in Levels
  PROVE  /\ \A s : At(levels, s) \in SUBSET Order
         /\ \A p \in DOMAIN levels : levels[p] \in Seq(Order) /\ ToSet(levels[p]) \in SUBSET Order
         /\ OrdersAt(levels) = At(levels, DOMAIN levels)
         /\ \A p \in DOMAIN levels : ToSet(levels[p]) \subseteq OrdersAt(levels)
<1>1. \A p \in DOMAIN levels : levels[p] \in Seq(Order)
  BY MapsFacts DEF Levels, Queue
<1>2. \A q \in Seq(Order) : ToSet(q) \in SUBSET Order
  BY DEF ToSet
<1>3. \A p \in DOMAIN levels : ToSet(levels[p]) \in SUBSET Order
  BY <1>1, <1>2
<1>4. \A s : At(levels, s) \in SUBSET Order
  BY <1>3 DEF At
<1>. QED  BY <1>1, <1>3, <1>4 DEF At, OrdersAt

\* What the fills of the levels at s have taken from them.
Swept2(acc, levels, s, is_buy) ==
    /\ Took(acc.fills, At(levels, s), At(acc.levels, s))
    /\ Tidy(acc.levels, is_buy)

LEMMA TakeLevelTaken ==
  ASSUME NEW n \in U64, NEW levels \in Levels, NEW s \in SUBSET DOMAIN levels, NEW p \in s,
         NEW is_buy, Tidy(levels, is_buy), OneLevel(levels),
         NEW acc, Swept(acc, n, levels, s \ {p}), Swept2(acc, levels, s \ {p}, is_buy)
  PROVE  Swept2(TakeLevel(p, acc), levels, s, is_buy)
<1>1. p \in DOMAIN acc.levels /\ acc \in Matching(n) /\ acc.levels[p] = levels[p]
  BY DEF Swept
<1>2. PICK taken, after : /\ taken = FillAtPriceLevel(acc.levels[p], acc.remaining)
                          /\ after = TakeLevel(p, acc)
  OBVIOUS
<1>3. /\ acc.levels[p] \in Seq(Order) /\ acc.remaining \in U64
      /\ taken \in Filling(acc.remaining) /\ after \in Matching(n)
      /\ acc.remaining = 0 => after = acc
      /\ acc.remaining # 0 =>
            /\ after.fills = acc.fills \o taken.fills
            /\ DOMAIN after.levels = IF taken.level = <<>> THEN DOMAIN acc.levels \ {p}
                                     ELSE DOMAIN acc.levels
            /\ \A q \in DOMAIN acc.levels \ {p} : after.levels[q] = acc.levels[q]
            /\ taken.level # <<>> => after.levels[p] = taken.level
  <2>1. LET got == FillAtPriceLevel(acc.levels[p], acc.remaining)
            next == TakeLevel(p, acc)
        IN  /\ acc.levels[p] \in Seq(Order) /\ acc.remaining \in U64
            /\ got \in Filling(acc.remaining)
            /\ next \in Matching(n)
            /\ acc.remaining = 0 => next = acc
            /\ acc.remaining # 0 =>
                  /\ next.remaining = got.remaining
                  /\ next.fills = acc.fills \o got.fills
                  /\ DOMAIN next.levels = IF got.level = <<>> THEN DOMAIN acc.levels \ {p}
                                          ELSE DOMAIN acc.levels
                  /\ \A q \in DOMAIN acc.levels \ {p} : next.levels[q] = acc.levels[q]
                  /\ got.level # <<>> => next.levels[p] = got.level
    BY <1>1, TakeLevelFacts
  <2>. QED  BY <1>2, <2>1
<1>4. /\ acc.fills \in Seq(Fill) /\ taken.fills \in Seq(Fill)
      /\ acc.levels \in Levels /\ after.levels \in Levels
  BY <1>1, <1>3 DEF Matching, Filling
<1>5. PICK A \in SUBSET Order, A1 \in SUBSET Order, B \in SUBSET Order :
         /\ A = At(levels, s \ {p}) /\ A1 = At(acc.levels, s \ {p}) /\ B = ToSet(levels[p])
  BY <1>4, AtFacts
<1>6. Took(acc.fills, A, A1) /\ Tidy(acc.levels, is_buy)
  BY <1>5 DEF Swept2
<1>7. At(levels, s) = A \cup B
  BY <1>5 DEF At
<1>8. Apart(A, B)
  <2>1. SUFFICES ASSUME NEW q \in DOMAIN levels \cap (s \ {p}), NEW o \in ToSet(levels[q]),
                        NEW m \in ToSet(levels[p])
                 PROVE  o.oid # m.oid
    BY <1>5 DEF Apart, At
  <2>2. o \in OrdersAt(levels) /\ m \in OrdersAt(levels)
    BY AtFacts
  <2>3. o.limit_price = q /\ m.limit_price = p /\ q # p
    BY DEF Tidy
  <2>. QED  BY <2>2, <2>3 DEF OneLevel
<1>9. CASE acc.remaining = 0
  <2>1. At(acc.levels, s) = A1 \cup B
    BY <1>1, <1>5 DEF At
  <2>. DEFINE none == <<>>
  <2>2. none \in Seq(Fill) /\ Took(none, B, B)
    BY TookNothing
  <2>. HIDE DEF none
  <2>3. Took(acc.fills \o none, A \cup B, A1 \cup B)
    BY <1>4, <1>6, <1>8, <2>2, TookBoth
  <2>4. acc.fills \o none = acc.fills
    BY <1>4 DEF none
  <2>. QED  BY <1>2, <1>3, <1>6, <1>7, <1>9, <2>1, <2>3, <2>4 DEF Swept2
<1>10. CASE acc.remaining # 0
  <2>1. PICK B1 : B1 = ToSet(taken.level)
    OBVIOUS
  <2>2. Queued(levels[p])
    BY DEF Tidy
  <2>3. Took(taken.fills, B, B1) /\ Queued(taken.level)
    BY <1>1, <1>2, <1>3, <1>5, <2>1, <2>2, LevelTaken
  <2>4. Took(after.fills, A \cup B, A1 \cup B1)
    <3>1. Took(acc.fills \o taken.fills, A \cup B, A1 \cup B1)
      BY <1>4, <1>6, <1>8, <2>3, TookBoth
    <3>. QED  BY <1>3, <1>10, <3>1
  <2>5. ToSet(<<>>) = {}
    BY DEF ToSet
  <2>6. At(after.levels, s) = A1 \cup B1
    <3>1. CASE taken.level = <<>>
      <4>1. B1 = {}
        BY <2>1, <2>5, <3>1
      <4>2. DOMAIN after.levels \cap s = DOMAIN acc.levels \cap (s \ {p})
        BY <1>3, <1>10, <3>1
      <4>. QED  BY <1>3, <1>5, <1>10, <4>1, <4>2 DEF At
    <3>2. CASE taken.level # <<>>
      <4>1. DOMAIN after.levels \cap s = (DOMAIN acc.levels \cap (s \ {p})) \cup {p}
        BY <1>1, <1>3, <1>10, <3>2
      <4>2. after.levels[p] = taken.level
        BY <1>3, <1>10, <3>2
      <4>3. \A q \in DOMAIN acc.levels \cap (s \ {p}) : after.levels[q] = acc.levels[q]
        BY <1>3, <1>10
      <4>4. At(after.levels, s) = At(acc.levels, s \ {p}) \cup ToSet(after.levels[p])
        BY <4>1, <4>3 DEF At
      <4>. QED  BY <1>5, <2>1, <4>2, <4>4
    <3>. QED  BY <3>1, <3>2
  <2>7. Tidy(after.levels, is_buy)
    <3>1. ASSUME NEW q \in DOMAIN after.levels
          PROVE  /\ Queued(after.levels[q])
                 /\ \A o \in ToSet(after.levels[q]) : o.limit_price = q /\ o.is_buy = is_buy
      <4>1. CASE q # p
        <5>1. q \in DOMAIN acc.levels \ {p} /\ after.levels[q] = acc.levels[q]
          BY <1>3, <1>10, <4>1
        <5>. QED  BY <1>6, <5>1 DEF Tidy
      <4>2. CASE q = p
        <5>1. after.levels[q] = taken.level
          BY <1>3, <1>10, <3>1, <4>2
        <5>2. \A o \in B1 : \E m \in B : m.limit_price = o.limit_price /\ m.is_buy = o.is_buy
          BY <1>4, <2>3, TookSame
        <5>3. \A m \in B : m.limit_price = p /\ m.is_buy = is_buy
          BY <1>5 DEF Tidy
        <5>. QED  BY <2>1, <2>3, <4>2, <5>1, <5>2, <5>3
      <4>. QED  BY <4>1, <4>2
    <3>. QED  BY <3>1 DEF Tidy
  <2>. QED  BY <1>2, <1>7, <2>4, <2>6, <2>7 DEF Swept2
<1>. QED  BY <1>9, <1>10

\* The matching takes from the orders of one side, each once.
LEMMA MatchTaken ==
  ASSUME NEW order \in Order, NEW levels \in Levels, NEW is_buy,
         Tidy(levels, is_buy), OneLevel(levels)
  PROVE  LET match == Match(order, levels)
         IN  /\ Took(match.fills, OrdersAt(levels), OrdersAt(match.levels))
             /\ Tidy(match.levels, is_buy)
<1>1. PICK h : Sweeps(h, order, levels)
  BY MatchSweeps
<1>2. PICK C, n, match : /\ C = CrossedPrices(order, levels) /\ n = order.size
                         /\ match = Match(order, levels)
  OBVIOUS
<1>3. /\ C \in SUBSET DOMAIN levels /\ IsFiniteSet(C) /\ n \in U64
  <2>1. C \subseteq DOMAIN levels /\ DOMAIN levels \subseteq U64
    BY <1>2, MapsFacts DEF CrossedPrices, Levels
  <2>2. IsFiniteSet(U64)
    BY AmountAssumption, FS_Interval DEF U64
  <2>. QED  BY <1>2, <2>1, <2>2, FS_Subset, OrderFacts
<1>4. /\ h[C] = match /\ h[{}] = Match0(n, levels)
      /\ \A s \in SUBSET C :
            /\ Swept(h[s], n, levels, s)
            /\ s # {} => /\ LastPrice(order, s) \in s
                         /\ h[s] = TakeLevel(LastPrice(order, s), h[s \ {LastPrice(order, s)}])
  BY <1>1, <1>2 DEF Sweeps
<1>. DEFINE F == {s \in SUBSET C : Swept2(h[s], levels, s, is_buy)}
<1>5. ASSUME NEW s \in SUBSET C, \A x \in s : s \ {x} \in F
      PROVE  s \in F
  <2>1. CASE s = {}
    <3>1. h[s].fills = <<>> /\ h[s].levels = levels /\ At(levels, s) = {}
      BY <1>4, <2>1 DEF Match0, At
    <3>2. Swept2(h[s], levels, s, is_buy)
      BY <3>1, TookNothing DEF Swept2
    <3>. QED  BY <3>2
  <2>2. CASE s # {}
    <3>1. PICK p \in s : p = LastPrice(order, s)
      BY <1>4, <2>2
    <3>2. PICK acc : acc = h[s \ {p}]
      OBVIOUS
    <3>3. s \ {p} \in SUBSET C /\ s \in SUBSET DOMAIN levels
      BY <1>3
    <3>4. Swept(acc, n, levels, s \ {p}) /\ h[s] = TakeLevel(p, acc)
      BY <1>4, <2>2, <3>1, <3>2, <3>3
    <3>5. Swept2(acc, levels, s \ {p}, is_buy)
      BY <1>5, <3>2
    <3>6. Swept2(TakeLevel(p, acc), levels, s, is_buy)
      BY <1>3, <3>3, <3>4, <3>5, TakeLevelTaken
    <3>. QED  BY <3>4, <3>6
  <2>. QED  BY <2>1, <2>2
<1>6. F = SUBSET C
  <2>. HIDE DEF F
  <2>1. F \in SUBSET SUBSET C
    BY DEF F
  <2>. QED  BY <1>3, <1>5, <2>1, SubsetInduction
<1>7. Swept(match, n, levels, C) /\ Swept2(match, levels, C, is_buy)
  BY <1>4, <1>6
<1>8. match \in Matching(n) /\ match.fills \in Seq(Fill) /\ match.levels \in Levels
  BY <1>7 DEF Swept, Matching
<1>9. PICK A \in SUBSET Order, A1 \in SUBSET Order, R \in SUBSET Order :
         /\ A = At(levels, C) /\ A1 = At(match.levels, C) /\ R = At(levels, U64 \ C)
  BY <1>8, AtFacts
<1>10. DOMAIN levels \subseteq U64 /\ DOMAIN match.levels \subseteq U64
  BY <1>8, MapsFacts DEF Levels
<1>11. At(match.levels, U64 \ C) = R
  <2>1. /\ DOMAIN match.levels \subseteq DOMAIN levels
        /\ \A p \in DOMAIN levels \ C : p \in DOMAIN match.levels /\ match.levels[p] = levels[p]
    BY <1>7 DEF Swept
  <2>2. DOMAIN match.levels \cap (U64 \ C) = DOMAIN levels \cap (U64 \ C)
    BY <2>1
  <2>. QED  BY <1>9, <2>1, <2>2 DEF At
<1>12. OrdersAt(levels) = A \cup R /\ OrdersAt(match.levels) = A1 \cup R
  BY <1>9, <1>10, <1>11 DEF At, OrdersAt
<1>13. Apart(A, R)
  <2>1. SUFFICES ASSUME NEW p \in DOMAIN levels \cap C, NEW q \in DOMAIN levels \ C,
                        NEW o \in ToSet(levels[p]), NEW m \in ToSet(levels[q])
                 PROVE  o.oid # m.oid
    BY <1>9 DEF Apart, At
  <2>2. o \in OrdersAt(levels) /\ m \in OrdersAt(levels)
    BY AtFacts
  <2>3. o.limit_price = p /\ m.limit_price = q /\ q # p
    BY DEF Tidy
  <2>. QED  BY <2>2, <2>3 DEF OneLevel
<1>. DEFINE none == <<>>
<1>14. none \in Seq(Fill) /\ Took(none, R, R)
  BY TookNothing
<1>. HIDE DEF none
<1>15. Took(match.fills \o none, A \cup R, A1 \cup R)
  <2>1. Took(match.fills, A, A1)
    BY <1>7, <1>9 DEF Swept2
  <2>. QED  BY <1>8, <1>13, <1>14, <2>1, TookBoth
<1>16. match.fills \o none = match.fills
  BY <1>8 DEF none
<1>. QED  BY <1>2, <1>7, <1>12, <1>15, <1>16 DEF Swept2

-----------------------------------------------------------------------------
(* The book and its index.                                                   *)

OrdersOf(book) == OrdersAt(book.bids) \cup OrdersAt(book.asks)

\* oid_to_level has the id of each order that rests, and its price; no others.
Names(index, orders) ==
    /\ \A o \in orders : o.oid \in DOMAIN index /\ index[o.oid] = o.limit_price
    /\ \A oid \in DOMAIN index : \E o \in orders : o.oid = oid

Indexed(book) ==
    /\ Tidy(book.bids, TRUE) /\ Tidy(book.asks, FALSE)
    /\ Names(book.oid_to_level, OrdersOf(book))

LEMMA SideFacts ==
  ASSUME NEW levels \in Levels, NEW is_buy, Tidy(levels, is_buy), NEW o \in OrdersAt(levels)
  PROVE  /\ o \in Order /\ o.limit_price \in DOMAIN levels /\ o.limit_price \in U64
         /\ o \in ToSet(levels[o.limit_price]) /\ o.is_buy = is_buy
<1>1. PICK p \in DOMAIN levels : o \in ToSet(levels[p])
  BY DEF OrdersAt
<1>2. o.limit_price = p /\ o.is_buy = is_buy
  BY <1>1 DEF Tidy
<1>3. o \in Order
  BY <1>1, AtFacts
<1>. QED  BY <1>1, <1>2, <1>3, OrderFacts

\* Orders that rest have different ids.
Keyed(orders) == \A o, m \in orders : o.oid = m.oid => o = m

LEMMA KeyFacts ==
  ASSUME NEW book \in Book, Indexed(book), NotCrossed(book)
  PROVE  /\ OrdersOf(book) \in SUBSET Order
         /\ Keyed(OrdersOf(book)) /\ OneLevel(book.bids) /\ OneLevel(book.asks)
         /\ Apart(OrdersAt(book.bids), OrdersAt(book.asks))
         /\ Apart(OrdersAt(book.asks), OrdersAt(book.bids))
<1>1. /\ book.bids \in Levels /\ book.asks \in Levels
      /\ Tidy(book.bids, TRUE) /\ Tidy(book.asks, FALSE)
      /\ \A o, m \in OrdersOf(book) : o.oid = m.oid => o.limit_price = m.limit_price
  BY DEF Book, Indexed, Names
<1>2. OneLevel(book.bids) /\ OneLevel(book.asks)
  BY <1>1 DEF OneLevel, OrdersOf
<1>3. ASSUME NEW levels \in Levels, NEW is_buy, Tidy(levels, is_buy), OneLevel(levels)
      PROVE  Keyed(OrdersAt(levels))
  <2>1. SUFFICES ASSUME NEW o \in OrdersAt(levels), NEW m \in OrdersAt(levels), o.oid = m.oid
                 PROVE  o = m
    BY DEF Keyed
  <2>2. PICK p \in DOMAIN levels : p = o.limit_price /\ o \in ToSet(levels[p])
    BY <1>3, SideFacts
  <2>3. m \in ToSet(levels[p])
    BY <1>3, <2>1, <2>2, SideFacts DEF OneLevel
  <2>4. PICK q \in Seq(Order) : q = levels[p]
    BY <1>3, AtFacts
  <2>5. PICK i \in DOMAIN q, j \in DOMAIN q : o = q[i] /\ m = q[j]
    BY <2>2, <2>3, <2>4 DEF ToSet
  <2>6. Queued(q)
    BY <1>3, <2>4 DEF Tidy
  <2>. QED  BY <2>1, <2>5, <2>6, QueuedFacts
<1>4. ASSUME NEW o \in OrdersAt(book.bids), NEW m \in OrdersAt(book.asks)
      PROVE  o.oid # m.oid
  <2>1. SUFFICES ASSUME o.oid = m.oid PROVE FALSE
    OBVIOUS
  <2>2. o.limit_price = m.limit_price
    BY <1>1, <2>1 DEF OrdersOf
  <2>3. o.limit_price \in DOMAIN book.bids /\ m.limit_price \in DOMAIN book.asks
    BY <1>1, SideFacts
  <2>4. PICK p \in Nat : p = o.limit_price
    BY <1>1, SideFacts, U64Facts
  <2>5. p < p
    BY <2>2, <2>3, <2>4 DEF NotCrossed
  <2>. QED  BY <2>5
<1>5. Keyed(OrdersAt(book.bids)) /\ Keyed(OrdersAt(book.asks))
  BY <1>1, <1>2, <1>3
<1>6. Keyed(OrdersOf(book))
  BY <1>4, <1>5 DEF Keyed, OrdersOf
<1>7. OrdersOf(book) \in SUBSET Order
  BY <1>1, AtFacts DEF OrdersOf
<1>. QED  BY <1>2, <1>4, <1>6, <1>7 DEF Apart

Enqueued(after, levels, price, order) ==
    /\ DOMAIN after = DOMAIN levels \cup {price}
    /\ after[price] = Append(LevelAt(levels, price), order)
    /\ \A p \in DOMAIN levels \ {price} : after[p] = levels[p]

LEMMA EnqueueIs ==
  ASSUME NEW levels \in Levels, NEW order \in Order
  PROVE  Enqueued(Enqueue(levels, order), levels, order.limit_price, order)
<1>. DEFINE price == order.limit_price
            after == Enqueue(levels, order)
<1>1. /\ DOMAIN after = DOMAIN levels \cup {price}
      /\ \A p \in DOMAIN levels \cup {price} :
            after[p] = IF p = price THEN Append(LevelAt(levels, p), order) ELSE levels[p]
  BY EnqueueFacts
<1>. HIDE DEF price, after
<1>2. Enqueued(after, levels, price, order)
  BY <1>1 DEF Enqueued
<1>. QED  BY <1>2 DEF price, after

LEMMA EnqueueTidy ==
  ASSUME NEW levels \in Levels, NEW order \in Order, Tidy(levels, order.is_buy),
         Older(OrdersAt(levels), order), order.size > 0
  PROVE  /\ Tidy(Enqueue(levels, order), order.is_buy)
         /\ OrdersAt(Enqueue(levels, order)) = OrdersAt(levels) \cup {order}
<1>1. PICK price, after, level :
         price = order.limit_price /\ after = Enqueue(levels, order) /\ level = LevelAt(levels, price)
  OBVIOUS
<1>2. Enqueued(after, levels, price, order)
  BY <1>1, EnqueueIs
<1>3. level \in Seq(Order) /\ after[price] = Append(level, order)
  BY <1>1, <1>2, LevelAtFacts DEF Enqueued
<1>4. ToSet(after[price]) = ToSet(level) \cup {order}
  BY <1>3, AppendSet
<1>5. /\ price \in DOMAIN levels => level = levels[price]
      /\ price \notin DOMAIN levels => level = <<>>
  BY <1>1 DEF LevelAt
<1>6. ToSet(<<>>) = {} /\ Queued(<<>>)
  BY DEF ToSet, Queued
<1>7. /\ Queued(level) /\ ToSet(level) \subseteq OrdersAt(levels)
      /\ \A o \in ToSet(level) : o.limit_price = price /\ o.is_buy = order.is_buy
  BY <1>5, <1>6 DEF Tidy, OrdersAt
<1>8. Queued(after[price])
  <2>1. Older(ToSet(level), order)
    BY <1>7 DEF Older
  <2>. QED  BY <1>3, <1>7, <2>1, AppendQueued
<1>9. Tidy(after, order.is_buy)
  <2>1. ASSUME NEW p \in DOMAIN after
        PROVE  /\ Queued(after[p])
               /\ \A o \in ToSet(after[p]) : o.limit_price = p /\ o.is_buy = order.is_buy
    <3>1. CASE p = price
      BY <1>1, <1>4, <1>7, <1>8, <3>1
    <3>2. CASE p # price
      <4>1. p \in DOMAIN levels /\ after[p] = levels[p]
        BY <1>2, <3>2 DEF Enqueued
      <4>. QED  BY <4>1 DEF Tidy
    <3>. QED  BY <3>1, <3>2
  <2>. QED  BY <2>1 DEF Tidy
<1>10. OrdersAt(after) = OrdersAt(levels) \cup {order}
  <2>1. ASSUME NEW o \in OrdersAt(after)
        PROVE  o \in OrdersAt(levels) \cup {order}
    <3>1. PICK p \in DOMAIN after : o \in ToSet(after[p])
      BY DEF OrdersAt
    <3>2. CASE p = price
      BY <1>4, <1>7, <3>1, <3>2
    <3>3. CASE p # price
      BY <1>2, <3>1, <3>3 DEF Enqueued, OrdersAt
    <3>. QED  BY <3>2, <3>3
  <2>2. ASSUME NEW o \in OrdersAt(levels)
        PROVE  o \in OrdersAt(after)
    <3>1. PICK p \in DOMAIN levels : o \in ToSet(levels[p])
      BY DEF OrdersAt
    <3>2. o \in ToSet(after[p]) /\ p \in DOMAIN after
      BY <1>2, <1>4, <1>5, <3>1 DEF Enqueued
    <3>. QED  BY <3>2 DEF OrdersAt
  <2>3. order \in OrdersAt(after)
    <3>1. price \in DOMAIN after /\ order \in ToSet(after[price])
      BY <1>2, <1>4 DEF Enqueued
    <3>. QED  BY <3>1 DEF OrdersAt
  <2>. QED  BY <2>1, <2>2, <2>3
<1>. QED  BY <1>1, <1>9, <1>10

\* The side of an order, and what of the order rests on it.
Rested(own, order, remaining) == IF remaining > 0 THEN Enqueue(own, order) ELSE own
Rests(order, remaining) == IF remaining > 0 THEN {order} ELSE {}

\* `limit', by the side that is taken from and the side of the order.
LEMMA LimitSides ==
  ASSUME NEW levels \in Levels, NEW own \in Levels, NEW order \in Order, NEW is_buy,
         Tidy(levels, is_buy), OneLevel(levels), Tidy(own, order.is_buy),
         Apart(OrdersAt(levels), OrdersAt(own)), Older(OrdersAt(own), order),
         NEW match, match = Match(order, levels),
         NEW own2, own2 = Rested(own, order, match.remaining)
  PROVE  /\ Took(match.fills, OrdersAt(levels) \cup OrdersAt(own),
                 OrdersAt(match.levels) \cup OrdersAt(own))
         /\ Tidy(match.levels, is_buy) /\ Tidy(own2, order.is_buy)
         /\ OrdersAt(own2) = OrdersAt(own) \cup Rests(order, match.remaining)
<1>1. /\ Took(match.fills, OrdersAt(levels), OrdersAt(match.levels))
      /\ Tidy(match.levels, is_buy)
  BY MatchTaken
<1>2. match.fills \in Seq(Fill) /\ match.remaining \in 0..order.size
  BY MatchFacts DEF Matching
<1>. DEFINE none == <<>>
<1>3. none \in Seq(Fill) /\ Took(none, OrdersAt(own), OrdersAt(own))
  BY TookNothing
<1>. HIDE DEF none
<1>4. Took(match.fills \o none, OrdersAt(levels) \cup OrdersAt(own),
           OrdersAt(match.levels) \cup OrdersAt(own))
  BY <1>1, <1>2, <1>3, TookBoth
<1>5. match.fills \o none = match.fills
  BY <1>2 DEF none
<1>6. CASE match.remaining > 0
  <2>1. order.size > 0
    <3>1. order.size \in Nat
      BY OrderFacts, U64Facts
    <3>. QED  BY <1>2, <1>6, <3>1
  <2>2. /\ Tidy(Enqueue(own, order), order.is_buy)
        /\ OrdersAt(Enqueue(own, order)) = OrdersAt(own) \cup {order}
    BY <2>1, EnqueueTidy
  <2>. QED  BY <1>1, <1>4, <1>5, <1>6, <2>2 DEF Rested, Rests
<1>7. CASE ~(match.remaining > 0)
  BY <1>1, <1>4, <1>5, <1>7 DEF Rested, Rests
<1>. QED  BY <1>6, <1>7

\* The index keeps what still rests and drops what is filled.
LEMMA TookStays ==
  ASSUME NEW fills \in Seq(Fill), NEW before, NEW after, Took(fills, before, after)
  PROVE  /\ \A o \in after : o.oid \notin FilledBy(fills)
         /\ \A o \in before : o.oid \notin FilledBy(fills) => \E m \in after : m.oid = o.oid
<1>1. ASSUME NEW o \in after, o.oid \in FilledBy(fills)
      PROVE  FALSE
  <2>1. PICK k \in DOMAIN fills : fills[k].size = fills[k].maker.size /\ fills[k].maker.oid = o.oid
    BY <1>1 DEF FilledBy
  <2>2. PICK i \in DOMAIN fills : o = Cut(fills[i]) /\ fills[i].size # fills[i].maker.size
    BY <2>1 DEF Took
  <2>3. fills[i] \in Fill
    OBVIOUS
  <2>4. fills[i].maker.oid = o.oid
    BY <2>2, <2>3, CutFacts
  <2>5. i = k
    BY <2>1, <2>4 DEF Took
  <2>. QED  BY <2>1, <2>2, <2>5
<1>2. ASSUME NEW o \in before, o.oid \notin FilledBy(fills)
      PROVE  \E m \in after : m.oid = o.oid
  BY <1>2 DEF Took, FilledBy
<1>. QED  BY <1>1, <1>2

\* An order that comes after those of the book.
IsNew(book, order) == \A oid \in DOMAIN book.oid_to_level : oid < order.oid

LEMMA NewFacts ==
  ASSUME NEW book \in Book, NEW order \in Order, IsNew(book, order)
  PROVE  order.oid \notin DOMAIN book.oid_to_level
<1>1. PICK n \in Nat : n = order.oid
  BY OrderFacts
<1>2. ~(n < n)
  OBVIOUS
<1>. QED  BY <1>1, <1>2 DEF IsNew

\* What `limit' leaves: of the orders that rested, what the fills left; and the
\* order, if it rests.
Left(limit, before, order, mid) ==
    /\ Took(limit.fills, before, mid)
    /\ OrdersOf(limit.book) = mid \cup Rests(order, limit.remaining)

LEMMA LimitLeaves ==
  ASSUME NEW book \in Book, Indexed(book), NotCrossed(book), NEW order \in Order,
         IsNew(book, order)
  PROVE  LET limit == Limit(book, order)
         IN  /\ Tidy(limit.book.bids, TRUE) /\ Tidy(limit.book.asks, FALSE)
             /\ \E mid : Left(limit, OrdersOf(book), order, mid)
<1>1. PICK levels, own, match, limit, own2 :
         /\ levels = IF order.is_buy THEN book.asks ELSE book.bids
         /\ own = IF order.is_buy THEN book.bids ELSE book.asks
         /\ match = Match(order, levels) /\ limit = Limit(book, order)
         /\ own2 = Rested(own, order, match.remaining)
  OBVIOUS
<1>2. /\ book.bids \in Levels /\ book.asks \in Levels /\ order.is_buy \in BOOLEAN
      /\ Tidy(book.bids, TRUE) /\ Tidy(book.asks, FALSE)
      /\ Older(OrdersOf(book), order)
  BY OrderFacts DEF Book, Indexed, Names, IsNew, Older
<1>3. /\ OneLevel(book.bids) /\ OneLevel(book.asks)
      /\ Apart(OrdersAt(book.bids), OrdersAt(book.asks))
      /\ Apart(OrdersAt(book.asks), OrdersAt(book.bids))
  BY KeyFacts
<1>4. /\ limit.remaining = match.remaining /\ limit.fills = match.fills
      /\ limit.book.bids = IF ~order.is_buy THEN match.levels
                           ELSE IF match.remaining > 0 THEN Enqueue(book.bids, order)
                           ELSE book.bids
      /\ limit.book.asks = IF order.is_buy THEN match.levels
                           ELSE IF match.remaining > 0 THEN Enqueue(book.asks, order)
                           ELSE book.asks
  BY <1>1, LimitFacts
<1>5. PICK other : other = ~order.is_buy
  OBVIOUS
<1>6. /\ levels \in Levels /\ own \in Levels /\ OneLevel(levels)
      /\ Tidy(levels, other) /\ Tidy(own, order.is_buy)
      /\ Apart(OrdersAt(levels), OrdersAt(own)) /\ Older(OrdersAt(own), order)
  <2>1. CASE order.is_buy
    <3>1. order.is_buy = TRUE /\ other = FALSE /\ levels = book.asks /\ own = book.bids
      BY <1>1, <1>2, <1>5, <2>1
    <3>2. Older(OrdersAt(own), order)
      BY <1>2, <3>1 DEF Older, OrdersOf
    <3>. QED  BY <1>2, <1>3, <3>1, <3>2
  <2>2. CASE ~order.is_buy
    <3>1. order.is_buy = FALSE /\ other = TRUE /\ levels = book.bids /\ own = book.asks
      BY <1>1, <1>2, <1>5, <2>2
    <3>2. Older(OrdersAt(own), order)
      BY <1>2, <3>1 DEF Older, OrdersOf
    <3>. QED  BY <1>2, <1>3, <3>1, <3>2
  <2>. QED  BY <2>1, <2>2
<1>7. /\ Took(match.fills, OrdersAt(levels) \cup OrdersAt(own),
              OrdersAt(match.levels) \cup OrdersAt(own))
      /\ Tidy(match.levels, other) /\ Tidy(own2, order.is_buy)
      /\ OrdersAt(own2) = OrdersAt(own) \cup Rests(order, match.remaining)
  <2>1. match = Match(order, levels) /\ own2 = Rested(own, order, match.remaining)
    BY <1>1
  <2>. QED  BY <1>6, <2>1, LimitSides
<1>8. OrdersOf(book) = OrdersAt(levels) \cup OrdersAt(own)
  BY <1>1 DEF OrdersOf
<1>9. /\ Tidy(limit.book.bids, TRUE) /\ Tidy(limit.book.asks, FALSE)
      /\ OrdersOf(limit.book) = OrdersAt(match.levels) \cup OrdersAt(own2)
  <2>1. CASE order.is_buy
    <3>1. /\ order.is_buy = TRUE /\ other = FALSE
          /\ limit.book.asks = match.levels /\ limit.book.bids = own2
      BY <1>1, <1>2, <1>4, <1>5, <2>1 DEF Rested
    <3>. QED  BY <1>7, <3>1 DEF OrdersOf
  <2>2. CASE ~order.is_buy
    <3>1. /\ order.is_buy = FALSE /\ other = TRUE
          /\ limit.book.bids = match.levels /\ limit.book.asks = own2
      BY <1>1, <1>2, <1>4, <1>5, <2>2 DEF Rested
    <3>. QED  BY <1>7, <3>1 DEF OrdersOf
  <2>. QED  BY <2>1, <2>2
<1>10. PICK mid : mid = OrdersAt(match.levels) \cup OrdersAt(own)
  OBVIOUS
<1>11. Left(limit, OrdersOf(book), order, mid)
  BY <1>4, <1>7, <1>8, <1>9, <1>10 DEF Left
<1>. QED  BY <1>1, <1>9, <1>11

\* After `limit', the index names what rests.
LEMMA LimitIndexed ==
  ASSUME NEW book \in Book, Indexed(book), NotCrossed(book), NEW order \in Order,
         IsNew(book, order)
  PROVE  Indexed(Limit(book, order).book)
<1>1. PICK limit, match, index, index2, oid :
         /\ limit = Limit(book, order)
         /\ match = Match(order, IF order.is_buy THEN book.asks ELSE book.bids)
         /\ index = book.oid_to_level /\ index2 = limit.book.oid_to_level
         /\ oid = order.oid
  OBVIOUS
<1>2. PICK before, after : before = OrdersOf(book) /\ after = OrdersOf(limit.book)
  OBVIOUS
<1>3. PICK mid : Left(limit, before, order, mid)
  BY <1>1, <1>2, LimitLeaves
<1>4. PICK filled : filled = FilledBy(match.fills)
  OBVIOUS
<1>5. PICK left : left = {id \in DOMAIN index : id \notin filled}
  OBVIOUS
<1>6. /\ limit.remaining = match.remaining /\ limit.fills = match.fills
      /\ match.fills \in Seq(Fill)
      /\ DOMAIN index2 = IF match.remaining > 0 THEN left \cup {oid} ELSE left
      /\ \A id \in DOMAIN index2 :
            index2[id] = IF match.remaining > 0 /\ id = oid THEN order.limit_price ELSE index[id]
  <2>1. LET limit1 == Limit(book, order)
            match1 == Match(order, IF order.is_buy THEN book.asks ELSE book.bids)
            after1 == limit1.book
            left1 == {id \in DOMAIN book.oid_to_level : id \notin FilledBy(match1.fills)}
        IN  /\ limit1.remaining = match1.remaining /\ limit1.fills = match1.fills
            /\ match1.fills \in Seq(Fill)
            /\ DOMAIN after1.oid_to_level
                  = IF match1.remaining > 0 THEN left1 \cup {order.oid} ELSE left1
            /\ \A id \in DOMAIN after1.oid_to_level :
                   after1.oid_to_level[id]
                      = IF match1.remaining > 0 /\ id = order.oid THEN order.limit_price
                        ELSE book.oid_to_level[id]
    BY LimitFacts
  <2>. QED  BY <1>1, <1>4, <1>5, <2>1
<1>7. Took(limit.fills, before, mid) /\ after = mid \cup Rests(order, limit.remaining)
  BY <1>2, <1>3 DEF Left
<1>8. /\ \A o \in mid : o.oid \notin filled
      /\ \A o \in before : o.oid \notin filled => \E m \in mid : m.oid = o.oid
      /\ \A o \in mid : \E m \in before : m.oid = o.oid /\ m.limit_price = o.limit_price
  BY <1>4, <1>6, <1>7, TookStays, TookSame
<1>9. /\ \A o \in before : o.oid \in DOMAIN index /\ index[o.oid] = o.limit_price
      /\ \A id \in DOMAIN index : \E o \in before : o.oid = id
  BY <1>1, <1>2 DEF Indexed, Names
<1>10. \A o \in mid : /\ o.oid \in left /\ o.oid # oid
                      /\ index[o.oid] = o.limit_price
  BY <1>1, <1>5, <1>8, <1>9, NewFacts
<1>11. ASSUME NEW o \in after
       PROVE  o.oid \in DOMAIN index2 /\ index2[o.oid] = o.limit_price
  <2>1. CASE o \in mid
    <3>1. o.oid \in left /\ o.oid # oid /\ index[o.oid] = o.limit_price
      BY <1>10, <2>1
    <3>2. o.oid \in DOMAIN index2
      BY <1>6, <3>1
    <3>. QED  BY <1>6, <3>1, <3>2
  <2>2. CASE limit.remaining > 0 /\ o = order
    <3>1. oid \in DOMAIN index2 /\ o.oid = oid
      BY <1>1, <1>6, <2>2
    <3>. QED  BY <1>6, <2>2, <3>1
  <2>. QED  BY <1>7, <2>1, <2>2 DEF Rests
<1>12. ASSUME NEW id \in DOMAIN index2
       PROVE  \E o \in after : o.oid = id
  <2>1. CASE id \in left
    BY <1>5, <1>7, <1>8, <1>9, <2>1
  <2>2. CASE limit.remaining > 0 /\ id = oid
    BY <1>1, <1>7, <2>2 DEF Rests
  <2>. QED  BY <1>6, <2>1, <2>2
<1>13. Names(index2, after)
  BY <1>11, <1>12 DEF Names
<1>14. Tidy(limit.book.bids, TRUE) /\ Tidy(limit.book.asks, FALSE)
  BY <1>1, LimitLeaves
<1>. QED  BY <1>1, <1>2, <1>13, <1>14 DEF Indexed

-----------------------------------------------------------------------------
(* The statuses while the fills are settled.                                 *)

\* What g is after the first k fills of statuses f: a status that is left has
\* counted the fill of its order, if there was one, and was more than that fill.
Told(g, f, fills, k) ==
    \A oid \in DOMAIN g :
        /\ oid \in DOMAIN f /\ g[oid].size = f[oid].size
        /\ \/ /\ \A i \in 1..k : fills[i].maker.oid # oid
              /\ g[oid].filled_size = f[oid].filled_size
           \/ \E i \in 1..k :
                 /\ fills[i].maker.oid = oid
                 /\ f[oid].filled_size + fills[i].size < f[oid].size
                 /\ g[oid].filled_size = f[oid].filled_size + fills[i].size

LEMMA ToldMore ==
  ASSUME NEW f, NEW g, NEW h, NEW fills, NEW k \in Nat, Told(g, f, fills, k),
         \A i \in 1..k : fills[i].maker.oid # fills[k + 1].maker.oid,
         NEW fill, fill = fills[k + 1], Counted(h, g, fill)
  PROVE  Told(h, f, fills, k + 1)
<1>1. \A i \in 1..(k + 1) : i \in 1..k \/ i = k + 1
  OBVIOUS
<1>2. k + 1 \in 1..(k + 1) /\ \A i \in 1..k : i \in 1..(k + 1)
  OBVIOUS
<1>3. PICK id : id = fill.maker.oid
  OBVIOUS
<1>4. ASSUME NEW oid \in DOMAIN h
      PROVE  /\ oid \in DOMAIN f /\ h[oid].size = f[oid].size
             /\ \/ /\ \A i \in 1..(k + 1) : fills[i].maker.oid # oid
                   /\ h[oid].filled_size = f[oid].filled_size
                \/ \E i \in 1..(k + 1) :
                      /\ fills[i].maker.oid = oid
                      /\ f[oid].filled_size + fills[i].size < f[oid].size
                      /\ h[oid].filled_size = f[oid].filled_size + fills[i].size
  <2>1. CASE oid # id
    <3>1. oid \in DOMAIN g /\ h[oid] = g[oid]
      BY <1>3, <2>1 DEF Counted, Removed
    <3>2. /\ oid \in DOMAIN f /\ g[oid].size = f[oid].size
          /\ \/ /\ \A i \in 1..k : fills[i].maker.oid # oid
                /\ g[oid].filled_size = f[oid].filled_size
             \/ \E i \in 1..k :
                   /\ fills[i].maker.oid = oid
                   /\ f[oid].filled_size + fills[i].size < f[oid].size
                   /\ g[oid].filled_size = f[oid].filled_size + fills[i].size
      BY <3>1 DEF Told
    <3>3. CASE /\ \A i \in 1..k : fills[i].maker.oid # oid
               /\ g[oid].filled_size = f[oid].filled_size
      <4>1. \A i \in 1..(k + 1) : fills[i].maker.oid # oid
        BY <1>1, <1>3, <2>1, <3>3
      <4>. QED  BY <3>1, <3>2, <3>3, <4>1
    <3>4. CASE \E i \in 1..k :
                  /\ fills[i].maker.oid = oid
                  /\ f[oid].filled_size + fills[i].size < f[oid].size
                  /\ g[oid].filled_size = f[oid].filled_size + fills[i].size
      BY <1>2, <3>1, <3>2, <3>4
    <3>. QED  BY <3>2, <3>3, <3>4
  <2>2. CASE oid = id
    <3>1. /\ oid \in DOMAIN g /\ g[oid].filled_size + fill.size < g[oid].size
          /\ h[oid].size = g[oid].size
          /\ h[oid].filled_size = g[oid].filled_size + fill.size
      BY <1>3, <2>2 DEF Counted, Removed
    <3>2. \A i \in 1..k : fills[i].maker.oid # oid
      BY <1>3, <2>2
    <3>3. oid \in DOMAIN f /\ g[oid].size = f[oid].size /\ g[oid].filled_size = f[oid].filled_size
      BY <3>1, <3>2 DEF Told
    <3>. QED  BY <1>2, <1>3, <2>2, <3>1, <3>3
  <2>. QED  BY <2>1, <2>2
<1>. QED  BY <1>4 DEF Told

\* The fills of an order, each of another maker, are settled one after another.
LEMMA SettleTold ==
  ASSUME NEW order \in Order, NEW s0 \in State, NEW fills \in Seq(Fill),
         \A i, j \in DOMAIN fills : fills[i].maker.oid = fills[j].maker.oid => i = j
  PROVE  Told(SettleFills(order, s0, fills).order_status, s0.order_status, fills, Len(fills))
<1>1. PICK length \in Nat, f0 \in {s0.order_status} : length = Len(fills) /\ f0 = s0.order_status
  OBVIOUS
<1>2. PICK g : Runs(g, Settling(s0), SettleSteps(order, s0), s0, fills)
  BY SettleStepsIsStep, FoldRuns
<1>3. /\ g[0] = s0 /\ g[length] = SettleFills(order, s0, fills)
      /\ \A k \in 0..length : g[k] \in Settling(s0)
      /\ \A k \in 0..(length - 1) : g[k + 1] = SettleSteps(order, s0)[g[k]][fills[k + 1]]
  BY <1>1, <1>2, SettleIsFolded DEF Runs
<1>. DEFINE F == {k \in 0..length : Told(g[k].order_status, f0, fills, k)}
<1>4. 0 \in F
  <2>1. Told(f0, f0, fills, 0)
    BY DEF Told
  <2>. QED  BY <1>1, <1>3, <2>1
<1>5. ASSUME NEW k \in 0..(length - 1), k \in F
      PROVE  k + 1 \in F
  <2>1. k \in 0..length /\ k + 1 \in 0..length /\ k + 1 \in 1..length /\ k \in Nat
    OBVIOUS
  <2>2. PICK s \in Settling(s0), fill \in Fill : s = g[k] /\ fill = fills[k + 1]
    BY <1>1, <1>3, <2>1
  <2>3. g[k + 1].order_status = CountFill(s.order_status, fill)
    <3>1. g[k + 1] = SettleSteps(order, s0)[s][fill]
      BY <1>3, <2>2
    <3>2. g[k + 1] = SettleFill(order, s, fill)
      BY <3>1, SettleFillFacts
    <3>. QED  BY <3>2, SettleFillFacts
  <2>4. Counted(CountFill(s.order_status, fill), s.order_status, fill)
    BY CountFillFacts, StateFacts DEF Settling
  <2>5. \A i \in 1..k : fills[i].maker.oid # fills[k + 1].maker.oid
    <3>1. \A i \in 1..k : i \in DOMAIN fills /\ k + 1 \in DOMAIN fills /\ i # k + 1
      BY <1>1, <2>1
    <3>. QED  BY <3>1
  <2>6. Told(s.order_status, f0, fills, k)
    BY <1>5, <2>2
  <2>7. PICK h : h = CountFill(s.order_status, fill)
    OBVIOUS
  <2>8. Told(h, f0, fills, k + 1)
    BY <2>1, <2>2, <2>4, <2>5, <2>6, <2>7, ToldMore
  <2>. QED  BY <2>1, <2>3, <2>7, <2>8
<1>6. length \in F
  <2>. HIDE DEF F
  <2>1. 0..length \subseteq F
    BY <1>4, <1>5, InductionUpTo
  <2>2. length \in 0..length
    OBVIOUS
  <2>. QED  BY <2>1, <2>2
<1>. QED  BY <1>1, <1>3, <1>6

\* A status is of an order that rests, and the book shows what is left of it.
Backs(statuses, orders) ==
    \A oid \in DOMAIN statuses :
        \E o \in orders :
            o.oid = oid /\ o.size + statuses[oid].filled_size >= statuses[oid].size

LEMMA FillsBack ==
  ASSUME NEW f \in Statuses, NEW g, NEW fills \in Seq(Fill), Told(g, f, fills, Len(fills)),
         NEW before \in SUBSET Order, NEW mid, Keyed(before), Took(fills, before, mid),
         Backs(f, before)
  PROVE  Backs(g, mid)
<1>. SUFFICES ASSUME NEW oid \in DOMAIN g
              PROVE  \E m \in mid : m.oid = oid /\ m.size + g[oid].filled_size >= g[oid].size
  BY DEF Backs
<1>1. PICK D : D = DOMAIN fills /\ D = 1..Len(fills)
  OBVIOUS
<1>2. /\ oid \in DOMAIN f /\ g[oid].size = f[oid].size
      /\ \/ /\ \A i \in D : fills[i].maker.oid # oid
            /\ g[oid].filled_size = f[oid].filled_size
         \/ \E i \in D :
               /\ fills[i].maker.oid = oid
               /\ f[oid].filled_size + fills[i].size < f[oid].size
               /\ g[oid].filled_size = f[oid].filled_size + fills[i].size
  BY <1>1 DEF Told
<1>3. PICK o \in before : o.oid = oid /\ o.size + f[oid].filled_size >= f[oid].size
  BY <1>2 DEF Backs
<1>4. /\ \A i \in D : fills[i].maker \in before
      /\ \A i, j \in D : fills[i].maker.oid = fills[j].maker.oid => i = j
  BY <1>1 DEF Took
<1>5. \A m \in mid :
          \/ m \in before /\ \A i \in D : fills[i].maker.oid # m.oid
          \/ \E i \in D : m = Cut(fills[i]) /\ fills[i].size # fills[i].maker.size
  BY <1>1 DEF Took
<1>6. \/ \E m \in mid : m.oid = oid
      \/ \E i \in D : fills[i].maker = o /\ fills[i].size = o.size
  BY <1>1, <1>3 DEF Took
<1>7. \A i \in D : fills[i] \in Fill
  BY <1>1
<1>8. CASE /\ \A i \in D : fills[i].maker.oid # oid
           /\ g[oid].filled_size = f[oid].filled_size
  <2>1. PICK m \in mid : m.oid = oid
    BY <1>3, <1>6, <1>8
  <2>2. m \in before
    <3>1. ASSUME NEW i \in D, m = Cut(fills[i])
          PROVE  FALSE
      BY <1>7, <1>8, <2>1, <3>1, CutFacts
    <3>. QED  BY <1>5, <3>1
  <2>3. m = o
    BY <1>3, <2>1, <2>2 DEF Keyed
  <2>. QED  BY <1>2, <1>3, <1>8, <2>1, <2>3
<1>9. ASSUME NEW i \in D, fills[i].maker.oid = oid,
             f[oid].filled_size + fills[i].size < f[oid].size,
             g[oid].filled_size = f[oid].filled_size + fills[i].size
      PROVE  \E m \in mid : m.oid = oid /\ m.size + g[oid].filled_size >= g[oid].size
  <2>1. PICK fill \in Fill : fill = fills[i]
    BY <1>7
  <2>2. fill.maker = o
    BY <1>3, <1>4, <1>9, <2>1 DEF Keyed
  <2>3. o \in Order /\ o.size \in U64 /\ fill.size \in U64
    BY <2>2, FillFacts, OrderFacts
  <2>4. PICK size \in Nat, s \in Nat, filled \in Nat, all \in Nat :
           /\ size = o.size /\ s = fill.size
           /\ filled = f[oid].filled_size /\ all = f[oid].size
    BY <1>2, <2>3, StatusFacts, U64Facts
  <2>5. s # size
    BY <1>3, <1>9, <2>1, <2>4
  <2>6. PICK m \in mid : m.oid = oid
    <3>1. ASSUME NEW j \in D, fills[j].maker = o, fills[j].size = o.size
          PROVE  FALSE
      <4>1. j = i
        BY <1>3, <1>4, <1>9, <3>1
      <4>. QED  BY <2>1, <2>4, <2>5, <3>1, <4>1
    <3>. QED  BY <1>6, <3>1
  <2>7. PICK j \in D : m = Cut(fills[j])
    BY <1>5, <1>9, <2>6
  <2>8. fills[j].maker.oid = oid
    BY <1>7, <2>6, <2>7, CutFacts
  <2>9. j = i
    BY <1>4, <1>9, <2>8
  <2>10. m.size = size - s
    BY <2>1, <2>2, <2>4, <2>7, <2>9, CutFacts
  <2>11. g[oid].filled_size = filled + s /\ g[oid].size = all /\ size + filled >= all
    BY <1>2, <1>3, <1>9, <2>1, <2>4
  <2>. QED  BY <2>4, <2>6, <2>10, <2>11
<1>. QED  BY <1>2, <1>8, <1>9

-----------------------------------------------------------------------------
(* Cancellations. *)

LEMMA RemoveQueued ==
  ASSUME NEW q \in Seq(Order), Queued(q), NEW order \in ToSet(q)
  PROVE  /\ Queued(RemoveFirst(q, order))
         /\ ToSet(RemoveFirst(q, order)) = ToSet(q) \ {order}
<1>1. PICK n \in Nat, r \in {RemoveFirst(q, order)} : n = Len(q) /\ r = RemoveFirst(q, order)
  OBVIOUS
<1>2. DOMAIN q = 1..n /\ \E k \in 1..n : q[k] = order
  BY <1>1 DEF ToSet
<1>3. PICK i \in 1..n : q[i] = order /\ r = RemoveAt(q, i)
  BY <1>1, <1>2, RemoveFirstFacts
<1>4. /\ DOMAIN r = 1..(n - 1)
      /\ \A j \in 1..(n - 1) : r[j] = IF j < i THEN q[j] ELSE q[j + 1]
  <2>1. /\ RemoveAt(q, i) \in Seq(Order) /\ Len(RemoveAt(q, i)) = n - 1
        /\ \A j \in 1..(n - 1) : RemoveAt(q, i)[j] = IF j < i THEN q[j] ELSE q[j + 1]
    BY <1>1, RemoveAtFacts
  <2>. QED  BY <1>3, <2>1
<1>5. /\ \A j, k \in 1..n : q[j].oid = q[k].oid => j = k
      /\ \A j, k \in 1..n : j < k => q[j].oid < q[k].oid
      /\ \A j \in 1..n : q[j].size > 0
  BY <1>2, QueuedFacts DEF Queued
<1>6. ASSUME NEW j \in 1..(n - 1)
      PROVE  \E k \in 1..n : k # i /\ r[j] = q[k] /\ k = IF j < i THEN j ELSE j + 1
  <2>1. CASE j < i
    BY <1>4, <2>1
  <2>2. CASE ~(j < i)
    <3>1. j + 1 \in 1..n /\ j + 1 # i
      BY <2>2
    <3>. QED  BY <1>4, <2>2, <3>1
  <2>. QED  BY <2>1, <2>2
<1>7. /\ \A j, k \in 1..(n - 1) : j < k => r[j].oid < r[k].oid
      /\ \A j \in 1..(n - 1) : r[j].size > 0
  <2>1. \A j \in 1..(n - 1) : r[j].size > 0
    BY <1>5, <1>6
  <2>2. SUFFICES ASSUME NEW j \in 1..(n - 1), NEW k \in 1..(n - 1), j < k
                 PROVE  r[j].oid < r[k].oid
    BY <2>1
  <2>3. PICK a \in 1..n : r[j] = q[a] /\ a = IF j < i THEN j ELSE j + 1
    BY <1>6
  <2>4. PICK b \in 1..n : r[k] = q[b] /\ b = IF k < i THEN k ELSE k + 1
    BY <1>6
  <2>5. a < b
    BY <2>2, <2>3, <2>4
  <2>. QED  BY <1>5, <2>3, <2>4, <2>5
<1>8. \A x \in ToSet(r) : x \in ToSet(q) /\ x # order
  <2>1. SUFFICES ASSUME NEW j \in 1..(n - 1)
                 PROVE  r[j] \in ToSet(q) /\ r[j] # order
    BY <1>4 DEF ToSet
  <2>2. PICK k \in 1..n : k # i /\ r[j] = q[k]
    BY <1>6
  <2>. QED  BY <1>2, <1>3, <1>5, <2>2 DEF ToSet
<1>9. ASSUME NEW x \in ToSet(q), x # order
      PROVE  x \in ToSet(r)
  <2>1. PICK k \in 1..n : x = q[k] /\ k # i
    BY <1>2, <1>3, <1>9 DEF ToSet
  <2>2. CASE k < i
    <3>1. k \in 1..(n - 1) /\ r[k] = q[k]
      BY <1>4, <2>2
    <3>. QED  BY <1>4, <2>1, <3>1 DEF ToSet
  <2>3. CASE ~(k < i)
    <3>1. PICK j \in 1..(n - 1) : j + 1 = k /\ ~(j < i)
      <4>1. k - 1 \in 1..(n - 1) /\ k - 1 + 1 = k /\ ~(k - 1 < i)
        BY <2>1, <2>3
      <4>. QED  BY <4>1
    <3>2. r[j] = q[k]
      BY <1>4, <3>1
    <3>. QED  BY <1>4, <2>1, <3>2 DEF ToSet
  <2>. QED  BY <2>2, <2>3
<1>10. Queued(r)
  BY <1>4, <1>7 DEF Queued
<1>11. ToSet(r) = ToSet(q) \ {order}
  BY <1>8, <1>9
<1>. QED  BY <1>1, <1>10, <1>11

\* `cancel' finds an order that rests.
LEMMA FindsOrder ==
  ASSUME NEW book \in Book, Indexed(book), NotCrossed(book), NEW o \in OrdersOf(book)
  PROVE  CancelledOrders(book, o.oid) = {o}
<1>1. PICK price, oid, index : price = o.limit_price /\ oid = o.oid /\ index = book.oid_to_level
  OBVIOUS
<1>2. /\ book.bids \in Levels /\ book.asks \in Levels
      /\ Tidy(book.bids, TRUE) /\ Tidy(book.asks, FALSE)
      /\ oid \in DOMAIN index /\ index[oid] = price
  BY <1>1 DEF Book, Indexed, Names
<1>3. PICK level : level = LevelAt(book[SideToCancel(book, price)], price)
  OBVIOUS
<1>4. CancelledOrders(book, oid) = {m \in ToSet(level) : m.oid = oid}
  BY <1>1, <1>2, <1>3 DEF CancelledOrders
<1>5. o \in ToSet(level) /\ ToSet(level) \subseteq OrdersOf(book)
  <2>1. CASE o \in OrdersAt(book.bids)
    <3>1. price \in DOMAIN book.bids /\ o \in ToSet(book.bids[price])
      <4>1. /\ o.limit_price \in DOMAIN book.bids /\ o.limit_price \in U64
            /\ o \in ToSet(book.bids[o.limit_price])
        BY <1>2, <2>1, SideFacts
      <4>. QED  BY <1>1, <4>1
    <3>2. level = book.bids[price]
      BY <1>3, <3>1 DEF SideToCancel, LevelAt
    <3>. QED  BY <1>2, <3>1, <3>2, AtFacts DEF OrdersOf
  <2>2. CASE o \in OrdersAt(book.asks)
    <3>1. price \in DOMAIN book.asks /\ o \in ToSet(book.asks[price]) /\ price \in U64
      <4>1. /\ o.limit_price \in DOMAIN book.asks /\ o.limit_price \in U64
            /\ o \in ToSet(book.asks[o.limit_price])
        BY <1>2, <2>2, SideFacts
      <4>. QED  BY <1>1, <4>1
    <3>2. price \notin DOMAIN book.bids
      <4>1. PICK p \in Nat : p = price
        BY <3>1, U64Facts
      <4>. QED  BY <3>1, <4>1 DEF NotCrossed
    <3>3. level = book.asks[price]
      BY <1>3, <3>1, <3>2 DEF SideToCancel, LevelAt
    <3>. QED  BY <1>2, <3>1, <3>3, AtFacts DEF OrdersOf
  <2>. QED  BY <2>1, <2>2 DEF OrdersOf
<1>6. \A m \in OrdersOf(book) : m.oid = oid => m = o
  BY <1>1, KeyFacts DEF Keyed
<1>. QED  BY <1>1, <1>4, <1>5, <1>6

\* One side, less one order.
LEMMA DequeueTidy ==
  ASSUME NEW levels \in Levels, NEW is_buy, Tidy(levels, is_buy), NEW price \in DOMAIN levels,
         NEW order \in ToSet(levels[price]), NEW after, Dequeued(after, levels, price, order)
  PROVE  Tidy(after, is_buy) /\ OrdersAt(after) = OrdersAt(levels) \ {order}
<1>1. PICK q \in Seq(Order) : q = levels[price]
  BY AtFacts
<1>2. /\ Queued(q) /\ order \in ToSet(q)
      /\ \A o \in ToSet(q) : o.limit_price = price /\ o.is_buy = is_buy
  BY <1>1 DEF Tidy
<1>3. /\ DOMAIN after = DOMAIN levels /\ after[price] = RemoveFirst(q, order)
      /\ \A p \in DOMAIN levels \ {price} : after[p] = levels[p]
  BY <1>1 DEF Dequeued
<1>4. Queued(after[price]) /\ ToSet(after[price]) = ToSet(q) \ {order}
  BY <1>2, <1>3, RemoveQueued
<1>5. ASSUME NEW p \in DOMAIN after
      PROVE  /\ Queued(after[p])
             /\ \A o \in ToSet(after[p]) : o.limit_price = p /\ o.is_buy = is_buy
  <2>1. CASE p = price
    BY <1>2, <1>4, <2>1
  <2>2. CASE p # price
    BY <1>3, <2>2 DEF Tidy
  <2>. QED  BY <2>1, <2>2
<1>6. ASSUME NEW o \in OrdersAt(after)
      PROVE  o \in OrdersAt(levels) /\ o # order
  <2>1. PICK p \in DOMAIN levels : o \in ToSet(after[p])
    BY <1>3 DEF OrdersAt
  <2>2. CASE p = price
    BY <1>1, <1>4, <2>1, <2>2 DEF OrdersAt
  <2>3. CASE p # price
    <3>1. o \in ToSet(levels[p])
      BY <1>3, <2>1, <2>3
    <3>2. o.limit_price = p /\ order.limit_price = price
      BY <1>2, <3>1 DEF Tidy
    <3>. QED  BY <2>3, <3>1, <3>2 DEF OrdersAt
  <2>. QED  BY <2>2, <2>3
<1>7. ASSUME NEW o \in OrdersAt(levels), o # order
      PROVE  o \in OrdersAt(after)
  <2>1. PICK p \in DOMAIN levels : o \in ToSet(levels[p])
    BY DEF OrdersAt
  <2>2. o \in ToSet(after[p])
    BY <1>1, <1>3, <1>4, <1>7, <2>1
  <2>. QED  BY <1>3, <2>1, <2>2 DEF OrdersAt
<1>8. Tidy(after, is_buy)
  BY <1>5 DEF Tidy
<1>. QED  BY <1>6, <1>7, <1>8

\* After `cancel', the index names what rests.
LEMMA CancelIndexed ==
  ASSUME NEW book \in Book, Indexed(book), NotCrossed(book),
         NEW oid, NEW order \in CancelledOrders(book, oid)
  PROVE  /\ Indexed(CancelInBook(book, order))
         /\ order.oid = oid /\ order \in OrdersOf(book)
         /\ OrdersOf(CancelInBook(book, order)) = OrdersOf(book) \ {order}
         /\ DOMAIN CancelInBook(book, order).oid_to_level \subseteq DOMAIN book.oid_to_level
<1>1. PICK after, price, index, index2 :
         /\ after = CancelInBook(book, order) /\ price = book.oid_to_level[oid]
         /\ index = book.oid_to_level /\ index2 = after.oid_to_level
  OBVIOUS
<1>2. /\ order \in Order /\ order.oid = oid
      /\ Removed(index2, index, oid)
      /\ price \in DOMAIN book.bids =>
            /\ order \in ToSet(book.bids[price])
            /\ Dequeued(after.bids, book.bids, price, order) /\ after.asks = book.asks
      /\ price \notin DOMAIN book.bids =>
            /\ price \in DOMAIN book.asks /\ order \in ToSet(book.asks[price])
            /\ Dequeued(after.asks, book.asks, price, order) /\ after.bids = book.bids
  BY <1>1, CancelFacts
<1>3. /\ book.bids \in Levels /\ book.asks \in Levels
      /\ Tidy(book.bids, TRUE) /\ Tidy(book.asks, FALSE)
      /\ \A o \in OrdersOf(book) : o.oid \in DOMAIN index /\ index[o.oid] = o.limit_price
      /\ \A id \in DOMAIN index : \E o \in OrdersOf(book) : o.oid = id
  BY <1>1 DEF Book, Indexed, Names
<1>4. /\ Keyed(OrdersOf(book))
      /\ Apart(OrdersAt(book.bids), OrdersAt(book.asks))
  BY KeyFacts
<1>5. /\ Tidy(after.bids, TRUE) /\ Tidy(after.asks, FALSE) /\ order \in OrdersOf(book)
      /\ OrdersOf(after) = OrdersOf(book) \ {order}
  <2>1. CASE price \in DOMAIN book.bids
    <3>1. Tidy(after.bids, TRUE) /\ OrdersAt(after.bids) = OrdersAt(book.bids) \ {order}
      <4>1. PICK levels, levels2 : levels = book.bids /\ levels2 = after.bids
        OBVIOUS
      <4>2. /\ levels \in Levels /\ Tidy(levels, TRUE) /\ price \in DOMAIN levels
            /\ order \in ToSet(levels[price]) /\ Dequeued(levels2, levels, price, order)
        BY <1>2, <1>3, <2>1, <4>1
      <4>3. Tidy(levels2, TRUE) /\ OrdersAt(levels2) = OrdersAt(levels) \ {order}
        BY <4>2, DequeueTidy
      <4>. QED  BY <4>1, <4>3
    <3>2. order \in OrdersAt(book.bids)
      BY <1>2, <2>1 DEF OrdersAt
    <3>3. order \notin OrdersAt(book.asks)
      BY <1>4, <3>2 DEF Apart
    <3>. QED  BY <1>2, <1>3, <2>1, <3>1, <3>2, <3>3 DEF OrdersOf
  <2>2. CASE price \notin DOMAIN book.bids
    <3>1. Tidy(after.asks, FALSE) /\ OrdersAt(after.asks) = OrdersAt(book.asks) \ {order}
      <4>1. PICK levels, levels2 : levels = book.asks /\ levels2 = after.asks
        OBVIOUS
      <4>2. /\ levels \in Levels /\ Tidy(levels, FALSE) /\ price \in DOMAIN levels
            /\ order \in ToSet(levels[price]) /\ Dequeued(levels2, levels, price, order)
        BY <1>2, <1>3, <2>2, <4>1
      <4>3. Tidy(levels2, FALSE) /\ OrdersAt(levels2) = OrdersAt(levels) \ {order}
        BY <4>2, DequeueTidy
      <4>. QED  BY <4>1, <4>3
    <3>2. order \in OrdersAt(book.asks)
      BY <1>2, <2>2 DEF OrdersAt
    <3>3. order \notin OrdersAt(book.bids)
      BY <1>4, <3>2 DEF Apart
    <3>. QED  BY <1>2, <1>3, <2>2, <3>1, <3>2, <3>3 DEF OrdersOf
  <2>. QED  BY <2>1, <2>2
<1>6. DOMAIN index2 = DOMAIN index \ {oid} /\ \A id \in DOMAIN index2 : index2[id] = index[id]
  BY <1>2 DEF Removed
<1>7. \A o \in OrdersOf(book) : o.oid = oid => o = order
  BY <1>2, <1>4, <1>5 DEF Keyed
<1>8. Names(index2, OrdersOf(after))
  BY <1>2, <1>3, <1>5, <1>6, <1>7 DEF Names
<1>. QED  BY <1>1, <1>2, <1>5, <1>6, <1>8 DEF Indexed

-----------------------------------------------------------------------------
(* The requests keep the book, its index and the statuses in agreement.      *)

Agreed(state) ==
    /\ Indexed(state.book)
    /\ Backs(state.order_status, OrdersOf(state.book))
    /\ \A oid \in DOMAIN state.book.oid_to_level : oid < state.oid

LEMMA SameAgrees ==
  ASSUME NEW state, Agreed(state), NEW after,
         after.book = state.book, after.order_status = state.order_status,
         after.oid = state.oid
  PROVE  Agreed(after)
  BY DEF Agreed

\* The book and the order ids are left alone.
SameBook(after, state) == after.book = state.book /\ after.oid = state.oid

LEMMA DepositAgrees ==
  ASSUME NEW state, state \in State, Agreed(state), NEW req
  PROVE  Agreed(deposit(req, state).state) /\ SameBook(deposit(req, state).state, state)
<1>1. PICK base, quote : /\ base = Credit(state.base, req.address, req.base_free)
                         /\ quote = Credit(state.quote, req.address, req.quote_free)
  OBVIOUS
<1>2. PICK after : after = [state EXCEPT !.base = base, !.quote = quote]
  OBVIOUS
<1>3. /\ after.book = state.book /\ after.order_status = state.order_status
      /\ after.oid = state.oid
  BY <1>2 DEF State
<1>4. deposit(req, state).state = after
  BY <1>1, <1>2 DEF deposit, Outcome
<1>. QED  BY <1>3, <1>4, SameAgrees DEF SameBook

LEMMA WithdrawAgrees ==
  ASSUME NEW state, state \in State, Agreed(state), NEW req
  PROVE  Agreed(withdraw(req, state).state) /\ SameBook(withdraw(req, state).state, state)
<1>1. CASE ~Covers(state, req.address, req.base_free, req.quote_free)
  BY <1>1 DEF withdraw, Outcome, SameBook
<1>2. CASE Covers(state, req.address, req.base_free, req.quote_free)
  <2>1. PICK user, base, quote :
           /\ user = req.address
           /\ base = Adjust(state.base, user, "free", -req.base_free)
           /\ quote = Adjust(state.quote, user, "free", -req.quote_free)
    OBVIOUS
  <2>2. PICK lower : lower = [state EXCEPT !.base = base, !.quote = quote]
    OBVIOUS
  <2>3. /\ lower.book = state.book /\ lower.order_status = state.order_status
        /\ lower.oid = state.oid
    BY <2>2 DEF State
  <2>4. PICK base2, quote2 :
           /\ base2 = RestrictDomain(lower.base, LAMBDA u : u # user)
           /\ quote2 = RestrictDomain(lower.quote, LAMBDA u : u # user)
    OBVIOUS
  <2>5. PICK lower2 : lower2 = [lower EXCEPT !.base = base2, !.quote = quote2]
    OBVIOUS
  <2>6. /\ lower2.book = state.book /\ lower2.order_status = state.order_status
        /\ lower2.oid = state.oid
    BY <2>2, <2>3, <2>5 DEF State
  <2>7. Prune(lower, user) \in {lower, lower2}
    BY <2>2, <2>4, <2>5 DEF Prune, State
  <2>8. withdraw(req, state).state = Prune(lower, user)
    BY <1>2, <2>1, <2>2 DEF withdraw, Outcome
  <2>9. /\ Agreed(lower) /\ lower.book = state.book /\ lower.oid = state.oid
        /\ Agreed(lower2) /\ lower2.book = state.book /\ lower2.oid = state.oid
    BY <2>3, <2>6, SameAgrees
  <2>10. ASSUME NEW after \in {lower, lower2} PROVE Agreed(after) /\ SameBook(after, state)
    BY <2>9 DEF SameBook
  <2>. QED  BY <2>7, <2>8, <2>10
<1>. QED  BY <1>1, <1>2

LEMMA LimitNames ==
  ASSUME NEW book \in Book, NEW order \in Order
  PROVE  DOMAIN Limit(book, order).book.oid_to_level
            \subseteq DOMAIN book.oid_to_level \cup {order.oid}
  BY LimitFacts

LEMMA AddOrderAgrees ==
  ASSUME NEW state, Sound(state), Agreed(state), NEW req \in AddOrderRequest
  PROVE  Agreed(add_order(req, state).state)
<1>1. PICK out : out = add_order(req, state)
  OBVIOUS
<1>2. /\ state \in State /\ state.book \in Book /\ state.oid \in Nat
      /\ state.order_status \in Statuses /\ NotCrossed(state.book)
  BY StateFacts DEF Sound
<1>3. /\ Indexed(state.book) /\ Backs(state.order_status, OrdersOf(state.book))
      /\ \A oid \in DOMAIN state.book.oid_to_level : oid \in Nat /\ oid < state.oid
  <2>1. state.book.oid_to_level \in Maps(Oid, U64)
    BY <1>2 DEF Book, Index
  <2>2. \A oid \in DOMAIN state.book.oid_to_level : oid \in Nat
    BY <2>1, MapsFacts DEF Oid
  <2>. QED  BY <2>2 DEF Agreed
<1>4. CASE out = Outcome(FALSE, state, <<>>)
  BY <1>1, <1>4 DEF Outcome
<1>5. CASE out = Outcome(FALSE, [state EXCEPT !.oid = @ + 1], <<>>)
  <2>1. PICK oid \in Nat : oid = state.oid + 1
    BY <1>2
  <2>2. PICK after : after = [state EXCEPT !.oid = oid]
    OBVIOUS
  <2>3. out.state = after
    <3>1. [state EXCEPT !.oid = @ + 1] = after
      BY <2>1, <2>2
    <3>. QED  BY <1>5, <3>1 DEF Outcome
  <2>4. after.oid = oid /\ after.book = state.book /\ after.order_status = state.order_status
    BY <1>2, <2>2 DEF State
  <2>5. \A id \in DOMAIN state.book.oid_to_level : id < oid
    BY <1>2, <1>3, <2>1
  <2>. QED  BY <1>1, <1>3, <2>3, <2>4, <2>5 DEF Agreed
<1>6. ASSUME NEW order \in Order, NEW locked \in State, NEW settled \in State,
             NEW status \in FillStatus,
             Placed(add_order(req, state), state, order, locked, settled, status)
      PROVE  Agreed(out.state)
  <2>1. PICK limit, oid, book, statuses :
           /\ limit = Limit(state.book, order) /\ oid = order.oid
           /\ book = state.book /\ statuses = state.order_status
    OBVIOUS
  <2>2. /\ locked.oid = state.oid + 1 /\ locked.book = limit.book
        /\ locked.order_status = statuses
        /\ settled = SettleFills(order, locked, limit.fills)
        /\ status.size = order.size /\ status.filled_size = order.size - limit.remaining
        /\ oid = state.oid
        /\ out.state = IF limit.remaining = 0 THEN settled
                       ELSE [settled EXCEPT !.order_status = Put(@, oid, status)]
    BY <1>1, <1>6, <2>1 DEF Placed
  <2>3. IsNew(book, order) /\ oid \in Nat
    BY <1>2, <1>3, <2>1, <2>2 DEF IsNew
  <2>4. Indexed(limit.book) /\ \E mid : Left(limit, OrdersOf(book), order, mid)
    BY <1>2, <1>3, <2>1, <2>3, LimitIndexed, LimitLeaves
  <2>5. PICK mid : Left(limit, OrdersOf(book), order, mid)
    BY <2>4
  <2>6. /\ Took(limit.fills, OrdersOf(book), mid)
        /\ OrdersOf(limit.book) = mid \cup Rests(order, limit.remaining)
    BY <2>5 DEF Left
  <2>7. limit.fills \in Seq(Fill) /\ limit.remaining \in 0..order.size
    BY <1>2, <2>1, LimitFacts
  <2>8. PICK fills \in Seq(Fill) : fills = limit.fills
    BY <2>7
  <2>9. settled \in Settling(locked)
    BY <2>2, <2>8, SettleFillsFacts
  <2>10. settled.oid = state.oid + 1 /\ settled.book = limit.book
    BY <2>2, <2>9 DEF Settling
  <2>11. PICK g : g = settled.order_status
    OBVIOUS
  <2>12. Backs(g, mid)
    <3>1. \A i, j \in DOMAIN fills : fills[i].maker.oid = fills[j].maker.oid => i = j
      BY <2>6, <2>8 DEF Took
    <3>2. Told(g, statuses, fills, Len(fills))
      BY <2>2, <2>8, <2>11, <3>1, SettleTold
    <3>3. Keyed(OrdersOf(book)) /\ OrdersOf(book) \in SUBSET Order
      BY <1>2, <1>3, <2>1, KeyFacts
    <3>. QED  BY <1>2, <1>3, <2>1, <2>6, <2>8, <3>2, <3>3, FillsBack
  <2>13. \A id \in DOMAIN limit.book.oid_to_level : id < state.oid + 1
    <3>1. DOMAIN limit.book.oid_to_level \subseteq DOMAIN book.oid_to_level \cup {oid}
      BY <1>2, <2>1, LimitNames
    <3>. QED  BY <1>2, <1>3, <2>1, <2>2, <3>1
  <2>14. CASE limit.remaining = 0
    <3>1. OrdersOf(limit.book) = mid
      BY <2>6, <2>14 DEF Rests
    <3>. QED  BY <2>2, <2>4, <2>10, <2>11, <2>12, <2>13, <2>14, <3>1 DEF Agreed
  <2>15. CASE limit.remaining # 0
    <3>1. PICK h : h = Put(g, oid, status)
      OBVIOUS
    <3>2. Added(h, g, oid, status)
      <4>1. g \in Maps(Oid, FillStatus) /\ oid \in Oid
        BY <2>3, <2>11, StateFacts DEF Statuses, Oid
      <4>. QED  BY <3>1, <4>1, PutFacts
    <3>3. PICK size \in Nat, remaining \in Nat :
             size = order.size /\ remaining = limit.remaining
      <4>1. order.size \in Nat
        BY OrderFacts, U64Facts
      <4>. QED  BY <2>7, <4>1
    <3>4. OrdersOf(limit.book) = mid \cup {order}
      <4>1. remaining > 0
        BY <2>15, <3>3
      <4>. QED  BY <2>6, <3>3, <4>1 DEF Rests
    <3>5. order.size + status.filled_size >= status.size
      BY <2>2, <2>7, <3>3
    <3>6. Backs(h, mid \cup {order})
      <4>1. SUFFICES ASSUME NEW id \in DOMAIN h
                     PROVE  \E o \in mid \cup {order} :
                               o.oid = id /\ o.size + h[id].filled_size >= h[id].size
        BY DEF Backs
      <4>2. CASE id = oid
        <5>1. h[id] = status
          BY <3>2, <4>2 DEF Added
        <5>. QED  BY <2>1, <3>5, <4>2, <5>1
      <4>3. CASE id # oid
        <5>1. id \in DOMAIN g /\ h[id] = g[id]
          BY <3>2, <4>3 DEF Added
        <5>. QED  BY <2>12, <5>1 DEF Backs
      <4>. QED  BY <4>2, <4>3
    <3>7. PICK after : after = [settled EXCEPT !.order_status = h]
      OBVIOUS
    <3>8. /\ after.oid = settled.oid /\ after.book = settled.book /\ after.order_status = h
      BY <3>7 DEF State
    <3>9. out.state = after
      BY <2>2, <2>11, <2>15, <3>1, <3>7
    <3>. QED  BY <2>4, <2>10, <2>13, <3>4, <3>6, <3>8, <3>9 DEF Agreed
  <2>. QED  BY <2>14, <2>15
<1>. QED  BY <1>1, <1>4, <1>5, <1>6, AddOrderFacts

\* At most one order is gone.
Leaves(before, after) == after = before \/ \E o \in before : after = before \ {o}

LEMMA CancelAgrees ==
  ASSUME NEW state, Sound(state), Agreed(state), NEW req
  PROVE  /\ Agreed(cancel_order(req, state).state)
         /\ Leaves(OrdersOf(state.book), OrdersOf(cancel_order(req, state).state.book))
<1>1. /\ state \in State /\ state.book \in Book /\ state.order_status \in Statuses
      /\ NotCrossed(state.book)
  BY StateFacts DEF Sound
<1>2. PICK oid, book, found, statuses :
         /\ oid = req.oid /\ book = state.book /\ statuses = state.order_status
         /\ found = CancelledOrders(book, oid)
  OBVIOUS
<1>3. /\ Indexed(book) /\ Backs(statuses, OrdersOf(book))
      /\ \A id \in DOMAIN book.oid_to_level : id < state.oid
  BY <1>2 DEF Agreed
<1>4. CASE found = {}
  <2>1. oid \notin DOMAIN book.oid_to_level
    <3>1. \A o \in OrdersOf(book) : CancelledOrders(book, o.oid) = {o}
      BY <1>1, <1>2, <1>3, FindsOrder
    <3>. QED  BY <1>2, <1>3, <1>4, <3>1 DEF Indexed, Names
  <2>2. PICK index : index = Without(book.oid_to_level, oid)
    OBVIOUS
  <2>3. Removed(index, book.oid_to_level, oid)
    <3>1. book.oid_to_level \in Maps(Oid, U64)
      BY <1>1, <1>2 DEF Book, Index
    <3>. QED  BY <2>2, <3>1, WithoutFacts
  <2>4. PICK book2 : book2 = [book EXCEPT !.oid_to_level = index]
    OBVIOUS
  <2>5. book2.oid_to_level = index /\ book2.bids = book.bids /\ book2.asks = book.asks
    BY <1>1, <1>2, <2>4 DEF Book
  <2>6. /\ DOMAIN index = DOMAIN book.oid_to_level
        /\ \A id \in DOMAIN index : index[id] = book.oid_to_level[id]
    BY <2>1, <2>3 DEF Removed
  <2>7. OrdersOf(book2) = OrdersOf(book)
    BY <2>5 DEF OrdersOf
  <2>8. Indexed(book2)
    BY <1>3, <2>5, <2>6, <2>7 DEF Indexed, Names
  <2>9. PICK after : after = [state EXCEPT !.book = book2]
    OBVIOUS
  <2>10. after.book = book2 /\ after.oid = state.oid /\ after.order_status = statuses
    BY <1>1, <1>2, <2>9 DEF State
  <2>11. cancel_order(req, state).state = after
    BY <1>1, <1>2, <1>4, <2>2, <2>4, <2>9
       DEF cancel_order, RestrictDomain, Without, State, Outcome
  <2>. QED  BY <1>2, <1>3, <2>5, <2>6, <2>7, <2>8, <2>10, <2>11 DEF Agreed, Leaves
<1>5. CASE found # {}
  <2>1. PICK order \in found : order = CHOOSE o \in found : TRUE
    BY <1>5
  <2>2. PICK book2, less, out : /\ book2 = CancelInBook(book, order)
                                /\ less = Without(statuses, oid)
                                /\ out = cancel_order(req, state)
    OBVIOUS
  <2>3. /\ Indexed(book2) /\ order.oid = oid /\ order \in OrdersOf(book)
        /\ OrdersOf(book2) = OrdersOf(book) \ {order}
        /\ DOMAIN book2.oid_to_level \subseteq DOMAIN book.oid_to_level
    <3>1. book \in Book /\ NotCrossed(book) /\ order \in CancelledOrders(book, oid)
      BY <1>1, <1>2, <2>1
    <3>2. /\ Indexed(CancelInBook(book, order)) /\ order.oid = oid
          /\ order \in OrdersOf(book)
          /\ OrdersOf(CancelInBook(book, order)) = OrdersOf(book) \ {order}
          /\ DOMAIN CancelInBook(book, order).oid_to_level \subseteq DOMAIN book.oid_to_level
      BY <1>3, <3>1, CancelIndexed
    <3>. QED  BY <2>2, <3>2
  <2>4. Removed(less, statuses, oid)
    <3>1. statuses \in Maps(Oid, FillStatus)
      BY <1>1, <1>2 DEF Statuses
    <3>. QED  BY <2>2, <3>1, WithoutFacts
  <2>5. out.state.oid = state.oid
    BY <2>2, CancelIsSound DEF SoundOutcome
  <2>6. out.state.book = book2 /\ Removed(out.state.order_status, statuses, oid)
    <3>1. PICK unbooked, closed :
             /\ unbooked = [state EXCEPT !.book = book2]
             /\ closed = [unbooked EXCEPT !.order_status = less]
      OBVIOUS
    <3>2. /\ closed \in State /\ closed.book = book2 /\ closed.order_status = less
          /\ unbooked.book = book2 /\ unbooked.order_status = statuses
      <4>1. book2 \in Book
        BY <1>1, <1>2, <2>1, <2>2, CancelFacts
      <4>2. less \in Statuses
        <5>1. statuses \in Maps(Oid, FillStatus)
          BY <1>1, <1>2 DEF Statuses
        <5>. QED  BY <2>2, <5>1, WithoutFacts DEF Statuses
      <4>. QED  BY <1>1, <1>2, <3>1, <4>1, <4>2 DEF State
    <3>3. \A b : /\ [closed EXCEPT !.base = b].book = book2
                 /\ [closed EXCEPT !.base = b].order_status = less
                 /\ [closed EXCEPT !.quote = b].book = book2
                 /\ [closed EXCEPT !.quote = b].order_status = less
      BY <3>2 DEF State
    <3>4. CASE oid \notin DOMAIN statuses
      <4>1. out.state = unbooked
        BY <1>2, <1>5, <2>1, <2>2, <3>1, <3>4 DEF cancel_order, Outcome
      <4>. QED  BY <3>2, <3>4, <4>1 DEF Removed
    <3>5. CASE oid \in DOMAIN statuses
      <4>1. PICK owner, balances : /\ owner = order.address
                                   /\ balances = IF order.is_buy THEN state.quote ELSE state.base
        OBVIOUS
      <4>2. CASE owner \notin DOMAIN balances
        <5>1. out = Outcome(FALSE, closed, <<>>)
          BY <1>2, <1>5, <2>1, <2>2, <3>1, <3>5, <4>1, <4>2
             DEF cancel_order, RestrictDomain, Without
        <5>. QED  BY <2>4, <3>2, <5>1 DEF Outcome
      <4>3. CASE owner \in DOMAIN balances /\ order.is_buy
        <5>1. PICK quote : quote = Unlock(closed.quote, owner,
                                          QuoteSize(order) - state.order_status[oid].filled_quote)
          OBVIOUS
        <5>2. out.state = [closed EXCEPT !.quote = quote]
          BY <1>2, <1>5, <2>1, <2>2, <3>1, <3>5, <4>1, <4>3, <5>1
             DEF cancel_order, RestrictDomain, Without, Outcome
        <5>. QED  BY <2>4, <3>3, <5>2
      <4>4. CASE owner \in DOMAIN balances /\ ~order.is_buy
        <5>1. PICK base : base = Unlock(closed.base, owner,
                                        order.size - state.order_status[oid].filled_size)
          OBVIOUS
        <5>2. out.state = [closed EXCEPT !.base = base]
          BY <1>2, <1>5, <2>1, <2>2, <3>1, <3>5, <4>1, <4>4, <5>1
             DEF cancel_order, RestrictDomain, Without, Outcome
        <5>. QED  BY <2>4, <3>3, <5>2
      <4>. QED  BY <4>2, <4>3, <4>4
    <3>. QED  BY <3>4, <3>5
  <2>7. Backs(out.state.order_status, OrdersOf(book2))
    <3>1. PICK g : g = out.state.order_status /\ Removed(g, statuses, oid)
      BY <2>6
    <3>. QED  BY <1>3, <2>3, <3>1 DEF Backs, Removed
  <2>8. Leaves(OrdersOf(book), OrdersOf(book2))
    BY <2>3 DEF Leaves
  <2>. QED  BY <1>2, <1>3, <2>2, <2>3, <2>5, <2>6, <2>7, <2>8 DEF Agreed
<1>. QED  BY <1>4, <1>5

LEMMA GenesisAgrees == Agreed(GenesisState)
<1>1. PICK book : book = [bids |-> Empty, asks |-> Empty, oid_to_level |-> Empty]
  OBVIOUS
<1>2. DOMAIN Empty = {}
  BY DEF Empty
<1>3. OrdersOf(book) = {}
  BY <1>1, <1>2 DEF OrdersOf, OrdersAt
<1>4. Indexed(book)
  BY <1>1, <1>2, <1>3 DEF Indexed, Tidy, Names
<1>5. GenesisState.book = book /\ GenesisState.order_status = Empty
  BY <1>1 DEF GenesisState
<1>6. Backs(Empty, OrdersOf(book)) /\ \A oid \in DOMAIN book.oid_to_level : oid < 0
  BY <1>1, <1>2 DEF Backs
<1>7. GenesisState.oid = 0
  BY DEF GenesisState
<1>. QED  BY <1>4, <1>5, <1>6, <1>7 DEF Agreed

Agreement == Agreed(clob)

LEMMA AgreementInvariant ==
  SettlementInv /\ Agreement /\ [SettlementNext]_settlementVars => Agreement'
<1>. SUFFICES ASSUME SettlementInv, Agreed(clob), [SettlementNext]_settlementVars
              PROVE  Agreed(clob')
  BY DEF Agreement
<1>1. Sound(clob) /\ clob \in State
  BY DEF SettlementInv, Sound
<1>2. CASE UNCHANGED clob
  BY <1>2
<1>3. CASE CreditDeposit
  BY <1>1, <1>3, DepositAgrees DEF CreditDeposit, Deposit
<1>4. ASSUME NEW req \in Trades, RequestOrder(req)
      PROVE  Agreed(clob')
  <2>1. req \in AddOrderRequest /\ clob' = add_order(req, clob).state
    BY <1>4, AmountAssumption DEF RequestOrder, AddOrder
  <2>. QED  BY <1>1, <2>1, AddOrderAgrees
<1>5. ASSUME NEW req, RequestCancel(req)
      PROVE  Agreed(clob')
  BY <1>1, <1>5, CancelAgrees DEF RequestCancel, CancelOrder
<1>6. ASSUME NEW req, RequestWithdraw(req)
      PROVE  Agreed(clob')
  BY <1>1, <1>6, WithdrawAgrees DEF RequestWithdraw, Withdraw
<1>7. CASE Settle \/ UNCHANGED settlementVars \/ \E req \in Deposits : DepositOnChain(req)
  BY <1>2, <1>7 DEF Settle, settlementVars, DepositOnChain
<1>. QED  BY <1>3, <1>4, <1>5, <1>6, <1>7 DEF SettlementNext

\* What agreement of the CLOB's state says of the module's own properties.
LEMMA AgreementIsBookAgrees == SettlementInv /\ Agreement => BookAgrees
<1>. SUFFICES ASSUME SettlementInv, Agreed(clob) PROVE BookAgrees
  BY DEF Agreement
<1>1. PICK book, index : book = clob.book /\ index = book.oid_to_level
  OBVIOUS
<1>2. book \in Book /\ NotCrossed(book) /\ Indexed(book) /\ Backs(clob.order_status, OrdersOf(book))
  BY <1>1, StateFacts DEF SettlementInv, Sound, Agreed
<1>3. Resting = OrdersOf(book)
  BY <1>1 DEF Resting, OrdersOf
<1>4. StatusIsBacked
  BY <1>2, <1>3 DEF StatusIsBacked, Backs
<1>5. /\ \A o \in Resting : o.oid \in DOMAIN index /\ index[o.oid] = o.limit_price
      /\ DOMAIN index = {o.oid : o \in Resting}
  BY <1>1, <1>2, <1>3 DEF Indexed, Names
<1>6. \A o \in Resting : CancelledOrders(book, o.oid) = {o}
  BY <1>2, <1>3, FindsOrder
<1>7. ASSUME NEW o \in Resting
      PROVE  LET level == LevelAt(IF o.is_buy THEN book.bids ELSE book.asks, o.limit_price)
             IN  \E i \in DOMAIN level : {j \in DOMAIN level : level[j].oid = o.oid} = {i}
  <2>1. PICK level : level = LevelAt(IF o.is_buy THEN book.bids ELSE book.asks, o.limit_price)
    OBVIOUS
  <2>2. /\ book.bids \in Levels /\ book.asks \in Levels
        /\ Tidy(book.bids, TRUE) /\ Tidy(book.asks, FALSE)
    BY <1>2 DEF Book, Indexed
  <2>3. o \in ToSet(level) /\ Queued(level)
    <3>1. CASE o \in OrdersAt(book.bids)
      <4>1. /\ o.limit_price \in DOMAIN book.bids /\ o.is_buy = TRUE
            /\ o \in ToSet(book.bids[o.limit_price])
        BY <2>2, <3>1, SideFacts
      <4>2. level = book.bids[o.limit_price]
        BY <2>1, <4>1 DEF LevelAt
      <4>. QED  BY <2>2, <4>1, <4>2 DEF Tidy
    <3>2. CASE o \in OrdersAt(book.asks)
      <4>1. /\ o.limit_price \in DOMAIN book.asks /\ o.is_buy = FALSE
            /\ o \in ToSet(book.asks[o.limit_price])
        BY <2>2, <3>2, SideFacts
      <4>2. level = book.asks[o.limit_price]
        BY <2>1, <4>1 DEF LevelAt
      <4>. QED  BY <2>2, <4>1, <4>2 DEF Tidy
    <3>. QED  BY <1>3, <3>1, <3>2 DEF OrdersOf
  <2>4. PICK i \in DOMAIN level : o = level[i]
    BY <2>3 DEF ToSet
  <2>5. {j \in DOMAIN level : level[j].oid = o.oid} = {i}
    <3>1. level \in Seq(Order)
      BY <2>1, <2>2, LevelAtFacts
    <3>. QED  BY <2>3, <2>4, <3>1, QueuedFacts
  <2>. QED  BY <2>1, <2>4, <2>5
<1>8. IndexIsTheBook
  <2>1. DOMAIN clob.book.oid_to_level = {o.oid : o \in Resting}
    BY <1>1, <1>5
  <2>2. ASSUME NEW o \in Resting
        PROVE  /\ CancelledOrders(clob.book, o.oid) = {o}
               /\ clob.book.oid_to_level[o.oid] = o.limit_price
    BY <1>1, <1>5, <1>6
  <2>3. ASSUME NEW o \in Resting
        PROVE  LET level == LevelAt(IF o.is_buy THEN clob.book.bids ELSE clob.book.asks,
                                    o.limit_price)
               IN  \E i \in DOMAIN level : {j \in DOMAIN level : level[j].oid = o.oid} = {i}
    BY <1>1, <1>7
  <2>. QED  BY <2>1, <2>2, <2>3 DEF IndexIsTheBook
<1>. QED  BY <1>4, <1>8 DEF BookAgrees

\* `limit', `cancel' (orderbook.rs) and `add_order' (lib.rs), which each change
\* a part, keep the levels, oid_to_level and order_status in agreement: `cancel'
\* finds whatever can be filled, once and where the index says, and a status goes
\* at the latest with its order.
THEOREM BookAgreesHolds == SettlementSpec => []BookAgrees
<1>1. SettlementInit => Agreement
  BY GenesisAgrees DEF SettlementInit, ClobInit, Agreement
<1>. QED  BY <1>1, AgreementInvariant, AgreementIsBookAgrees, SettlementInvariant, PTL
          DEF SettlementSpec
LEMMA Divided ==
  ASSUME NEW m \in Nat \ {0}, NEW n \in Int
  PROVE  /\ n \div m \in Int /\ n % m \in 0..(m - 1)
         /\ n = m * (n \div m) + (n % m)
  OBVIOUS

LEMMA ModShift ==
  ASSUME NEW m \in Nat \ {0}, NEW n \in Int, NEW k \in Int
  PROVE  (n + m * k) % m = n % m
<1>1. m * k \in Int
  OBVIOUS
<1>2. PICK p \in Int : p = n + m * k
  BY <1>1
<1>3. PICK q1 \in Int, r1 \in 0..(m - 1) : n = m * q1 + r1 /\ r1 = n % m
  BY Divided
<1>4. PICK q2 \in Int, r2 \in 0..(m - 1) : p = m * q2 + r2 /\ r2 = p % m
  BY Divided
<1>5. PICK d \in Int : d = q1 + k - q2
  OBVIOUS
<1>6. m * d = m * q1 + m * k - m * q2
  <2>1. m * (q1 + k - q2) = m * q1 + m * k - m * q2
    OBVIOUS
  <2>. QED  BY <1>5, <2>1
<1>7. m * d = r2 - r1
  <2>1. m * q1 \in Int /\ m * q2 \in Int
    OBVIOUS
  <2>2. PICK a \in Int, b \in Int, c \in Int : a = m * q1 /\ b = m * k /\ c = m * q2
    BY <1>1, <2>1
  <2>3. m * d = a + b - c
    BY <1>6, <2>2
  <2>4. n = a + r1 /\ p = n + b /\ p = c + r2
    BY <1>2, <1>3, <1>4, <2>2
  <2>5. a + b - c = r2 - r1
    BY <2>4
  <2>. QED  BY <2>3, <2>5
<1>8. CASE d >= 1
  <2>1. m * d >= m
    BY <1>8
  <2>. QED  BY <1>7, <2>1
<1>9. CASE d <= -1
  <2>1. m * d <= -m
    BY <1>9
  <2>. QED  BY <1>7, <2>1
<1>10. ASSUME d = 0 PROVE p % m = n % m
  <2>1. m * d = 0
    BY <1>10
  <2>2. r1 \in Int /\ r2 \in Int
    OBVIOUS
  <2>3. r1 = r2
    BY <1>7, <2>1, <2>2
  <2>. QED  BY <1>3, <1>4, <2>3
<1>. QED  BY <1>2, <1>8, <1>9, <1>10

Near(n, m) == \E k \in Int : n = m + Modulus * k

LEMMA NearFacts ==
  /\ \A n \in Int : Near(n, n) /\ Near(Wrap(n), n)
  /\ \A n, m \in Int : Near(n, m) => Wrap(n) = Wrap(m)
  /\ \A n, m, x, y \in Int : Near(n, m) /\ Near(x, y) => Near(n + x, m + y)
  /\ \A n, m, x, y, z \in Int : Near(n, m + x) /\ Near(m, z + y) => Near(n, z + x + y)
<1>1. Modulus \in Nat \ {0} /\ \A k \in Int : Modulus * k \in Int
  BY AmountAssumption
<1>2. \A n \in Int : Near(n, n)
  <2>1. Modulus * 0 = 0
    BY <1>1
  <2>2. \A n \in Int : n = n + 0
    OBVIOUS
  <2>. QED  BY <2>1, <2>2 DEF Near
<1>3. ASSUME NEW n \in Int
      PROVE  Near(Wrap(n), n)
  <2>1. PICK q \in Int, r \in Int : n = Modulus * q + r /\ r = n % Modulus
    <3>1. n \div Modulus \in Int /\ n % Modulus \in Int
      BY <1>1, Divided
    <3>. QED  BY <1>1, <3>1, Divided
  <2>2. PICK p \in Int : p = Modulus * q
    BY <1>1
  <2>3. -q \in Int /\ Modulus * (-q) = -p
    BY <1>1, <2>2
  <2>4. r = n + (-p)
    BY <2>1, <2>2
  <2>. QED  BY <2>1, <2>3, <2>4 DEF Near, Wrap
<1>4. \A n, m \in Int : Near(n, m) => Wrap(n) = Wrap(m)
  BY <1>1, ModShift DEF Near, Wrap
<1>5. ASSUME NEW n \in Int, NEW m \in Int, NEW x \in Int, NEW y \in Int,
             Near(n, m), Near(x, y)
      PROVE  Near(n + x, m + y)
  <2>1. PICK k \in Int, j \in Int : n = m + Modulus * k /\ x = y + Modulus * j
    BY <1>5 DEF Near
  <2>2. k + j \in Int /\ Modulus * (k + j) = Modulus * k + Modulus * j
    BY <1>1
  <2>3. PICK p \in Int, q \in Int : p = Modulus * k /\ q = Modulus * j
    BY <1>1
  <2>4. n = m + p /\ x = y + q /\ Modulus * (k + j) = p + q
    BY <2>1, <2>2, <2>3
  <2>5. n + x = m + y + Modulus * (k + j)
    BY <2>4
  <2>. QED  BY <2>2, <2>5 DEF Near
<1>6. ASSUME NEW n \in Int, NEW m \in Int, NEW x \in Int, NEW y \in Int, NEW z \in Int,
             Near(n, m + x), Near(m, z + y)
      PROVE  Near(n, z + x + y)
  <2>1. m + x \in Int /\ z + y \in Int /\ Near(x, x)
    BY <1>2
  <2>2. PICK k \in Int, j \in Int : n = m + x + Modulus * k /\ m = z + y + Modulus * j
    BY <1>6 DEF Near
  <2>3. k + j \in Int /\ Modulus * (k + j) = Modulus * k + Modulus * j
    BY <1>1
  <2>4. PICK p \in Int, q \in Int : p = Modulus * k /\ q = Modulus * j
    BY <1>1
  <2>5. n = m + x + p /\ m = z + y + q /\ Modulus * (k + j) = p + q
    BY <2>2, <2>3, <2>4
  <2>6. n = z + x + y + Modulus * (k + j)
    BY <2>5
  <2>. QED  BY <2>3, <2>6 DEF Near
<1>. QED  BY <1>2, <1>3, <1>4, <1>5, <1>6

\* All of the funds in g are those in f and an amount more, up to a multiple of
\* the modulus.
Moves(g, f, n) == FundsIn(f) \in Int /\ FundsIn(g) \in Int /\ Near(FundsIn(g), FundsIn(f) + n)

LEMMA MovesFacts ==
  ASSUME NEW f, NEW g, NEW n \in Int, Moves(g, f, n)
  PROVE  /\ \A h : \A m \in Int : Moves(h, g, m) => Moves(h, f, n + m)
         /\ n = 0 => Total(g) = Total(f)
<1>1. ASSUME NEW h, NEW m \in Int, Moves(h, g, m)
      PROVE  Moves(h, f, n + m)
  <2>1. PICK x \in Int, y \in Int, z \in Int : x = FundsIn(f) /\ y = FundsIn(g) /\ z = FundsIn(h)
    BY <1>1 DEF Moves
  <2>2. Near(z, y + m) /\ Near(y, x + n)
    BY <1>1, <2>1 DEF Moves
  <2>3. Near(z, x + m + n)
    BY <2>2, NearFacts
  <2>4. x + m + n = x + (n + m)
    OBVIOUS
  <2>. QED  BY <2>1, <2>3, <2>4 DEF Moves
<1>2. ASSUME n = 0 PROVE Total(g) = Total(f)
  <2>1. PICK x \in Int, y \in Int : x = FundsIn(f) /\ y = FundsIn(g)
    BY DEF Moves
  <2>2. Near(y, x) 
    <3>1. x + n = x
      BY <1>2
    <3>. QED  BY <2>1, <3>1 DEF Moves
  <2>3. Wrap(y) = Wrap(x)
    BY <2>2, NearFacts
  <2>. QED  BY <2>1, <2>3 DEF Total
<1>. QED  BY <1>1, <1>2

FundsOf(balances) == [u \in DOMAIN balances |-> balances[u].free + balances[u].locked]

LEMMA FundsFacts ==
  ASSUME NEW balances \in Balances
  PROVE  /\ IsFiniteSet(DOMAIN balances)
         /\ FundsOf(balances) \in [DOMAIN balances -> Int]
         /\ FundsIn(balances) = SumFunctionOnSet(FundsOf(balances), DOMAIN balances)
         /\ FundsIn(balances) \in Int
         /\ \A u \in DOMAIN balances :
               /\ balances[u].free \in Int /\ balances[u].locked \in Int
               /\ FundsOf(balances)[u] = balances[u].free + balances[u].locked
<1>1. /\ DOMAIN balances \in SUBSET User
      /\ \A u \in DOMAIN balances : balances[u] \in AssetBalance
  BY MapsFacts DEF Balances
<1>2. IsFiniteSet(DOMAIN balances)
  BY <1>1, UserAssumption, FS_Subset
<1>3. \A b \in AssetBalance : b.free \in Int /\ b.locked \in Int
  <2>1. \A b \in AssetBalance : b.free \in U64 /\ b.locked \in U64
    BY DEF AssetBalance
  <2>. QED  BY <2>1, U64Facts
<1>4. \A u \in DOMAIN balances : /\ balances[u].free \in Int /\ balances[u].locked \in Int
                                 /\ balances[u].free + balances[u].locked \in Int
  <2>1. \A x, y \in Int : x + y \in Int
    OBVIOUS
  <2>. QED  BY <1>1, <1>3, <2>1
<1>5. FundsOf(balances) \in [DOMAIN balances -> Int]
  BY <1>4 DEF FundsOf
<1>6. FundsIn(balances) = SumFunctionOnSet(FundsOf(balances), DOMAIN balances)
  BY DEF FundsIn, FundsOf
<1>7. SumFunctionOnSet(FundsOf(balances), DOMAIN balances) \in Int
  <2>1. PICK f, D : f = FundsOf(balances) /\ D = DOMAIN balances
    OBVIOUS
  <2>2. IsFiniteSet(D) /\ f \in [D -> Int]
    BY <1>2, <1>5, <2>1
  <2>. QED  BY <2>1, <2>2, SumIsInt
<1>. QED  BY <1>2, <1>4, <1>5, <1>6, <1>7 DEF FundsOf

\* One account has an amount more, up to a multiple of the modulus.
Shifted(g, f, user, delta, k) ==
    /\ FundsOf(g)[user] = FundsOf(f)[user] + (delta + Modulus * k)
    /\ \A u \in DOMAIN f : u # user => FundsOf(g)[u] = FundsOf(f)[u]

LEMMA AdjustShifts ==
  ASSUME NEW balances \in Balances, NEW user \in DOMAIN balances,
         NEW field \in {"free", "locked"}, NEW delta \in Int
  PROVE  /\ Adjust(balances, user, field, delta) \in Balances
         /\ DOMAIN Adjust(balances, user, field, delta) = DOMAIN balances
         /\ \E k \in Int : Shifted(Adjust(balances, user, field, delta), balances, user, delta, k)
<1>1. PICK after : after = Adjust(balances, user, field, delta)
  OBVIOUS
<1>2. after \in Balances /\ DOMAIN after = DOMAIN balances
  BY <1>1, AdjustFacts
<1>3. after = [balances EXCEPT ![user][field] = Wrap(@ + delta)]
  BY <1>1 DEF Adjust
<1>4. PICK D, f, h : D = DOMAIN balances /\ f = FundsOf(balances) /\ h = FundsOf(after)
  OBVIOUS
<1>5. /\ IsFiniteSet(D) /\ f \in [D -> Int] /\ h \in [D -> Int] /\ user \in D
      /\ FundsIn(balances) = SumFunctionOnSet(f, D) /\ FundsIn(balances) \in Int
      /\ FundsIn(after) = SumFunctionOnSet(h, D) /\ FundsIn(after) \in Int
  BY <1>2, <1>4, FundsFacts
<1>6. /\ \A u \in D : balances[u].free \in Int /\ balances[u].locked \in Int
      /\ \A u \in D : f[u] = balances[u].free + balances[u].locked
      /\ \A u \in D : h[u] = after[u].free + after[u].locked
  BY <1>2, <1>4, FundsFacts
<1>7. \A u \in D : u # user => after[u] = balances[u]
  BY <1>2, <1>3, <1>4
<1>8. \A u \in D : u # user => h[u] = f[u]
  BY <1>6, <1>7
<1>9. PICK x \in Int, y \in Int : x = balances[user].free /\ y = balances[user].locked
  BY <1>5, <1>6
<1>10. PICK w \in Int : \E z \in {x, y} : w = z /\ z = balances[user][field]
  BY <1>9
<1>11. Wrap(w + delta) \in Int /\ w + delta \in Int
  BY WrapFacts, U64Facts
<1>12. PICK k \in Int : Wrap(w + delta) = w + delta + Modulus * k
  BY <1>11, NearFacts DEF Near
<1>13. PICK p \in Int : p = Modulus * k
  <2>1. Modulus * k \in Int
    BY AmountAssumption
  <2>. QED  BY <2>1
<1>14. h[user] = f[user] + (delta + p)
  <2>1. PICK v \in Int : v = Wrap(w + delta) /\ v = w + delta + p
    BY <1>11, <1>12, <1>13
  <2>2. PICK b : b = balances[user]
    OBVIOUS
  <2>3. b \in AssetBalance /\ b.free = x /\ b.locked = y /\ b[field] = w
    BY <1>4, <1>9, <1>10, <2>2, MapsFacts DEF Balances
  <2>4. after[user] = [b EXCEPT ![field] = v]
    <3>1. after[user] = [balances[user] EXCEPT ![field] = Wrap(@ + delta)]
      BY <1>3
    <3>. QED  BY <2>1, <2>2, <2>3, <3>1
  <2>5. CASE field = "free"
    <3>1. after[user].free = v /\ after[user].locked = y /\ w = x
      BY <2>3, <2>4, <2>5 DEF AssetBalance
    <3>. QED  BY <1>5, <1>6, <1>9, <2>1, <3>1
  <2>6. CASE field = "locked"
    <3>1. after[user].free = x /\ after[user].locked = v /\ w = y
      BY <2>3, <2>4, <2>6 DEF AssetBalance
    <3>. QED  BY <1>5, <1>6, <1>9, <2>1, <3>1
  <2>. QED  BY <2>5, <2>6
<1>. QED  BY <1>1, <1>2, <1>4, <1>8, <1>13, <1>14 DEF Shifted

LEMMA AdjustMoves ==
  ASSUME NEW balances \in Balances, NEW user \in DOMAIN balances,
         NEW field \in {"free", "locked"}, NEW delta \in Int
  PROVE  Moves(Adjust(balances, user, field, delta), balances, delta)
<1>1. PICK after : after = Adjust(balances, user, field, delta)
  OBVIOUS
<1>2. PICK k \in Int : /\ after \in Balances /\ DOMAIN after = DOMAIN balances
                      /\ Shifted(after, balances, user, delta, k)
  BY <1>1, AdjustShifts
<1>3. PICK D, f, h : D = DOMAIN balances /\ f = FundsOf(balances) /\ h = FundsOf(after)
  OBVIOUS
<1>4. /\ IsFiniteSet(D) /\ f \in [D -> Int] /\ h \in [D -> Int] /\ user \in D
      /\ FundsIn(balances) = SumFunctionOnSet(f, D) /\ FundsIn(balances) \in Int
      /\ FundsIn(after) = SumFunctionOnSet(h, D) /\ FundsIn(after) \in Int
  BY <1>2, <1>3, FundsFacts
<1>5. PICK p \in Int, n \in Int : p = Modulus * k /\ n = delta + p
  <2>1. Modulus * k \in Int
    BY AmountAssumption
  <2>. QED  BY <2>1
<1>6. h[user] = f[user] + n /\ \A u \in D : u # user => h[u] = f[u]
  BY <1>2, <1>3, <1>5 DEF Shifted
<1>7. SumFunctionOnSet(h, D) = SumFunctionOnSet(f, D) + n
  BY <1>4, <1>6, SumWithMore
<1>8. FundsIn(after) = FundsIn(balances) + delta + Modulus * k
  <2>1. PICK a \in Int, c \in Int : a = FundsIn(after) /\ c = FundsIn(balances)
    BY <1>4
  <2>2. a = c + n
    BY <1>4, <1>7, <2>1
  <2>3. a = c + delta + p
    BY <1>5, <2>2
  <2>. QED  BY <1>5, <2>1, <2>3
<1>. QED  BY <1>1, <1>4, <1>8 DEF Moves, Near

LEMMA UnlockMoves ==
  ASSUME NEW balances \in Balances, NEW user \in DOMAIN balances, NEW amount \in Int
  PROVE  /\ Moves(Unlock(balances, user, amount), balances, 0)
         /\ Moves(Lock(balances, user, amount), balances, 0)
<1>1. ASSUME NEW n \in Int
      PROVE  Moves(Unlock(balances, user, n), balances, 0)
  <2>1. PICK m \in Int : m = -n
    <3>1. -n \in Int
      OBVIOUS
    <3>. QED  BY <3>1
  <2>2. PICK once, twice : /\ once = Adjust(balances, user, "free", n)
                           /\ twice = Adjust(once, user, "locked", m)
    OBVIOUS
  <2>3. once \in Balances /\ user \in DOMAIN once /\ Moves(once, balances, n)
    BY <2>2, AdjustFacts, AdjustMoves
  <2>4. Moves(twice, once, m)
    BY <2>2, <2>3, AdjustMoves
  <2>5. Moves(twice, balances, n + m)
    BY <2>3, <2>4, MovesFacts
  <2>6. n + m = 0
    BY <2>1
  <2>. QED  BY <2>1, <2>2, <2>5, <2>6 DEF Unlock
<1>2. PICK m \in Int : m = -amount
  <2>1. -amount \in Int
    OBVIOUS
  <2>. QED  BY <2>1
<1>. QED  BY <1>1, <1>2 DEF Lock

\* A fill between two accounts.
LEMMA SettleFillMoves ==
  ASSUME NEW order \in Order, NEW s0, NEW s \in Settling(s0), NEW fill \in Fill,
         Buyer(order, fill) \in DOMAIN s.base \cap DOMAIN s.quote,
         Seller(order, fill) \in DOMAIN s.base \cap DOMAIN s.quote
  PROVE  /\ Moves(SettleFill(order, s, fill).base, s.base, 0)
         /\ Moves(SettleFill(order, s, fill).quote, s.quote, 0)
<1>0. fill.size \in Int /\ FillQuote(fill) \in Int
  BY FillFacts, U64Facts
<1>1. PICK buyer \in {Buyer(order, fill)}, seller \in {Seller(order, fill)},
           size \in Int, quote \in Int :
         /\ buyer = Buyer(order, fill) /\ seller = Seller(order, fill)
         /\ size = fill.size /\ quote = FillQuote(fill)
  BY <1>0
<1>2. PICK lessSize \in Int, lessQuote \in Int : lessSize = -size /\ lessQuote = -quote
  OBVIOUS
<1>3. PICK base1, base2, quote1, quote2, counted :
         /\ base1 = Adjust(s.base, seller, "locked", lessSize)
         /\ base2 = Adjust(base1, buyer, "free", size)
         /\ quote1 = Adjust(s.quote, seller, "free", quote)
         /\ quote2 = Adjust(quote1, buyer, "locked", lessQuote)
         /\ counted = CountFill(s.order_status, fill)
  OBVIOUS
<1>4. s \in State /\ s.base \in Balances /\ s.quote \in Balances
  BY StateFacts DEF Settling
<1>5. base1 \in Balances /\ DOMAIN base1 = DOMAIN s.base /\ Moves(base1, s.base, lessSize)
  BY <1>1, <1>3, <1>4, AdjustFacts, AdjustMoves
<1>6. quote1 \in Balances /\ DOMAIN quote1 = DOMAIN s.quote /\ Moves(quote1, s.quote, quote)
  BY <1>1, <1>3, <1>4, AdjustFacts, AdjustMoves
<1>7. Moves(base2, base1, size)
  BY <1>1, <1>3, <1>5, AdjustMoves
<1>8. Moves(quote2, quote1, lessQuote)
  BY <1>1, <1>3, <1>6, AdjustMoves
<1>9. Moves(base2, s.base, lessSize + size) /\ Moves(quote2, s.quote, quote + lessQuote)
  BY <1>5, <1>6, <1>7, <1>8, MovesFacts
<1>10. lessSize + size = 0 /\ quote + lessQuote = 0
  BY <1>2
<1>11. SettleFill(order, s, fill)
          = [s EXCEPT !.base = base2, !.quote = quote2, !.order_status = counted]
  BY <1>1, <1>2, <1>3 DEF SettleFill
<1>12. PICK after : after = [s EXCEPT !.base = base2, !.quote = quote2, !.order_status = counted]
  OBVIOUS
<1>13. after.base = base2 /\ after.quote = quote2
  BY <1>4, <1>12 DEF State
<1>. QED  BY <1>9, <1>10, <1>11, <1>12, <1>13

\* No balance of g is more than it is in f, all of them together.
SameFunds(g, f) == Moves(g.base, f.base, 0) /\ Moves(g.quote, f.quote, 0)

LEMMA SameFundsFacts ==
  /\ \A f : f \in State => SameFunds(f, f)
  /\ \A f, g, h : SameFunds(h, g) /\ SameFunds(g, f) => SameFunds(h, f)
  /\ \A f, g : SameFunds(g, f) => Total(g.base) = Total(f.base) /\ Total(g.quote) = Total(f.quote)
<1>1. ASSUME NEW f, f \in State
      PROVE  SameFunds(f, f)
  <2>1. f.base \in Balances /\ f.quote \in Balances
    BY <1>1, StateFacts
  <2>2. PICK x \in Int, y \in Int : x = FundsIn(f.base) /\ y = FundsIn(f.quote)
    BY <2>1, FundsFacts
  <2>3. x + 0 = x /\ y + 0 = y
    OBVIOUS
  <2>. QED  BY <2>2, <2>3, NearFacts DEF SameFunds, Moves
<1>2. 0 + 0 = 0 /\ 0 \in Int
  OBVIOUS
<1>3. ASSUME NEW f, NEW g, NEW h, SameFunds(h, g), SameFunds(g, f)
      PROVE  SameFunds(h, f)
  <2>. DEFINE zero == 0
  <2>1. /\ Moves(h.base, g.base, zero) /\ Moves(g.base, f.base, zero)
        /\ Moves(h.quote, g.quote, zero) /\ Moves(g.quote, f.quote, zero)
        /\ zero \in Int /\ zero + zero = zero
    BY <1>3 DEF SameFunds
  <2>. HIDE DEF zero
  <2>2. Moves(h.base, f.base, zero + zero) /\ Moves(h.quote, f.quote, zero + zero)
    BY <2>1, MovesFacts
  <2>. QED  BY <2>1, <2>2 DEF SameFunds, zero
<1>4. ASSUME NEW f, NEW g, SameFunds(g, f)
      PROVE  Total(g.base) = Total(f.base) /\ Total(g.quote) = Total(f.quote)
  <2>. DEFINE zero == 0
  <2>1. Moves(g.base, f.base, zero) /\ Moves(g.quote, f.quote, zero) /\ zero \in Int /\ zero = 0
    BY <1>4 DEF SameFunds
  <2>. HIDE DEF zero
  <2>. QED  BY <2>1, MovesFacts
<1>. QED  BY <1>1, <1>3, <1>4

LEMMA SettleFillsMove ==
  ASSUME NEW order \in Order, NEW s0 \in State, NEW fills \in Seq(Fill),
         order.address \in DOMAIN s0.base \cap DOMAIN s0.quote,
         \A i \in DOMAIN fills :
            fills[i].maker.address \in DOMAIN s0.base \cap DOMAIN s0.quote
  PROVE  SameFunds(SettleFills(order, s0, fills), s0)
<1>1. IsStep(SettleSteps(order, s0), Settling(s0), Fill) /\ s0 \in Settling(s0)
  BY SettleStepsIsStep
<1>2. PICK f : Runs(f, Settling(s0), SettleSteps(order, s0), s0, fills)
  BY <1>1, FoldRuns
<1>3. PICK n \in Nat : n = Len(fills) /\ DOMAIN fills = 1..n /\ \A i \in 1..n : fills[i] \in Fill
  OBVIOUS
<1>4. /\ f[0] = s0 /\ f[n] = Folded(SettleSteps(order, s0), s0, fills)
      /\ \A i \in 0..n : f[i] \in Settling(s0)
      /\ \A i \in 0..(n - 1) : f[i + 1] = SettleSteps(order, s0)[f[i]][fills[i + 1]]
  BY <1>2, <1>3 DEF Runs
<1>. DEFINE F == {i \in 0..n : SameFunds(f[i], s0)}
<1>5. 0 \in F
  BY <1>3, <1>4, SameFundsFacts
<1>6. ASSUME NEW i \in 0..(n - 1), i \in F
      PROVE  i + 1 \in F
  <2>1. i \in 0..n /\ i + 1 \in 1..n /\ i + 1 \in 0..n
    BY <1>3
  <2>2. PICK s \in Settling(s0), fill \in Fill : s = f[i] /\ fill = fills[i + 1]
    BY <1>3, <1>4, <2>1
  <2>3. f[i + 1] = SettleFill(order, s, fill)
    <3>1. f[i + 1] = SettleSteps(order, s0)[s][fill]
      BY <1>4, <2>2
    <3>2. SettleSteps(order, s0)[s][fill] = SettleFill(order, s, fill)
      BY SettleFillFacts
    <3>. QED  BY <3>1, <3>2
  <2>4. fill.maker.address \in DOMAIN s0.base \cap DOMAIN s0.quote
    BY <1>3, <2>1, <2>2
  <2>5. DOMAIN s.base = DOMAIN s0.base /\ DOMAIN s.quote = DOMAIN s0.quote
    BY DEF Settling
  <2>6. /\ Buyer(order, fill) \in DOMAIN s.base \cap DOMAIN s.quote
        /\ Seller(order, fill) \in DOMAIN s.base \cap DOMAIN s.quote
    BY <2>4, <2>5 DEF Buyer, Seller
  <2>7. SameFunds(f[i + 1], s)
    BY <2>3, <2>6, SettleFillMoves DEF SameFunds
  <2>8. SameFunds(s, s0)
    BY <1>6, <2>2
  <2>9. SameFunds(f[i + 1], s0)
    BY <2>7, <2>8, SameFundsFacts
  <2>. QED  BY <2>1, <2>9
<1>. HIDE DEF F
<1>7. 0..n \subseteq F
  BY <1>3, <1>5, <1>6, InductionUpTo
<1>8. n \in F
  BY <1>3, <1>7
<1>9. SameFunds(f[n], s0)
  BY <1>8 DEF F
<1>. QED  BY <1>4, <1>9, SettleIsFolded

LEMMA SameBalances ==
  ASSUME NEW state \in State, NEW after, after.base = state.base, after.quote = state.quote
  PROVE  SameFunds(after, state)
<1>1. SameFunds(state, state)
  BY SameFundsFacts
<1>. QED  BY <1>1 DEF SameFunds

LEMMA AddOrderFunds ==
  ASSUME NEW state, Sound(state), Agreed(state), NEW req \in AddOrderRequest,
         \A o \in OrdersOf(state.book) : o.address \in DOMAIN state.base
  PROVE  SameFunds(add_order(req, state).state, state)
<1>1. PICK out : out = add_order(req, state)
  OBVIOUS
<1>2. /\ state \in State /\ state.book \in Book /\ state.oid \in Nat
      /\ state.base \in Balances /\ state.quote \in Balances
      /\ NotCrossed(state.book) /\ DOMAIN state.quote = DOMAIN state.base
  BY StateFacts DEF Sound
<1>3. Indexed(state.book) /\ \A oid \in DOMAIN state.book.oid_to_level : oid < state.oid
  BY DEF Agreed
<1>4. CASE out = Outcome(FALSE, state, <<>>)
  <2>1. out.state = state
    BY <1>4 DEF Outcome
  <2>. QED  BY <1>1, <1>2, <2>1, SameBalances
<1>5. CASE out = Outcome(FALSE, [state EXCEPT !.oid = @ + 1], <<>>)
  <2>1. PICK oid \in Nat : oid = state.oid + 1
    BY <1>2
  <2>2. PICK after : after = [state EXCEPT !.oid = oid]
    OBVIOUS
  <2>3. out.state = after
    <3>1. [state EXCEPT !.oid = @ + 1] = after
      BY <2>1, <2>2
    <3>. QED  BY <1>5, <3>1 DEF Outcome
  <2>4. after.base = state.base /\ after.quote = state.quote
    BY <1>2, <2>2 DEF State
  <2>. QED  BY <1>1, <1>2, <2>3, <2>4, SameBalances
<1>6. ASSUME NEW order \in Order, NEW locked \in State, NEW settled \in State,
             NEW status \in FillStatus,
             Placed(add_order(req, state), state, order, locked, settled, status)
      PROVE  SameFunds(out.state, state)
  <2>1. PICK limit : limit = Limit(state.book, order)
    OBVIOUS
  <2>2. /\ DOMAIN locked.base = DOMAIN state.base /\ DOMAIN locked.quote = DOMAIN state.quote
        /\ Charged(locked, state, order) /\ order.oid = state.oid
        /\ settled = SettleFills(order, locked, limit.fills)
        /\ out.state = IF limit.remaining = 0 THEN settled
                       ELSE [settled EXCEPT !.order_status = Put(@, order.oid, status)]
    BY <1>1, <1>6, <2>1 DEF Placed
  <2>3. limit.fills \in Seq(Fill)
    BY <1>2, <2>1, LimitFacts
  <2>4. IsNew(state.book, order)
    BY <1>3, <2>2 DEF IsNew
  <2>5. PICK mid : Took(limit.fills, OrdersOf(state.book), mid)
    <3>1. \E mid : Left(limit, OrdersOf(state.book), order, mid)
      BY <1>2, <1>3, <2>1, <2>4, LimitLeaves
    <3>. QED  BY <3>1 DEF Left
  <2>6. \A i \in DOMAIN limit.fills :
           limit.fills[i].maker.address \in DOMAIN locked.base \cap DOMAIN locked.quote
    BY <1>2, <2>2, <2>5 DEF Took
  <2>7. order.address \in DOMAIN locked.base \cap DOMAIN locked.quote
    BY <2>2 DEF Charged
  <2>8. SameFunds(settled, locked)
    BY <2>2, <2>3, <2>6, <2>7, SettleFillsMove
  <2>9. SameFunds(locked, state)
    <3>1. PICK base \in Int, quote \in Int, user \in {order.address} :
             /\ user = order.address
             /\ base = IF order.is_buy THEN 0 ELSE order.size
             /\ quote = IF order.is_buy THEN QuoteSize(order) ELSE 0
      <4>1. order.size \in Int /\ order.limit_price \in Int
        BY OrderFacts, U64Facts
      <4>2. QuoteSize(order) \in Int
        <5>1. PICK x \in Int, y \in Int : x = order.size /\ y = order.limit_price
          BY <4>1
        <5>2. x * y \in Int
          OBVIOUS
        <5>. QED  BY <5>1, <5>2, WrapFacts, U64Facts DEF QuoteSize
      <4>. QED  BY <4>1, <4>2
    <3>2. /\ locked.base = Lock(state.base, user, base)
          /\ locked.quote = Lock(state.quote, user, quote)
          /\ user \in DOMAIN state.base /\ user \in DOMAIN state.quote
      BY <2>2, <3>1 DEF Charged
    <3>. QED  BY <1>2, <3>2, UnlockMoves DEF SameFunds
  <2>10. SameFunds(settled, state)
    BY <2>8, <2>9, SameFundsFacts
  <2>11. PICK statuses : statuses = Put(settled.order_status, order.oid, status)
    OBVIOUS
  <2>12. PICK more : more = [settled EXCEPT !.order_status = statuses]
    OBVIOUS
  <2>13. more.base = settled.base /\ more.quote = settled.quote
    BY <2>12 DEF State
  <2>14. SameFunds(more, state)
    BY <2>10, <2>13 DEF SameFunds
  <2>15. out.state \in {settled, more}
    BY <2>2, <2>11, <2>12
  <2>. QED  BY <2>10, <2>14, <2>15
<1>. QED  BY <1>1, <1>4, <1>5, <1>6, AddOrderFacts

\* A cancellation unlocks funds of one account at most, and its diff says so.
Unlocks(after, f) ==
    \/ after.base = f.base /\ after.quote = f.quote
    \/ \E user \in DOMAIN f.base, n \in Int :
          after.base = Unlock(f.base, user, n) /\ after.quote = f.quote
    \/ \E user \in DOMAIN f.quote, n \in Int :
          after.quote = Unlock(f.quote, user, n) /\ after.base = f.base

Cancels(diffs) == diffs = <<>> \/ \E diff \in UserDiff : diff.kind = "cancel" /\ diffs = <<diff>>

LEMMA CancelOutcome ==
  ASSUME NEW state, Sound(state), NEW req
  PROVE  /\ Unlocks(cancel_order(req, state).state, state)
         /\ Cancels(cancel_order(req, state).diffs)
<1>1. /\ state \in State /\ state.base \in Balances /\ state.quote \in Balances
      /\ state.book \in Book /\ state.order_status \in Statuses
  BY StateFacts DEF Sound
<1>2. PICK oid, book, found, statuses, out :
         /\ oid = req.oid /\ book = state.book /\ statuses = state.order_status
         /\ found = CancelledOrders(book, oid) /\ out = cancel_order(req, state)
  OBVIOUS
<1>3. CASE found = {}
  <2>1. PICK book2, after : /\ book2 = [book EXCEPT !.oid_to_level = Without(@, oid)]
                            /\ after = [state EXCEPT !.book = book2]
    OBVIOUS
  <2>2. after.base = state.base /\ after.quote = state.quote
    BY <1>1, <2>1 DEF State
  <2>3. out.state = after /\ out.diffs = <<>>
    BY <1>1, <1>2, <1>3, <2>1 DEF cancel_order, RestrictDomain, Without, State, Outcome
  <2>. QED  BY <1>2, <2>2, <2>3 DEF Unlocks, Cancels
<1>4. CASE found # {}
  <2>1. PICK order \in found : order = CHOOSE o \in found : TRUE
    BY <1>4
  <2>2. PICK book2, less, unbooked, closed :
           /\ book2 = CancelInBook(book, order) /\ less = Without(statuses, oid)
           /\ unbooked = [state EXCEPT !.book = book2]
           /\ closed = [unbooked EXCEPT !.order_status = less]
    OBVIOUS
  <2>3. /\ unbooked.base = state.base /\ unbooked.quote = state.quote
        /\ closed.base = state.base /\ closed.quote = state.quote
        /\ \A b : /\ [closed EXCEPT !.base = b].base = b
                  /\ [closed EXCEPT !.base = b].quote = state.quote
                  /\ [closed EXCEPT !.quote = b].base = state.base
                  /\ [closed EXCEPT !.quote = b].quote = b
    BY <1>1, <2>2 DEF State
  <2>4. CASE oid \notin DOMAIN statuses
    <3>1. out.state = unbooked /\ out.diffs = <<>>
      BY <1>2, <1>4, <2>1, <2>2, <2>4 DEF cancel_order, Outcome
    <3>. QED  BY <1>2, <2>3, <3>1 DEF Unlocks, Cancels
  <2>5. CASE oid \in DOMAIN statuses
    <3>1. PICK owner, balances : /\ owner = order.address
                                 /\ balances = IF order.is_buy THEN state.quote ELSE state.base
      OBVIOUS
    <3>2. ASSUME NEW x \in Int, NEW y \in Int, owner \in User,
                 out.diffs = <<Diff("cancel", owner, Both(x, y))>>
          PROVE  Cancels(out.diffs)
      <4>1. PICK amounts \in Amounts : amounts = Both(x, y)
        BY BothFacts
      <4>2. Diff("cancel", owner, amounts) \in UserDiff
        BY <3>2 DEF Diff, UserDiff
      <4>. QED  BY <3>2, <4>1, <4>2 DEF Cancels, Diff
    <3>3. CASE owner \notin DOMAIN balances
      <4>1. out = Outcome(FALSE, closed, <<>>)
        BY <1>2, <1>4, <2>1, <2>2, <2>5, <3>1, <3>3
           DEF cancel_order, RestrictDomain, Without
      <4>2. out.state = closed /\ out.diffs = <<>>
        BY <4>1 DEF Outcome
      <4>. QED  BY <1>2, <2>3, <4>2 DEF Unlocks, Cancels
    <3>4. owner \in User /\ order.size \in Int /\ QuoteSize(order) \in Int
      <4>1. order \in Order
        BY <1>1, <1>2, <2>1, CancelFacts
      <4>2. PICK x \in Int, y \in Int : x = order.size /\ y = order.limit_price
        BY <4>1, OrderFacts, U64Facts
      <4>3. x * y \in Int
        OBVIOUS
      <4>. QED  BY <3>1, <4>1, <4>2, <4>3, OrderFacts, WrapFacts, U64Facts DEF QuoteSize
    <3>5. statuses[oid].filled_size \in Int /\ statuses[oid].filled_quote \in Int
      BY <1>1, <1>2, <2>5, StatusFacts, U64Facts
    <3>6. CASE owner \in DOMAIN balances /\ order.is_buy
      <4>1. PICK n \in Int : n = QuoteSize(order) - statuses[oid].filled_quote
        <5>1. QuoteSize(order) - statuses[oid].filled_quote \in Int
          BY <3>4, <3>5
        <5>. QED  BY <5>1
      <4>2. PICK quote : quote = Unlock(state.quote, owner, n)
        OBVIOUS
      <4>3. /\ out.state = [closed EXCEPT !.quote = quote]
            /\ out.diffs = <<Diff("cancel", owner, Both(0, QuoteSize(order)))>>
        <5>1. quote = Unlock(closed.quote, owner,
                             QuoteSize(order) - state.order_status[oid].filled_quote)
          BY <1>2, <2>3, <4>1, <4>2
        <5>. QED  BY <1>2, <1>4, <2>1, <2>2, <2>5, <3>1, <3>6, <5>1
                  DEF cancel_order, RestrictDomain, Without, Outcome
      <4>4. out.state.base = state.base /\ out.state.quote = quote
        BY <2>3, <4>3
      <4>5. Cancels(out.diffs)
        BY <3>2, <3>4, <4>3
      <4>. QED  BY <1>2, <3>1, <3>6, <4>2, <4>4, <4>5 DEF Unlocks
    <3>7. CASE owner \in DOMAIN balances /\ ~order.is_buy
      <4>1. PICK n \in Int : n = order.size - statuses[oid].filled_size
        <5>1. order.size - statuses[oid].filled_size \in Int
          BY <3>4, <3>5
        <5>. QED  BY <5>1
      <4>2. PICK base : base = Unlock(state.base, owner, n)
        OBVIOUS
      <4>3. /\ out.state = [closed EXCEPT !.base = base]
            /\ out.diffs = <<Diff("cancel", owner, Both(order.size, 0))>>
        <5>1. base = Unlock(closed.base, owner,
                            order.size - state.order_status[oid].filled_size)
          BY <1>2, <2>3, <4>1, <4>2
        <5>. QED  BY <1>2, <1>4, <2>1, <2>2, <2>5, <3>1, <3>7, <5>1
                  DEF cancel_order, RestrictDomain, Without, Outcome
      <4>4. out.state.base = base /\ out.state.quote = state.quote
        BY <2>3, <4>3
      <4>5. Cancels(out.diffs)
        BY <3>2, <3>4, <4>3
      <4>. QED  BY <1>2, <3>1, <3>7, <4>2, <4>4, <4>5 DEF Unlocks
    <3>. QED  BY <3>3, <3>6, <3>7
  <2>. QED  BY <2>4, <2>5
<1>. QED  BY <1>2, <1>3, <1>4

LEMMA CancelFunds ==
  ASSUME NEW state, Sound(state), NEW req
  PROVE  SameFunds(cancel_order(req, state).state, state)
<1>1. state \in State /\ state.base \in Balances /\ state.quote \in Balances
  BY StateFacts DEF Sound
<1>2. PICK after : after = cancel_order(req, state).state
  OBVIOUS
<1>3. SameFunds(state, state)
  BY <1>1, SameFundsFacts
<1>4. Unlocks(after, state)
  BY <1>2, CancelOutcome
<1>5. CASE after.base = state.base /\ after.quote = state.quote
  BY <1>1, <1>2, <1>5, SameBalances
<1>6. ASSUME NEW user \in DOMAIN state.base, NEW n \in Int,
             after.base = Unlock(state.base, user, n), after.quote = state.quote
      PROVE  SameFunds(after, state)
  BY <1>1, <1>3, <1>6, UnlockMoves DEF SameFunds
<1>7. ASSUME NEW user \in DOMAIN state.quote, NEW n \in Int,
             after.quote = Unlock(state.quote, user, n), after.base = state.base
      PROVE  SameFunds(after, state)
  BY <1>1, <1>3, <1>7, UnlockMoves DEF SameFunds
<1>. QED  BY <1>2, <1>4, <1>5, <1>6, <1>7 DEF Unlocks

\* A request that brings or takes no funds.
FundsKept ==
    (clob.oid' # clob.oid \/ Resting' # Resting) /\ Owners(Resting) \subseteq DOMAIN clob.base
       => Total(clob'.base) = Total(clob.base) /\ Total(clob'.quote) = Total(clob.quote)

LEMMA NextKeepsFunds ==
  SettlementInv /\ Agreement /\ [SettlementNext]_settlementVars => [FundsKept]_clob
<1>. SUFFICES ASSUME SettlementInv, Agreed(clob), [SettlementNext]_settlementVars,
                     clob.oid' # clob.oid \/ Resting' # Resting,
                     Owners(Resting) \subseteq DOMAIN clob.base
              PROVE  clob' = clob \/ SameFunds(clob', clob)
  BY SameFundsFacts DEF FundsKept, Agreement
<1>1. Sound(clob) /\ clob \in State
  BY DEF SettlementInv, Sound
<1>2. \A o \in OrdersOf(clob.book) : o.address \in DOMAIN clob.base
  BY DEF Owners, Resting, OrdersOf
<1>3. clob'.oid # clob.oid \/ clob'.book # clob.book
  BY DEF Resting
<1>4. ASSUME NEW req, clob' = deposit(req, clob).state
      PROVE  FALSE
  BY <1>1, <1>3, <1>4, DepositAgrees DEF SameBook
<1>5. ASSUME NEW req, clob' = withdraw(req, clob).state
      PROVE  FALSE
  BY <1>1, <1>3, <1>5, WithdrawAgrees DEF SameBook
<1>6. ASSUME CreditDeposit PROVE FALSE
  BY <1>4, <1>6 DEF CreditDeposit, Deposit
<1>7. ASSUME NEW req \in Trades, RequestOrder(req)
      PROVE  SameFunds(clob', clob)
  <2>1. req \in AddOrderRequest /\ clob' = add_order(req, clob).state
    BY <1>7, AmountAssumption DEF RequestOrder, AddOrder
  <2>. QED  BY <1>1, <1>2, <2>1, AddOrderFunds
<1>8. ASSUME NEW req, RequestCancel(req)
      PROVE  SameFunds(clob', clob)
  BY <1>1, <1>8, CancelFunds DEF RequestCancel, CancelOrder
<1>9. ASSUME NEW req, RequestWithdraw(req) PROVE FALSE
  BY <1>5, <1>9 DEF RequestWithdraw, Withdraw
<1>10. CASE Settle \/ UNCHANGED settlementVars \/ \E req \in Deposits : DepositOnChain(req)
  BY <1>10 DEF Settle, settlementVars, DepositOnChain
<1>. QED  BY <1>6, <1>7, <1>8, <1>9, <1>10 DEF SettlementNext

\* Orders and cancellations neither mint nor burn funds, whatever fills they
\* make: what is taken from one account or kind of balance is given to another,
\* as u64 wraps (`lock_base', `cancel_order' and the loop over fills of `add_order'
\* in lib.rs), while those whose orders rest have accounts.
THEOREM TradesConserveFundsHolds == SettlementSpec => TradesConserveFunds
<1>1. SettlementInit => Agreement
  BY GenesisAgrees DEF SettlementInit, ClobInit, Agreement
<1>2. [FundsKept]_clob =>
         [(clob.oid' # clob.oid \/ Resting' # Resting) /\ Owners(Resting) \subseteq DOMAIN clob.base
             => /\ Total(clob'.base) = Total(clob.base)
                /\ Total(clob'.quote) = Total(clob.quote)]_clob
  BY DEF FundsKept
<1>. QED  BY <1>1, <1>2, AgreementInvariant, NextKeepsFunds, SettlementInvariant, PTL
          DEF SettlementSpec, TradesConserveFunds

-----------------------------------------------------------------------------
(* Price-time priority.  What an order takes from a set of orders, as the    *)
(* abstract auction says, grows by one order at a time, the last one served. *)

Over(n) == IF n <= 0 THEN 0 ELSE n

\* What an order of size n gets from m, one of the orders K.
Got(n, K, m) ==
    LET left == n - Promise!SizeOf({k \in K : Promise!Before(k, m)})
    IN  IF left <= 0 THEN 0 ELSE Min({left, m.size})

Reduce(n, K) == {[m EXCEPT !.size = @ - Got(n, K, m)] : m \in {k \in K : Got(n, K, k) < k.size}}

\* An order of size n has taken what it gets from K: so much remains of it, and
\* this of K.
Served(n, K, r, A) ==
    /\ K \subseteq Order /\ IsFiniteSet(K)
    /\ r = Over(n - Promise!SizeOf(K))
    /\ A = Reduce(n, K)

Behind(x, K) == \A k \in K : Promise!Before(k, x) /\ ~Promise!Before(x, k)

\* What is left in the book of x when n of it is taken.
Part(x, n) == IF n = x.size THEN {} ELSE {[x EXCEPT !.size = @ - n]}

LEMMA SizeOfSum ==
  \A K : Promise!SizeOf(K) = SumFunctionOnSet([m \in K |-> m.size], K)
<1>1. \A f, S : Promise!SumFunctionOnSet(f, S) = SumFunctionOnSet(f, S)
  BY DEF Promise!SumFunctionOnSet, SumFunctionOnSet, Promise!FoldFunctionOnSet,
         FoldFunctionOnSet, Promise!MapThenFoldSet, MapThenFoldSet
<1>. QED  BY <1>1 DEF Promise!SizeOf

LEMMA SizeFacts ==
  /\ Promise!SizeOf({}) = 0
  /\ \A K \in SUBSET Order : IsFiniteSet(K) => Promise!SizeOf(K) \in Int
  /\ \A K \in SUBSET Order, x \in Order :
        IsFiniteSet(K) /\ x \notin K => Promise!SizeOf(K \cup {x}) = x.size + Promise!SizeOf(K)
<1>1. \A m \in Order : m.size \in Int
  BY OrderFacts, U64Facts
<1>2. Promise!SizeOf({}) = 0
  <2>1. [m \in {} |-> m.size] \in [{} -> Int]
    OBVIOUS
  <2>2. SumFunctionOnSet([m \in {} |-> m.size], {}) = 0
    BY <2>1, SumOfNone
  <2>. QED  BY <2>2, SizeOfSum
<1>3. ASSUME NEW K \in SUBSET Order, IsFiniteSet(K)
      PROVE  Promise!SizeOf(K) \in Int
  <2>1. [m \in K |-> m.size] \in [K -> Int]
    BY <1>1
  <2>2. SumFunctionOnSet([m \in K |-> m.size], K) \in Int
    BY <1>3, <2>1, SumIsInt
  <2>. QED  BY <2>2, SizeOfSum
<1>4. ASSUME NEW K \in SUBSET Order, NEW x \in Order, IsFiniteSet(K), x \notin K
      PROVE  Promise!SizeOf(K \cup {x}) = x.size + Promise!SizeOf(K)
  <2>1. PICK f, g : f = [m \in K \cup {x} |-> m.size] /\ g = [m \in K |-> m.size]
    OBVIOUS
  <2>2. f \in [K \cup {x} -> Int] /\ g \in [K -> Int]
    BY <1>1, <2>1
  <2>3. f[x] = x.size /\ \A y \in K : f[y] = g[y]
    BY <2>1
  <2>4. SumFunctionOnSet(f, K \cup {x}) = f[x] + SumFunctionOnSet(g, K)
    BY <1>4, <2>2, <2>3, SumOfAdded
  <2>. QED  BY <2>1, <2>3, <2>4, SizeOfSum
<1>. QED  BY <1>2, <1>3, <1>4

LEMMA ServedNone == \A n \in Nat : Served(n, {}, n, {})
<1>1. SUFFICES ASSUME NEW n \in Nat PROVE Served(n, {}, n, {})
  OBVIOUS
<1>2. IsFiniteSet({})
  BY FS_EmptySet
<1>3. n = Over(n - Promise!SizeOf({}))
  BY SizeFacts DEF Over
<1>4. Reduce(n, {}) = {}
  BY DEF Reduce
<1>. QED  BY <1>2, <1>3, <1>4 DEF Served

LEMMA ServeMore ==
  ASSUME NEW n \in Nat, NEW K, NEW r, NEW A, Served(n, K, r, A),
         NEW x \in Order, x \notin K, x.size > 0, Behind(x, K),
         NEW m, m = Min({x.size, r})
  PROVE  Served(n, K \cup {x}, r - m, A \cup Part(x, m))
<1>1. K \in SUBSET Order /\ IsFiniteSet(K)
  BY DEF Served
<1>2. PICK L : L = K \cup {x}
  OBVIOUS
<1>3. L \in SUBSET Order /\ IsFiniteSet(L)
  BY <1>1, <1>2, FS_AddElement
<1>4. PICK z \in Int, size \in Nat : z = Promise!SizeOf(K) /\ size = x.size
  BY <1>1, SizeFacts, OrderFacts, U64Facts
<1>5. Promise!SizeOf(L) = size + z
  BY <1>1, <1>2, <1>4, SizeFacts
<1>6. r = Over(n - z) /\ r \in Nat
  BY <1>4 DEF Served, Over
<1>7. m \in {size, r} /\ m <= size /\ m <= r /\ m \in Nat
  BY <1>4, <1>6, MinOfTwo
<1>8. r - m = Over(n - Promise!SizeOf(L))
  BY <1>4, <1>5, <1>6, <1>7 DEF Over
<1>9. ~Promise!Before(x, x)
  <2>1. PICK p \in Int, o \in Int : p = x.limit_price /\ o = x.oid
    BY OrderFacts, U64Facts
  <2>2. ~(p < p) /\ ~(p > p) /\ ~(o < o)
    OBVIOUS
  <2>. QED  BY <2>1, <2>2 DEF Promise!Before
<1>10. ASSUME NEW k \in K
       PROVE  Got(n, L, k) = Got(n, K, k)
  <2>1. {j \in L : Promise!Before(j, k)} = {j \in K : Promise!Before(j, k)}
    BY <1>2 DEF Behind
  <2>. QED  BY <2>1 DEF Got
<1>11. Got(n, L, x) = m
  <2>1. {j \in L : Promise!Before(j, x)} = K
    BY <1>2, <1>9 DEF Behind
  <2>2. Got(n, L, x) = IF n - z <= 0 THEN 0 ELSE Min({n - z, size})
    BY <1>4, <2>1 DEF Got
  <2>3. CASE n - z <= 0
    BY <1>6, <1>7, <2>2, <2>3 DEF Over
  <2>4. CASE ~(n - z <= 0)
    <3>1. n - z = r
      BY <1>6, <2>4 DEF Over
    <3>2. {n - z, size} = {x.size, r}
      BY <1>4, <3>1
    <3>. QED  BY <2>2, <2>4, <3>2
  <2>. QED  BY <2>3, <2>4
<1>12. Reduce(n, L) = Reduce(n, K) \cup Part(x, m)
  <2>1. m < x.size <=> m # x.size
    BY <1>4, <1>7
  <2>2. Reduce(n, L) = {[k EXCEPT !.size = @ - Got(n, L, k)] : k \in {j \in K : Got(n, L, j) < j.size}}
                       \cup {[k EXCEPT !.size = @ - Got(n, L, k)] : k \in {j \in {x} : Got(n, L, j) < j.size}}
    BY <1>2 DEF Reduce
  <2>3. {[k EXCEPT !.size = @ - Got(n, L, k)] : k \in {j \in K : Got(n, L, j) < j.size}} = Reduce(n, K)
    BY <1>10 DEF Reduce
  <2>4. {[k EXCEPT !.size = @ - Got(n, L, k)] : k \in {j \in {x} : Got(n, L, j) < j.size}} = Part(x, m)
    BY <1>11, <2>1 DEF Part
  <2>. QED  BY <2>2, <2>3, <2>4
<1>. QED  BY <1>2, <1>3, <1>8, <1>12 DEF Served

\* A maker is behind those before it, and is served what remains.
LEMMA FillMakerServes ==
  ASSUME NEW n \in U64, NEW acc \in Filling(n), NEW x \in Order, x.size > 0,
         NEW m, m = Min({x.size, acc.remaining})
  PROVE  /\ FillMaker(acc, x).remaining = acc.remaining - m
         /\ ToSet(FillMaker(acc, x).level) = ToSet(acc.level) \cup Part(x, m)
         /\ acc.remaining = 0 => Part(x, m) = {x}
<1>1. PICK after : after = FillMaker(acc, x)
  OBVIOUS
<1>2. acc.level \in Seq(Order) /\ acc.remaining \in 0..n /\ n \in Nat
  BY U64Facts DEF Filling
<1>3. PICK size \in Nat, r \in Nat : size = x.size /\ r = acc.remaining
  BY <1>2, OrderFacts, U64Facts
<1>4. m \in {size, r} /\ m <= size /\ m <= r
  BY <1>3, MinOfTwo
<1>5. \/ /\ r = 0 /\ after.remaining = 0 /\ after.level = Append(acc.level, x)
      \/ /\ r > 0 /\ size <= r /\ acc.level = <<>>
         /\ after.remaining = r - size /\ after.level = <<>>
      \/ /\ r > 0 /\ size > r /\ acc.level = <<>>
         /\ after.remaining = 0 /\ after.level = <<[x EXCEPT !.size = @ - r]>>
  BY <1>1, <1>3, FillMakerFacts
<1>6. ToSet(<<>>) = {} /\ \A y : ToSet(<<y>>) = {y}
  BY DEF ToSet
<1>7. r = 0 => m = 0 /\ Part(x, m) = {x}
  <2>1. SUFFICES ASSUME r = 0 PROVE m = 0 /\ Part(x, m) = {x}
    OBVIOUS
  <2>2. m = 0 /\ m # size /\ size - m = size
    BY <1>3, <1>4, <2>1
  <2>3. [x EXCEPT !.size = @ - m] = x
    <3>1. [x EXCEPT !.size = @ - m] = [x EXCEPT !.size = size]
      BY <1>3, <2>2
    <3>. QED  BY <1>3, <3>1 DEF Order
  <2>. QED  BY <1>3, <2>2, <2>3 DEF Part
<1>8. CASE r = 0 /\ after.remaining = 0 /\ after.level = Append(acc.level, x)
  <2>1. ToSet(after.level) = ToSet(acc.level) \cup {x}
    BY <1>2, <1>8, AppendSet
  <2>2. m = 0 /\ r - m = 0
    BY <1>7, <1>8
  <2>. QED  BY <1>1, <1>3, <1>7, <1>8, <2>1, <2>2
<1>9. CASE r > 0 /\ size <= r /\ acc.level = <<>> /\ after.remaining = r - size /\ after.level = <<>>
  <2>1. m = size /\ r # 0
    BY <1>4, <1>9
  <2>2. Part(x, m) = {}
    BY <1>3, <2>1 DEF Part
  <2>. QED  BY <1>1, <1>3, <1>6, <1>9, <2>1, <2>2
<1>10. CASE r > 0 /\ size > r /\ acc.level = <<>> /\ after.remaining = 0
            /\ after.level = <<[x EXCEPT !.size = @ - r]>>
  <2>1. m = r /\ r # 0 /\ m # size /\ r - m = 0
    BY <1>4, <1>10
  <2>2. Part(x, m) = {[x EXCEPT !.size = @ - r]}
    BY <1>3, <2>1 DEF Part
  <2>. QED  BY <1>1, <1>3, <1>6, <1>10, <2>1, <2>2
<1>. QED  BY <1>5, <1>8, <1>9, <1>10

Follows(level, p, K) ==
    \A o \in ToSet(level) : o.limit_price = p /\ o \notin K /\ Behind(o, K)

\* Served, as the conclusion of a lemma whose hypothesis is Served.
ServedNow(n, K, r, A) == Served(n, K, r, A)

\* When nothing remains of the taker a level stays as it is.
Spared(r, remaining, B, B2) == r = 0 => remaining = 0 /\ B2 = B

\* A level is served after the ones before it, its orders oldest first.
LEMMA LevelServed ==
  ASSUME NEW n \in Nat, NEW K, NEW A, NEW r \in U64, Served(n, K, r, A),
         NEW level \in Seq(Order), Queued(level), NEW p \in U64,
         Follows(level, p, K), NEW taken, taken = FillAtPriceLevel(level, r),
         NEW B, B = ToSet(level), NEW B2, B2 = ToSet(taken.level)
  PROVE  ServedNow(n, K \cup B, taken.remaining, A \cup B2) /\ Spared(r, taken.remaining, B, B2)
<1>1. PICK start \in Filling(r), length \in Nat :
         start = StartOfLevel(r) /\ length = Len(level)
  BY StartOfLevelType
<1>2. PICK f : Runs(f, Filling(r), FillSteps(r), start, level)
  BY FillStepsIsStep, FoldRuns
<1>3. /\ f[0] = start /\ f[length] = taken
      /\ \A k \in 0..length : f[k] \in Filling(r)
      /\ \A k \in 0..(length - 1) : f[k + 1] = FillSteps(r)[f[k]][level[k + 1]]
  BY <1>1, <1>2, FillIsFolded DEF Runs
<1>. DEFINE Good(acc, k) == /\ Served(n, K \cup First(level, k), acc.remaining, A \cup ToSet(acc.level))
                            /\ r = 0 => ToSet(acc.level) = First(level, k)
            F == {k \in 0..length : Good(f[k], k)}
<1>4. 0 \in F
  <2>1. First(level, 0) = {} /\ ToSet(<<>>) = {}
    BY DEF First, ToSet
  <2>2. start.remaining = r /\ start.level = <<>>
    BY <1>1 DEF StartOfLevel
  <2>3. K \cup {} = K /\ A \cup {} = A
    OBVIOUS
  <2>4. Good(start, 0)
    BY <2>1, <2>2, <2>3
  <2>5. 0 \in 0..length
    OBVIOUS
  <2>. HIDE DEF Good
  <2>. QED  BY <1>1, <1>3, <2>4, <2>5
<1>5. ASSUME NEW k \in 0..(length - 1), k \in F
      PROVE  k + 1 \in F
  <2>1. k \in 0..length /\ k + 1 \in 0..length /\ k + 1 \in 1..length /\ Good(f[k], k)
    BY <1>5
  <2>2. PICK acc \in Filling(r), x \in Order : acc = f[k] /\ x = level[k + 1]
    <3>1. level[k + 1] \in Order /\ f[k] \in Filling(r)
      BY <1>1, <1>3, <2>1
    <3>. QED  BY <3>1
  <2>3. PICK after : after = FillMaker(acc, x) /\ f[k + 1] = after
    BY <1>3, <1>5, <2>2, FillMakerType
  <2>4. PICK Q \in SUBSET Order : Q = First(level, k)
    <3>1. \A i \in 1..k : level[i] \in Order
      BY <1>1, <2>1
    <3>. QED  BY <3>1 DEF First
  <2>5. First(level, k + 1) = Q \cup {x}
    <3>1. 1..(k + 1) = 1..k \cup {k + 1}
      BY <2>1
    <3>. QED  BY <2>2, <2>4, <3>1 DEF First
  <2>6. x.size > 0 /\ x.limit_price = p /\ x \notin K /\ Behind(x, K)
    <3>1. k + 1 \in DOMAIN level
      BY <1>1, <2>1
    <3>2. x \in ToSet(level)
      BY <2>2, <3>1 DEF ToSet
    <3>. QED  BY <2>2, <3>1, <3>2 DEF Queued, Follows
  <2>7. \A o \in Q : o.oid < x.oid /\ o.limit_price = p /\ ~(x.oid < o.oid) /\ o # x
    <3>1. \A i \in 1..k : i \in DOMAIN level /\ i < k + 1
      BY <1>1, <2>1
    <3>2. k + 1 \in DOMAIN level
      BY <1>1, <2>1
    <3>3. \A i \in 1..k : level[i].oid < level[k + 1].oid /\ level[i] \in ToSet(level)
      BY <3>1, <3>2 DEF Queued, ToSet
    <3>4. \A o \in Q : o.oid < x.oid /\ o.limit_price = p
      BY <2>2, <2>4, <3>3 DEF First, Follows
    <3>5. \A o \in Q : o.oid \in Nat /\ x.oid \in Nat
      BY <2>4, OrderFacts
    <3>. QED  BY <3>4, <3>5
  <2>8. x \notin K \cup Q /\ Behind(x, K \cup Q)
    <3>1. ~(p > p) /\ ~(p < p)
      BY U64Facts
    <3>2. Behind(x, Q)
      BY <2>6, <2>7, <3>1 DEF Behind, Promise!Before
    <3>. QED  BY <2>6, <2>7, <3>2 DEF Behind
  <2>9. PICK m, L, L2 : m = Min({x.size, acc.remaining}) /\ L = ToSet(acc.level) /\ L2 = ToSet(after.level)
    OBVIOUS
  <2>10. /\ after.remaining = acc.remaining - m /\ L2 = L \cup Part(x, m)
         /\ acc.remaining = 0 => Part(x, m) = {x}
    <3>1. x.size > 0 /\ m = Min({x.size, acc.remaining})
      BY <2>6, <2>9
    <3>2. /\ FillMaker(acc, x).remaining = acc.remaining - m
          /\ ToSet(FillMaker(acc, x).level) = ToSet(acc.level) \cup Part(x, m)
          /\ acc.remaining = 0 => Part(x, m) = {x}
      BY <3>1, FillMakerServes
    <3>. QED  BY <2>3, <2>9, <3>2
  <2>11. Served(n, K \cup Q, acc.remaining, A \cup L) /\ (r = 0 => L = Q)
    BY <2>1, <2>2, <2>4, <2>9
  <2>12. Served(n, (K \cup Q) \cup {x}, acc.remaining - m, (A \cup L) \cup Part(x, m))
    BY <2>6, <2>8, <2>9, <2>11, ServeMore
  <2>13. (K \cup Q) \cup {x} = K \cup (Q \cup {x}) /\ (A \cup L) \cup Part(x, m) = A \cup L2
    BY <2>10
  <2>14. r = 0 => L2 = Q \cup {x}
    <3>1. r = 0 => acc.remaining = 0
      <4>1. acc.remaining \in 0..r
        BY DEF Filling
      <4>. QED  BY <4>1
    <3>. QED  BY <2>10, <2>11, <3>1
  <2>15. Good(after, k + 1)
    BY <2>5, <2>9, <2>10, <2>12, <2>13, <2>14
  <2>. HIDE DEF Good
  <2>. QED  BY <2>1, <2>3, <2>15
<1>6. 0..length \subseteq F
  <2>. HIDE DEF F
  <2>. QED  BY <1>4, <1>5, InductionUpTo
<1>7. length \in 0..length /\ First(level, length) = B
  BY <1>1 DEF First, ToSet
<1>8. Good(f[length], length)
  BY <1>6, <1>7
<1>9. r = 0 => f[length].remaining = 0
  <2>1. f[length] \in Filling(r)
    BY <1>3, <1>7
  <2>2. f[length].remaining \in 0..r
    BY <2>1 DEF Filling
  <2>. QED  BY <2>2
<1>. QED  BY <1>3, <1>7, <1>8, <1>9 DEF ServedNow, Spared

\* Of some levels that the order crosses, the one taken last is behind the others.
LEMMA LastIsBehind ==
  ASSUME NEW order \in Order, NEW levels \in Levels, NEW is_buy \in BOOLEAN, is_buy # order.is_buy,
         Tidy(levels, is_buy),
         NEW s \in SUBSET DOMAIN levels, s # {}, NEW p, p = LastPrice(order, s)
  PROVE  Follows(levels[p], p, At(levels, s \ {p}))
<1>1. s \in SUBSET U64 /\ order.is_buy \in BOOLEAN /\ \A q \in s : q \in Int
  BY MapsFacts, OrderFacts, U64Facts DEF Levels
<1>2. /\ p \in s
      /\ order.is_buy => \A q \in s : p >= q
      /\ ~order.is_buy => \A q \in s : p <= q
  BY <1>1, MaxOfAmounts, MinOfAmounts DEF LastPrice
<1>3. ASSUME NEW q \in s, q # p
      PROVE  /\ is_buy => q > p /\ ~(p > q)
             /\ ~is_buy => q < p /\ ~(p < q)
  <2>1. PICK a \in Int, c \in Int : a = p /\ c = q
    BY <1>1, <1>2
  <2>2. (is_buy => a <= c) /\ (~is_buy => a >= c) /\ a # c
    BY <1>1, <1>2, <1>3, <2>1
  <2>3. (is_buy => c > a /\ ~(a > c)) /\ (~is_buy => c < a /\ ~(a < c))
    BY <2>2
  <2>. QED  BY <2>1, <2>3
<1>4. SUFFICES ASSUME NEW o \in ToSet(levels[p])
               PROVE  /\ o.limit_price = p
                      /\ \A k \in At(levels, s \ {p}) :
                            o # k /\ Promise!Before(k, o) /\ ~Promise!Before(o, k)
  BY DEF Behind, Follows
<1>5. o.limit_price = p /\ o.is_buy = is_buy
  BY <1>2 DEF Tidy
<1>6. ASSUME NEW q \in DOMAIN levels \cap (s \ {p}), NEW k \in ToSet(levels[q])
      PROVE  o # k /\ Promise!Before(k, o) /\ ~Promise!Before(o, k)
  <2>1. k.limit_price = q /\ k.is_buy = is_buy /\ q \in s /\ q # p
    BY DEF Tidy
  <2>2. (is_buy => q > p /\ ~(p > q)) /\ (~is_buy => q < p /\ ~(p < q))
    BY <1>3, <2>1
  <2>. QED  BY <1>1, <1>5, <2>1, <2>2 DEF Promise!Before
<1>. QED  BY <1>5, <1>6 DEF At

\* The levels at s are served, up to what remains.
LEMMA TakeLevelServes ==
  ASSUME NEW n \in U64, NEW levels \in Levels, NEW is_buy, Tidy(levels, is_buy),
         NEW s \in SUBSET DOMAIN levels, NEW p \in s,
         Follows(levels[p], p, At(levels, s \ {p})),
         NEW acc, Swept(acc, n, levels, s \ {p}),
         Served(n, At(levels, s \ {p}), acc.remaining, At(acc.levels, s \ {p}))
  PROVE  Served(n, At(levels, s), TakeLevel(p, acc).remaining, At(TakeLevel(p, acc).levels, s))
<1>1. p \in DOMAIN acc.levels /\ acc \in Matching(n) /\ acc.levels[p] = levels[p]
  BY DEF Swept
<1>2. PICK level, r, taken, after : /\ level = acc.levels[p] /\ r = acc.remaining
                                    /\ taken = FillAtPriceLevel(level, r)
                                    /\ after = TakeLevel(p, acc)
  OBVIOUS
<1>3. /\ level \in Seq(Order) /\ r \in U64
      /\ r = 0 => after = acc
      /\ r # 0 =>
            /\ after.remaining = taken.remaining
            /\ DOMAIN after.levels = IF taken.level = <<>> THEN DOMAIN acc.levels \ {p}
                                     ELSE DOMAIN acc.levels
            /\ \A q \in DOMAIN acc.levels \ {p} : after.levels[q] = acc.levels[q]
            /\ taken.level # <<>> => after.levels[p] = taken.level
  <2>1. LET got == FillAtPriceLevel(acc.levels[p], acc.remaining)
            next == TakeLevel(p, acc)
        IN  /\ acc.levels[p] \in Seq(Order) /\ acc.remaining \in U64
            /\ got \in Filling(acc.remaining)
            /\ next \in Matching(n)
            /\ acc.remaining = 0 => next = acc
            /\ acc.remaining # 0 =>
                  /\ next.remaining = got.remaining
                  /\ next.fills = acc.fills \o got.fills
                  /\ DOMAIN next.levels = IF got.level = <<>> THEN DOMAIN acc.levels \ {p}
                                          ELSE DOMAIN acc.levels
                  /\ \A q \in DOMAIN acc.levels \ {p} : next.levels[q] = acc.levels[q]
                  /\ got.level # <<>> => next.levels[p] = got.level
    BY <1>1, TakeLevelFacts
  <2>. QED  BY <1>2, <2>1
<1>4. PICK K, A, B : /\ K = At(levels, s \ {p}) /\ A = At(acc.levels, s \ {p})
                     /\ B = ToSet(level)
  OBVIOUS
<1>5. At(levels, s) = K \cup B
  BY <1>1, <1>2, <1>4 DEF At
<1>6. Queued(level) /\ p \in U64 /\ n \in Nat
  <2>1. DOMAIN levels \subseteq U64
    BY MapsFacts DEF Levels
  <2>. QED  BY <1>1, <1>2, <2>1, U64Facts DEF Tidy
<1>7. Follows(level, p, K)
  BY <1>1, <1>2, <1>4
<1>8. PICK B2 : B2 = ToSet(taken.level)
  OBVIOUS
<1>9. /\ Served(n, K \cup B, taken.remaining, A \cup B2)
      /\ r = 0 => taken.remaining = 0 /\ B2 = B
  <2>1. Served(n, K, r, A)
    BY <1>2, <1>4
  <2>2. ServedNow(n, K \cup B, taken.remaining, A \cup B2) /\ Spared(r, taken.remaining, B, B2)
    BY <1>2, <1>3, <1>4, <1>6, <1>7, <1>8, <2>1, LevelServed
  <2>. QED  BY <2>2 DEF ServedNow, Spared
<1>10. CASE r = 0
  <2>1. At(acc.levels, s) = A \cup B
    BY <1>1, <1>2, <1>4 DEF At
  <2>. QED  BY <1>2, <1>3, <1>5, <1>9, <1>10, <2>1
<1>11. CASE r # 0
  <2>1. ToSet(<<>>) = {}
    BY DEF ToSet
  <2>2. At(after.levels, s) = A \cup B2
    <3>1. CASE taken.level = <<>>
      <4>1. B2 = {}
        BY <1>8, <2>1, <3>1
      <4>2. DOMAIN after.levels \cap s = DOMAIN acc.levels \cap (s \ {p})
        BY <1>3, <1>11, <3>1
      <4>. QED  BY <1>3, <1>4, <1>11, <4>1, <4>2 DEF At
    <3>2. CASE taken.level # <<>>
      <4>1. DOMAIN after.levels \cap s = (DOMAIN acc.levels \cap (s \ {p})) \cup {p}
        BY <1>1, <1>3, <1>11, <3>2
      <4>2. after.levels[p] = taken.level
        BY <1>3, <1>11, <3>2
      <4>3. \A q \in DOMAIN acc.levels \cap (s \ {p}) : after.levels[q] = acc.levels[q]
        BY <1>3, <1>11
      <4>4. At(after.levels, s) = At(acc.levels, s \ {p}) \cup ToSet(after.levels[p])
        BY <4>1, <4>3 DEF At
      <4>. QED  BY <1>4, <1>8, <4>2, <4>4
    <3>. QED  BY <3>1, <3>2
  <2>. QED  BY <1>2, <1>3, <1>5, <1>9, <1>11, <2>2
<1>. QED  BY <1>10, <1>11

\* What is left of the crossed levels, and of the taker, is what the auction says;
\* the other levels are left alone.
LEMMA MatchServes ==
  ASSUME NEW order \in Order, NEW levels \in Levels, NEW is_buy \in BOOLEAN, is_buy # order.is_buy,
         Tidy(levels, is_buy)
  PROVE  LET match == Match(order, levels)
             C == CrossedPrices(order, levels)
         IN  /\ Served(order.size, At(levels, C), match.remaining, At(match.levels, C))
             /\ At(match.levels, U64 \ C) = At(levels, U64 \ C)
             /\ match.levels \in Levels
<1>1. PICK h : Sweeps(h, order, levels)
  BY MatchSweeps
<1>2. PICK C, n, match : /\ C = CrossedPrices(order, levels) /\ n = order.size
                         /\ match = Match(order, levels)
  OBVIOUS
<1>3. /\ C \in SUBSET DOMAIN levels /\ IsFiniteSet(C) /\ n \in U64
  <2>1. C \subseteq DOMAIN levels /\ DOMAIN levels \subseteq U64
    BY <1>2, MapsFacts DEF CrossedPrices, Levels
  <2>2. IsFiniteSet(U64)
    BY AmountAssumption, FS_Interval DEF U64
  <2>. QED  BY <1>2, <2>1, <2>2, FS_Subset, OrderFacts
<1>4. /\ h[C] = match /\ h[{}] = Match0(n, levels)
      /\ \A s \in SUBSET C :
            /\ Swept(h[s], n, levels, s)
            /\ s # {} => /\ LastPrice(order, s) \in s
                         /\ h[s] = TakeLevel(LastPrice(order, s), h[s \ {LastPrice(order, s)}])
  BY <1>1, <1>2 DEF Sweeps
<1>. DEFINE Good(s) == Served(n, At(levels, s), h[s].remaining, At(h[s].levels, s))
            F == {s \in SUBSET C : Good(s)}
<1>5. ASSUME NEW s \in SUBSET C, \A x \in s : s \ {x} \in F
      PROVE  s \in F
  <2>1. CASE s = {}
    <3>1. h[s].remaining = n /\ h[s].levels = levels /\ At(levels, s) = {}
      BY <1>4, <2>1 DEF Match0, At
    <3>2. Good(s)
      BY <1>3, <3>1, U64Facts, ServedNone
    <3>. HIDE DEF Good
    <3>. QED  BY <3>2
  <2>2. CASE s # {}
    <3>1. PICK p \in s : p = LastPrice(order, s)
      BY <1>4, <2>2
    <3>2. PICK acc : acc = h[s \ {p}]
      OBVIOUS
    <3>3. s \ {p} \in SUBSET C /\ s \in SUBSET DOMAIN levels
      BY <1>3
    <3>4. Swept(acc, n, levels, s \ {p}) /\ h[s] = TakeLevel(p, acc)
      BY <1>4, <2>2, <3>1, <3>2, <3>3
    <3>5. Served(n, At(levels, s \ {p}), acc.remaining, At(acc.levels, s \ {p}))
      BY <1>5, <3>2
    <3>6. Follows(levels[p], p, At(levels, s \ {p}))
      BY <2>2, <3>1, <3>3, LastIsBehind
    <3>7. Served(n, At(levels, s), TakeLevel(p, acc).remaining, At(TakeLevel(p, acc).levels, s))
      BY <1>3, <3>3, <3>4, <3>5, <3>6, TakeLevelServes
    <3>. QED  BY <3>4, <3>7
  <2>. QED  BY <2>1, <2>2
<1>6. F = SUBSET C
  <2>. HIDE DEF F
  <2>1. F \in SUBSET SUBSET C
    BY DEF F
  <2>. QED  BY <1>3, <1>5, <2>1, SubsetInduction
<1>7. Swept(match, n, levels, C) /\ Served(n, At(levels, C), match.remaining, At(match.levels, C))
  BY <1>4, <1>6
<1>8. match.levels \in Levels
  BY <1>7 DEF Swept, Matching
<1>9. At(match.levels, U64 \ C) = At(levels, U64 \ C)
  <2>1. /\ DOMAIN match.levels \subseteq DOMAIN levels
        /\ \A p \in DOMAIN levels \ C : p \in DOMAIN match.levels /\ match.levels[p] = levels[p]
    BY <1>7 DEF Swept
  <2>2. DOMAIN match.levels \cap (U64 \ C) = DOMAIN levels \cap (U64 \ C)
    BY <2>1
  <2>. QED  BY <2>1, <2>2 DEF At
<1>. QED  BY <1>2, <1>7, <1>8, <1>9

CrossedBy(order, orders) == {m \in orders : Promise!Crosses(order, m)}

\* The orders that rest are those the order crosses, and the others.
LEMMA CrossedOrders ==
  ASSUME NEW levels \in Levels, NEW own \in Levels, NEW order \in Order, NEW is_buy \in BOOLEAN,
         is_buy # order.is_buy, Tidy(levels, is_buy), Tidy(own, order.is_buy),
         NEW C, C = CrossedPrices(order, levels),
         NEW before, before = OrdersAt(levels) \cup OrdersAt(own),
         NEW crossed, crossed = CrossedBy(order, before)
  PROVE  /\ crossed = At(levels, C)
         /\ before \ crossed = At(levels, U64 \ C) \cup OrdersAt(own)
<1>1. DOMAIN levels \subseteq U64 /\ order.is_buy \in BOOLEAN
  BY MapsFacts, OrderFacts DEF Levels
<1>2. ASSUME NEW p \in DOMAIN levels, NEW m \in ToSet(levels[p])
      PROVE  m \in before /\ (m \in crossed <=> p \in C)
  <2>1. m.limit_price = p /\ m.is_buy = is_buy
    BY DEF Tidy
  <2>2. m \in before
    BY DEF OrdersAt
  <2>3. Promise!Crosses(order, m) <=> Crosses(order, p)
    BY <1>1, <2>1 DEF Promise!Crosses, Crosses
  <2>. QED  BY <2>2, <2>3 DEF CrossedPrices, CrossedBy
<1>3. ASSUME NEW m \in OrdersAt(own)
      PROVE  m \in before /\ m \notin crossed
  <2>1. m.is_buy = order.is_buy
    BY DEF OrdersAt, Tidy
  <2>. QED  BY <2>1 DEF Promise!Crosses, CrossedBy
<1>4. ASSUME NEW m \in before
      PROVE  \/ m \in OrdersAt(own)
             \/ \E p \in DOMAIN levels : m \in ToSet(levels[p])
  BY DEF OrdersAt
<1>5. C \subseteq DOMAIN levels
  BY DEF CrossedPrices
<1>6. crossed = At(levels, C)
  <2>1. \A m \in crossed : m \in before
    BY DEF CrossedBy
  <2>2. \A m \in crossed : m \in At(levels, C)
    <3>1. SUFFICES ASSUME NEW m \in crossed PROVE m \in At(levels, C)
      OBVIOUS
    <3>2. PICK p \in DOMAIN levels : m \in ToSet(levels[p])
      BY <1>3, <1>4, <2>1
    <3>. QED  BY <1>2, <3>2 DEF At
  <2>3. \A m \in At(levels, C) : m \in crossed
    BY <1>2 DEF At
  <2>. QED  BY <2>2, <2>3
<1>7. before \ crossed = At(levels, U64 \ C) \cup OrdersAt(own)
  <2>1. \A m \in before \ crossed : m \in At(levels, U64 \ C) \cup OrdersAt(own)
    BY <1>1, <1>2, <1>4 DEF At
  <2>2. \A m \in At(levels, U64 \ C) : m \in before \ crossed
    BY <1>2 DEF At
  <2>. QED  BY <1>3, <2>1, <2>2
<1>. QED  BY <1>6, <1>7

\* `limit' serves the orders that are crossed and leaves the others.
Serves(limit, before, order) ==
    LET crossed == CrossedBy(order, before)
    IN  \E after : /\ Served(order.size, crossed, limit.remaining, after)
                   /\ OrdersOf(limit.book)
                         = ((before \ crossed) \cup after) \cup Rests(order, limit.remaining)

LEMMA LimitServes ==
  ASSUME NEW book \in Book, Indexed(book), NotCrossed(book), NEW order \in Order,
         IsNew(book, order)
  PROVE  Serves(Limit(book, order), OrdersOf(book), order)
<1>1. PICK levels, own, match, limit, own2 :
         /\ levels = IF order.is_buy THEN book.asks ELSE book.bids
         /\ own = IF order.is_buy THEN book.bids ELSE book.asks
         /\ match = Match(order, levels) /\ limit = Limit(book, order)
         /\ own2 = Rested(own, order, match.remaining)
  OBVIOUS
<1>2. /\ book.bids \in Levels /\ book.asks \in Levels /\ order.is_buy \in BOOLEAN
      /\ Tidy(book.bids, TRUE) /\ Tidy(book.asks, FALSE)
      /\ Older(OrdersOf(book), order)
  BY OrderFacts DEF Book, Indexed, Names, IsNew, Older
<1>3. /\ OneLevel(book.bids) /\ OneLevel(book.asks)
      /\ Apart(OrdersAt(book.bids), OrdersAt(book.asks))
      /\ Apart(OrdersAt(book.asks), OrdersAt(book.bids))
  BY KeyFacts
<1>4. /\ limit.remaining = match.remaining
      /\ limit.book.bids = IF ~order.is_buy THEN match.levels
                           ELSE IF match.remaining > 0 THEN Enqueue(book.bids, order)
                           ELSE book.bids
      /\ limit.book.asks = IF order.is_buy THEN match.levels
                           ELSE IF match.remaining > 0 THEN Enqueue(book.asks, order)
                           ELSE book.asks
  BY <1>1, LimitFacts
<1>5. PICK other \in BOOLEAN : other # order.is_buy /\ (other <=> ~order.is_buy)
  BY <1>2
<1>6. /\ levels \in Levels /\ own \in Levels /\ OneLevel(levels)
      /\ Tidy(levels, other) /\ Tidy(own, order.is_buy)
      /\ Apart(OrdersAt(levels), OrdersAt(own)) /\ Older(OrdersAt(own), order)
  <2>1. CASE order.is_buy
    <3>1. order.is_buy = TRUE /\ other = FALSE /\ levels = book.asks /\ own = book.bids
      BY <1>1, <1>2, <1>5, <2>1
    <3>2. Older(OrdersAt(own), order)
      BY <1>2, <3>1 DEF Older, OrdersOf
    <3>. QED  BY <1>2, <1>3, <3>1, <3>2
  <2>2. CASE ~order.is_buy
    <3>1. order.is_buy = FALSE /\ other = TRUE /\ levels = book.bids /\ own = book.asks
      BY <1>1, <1>2, <1>5, <2>2
    <3>2. Older(OrdersAt(own), order)
      BY <1>2, <3>1 DEF Older, OrdersOf
    <3>. QED  BY <1>2, <1>3, <3>1, <3>2
  <2>. QED  BY <2>1, <2>2
<1>7. /\ Took(match.fills, OrdersAt(levels) \cup OrdersAt(own),
              OrdersAt(match.levels) \cup OrdersAt(own))
      /\ Tidy(match.levels, other) /\ Tidy(own2, order.is_buy)
      /\ OrdersAt(own2) = OrdersAt(own) \cup Rests(order, match.remaining)
  <2>1. match = Match(order, levels) /\ own2 = Rested(own, order, match.remaining)
    BY <1>1
  <2>. QED  BY <1>6, <2>1, LimitSides
<1>8. OrdersOf(limit.book) = OrdersAt(match.levels) \cup OrdersAt(own2)
  <2>1. CASE order.is_buy
    <3>1. limit.book.asks = match.levels /\ limit.book.bids = own2
      BY <1>1, <1>4, <2>1 DEF Rested
    <3>. QED  BY <3>1 DEF OrdersOf
  <2>2. CASE ~order.is_buy
    <3>1. limit.book.bids = match.levels /\ limit.book.asks = own2
      BY <1>1, <1>4, <2>2 DEF Rested
    <3>. QED  BY <3>1 DEF OrdersOf
  <2>. QED  BY <2>1, <2>2
<1>9. PICK C, before, crossed, after :
         /\ C = CrossedPrices(order, levels)
         /\ before = OrdersAt(levels) \cup OrdersAt(own)
         /\ crossed = CrossedBy(order, before)
         /\ after = At(match.levels, C)
  OBVIOUS
<1>10. /\ Served(order.size, At(levels, C), match.remaining, after)
       /\ At(match.levels, U64 \ C) = At(levels, U64 \ C)
       /\ match.levels \in Levels
  <2>1. LET match1 == Match(order, levels)
            C1 == CrossedPrices(order, levels)
        IN  /\ Served(order.size, At(levels, C1), match1.remaining, At(match1.levels, C1))
            /\ At(match1.levels, U64 \ C1) = At(levels, U64 \ C1)
            /\ match1.levels \in Levels
    BY <1>5, <1>6, MatchServes
  <2>. QED  BY <1>1, <1>9, <2>1
<1>11. /\ crossed = At(levels, C)
       /\ before \ crossed = At(levels, U64 \ C) \cup OrdersAt(own)
  BY <1>5, <1>6, <1>9, CrossedOrders
<1>12. OrdersAt(match.levels) = after \cup At(match.levels, U64 \ C)
  <2>1. DOMAIN match.levels \subseteq U64
    BY <1>10, MapsFacts DEF Levels
  <2>. QED  BY <1>9, <2>1 DEF At, OrdersAt
<1>13. before = OrdersOf(book)
  BY <1>1, <1>9 DEF OrdersOf
<1>14. OrdersOf(limit.book) = ((before \ crossed) \cup after) \cup Rests(order, limit.remaining)
  BY <1>4, <1>7, <1>8, <1>10, <1>11, <1>12
<1>15. Served(order.size, crossed, limit.remaining, after)
  BY <1>4, <1>10, <1>11
<1>16. Serves(limit, before, order)
  BY <1>9, <1>14, <1>15 DEF Serves
<1>. QED  BY <1>1, <1>13, <1>16

\* The book steps as the auction does when the order arrives.
LEMMA Arrives ==
  ASSUME NEW order \in Order, NEW limit, limit.remaining \in 0..order.size,
         Serves(limit, Resting, order), Resting' = OrdersOf(limit.book)
  PROVE  Promise!Arrive(order)
<1>1. PICK crossed, remaining : crossed = CrossedBy(order, Resting) /\ remaining = limit.remaining
  OBVIOUS
<1>2. PICK after : /\ Served(order.size, crossed, remaining, after)
                   /\ Resting' = ((Resting \ crossed) \cup after) \cup Rests(order, remaining)
  BY <1>1 DEF Serves
<1>3. Promise!Crossed(order) = crossed
  BY <1>1 DEF Promise!Crossed, CrossedBy
<1>4. Promise!Reduced(order) = after
  <2>1. \A m : Promise!TakenFrom(m, order) = Got(order.size, crossed, m)
    <3>1. \A K : Promise!Min(K) = Min(K)
      BY DEF Promise!Min, Min
    <3>. QED  BY <1>3, <3>1 DEF Promise!TakenFrom, Got
  <2>2. Promise!Reduced(order) = Reduce(order.size, crossed)
    BY <1>3, <2>1 DEF Promise!Reduced, Reduce
  <2>. QED  BY <1>2, <2>2 DEF Served
<1>5. PICK size \in Nat : size = order.size
  BY OrderFacts, U64Facts
<1>6. PICK z \in Int : z = Promise!SizeOf(crossed) /\ remaining = Over(size - z)
  <2>1. crossed \in SUBSET Order /\ IsFiniteSet(crossed)
    BY <1>2 DEF Served
  <2>2. Promise!SizeOf(crossed) \in Int
    BY <2>1, SizeFacts
  <2>. QED  BY <1>2, <1>5, <2>2 DEF Served
<1>7. remaining \in 0..size
  BY <1>1, <1>5
<1>8. CASE size - z <= 0
  <2>1. remaining = 0 /\ ~(remaining > 0)
    BY <1>6, <1>8 DEF Over
  <2>2. Rests(order, remaining) = {}
    BY <2>1 DEF Rests
  <2>3. Resting' = (Resting \ Promise!Crossed(order)) \cup Promise!Reduced(order)
    BY <1>2, <1>3, <1>4, <2>2
  <2>4. order.size - Promise!SizeOf(Promise!Crossed(order)) <= 0
    BY <1>3, <1>5, <1>6, <1>8
  <2>. QED  BY <2>3, <2>4 DEF Promise!Arrive
<1>9. CASE ~(size - z <= 0)
  <2>1. remaining = size - z /\ remaining > 0 /\ size - z > 0 /\ size \in (size - z)..size
    BY <1>6, <1>7, <1>9 DEF Over
  <2>2. Rests(order, remaining) = {order}
    BY <2>1 DEF Rests
  <2>3. [order EXCEPT !.size = size] = order
    BY <1>5 DEF Order
  <2>4. Resting' = ((Resting \ Promise!Crossed(order)) \cup Promise!Reduced(order))
                      \cup {[order EXCEPT !.size = size]}
    BY <1>2, <1>3, <1>4, <2>2, <2>3
  <2>5. /\ order.size - Promise!SizeOf(Promise!Crossed(order)) = size - z
        /\ order.size = size
    BY <1>3, <1>5, <1>6
  <2>. QED  BY <2>1, <2>4, <2>5 DEF Promise!Arrive
<1>. QED  BY <1>8, <1>9

\* An order that is placed is one that the auction could see arrive.
LEMMA PlacedServes ==
  ASSUME NEW state, Sound(state), Agreed(state), NEW req,
         NEW order \in Order, NEW locked \in State, NEW settled \in State,
         NEW status \in FillStatus,
         Placed(add_order(req, state), state, order, locked, settled, status)
  PROVE  LET limit == Limit(state.book, order)
         IN  /\ limit.remaining \in 0..order.size
             /\ Serves(limit, OrdersOf(state.book), order)
             /\ add_order(req, state).state.book = limit.book
             /\ order.oid = state.oid
             /\ Older(OrdersOf(state.book), order)
<1>1. PICK out, limit : out = add_order(req, state) /\ limit = Limit(state.book, order)
  OBVIOUS
<1>2. /\ state \in State /\ state.book \in Book /\ NotCrossed(state.book)
      /\ Indexed(state.book) /\ \A oid \in DOMAIN state.book.oid_to_level : oid < state.oid
  BY StateFacts DEF Sound, Agreed
<1>3. /\ locked.book = limit.book /\ order.oid = state.oid
      /\ settled = SettleFills(order, locked, limit.fills)
      /\ out.state = IF limit.remaining = 0 THEN settled
                     ELSE [settled EXCEPT !.order_status = Put(@, order.oid, status)]
  BY <1>1 DEF Placed
<1>4. limit.fills \in Seq(Fill) /\ limit.remaining \in 0..order.size
  BY <1>1, <1>2, LimitFacts
<1>5. IsNew(state.book, order)
  BY <1>2, <1>3 DEF IsNew
<1>6. Serves(limit, OrdersOf(state.book), order)
  BY <1>1, <1>2, <1>5, LimitServes
<1>7. Older(OrdersOf(state.book), order)
  BY <1>2, <1>5 DEF Indexed, Names, IsNew, Older
<1>8. out.state.book = limit.book
  <2>1. settled \in Settling(locked)
    BY <1>3, <1>4, SettleFillsFacts
  <2>2. settled.book = limit.book
    BY <1>3, <2>1 DEF Settling
  <2>3. PICK statuses, more : /\ statuses = Put(settled.order_status, order.oid, status)
                              /\ more = [settled EXCEPT !.order_status = statuses]
    OBVIOUS
  <2>4. more.book = settled.book
    BY <2>3 DEF State
  <2>. QED  BY <1>3, <2>2, <2>3, <2>4
<1>. QED  BY <1>1, <1>3, <1>4, <1>6, <1>7, <1>8

\* A step of the CLOB is a step of the auction, or leaves the book alone.
LEMMA NextServes ==
  SettlementInv /\ Agreement /\ [SettlementNext]_settlementVars => [Promise!Next]_Resting
<1>. SUFFICES ASSUME SettlementInv, Agreed(clob), [SettlementNext]_settlementVars
              PROVE  Promise!Next \/ Resting' = Resting
  BY DEF Agreement
<1>1. Sound(clob) /\ clob \in State /\ clob.oid \in Nat
  BY StateFacts DEF SettlementInv, Sound
<1>2. Resting = OrdersOf(clob.book) /\ Resting' = OrdersOf(clob'.book)
  BY DEF Resting, OrdersOf
<1>3. CASE UNCHANGED clob
  BY <1>2, <1>3
<1>4. CASE CreditDeposit
  BY <1>1, <1>2, <1>4, DepositAgrees DEF CreditDeposit, Deposit, SameBook
<1>5. ASSUME NEW req, RequestWithdraw(req)
      PROVE  Resting' = Resting
  BY <1>1, <1>2, <1>5, WithdrawAgrees DEF RequestWithdraw, Withdraw, SameBook
<1>6. ASSUME NEW req, RequestCancel(req)
      PROVE  Promise!Next \/ Resting' = Resting
  <2>1. Leaves(Resting, Resting')
    BY <1>1, <1>2, <1>6, CancelAgrees DEF RequestCancel, CancelOrder
  <2>. QED  BY <2>1 DEF Leaves, Promise!Next, Promise!Leave
<1>7. ASSUME NEW req \in Trades, RequestOrder(req)
      PROVE  Promise!Next \/ Resting' = Resting
  <2>1. /\ req \in AddOrderRequest /\ clob' = add_order(req, clob).state
        /\ clob.oid < MaxOid
    BY <1>7, AmountAssumption DEF RequestOrder, AddOrder
  <2>2. PICK out : out = add_order(req, clob) /\ clob' = out.state
    BY <2>1
  <2>3. CASE out = Outcome(FALSE, clob, <<>>)
    BY <1>2, <2>2, <2>3 DEF Outcome
  <2>4. CASE out = Outcome(FALSE, [clob EXCEPT !.oid = @ + 1], <<>>)
    <3>1. PICK oid \in Nat : oid = clob.oid + 1
      BY <1>1
    <3>2. PICK after : after = [clob EXCEPT !.oid = oid]
      OBVIOUS
    <3>3. [clob EXCEPT !.oid = @ + 1] = after
      BY <3>1, <3>2
    <3>4. after.book = clob.book
      BY <1>1, <3>2 DEF State
    <3>5. out.state = after
      BY <2>4, <3>3 DEF Outcome
    <3>. QED  BY <1>2, <2>2, <3>4, <3>5
  <2>5. ASSUME NEW order \in Order, NEW locked \in State, NEW settled \in State,
               NEW status \in FillStatus, Asked(order, req),
               Placed(add_order(req, clob), clob, order, locked, settled, status)
        PROVE  Promise!Next
    <3>1. PICK limit : limit = Limit(clob.book, order)
      OBVIOUS
    <3>2. /\ limit.remaining \in 0..order.size
          /\ Serves(limit, Resting, order)
          /\ Resting' = OrdersOf(limit.book)
          /\ order.oid = clob.oid
          /\ Older(Resting, order)
      BY <1>1, <1>2, <2>1, <2>5, <3>1, PlacedServes
    <3>3. Promise!Arrive(order)
      BY <3>2, Arrives
    <3>4. /\ order.is_buy \in BOOLEAN /\ order.address \in User
          /\ order.limit_price \in {r.limit_price : r \in Trades}
          /\ order.size \in {r.size : r \in Trades}
      BY <2>5, OrderFacts DEF Asked
    <3>5. order.oid \in Oids
      BY <1>1, <2>1, <3>2, AmountAssumption DEF Oids
    <3>6. order = [is_buy |-> order.is_buy, limit_price |-> order.limit_price,
                   size |-> order.size, oid |-> order.oid, address |-> order.address]
      BY DEF Order
    <3>7. \A m \in Resting : m.oid < order.oid
      BY <3>2 DEF Older
    <3>. QED  BY <3>3, <3>4, <3>5, <3>6, <3>7 DEF Promise!Next
  <2>. QED  BY <1>1, <2>1, <2>2, <2>3, <2>4, <2>5, AddOrderFacts
<1>8. CASE Settle \/ UNCHANGED settlementVars \/ \E req \in Deposits : DepositOnChain(req)
  BY <1>3, <1>8 DEF Settle, settlementVars, DepositOnChain
<1>. QED  BY <1>4, <1>5, <1>6, <1>7, <1>8 DEF SettlementNext

\* The order book (orderbook.rs), with its levels, its matching loop and its
\* index, implements the auction by price, then age, in every state the CLOB can
\* reach: an arriving order takes from the orders it crosses, best price first and
\* the oldest first at one price, what each can give, and rests with what is left;
\* a cancellation takes one order out and moves no other.
THEOREM ServesInTurnHolds == SettlementSpec => ServesInTurn
<1>1. SettlementInit => Agreement
  BY GenesisAgrees DEF SettlementInit, ClobInit, Agreement
<1>2. SettlementInit => Promise!Init
  <2>1. DOMAIN Empty = {}
    BY DEF Empty
  <2>. QED  BY <2>1 DEF SettlementInit, ClobInit, GenesisState, Promise!Init, Resting, OrdersAt
<1>. QED  BY <1>1, <1>2, AgreementInvariant, NextServes, SettlementInvariant, PTL
          DEF SettlementSpec, ServesInTurn, Promise!Spec

-----------------------------------------------------------------------------
(* The contract against the CLOB: what each user owns in all moves on both   *)
(* sides by the same amounts, up to a multiple of the modulus.               *)

HeldIn(balances, u) == InClob(balances, u, "free") + InClob(balances, u, "locked")

\* u has n more in g than in f.
Up(g, f, u, n) ==
    HeldIn(f, u) \in Int /\ HeldIn(g, u) \in Int /\ Near(HeldIn(g, u), HeldIn(f, u) + n)

\* An amount for one user.
For(user, u, n) == IF u = user THEN n ELSE 0

LEMMA HeldFacts ==
  ASSUME NEW balances \in Balances, NEW u
  PROVE  /\ HeldIn(balances, u) \in Int
         /\ HeldIn(balances, u) = IF u \in DOMAIN balances THEN FundsOf(balances)[u] ELSE 0
         /\ Up(balances, balances, u, 0)
<1>1. HeldIn(balances, u) = IF u \in DOMAIN balances THEN FundsOf(balances)[u] ELSE 0
  <2>1. CASE u \in DOMAIN balances
    BY <2>1, FundsFacts DEF HeldIn, InClob
  <2>2. CASE u \notin DOMAIN balances
    BY <2>2 DEF HeldIn, InClob
  <2>. QED  BY <2>1, <2>2
<1>2. HeldIn(balances, u) \in Int
  BY <1>1, FundsFacts
<1>3. PICK n \in Int : n = HeldIn(balances, u)
  BY <1>2
<1>4. n + 0 = n /\ Near(n, n)
  BY NearFacts
<1>. QED  BY <1>1, <1>3, <1>4 DEF Up

LEMMA UpFacts ==
  ASSUME NEW f, NEW g, NEW u, NEW n \in Int, Up(g, f, u, n)
  PROVE  \A h : \A m \in Int : Up(h, g, u, m) => Up(h, f, u, n + m)
<1>1. SUFFICES ASSUME NEW h, NEW m \in Int, Up(h, g, u, m)
               PROVE  Up(h, f, u, n + m)
  OBVIOUS
<1>2. PICK x \in Int, y \in Int, z \in Int :
         x = HeldIn(f, u) /\ y = HeldIn(g, u) /\ z = HeldIn(h, u)
  BY <1>1 DEF Up
<1>3. Near(z, y + m) /\ Near(y, x + n)
  BY <1>1, <1>2 DEF Up
<1>4. Near(z, x + m + n)
  BY <1>3, NearFacts
<1>5. x + m + n = x + (n + m)
  OBVIOUS
<1>. QED  BY <1>2, <1>4, <1>5 DEF Up

LEMMA AdjustUp ==
  ASSUME NEW balances \in Balances, NEW user \in DOMAIN balances,
         NEW field \in {"free", "locked"}, NEW delta \in Int, NEW u
  PROVE  /\ For(user, u, delta) \in Int
         /\ Up(Adjust(balances, user, field, delta), balances, u, For(user, u, delta))
<1>1. PICK after \in Balances : /\ after = Adjust(balances, user, field, delta)
                                /\ DOMAIN after = DOMAIN balances
  BY AdjustFacts
<1>2. PICK k \in Int : Shifted(after, balances, user, delta, k)
  BY <1>1, AdjustShifts
<1>3. PICK x \in Int, y \in Int : x = HeldIn(balances, u) /\ y = HeldIn(after, u)
  BY <1>1, HeldFacts
<1>4. CASE u = user
  <2>1. x = FundsOf(balances)[u] /\ y = FundsOf(after)[u]
    BY <1>1, <1>3, <1>4, HeldFacts
  <2>2. PICK p \in Int : p = Modulus * k
    <3>1. Modulus * k \in Int
      BY AmountAssumption
    <3>. QED  BY <3>1
  <2>3. y = x + (delta + p)
    BY <1>2, <1>4, <2>1, <2>2 DEF Shifted
  <2>4. y = x + delta + Modulus * k
    BY <2>2, <2>3
  <2>. QED  BY <1>1, <1>3, <1>4, <2>4 DEF Up, For, Near
<1>5. CASE u # user
  <2>1. y = x
    BY <1>1, <1>2, <1>3, <1>5, HeldFacts DEF Shifted
  <2>2. x + 0 = x /\ Near(x, x)
    BY NearFacts
  <2>. QED  BY <1>1, <1>3, <1>5, <2>1, <2>2 DEF Up, For
<1>. QED  BY <1>4, <1>5

LEMMA UnlockUp ==
  ASSUME NEW balances \in Balances, NEW user \in DOMAIN balances, NEW amount \in Int, NEW u
  PROVE  /\ Up(Unlock(balances, user, amount), balances, u, 0)
         /\ Up(Lock(balances, user, amount), balances, u, 0)
<1>1. ASSUME NEW n \in Int
      PROVE  Up(Unlock(balances, user, n), balances, u, 0)
  <2>1. PICK m \in Int : m = -n
    <3>1. -n \in Int
      OBVIOUS
    <3>. QED  BY <3>1
  <2>2. PICK once, twice : /\ once = Adjust(balances, user, "free", n)
                           /\ twice = Adjust(once, user, "locked", m)
    OBVIOUS
  <2>3. PICK x \in Int, y \in Int : x = For(user, u, n) /\ y = For(user, u, m)
    BY DEF For
  <2>4. once \in Balances /\ user \in DOMAIN once /\ Up(once, balances, u, x)
    BY <2>2, <2>3, AdjustFacts, AdjustUp
  <2>5. Up(twice, once, u, y)
    BY <2>2, <2>3, <2>4, AdjustUp
  <2>6. Up(twice, balances, u, x + y)
    BY <2>4, <2>5, UpFacts
  <2>7. x + y = 0
    BY <2>1, <2>3 DEF For
  <2>. QED  BY <2>1, <2>2, <2>6, <2>7 DEF Unlock
<1>2. PICK m \in Int : m = -amount
  <2>1. -amount \in Int
    OBVIOUS
  <2>. QED  BY <2>1
<1>. QED  BY <1>1, <1>2 DEF Lock

LEMMA CreditUp ==
  ASSUME NEW balances \in Balances, NEW user \in User, NEW amount \in U64, NEW u
  PROVE  Up(Credit(balances, user, amount), balances, u, For(user, u, amount))
<1>0. amount \in Int
  BY U64Facts
<1>1. CASE user \in DOMAIN balances
  BY <1>0, <1>1, AdjustUp DEF Credit
<1>2. CASE user \notin DOMAIN balances
  <2>1. PICK b : b = [free |-> amount, locked |-> 0]
    OBVIOUS
  <2>2. PICK after : after = Put(balances, user, b)
    OBVIOUS
  <2>3. Credit(balances, user, amount) = after /\ after \in Balances
    BY <1>2, <2>1, <2>2, CreditFacts DEF Credit
  <2>4. /\ DOMAIN after = DOMAIN balances \cup {user} /\ after[user] = b
        /\ \A v \in DOMAIN balances : after[v] = balances[v]
    BY <1>2, <2>2 DEF Put
  <2>5. PICK x \in Int, y \in Int : x = HeldIn(balances, u) /\ y = HeldIn(after, u)
    BY <2>3, HeldFacts
  <2>6. CASE u = user
    <3>1. x = 0
      BY <1>2, <2>5, <2>6 DEF HeldIn, InClob
    <3>2. y = amount
      BY <1>0, <2>1, <2>4, <2>5, <2>6 DEF HeldIn, InClob
    <3>3. x + amount = y /\ Near(y, y)
      BY <1>0, <3>1, <3>2, NearFacts
    <3>. QED  BY <2>3, <2>5, <2>6, <3>3 DEF Up, For
  <2>7. CASE u # user
    <3>1. y = x
      BY <2>4, <2>5, <2>7 DEF HeldIn, InClob
    <3>2. x + 0 = x /\ Near(x, x)
      BY NearFacts
    <3>. QED  BY <2>3, <2>5, <2>7, <3>1, <3>2 DEF Up, For
  <2>. QED  BY <2>6, <2>7
<1>. QED  BY <1>1, <1>2

\* An account that is removed holds nothing.
LEMMA PruneUp ==
  ASSUME NEW state \in State, NEW user, user \in DOMAIN state.base \cap DOMAIN state.quote, NEW u
  PROVE  /\ HeldIn(Prune(state, user).base, u) = HeldIn(state.base, u)
         /\ HeldIn(Prune(state, user).quote, u) = HeldIn(state.quote, u)
<1>1. PICK base, quote : base = state.base /\ quote = state.quote
  OBVIOUS
<1>2. CASE base[user] = Zero /\ quote[user] = Zero
  <2>1. PICK base2, quote2 : base2 = Without(base, user) /\ quote2 = Without(quote, user)
    OBVIOUS
  <2>2. PICK after : after = [state EXCEPT !.base = base2, !.quote = quote2]
    OBVIOUS
  <2>3. Prune(state, user) = after /\ after.base = base2 /\ after.quote = quote2
    BY <1>1, <1>2, <2>1, <2>2 DEF Prune, RestrictDomain, Without, State
  <2>4. ASSUME NEW f, user \in DOMAIN f, f[user] = Zero
        PROVE  HeldIn(Without(f, user), u) = HeldIn(f, u)
    <3>1. /\ DOMAIN Without(f, user) = DOMAIN f \ {user}
          /\ \A v \in DOMAIN f \ {user} : Without(f, user)[v] = f[v]
      BY DEF Without, Restrict
    <3>2. CASE u = user
      BY <2>4, <3>1, <3>2 DEF HeldIn, InClob, Zero
    <3>3. CASE u # user
      BY <3>1, <3>3 DEF HeldIn, InClob
    <3>. QED  BY <3>2, <3>3
  <2>. QED  BY <1>1, <1>2, <2>1, <2>3, <2>4
<1>3. CASE ~(base[user] = Zero /\ quote[user] = Zero)
  BY <1>1, <1>3 DEF Prune
<1>. QED  BY <1>2, <1>3

InAccount(orders, u, asset) == orders[u].free[asset] + orders[u].locked[asset]

LEMMA GiveUp ==
  ASSUME NEW orders \in Orders, NEW user \in User, NEW free \in Amounts, NEW locked \in Amounts,
         NEW n \in Amounts, Comes(orders, user, free, locked, n),
         NEW u \in User, NEW asset \in Asset
  PROVE  /\ Give(orders, user, free, locked) \in Orders
         /\ InAccount(orders, u, asset) \in Int
         /\ InAccount(Give(orders, user, free, locked), u, asset)
               = InAccount(orders, u, asset) + For(user, u, n[asset])
<1>1. PICK after : after = Give(orders, user, free, locked)
  OBVIOUS
<1>2. after \in Orders /\ Given(after, orders, user, free, locked)
  BY <1>1, OrdersFacts
<1>3. PICK wasFree \in Amounts, wasLocked \in Amounts :
         wasFree = orders[u].free /\ wasLocked = orders[u].locked
  BY OrdersFacts
<1>4. PICK x \in Int, y \in Int, k \in Int :
         x = wasFree[asset] /\ y = wasLocked[asset] /\ k = n[asset]
  BY AmountsFacts
<1>5. InAccount(orders, u, asset) = x + y
  BY <1>3, <1>4 DEF InAccount
<1>6. /\ FreeOf(after)[u] = IF u = user THEN free ELSE wasFree
      /\ LockedOf(after)[u] = IF u = user THEN locked ELSE wasLocked
  BY <1>2, <1>3 DEF Given, FreeOf, LockedOf
<1>7. after[u].free = FreeOf(after)[u] /\ after[u].locked = LockedOf(after)[u]
  BY DEF FreeOf, LockedOf
<1>8. CASE u = user
  <2>1. InAccount(after, u, asset) = free[asset] + locked[asset]
    BY <1>6, <1>7, <1>8 DEF InAccount
  <2>2. free[asset] + locked[asset] = x + y + k
    BY <1>3, <1>4, <1>8 DEF Comes
  <2>. QED  BY <1>1, <1>2, <1>4, <1>5, <1>8, <2>1, <2>2 DEF For
<1>9. CASE u # user
  <2>1. InAccount(after, u, asset) = x + y
    BY <1>4, <1>6, <1>7, <1>9 DEF InAccount
  <2>. QED  BY <1>1, <1>2, <1>4, <1>5, <1>9, <2>1 DEF For
<1>. QED  BY <1>8, <1>9

\* What the deltas bring to a user, free and locked together.
Net(sums, u, asset) ==
    sums.deposits[u][asset] - sums.withdraws[u][asset] + InAccount(sums.orders, u, asset)

\* What a diff brings to a user.
Brings(diff, u, asset) ==
    IF diff.kind = "deposit" THEN For(diff.user, u, diff.amounts[asset])
    ELSE IF diff.kind = "withdraw" THEN For(diff.user, u, -diff.amounts[asset])
    ELSE IF diff.kind # "fill" THEN 0
    ELSE IF asset = "base"
    THEN For(diff.seller, u, -diff.amounts[asset]) + For(diff.buyer, u, diff.amounts[asset])
    ELSE For(diff.seller, u, diff.amounts[asset]) + For(diff.buyer, u, -diff.amounts[asset])

LEMMA ExchangeUp ==
  ASSUME NEW orders \in Orders, NEW diff \in TradeDiff, NEW u \in User, NEW asset \in Asset
  PROVE  /\ Brings(diff, u, asset) \in Int
         /\ InAccount(orders, u, asset) \in Int
         /\ InAccount(Exchange(orders, diff), u, asset)
               = InAccount(orders, u, asset) + Brings(diff, u, asset)
<1>1. PICK buyer \in User, seller \in User, x \in Int, y \in Int,
           base \in Amounts, quote \in Amounts :
         /\ buyer = diff.buyer /\ seller = diff.seller
         /\ x = diff.amounts["base"] /\ y = diff.amounts["quote"]
         /\ base = Both(x, 0) /\ quote = Both(0, y)
  BY ExchangeIsPays
<1>2. PICK bought, after : /\ bought = Pays(orders, buyer, quote, base)
                           /\ after = Pays(bought, seller, base, quote)
  OBVIOUS
<1>3. Exchange(orders, diff) = after
  BY <1>1, <1>2, ExchangeIsPays
<1>4. ASSUME NEW o \in Orders, NEW user \in User, NEW plus \in Amounts, NEW minus \in Amounts
      PROVE  /\ Pays(o, user, minus, plus) \in Orders
             /\ InAccount(o, u, asset) \in Int
             /\ InAccount(Pays(o, user, minus, plus), u, asset)
                   = InAccount(o, u, asset) + For(user, u, plus[asset] - minus[asset])
  <2>1. PICK n \in Amounts : n = Minus(plus, minus)
    BY AmountsFacts
  <2>2. PICK free \in Amounts, locked \in Amounts :
           /\ Pays(o, user, minus, plus) = Give(o, user, free, locked)
           /\ Comes(o, user, free, locked, n)
    BY <2>1, PaysIsGive
  <2>3. n[asset] = plus[asset] - minus[asset]
    BY <2>1, AmountsFacts
  <2>. QED  BY <2>2, <2>3, GiveUp
<1>5. PICK a \in Int, b \in Int : a = base[asset] /\ b = quote[asset]
  BY AmountsFacts
<1>6. PICK v \in Int, w \in Int : v = For(buyer, u, a - b) /\ w = For(seller, u, b - a)
  <2>1. PICK n \in Int, m \in Int : n = a - b /\ m = b - a
    OBVIOUS
  <2>2. For(buyer, u, n) \in Int /\ For(seller, u, m) \in Int
    BY DEF For
  <2>. QED  BY <2>1, <2>2
<1>7. PICK p \in Int : p = InAccount(orders, u, asset)
  BY <1>4
<1>8. bought \in Orders /\ InAccount(bought, u, asset) = p + v
  BY <1>2, <1>4, <1>5, <1>6, <1>7
<1>9. InAccount(after, u, asset) = p + v + w
  BY <1>2, <1>4, <1>5, <1>6, <1>8
<1>10. Brings(diff, u, asset) = v + w
  <2>1. diff.kind = "fill"
    BY DEF TradeDiff
  <2>2. CASE asset = "base"
    <3>1. a = x /\ b = 0
      BY <1>1, <1>5, <2>2 DEF Both, Asset
    <3>2. Brings(diff, u, asset) = For(seller, u, -x) + For(buyer, u, x)
      BY <1>1, <2>1, <2>2 DEF Brings
    <3>3. v = For(buyer, u, x) /\ w = For(seller, u, -x)
      BY <1>6, <3>1 DEF For
    <3>. QED  BY <3>2, <3>3
  <2>3. CASE asset = "quote"
    <3>1. a = 0 /\ b = y
      BY <1>1, <1>5, <2>3 DEF Both, Asset
    <3>2. Brings(diff, u, asset) = For(seller, u, y) + For(buyer, u, -y)
      BY <1>1, <2>1, <2>3 DEF Brings
    <3>3. v = For(buyer, u, -y) /\ w = For(seller, u, y)
      BY <1>6, <3>1 DEF For
    <3>. QED  BY <3>2, <3>3
  <2>. QED  BY <2>2, <2>3 DEF Asset
<1>. QED  BY <1>3, <1>7, <1>9, <1>10

LEMMA NetFacts ==
  ASSUME NEW sums \in Deltas, NEW u \in User, NEW asset \in Asset
  PROVE  /\ sums.deposits[u][asset] \in Int /\ sums.withdraws[u][asset] \in Int
         /\ InAccount(sums.orders, u, asset) \in Int
         /\ Net(sums, u, asset) \in Int
<1>1. /\ sums.deposits \in Owned /\ sums.withdraws \in Owned /\ sums.orders \in Orders
  BY DEF Deltas
<1>2. sums.deposits[u] \in Amounts /\ sums.withdraws[u] \in Amounts
  BY <1>1 DEF Owned
<1>3. sums.orders[u].free \in Amounts /\ sums.orders[u].locked \in Amounts
  <2>1. sums.orders[u] \in [free : Amounts, locked : Amounts]
    BY <1>1 DEF Orders
  <2>. QED  BY <2>1
<1>4. \A a \in Amounts : a[asset] \in Int
  BY DEF Amounts
<1>5. PICK x \in Int, y \in Int, v \in Int, w \in Int :
         /\ x = sums.deposits[u][asset] /\ y = sums.withdraws[u][asset]
         /\ v = sums.orders[u].free[asset] /\ w = sums.orders[u].locked[asset]
  BY <1>2, <1>3, <1>4
<1>. QED  BY <1>5 DEF Net, InAccount

LEMMA OwnedUp ==
  ASSUME NEW f \in Owned, NEW user \in User, NEW amounts \in Amounts,
         NEW u \in User, NEW asset \in Asset
  PROVE  /\ f[u][asset] \in Int /\ For(user, u, amounts[asset]) \in Int
         /\ [f EXCEPT ![user] = Plus(@, amounts)][u][asset]
               = f[u][asset] + For(user, u, amounts[asset])
<1>1. f[u] \in Amounts /\ f[user] \in Amounts
  BY DEF Owned
<1>2. PICK x \in Int, k \in Int : x = f[u][asset] /\ k = amounts[asset]
  BY <1>1, AmountsFacts
<1>3. PICK more \in Amounts : more = Plus(f[user], amounts)
  BY <1>1, AmountsFacts
<1>4. [f EXCEPT ![user] = more][u] = IF u = user THEN more ELSE f[u]
  BY DEF Owned
<1>5. u = user => more[asset] = x + k
  BY <1>1, <1>2, <1>3, AmountsFacts
<1>. QED  BY <1>2, <1>3, <1>4, <1>5 DEF For

LEMMA ApplyUp ==
  ASSUME NEW sums \in Balanced, NEW diff \in AnyDiff, NEW u \in User, NEW asset \in Asset
  PROVE  /\ Net(sums, u, asset) \in Int /\ Brings(diff, u, asset) \in Int
         /\ Net(Apply(sums, diff), u, asset) = Net(sums, u, asset) + Brings(diff, u, asset)
<1>1. /\ sums \in Deltas /\ sums.deposits \in Owned /\ sums.withdraws \in Owned
      /\ sums.orders \in Orders
  BY DEF Balanced, Deltas
<1>2. PICK x \in Int, y \in Int, z \in Int :
         /\ x = sums.deposits[u][asset] /\ y = sums.withdraws[u][asset]
         /\ z = InAccount(sums.orders, u, asset)
  BY <1>1, NetFacts
<1>3. Net(sums, u, asset) = x - y + z
  BY <1>2 DEF Net
<1>4. CASE diff \in TradeDiff
  <2>1. PICK orders : orders = Exchange(sums.orders, diff)
    OBVIOUS
  <2>2. PICK n \in Int : n = Brings(diff, u, asset) /\ InAccount(orders, u, asset) = z + n
    BY <1>1, <1>2, <1>4, <2>1, ExchangeUp
  <2>3. PICK after : after = [sums EXCEPT !.orders = orders]
    OBVIOUS
  <2>4. Apply(sums, diff) = after
    BY <1>4, <2>1, <2>3 DEF Apply, TradeDiff
  <2>5. /\ after.deposits = sums.deposits /\ after.withdraws = sums.withdraws
        /\ after.orders = orders
    BY <1>1, <2>3 DEF Deltas
  <2>6. Net(after, u, asset) = x - y + (z + n)
    BY <1>2, <2>2, <2>5 DEF Net
  <2>. QED  BY <1>3, <2>2, <2>4, <2>6
<1>5. CASE diff \in UserDiff
  <2>1. PICK user \in User, amounts \in Amounts : user = diff.user /\ amounts = diff.amounts
    BY <1>5 DEF UserDiff
  <2>2. PICK k \in Int, n \in Int : k = amounts[asset] /\ n = For(user, u, k)
    BY AmountsFacts DEF For
  <2>3. CASE diff.kind = "deposit"
    <3>1. PICK f : f = [sums.deposits EXCEPT ![user] = Plus(@, amounts)]
      OBVIOUS
    <3>2. PICK after : after = [sums EXCEPT !.deposits = f]
      OBVIOUS
    <3>3. Apply(sums, diff) = after
      BY <1>1, <2>1, <2>3, <3>1, <3>2 DEF Apply, Deltas
    <3>4. /\ after.deposits = f /\ after.withdraws = sums.withdraws
          /\ after.orders = sums.orders
      BY <1>1, <3>2 DEF Deltas
    <3>5. f[u][asset] = x + n
      BY <1>1, <1>2, <2>2, <3>1, OwnedUp
    <3>6. Net(after, u, asset) = x + n - y + z
      BY <1>2, <3>4, <3>5 DEF Net
    <3>7. Brings(diff, u, asset) = n
      BY <2>1, <2>2, <2>3 DEF Brings
    <3>. QED  BY <1>3, <3>3, <3>6, <3>7
  <2>4. CASE diff.kind = "withdraw"
    <3>1. PICK f : f = [sums.withdraws EXCEPT ![user] = Plus(@, amounts)]
      OBVIOUS
    <3>2. PICK after : after = [sums EXCEPT !.withdraws = f]
      OBVIOUS
    <3>3. Apply(sums, diff) = after
      BY <1>1, <2>1, <2>4, <3>1, <3>2 DEF Apply, Deltas
    <3>4. /\ after.deposits = sums.deposits /\ after.withdraws = f
          /\ after.orders = sums.orders
      BY <1>1, <3>2 DEF Deltas
    <3>5. f[u][asset] = y + n
      BY <1>1, <1>2, <2>2, <3>1, OwnedUp
    <3>6. Net(after, u, asset) = x - (y + n) + z
      BY <1>2, <3>4, <3>5 DEF Net
    <3>7. Brings(diff, u, asset) = -n
      BY <2>1, <2>2, <2>4 DEF Brings, For
    <3>. QED  BY <1>3, <3>3, <3>6, <3>7
  <2>5. CASE diff.kind \in {"create", "cancel"}
    <3>1. PICK orders \in {ToLocked(sums.orders, user, amounts),
                           ToFree(sums.orders, user, amounts)} :
             Apply(sums, diff) = [sums EXCEPT !.orders = orders]
      BY <2>1, <2>5 DEF Apply
    <3>2. PICK none \in Amounts : none = Nothing /\ none[asset] = 0
      BY NothingFacts
    <3>3. PICK free \in Amounts, locked \in Amounts :
             /\ orders = Give(sums.orders, user, free, locked)
             /\ Comes(sums.orders, user, free, locked, none)
      BY <1>1, <3>2, ShiftIsGive
    <3>4. InAccount(orders, u, asset) = z + For(user, u, none[asset])
      BY <1>1, <1>2, <3>3, GiveUp
    <3>5. InAccount(orders, u, asset) = z
      BY <3>2, <3>4 DEF For
    <3>6. PICK after : after = [sums EXCEPT !.orders = orders]
      OBVIOUS
    <3>7. /\ after.deposits = sums.deposits /\ after.withdraws = sums.withdraws
          /\ after.orders = orders
      BY <1>1, <3>6 DEF Deltas
    <3>8. Net(after, u, asset) = x - y + z
      BY <1>2, <3>5, <3>7 DEF Net
    <3>9. Brings(diff, u, asset) = 0
      BY <2>5 DEF Brings
    <3>. QED  BY <1>3, <3>1, <3>6, <3>8, <3>9
  <2>. QED  BY <1>5, <2>3, <2>4, <2>5 DEF UserDiff
<1>. QED  BY <1>4, <1>5 DEF AnyDiff

BalancesOf(state, asset) == IF asset = "base" THEN state.base ELSE state.quote

\* What the deltas bring to a user, less what the CLOB holds for the user.
Level(sums, state, u, asset) == Net(sums, u, asset) - HeldIn(BalancesOf(state, asset), u)

\* Equal up to a multiple of the modulus, whatever is added to both.
Likewise(n, m) == \A c \in Int : Wrap(c + n) = Wrap(c + m)

\* One has moved as the other.
InStep(sums2, state2, sums, state) ==
    \A u \in User, asset \in Asset :
        Likewise(Level(sums2, state2, u, asset), Level(sums, state, u, asset))

LEMMA InStepFacts ==
  /\ \A sums, state : InStep(sums, state, sums, state)
  /\ \A s1, t1, s2, t2, s3, t3 :
        InStep(s3, t3, s2, t2) /\ InStep(s2, t2, s1, t1) => InStep(s3, t3, s1, t1)
  BY DEF InStep, Likewise

LEMMA LevelMoves ==
  ASSUME NEW n \in Int, NEW k \in Int, NEW h \in Int, NEW h2 \in Int, Near(h2, h + k)
  PROVE  Likewise(n + k - h2, n - h)
<1>1. PICK j \in Int : h2 = h + k + Modulus * j
  BY DEF Near
<1>2. PICK p \in Int : p = Modulus * j
  <2>1. Modulus * j \in Int
    BY AmountAssumption
  <2>. QED  BY <2>1
<1>3. PICK i \in Int : i = -j /\ Modulus * i = -p
  <2>1. -j \in Int /\ Modulus * (-j) = -(Modulus * j)
    BY AmountAssumption
  <2>. QED  BY <1>2, <2>1
<1>4. ASSUME NEW c \in Int
      PROVE  Wrap(c + (n + k - h2)) = Wrap(c + (n - h))
  <2>1. PICK x \in Int, y \in Int : x = c + (n + k - h2) /\ y = c + (n - h)
    OBVIOUS
  <2>2. x = y + Modulus * i
    BY <1>1, <1>2, <1>3, <2>1
  <2>3. Near(x, y)
    BY <2>2 DEF Near
  <2>. QED  BY <2>1, <2>3, NearFacts
<1>. QED  BY <1>4 DEF Likewise

\* The balances of a state after a diff.
Grown(state2, state, diff) ==
    \A u \in User, asset \in Asset :
        Up(BalancesOf(state2, asset), BalancesOf(state, asset), u, Brings(diff, u, asset))

LEMMA ApplyInStep ==
  ASSUME NEW sums \in Balanced, NEW diff \in AnyDiff, NEW state, NEW state2,
         Grown(state2, state, diff)
  PROVE  InStep(Apply(sums, diff), state2, sums, state)
<1>. SUFFICES ASSUME NEW u \in User, NEW asset \in Asset
              PROVE  Likewise(Level(Apply(sums, diff), state2, u, asset),
                              Level(sums, state, u, asset))
  BY DEF InStep
<1>1. PICK n \in Int, k \in Int : /\ n = Net(sums, u, asset) /\ k = Brings(diff, u, asset)
                                  /\ Net(Apply(sums, diff), u, asset) = n + k
  BY ApplyUp
<1>2. Up(BalancesOf(state2, asset), BalancesOf(state, asset), u, k)
  BY <1>1 DEF Grown
<1>3. PICK h \in Int, h2 \in Int : /\ h = HeldIn(BalancesOf(state, asset), u)
                                   /\ h2 = HeldIn(BalancesOf(state2, asset), u)
                                   /\ Near(h2, h + k)
  BY <1>2 DEF Up
<1>4. Likewise(n + k - h2, n - h)
  BY <1>3, LevelMoves
<1>. QED  BY <1>1, <1>3, <1>4 DEF Level

\* Balances that have not moved.
Level0(state2, state) ==
    \A u \in User, asset \in Asset :
        Up(BalancesOf(state2, asset), BalancesOf(state, asset), u, 0)

LEMMA StillInStep ==
  ASSUME NEW sums \in Balanced, NEW state, NEW state2, Level0(state2, state)
  PROVE  InStep(sums, state2, sums, state)
<1>. SUFFICES ASSUME NEW u \in User, NEW asset \in Asset
              PROVE  Likewise(Level(sums, state2, u, asset), Level(sums, state, u, asset))
  BY DEF InStep
<1>1. PICK n \in Int : n = Net(sums, u, asset)
  BY NetFacts DEF Balanced
<1>2. PICK h \in Int, h2 \in Int, k \in Int : /\ h = HeldIn(BalancesOf(state, asset), u)
                                             /\ h2 = HeldIn(BalancesOf(state2, asset), u)
                                             /\ k = 0 /\ Near(h2, h + k)
  BY DEF Level0, Up
<1>3. Likewise(n + k - h2, n - h)
  BY <1>2, LevelMoves
<1>4. n + k - h2 = n - h2
  BY <1>2
<1>. QED  BY <1>1, <1>2, <1>3, <1>4 DEF Level

LEMMA SettleFillGrows ==
  ASSUME NEW order \in Order, NEW s0, NEW s \in Settling(s0), NEW fill \in Fill,
         Buyer(order, fill) \in DOMAIN s.base \cap DOMAIN s.quote,
         Seller(order, fill) \in DOMAIN s.base \cap DOMAIN s.quote
  PROVE  Grown(SettleFill(order, s, fill), s,
               FillDiff(Buyer(order, fill), Seller(order, fill), fill.size, FillQuote(fill)))
<1>0. fill.size \in Int /\ FillQuote(fill) \in Int
  BY FillFacts, U64Facts
<1>1. PICK buyer \in {Buyer(order, fill)}, seller \in {Seller(order, fill)},
           size \in Int, quote \in Int :
         /\ buyer = Buyer(order, fill) /\ seller = Seller(order, fill)
         /\ size = fill.size /\ quote = FillQuote(fill)
  BY <1>0
<1>2. PICK lessSize \in Int, lessQuote \in Int : lessSize = -size /\ lessQuote = -quote
  OBVIOUS
<1>3. PICK base1, base2, quote1, quote2, counted :
         /\ base1 = Adjust(s.base, seller, "locked", lessSize)
         /\ base2 = Adjust(base1, buyer, "free", size)
         /\ quote1 = Adjust(s.quote, seller, "free", quote)
         /\ quote2 = Adjust(quote1, buyer, "locked", lessQuote)
         /\ counted = CountFill(s.order_status, fill)
  OBVIOUS
<1>4. s \in State /\ s.base \in Balances /\ s.quote \in Balances
  BY StateFacts DEF Settling
<1>5. PICK after : after = [s EXCEPT !.base = base2, !.quote = quote2, !.order_status = counted]
  OBVIOUS
<1>6. SettleFill(order, s, fill) = after
  BY <1>1, <1>2, <1>3, <1>5 DEF SettleFill
<1>7. after.base = base2 /\ after.quote = quote2
  BY <1>4, <1>5 DEF State
<1>8. PICK diff : diff = FillDiff(buyer, seller, size, quote)
  OBVIOUS
<1>9. /\ diff.kind = "fill" /\ diff.buyer = buyer /\ diff.seller = seller
      /\ diff.amounts["base"] = size /\ diff.amounts["quote"] = quote
  BY <1>8 DEF FillDiff, Both, Asset
<1>10. base1 \in Balances /\ buyer \in DOMAIN base1 /\ quote1 \in Balances /\ buyer \in DOMAIN quote1
  BY <1>1, <1>3, <1>4, AdjustFacts
<1>11. ASSUME NEW u \in User
       PROVE  Up(base2, s.base, u, Brings(diff, u, "base"))
  <2>1. PICK x \in Int, y \in Int : x = For(seller, u, lessSize) /\ y = For(buyer, u, size)
    BY DEF For
  <2>2. Up(base1, s.base, u, x)
    BY <1>1, <1>3, <1>4, <2>1, AdjustUp
  <2>3. Up(base2, base1, u, y)
    BY <1>3, <1>10, <2>1, AdjustUp
  <2>4. Up(base2, s.base, u, x + y)
    BY <2>2, <2>3, UpFacts
  <2>5. Brings(diff, u, "base") = For(seller, u, -size) + For(buyer, u, size)
    BY <1>9 DEF Brings
  <2>. QED  BY <1>2, <2>1, <2>4, <2>5
<1>12. ASSUME NEW u \in User
       PROVE  Up(quote2, s.quote, u, Brings(diff, u, "quote"))
  <2>1. PICK x \in Int, y \in Int : x = For(seller, u, quote) /\ y = For(buyer, u, lessQuote)
    BY DEF For
  <2>2. Up(quote1, s.quote, u, x)
    BY <1>1, <1>3, <1>4, <2>1, AdjustUp
  <2>3. Up(quote2, quote1, u, y)
    BY <1>3, <1>10, <2>1, AdjustUp
  <2>4. Up(quote2, s.quote, u, x + y)
    BY <2>2, <2>3, UpFacts
  <2>5. Brings(diff, u, "quote") = For(seller, u, quote) + For(buyer, u, -quote)
    BY <1>9 DEF Brings
  <2>. QED  BY <1>2, <2>1, <2>4, <2>5
<1>13. Grown(after, s, diff)
  BY <1>7, <1>11, <1>12 DEF Grown, BalancesOf, Asset
<1>. QED  BY <1>1, <1>6, <1>8, <1>13

\* The diffs of a request are a first one and those of its fills: the sums take
\* them one by one as the CLOB settles the fills.
LEMMA FillsInStep ==
  ASSUME NEW order \in Order, NEW s0 \in State, NEW fills \in Seq(Fill),
         order.address \in DOMAIN s0.base \cap DOMAIN s0.quote,
         \A i \in DOMAIN fills :
            fills[i].maker.address \in DOMAIN s0.base \cap DOMAIN s0.quote,
         NEW first \in AnyDiff, NEW sums \in Balanced, NEW state, Grown(s0, state, first)
  PROVE  InStep(ApplyAll(sums, <<first>> \o FillDiffs(order, fills)),
                SettleFills(order, s0, fills), sums, state)
<1>1. IsStep(SettleSteps(order, s0), Settling(s0), Fill) /\ s0 \in Settling(s0)
  BY SettleStepsIsStep
<1>2. PICK f : Runs(f, Settling(s0), SettleSteps(order, s0), s0, fills)
  BY <1>1, FoldRuns
<1>3. PICK n \in Nat : n = Len(fills) /\ DOMAIN fills = 1..n /\ \A i \in 1..n : fills[i] \in Fill
  OBVIOUS
<1>4. /\ f[0] = s0 /\ f[n] = Folded(SettleSteps(order, s0), s0, fills)
      /\ \A i \in 0..n : f[i] \in Settling(s0)
      /\ \A i \in 0..(n - 1) : f[i + 1] = SettleSteps(order, s0)[f[i]][fills[i + 1]]
  BY <1>2, <1>3 DEF Runs
<1>5. PICK rest \in Seq(AnyDiff), diffs \in Seq(AnyDiff) :
         rest = FillDiffs(order, fills) /\ diffs = <<first>> \o rest
  <2>1. <<first>> \in Seq(AnyDiff) /\ FillDiffs(order, fills) \in Seq(AnyDiff)
    BY FillDiffsFacts
  <2>. QED  BY <2>1, ConcatFacts
<1>6. /\ Len(rest) = n /\ Len(diffs) = n + 1 /\ diffs[1] = first
      /\ \A i \in 1..n : diffs[i + 1] = rest[i]
  <2>1. DOMAIN rest = DOMAIN fills
    BY <1>5 DEF FillDiffs
  <2>2. Len(rest) = n
    BY <1>3, <2>1
  <2>. QED  BY <1>5, <2>2
<1>7. ASSUME NEW i \in 1..n
      PROVE  rest[i] = FillDiff(Buyer(order, fills[i]), Seller(order, fills[i]), fills[i].size,
                                FillQuote(fills[i]))
  BY <1>3, <1>5 DEF FillDiffs
<1>8. PICK g : Runs(g, Balanced, ApplySteps, sums, diffs)
  BY ApplyStepsIsStep, FoldRuns
<1>9. /\ g[0] = sums /\ g[n + 1] = Folded(ApplySteps, sums, diffs)
      /\ \A i \in 0..(n + 1) : g[i] \in Balanced
      /\ \A i \in 0..n : g[i + 1] = ApplySteps[g[i]][diffs[i + 1]]
  <2>1. PICK m \in Nat : m = Len(diffs) /\ m = n + 1 /\ 0..(m - 1) = 0..n
    BY <1>6
  <2>2. /\ g[0] = sums /\ g[m] = Folded(ApplySteps, sums, diffs)
        /\ \A i \in 0..m : g[i] \in Balanced
        /\ \A i \in 0..(m - 1) : g[i + 1] = ApplySteps[g[i]][diffs[i + 1]]
    BY <1>8, <2>1 DEF Runs
  <2>. QED  BY <2>1, <2>2
<1>10. \A i \in 0..n : diffs[i + 1] \in AnyDiff
  <2>1. \A i \in 0..n : i + 1 \in 1..Len(diffs)
    BY <1>6
  <2>. QED  BY <2>1
<1>11. \A i \in 0..n : g[i] \in Balanced /\ g[i + 1] = Apply(g[i], diffs[i + 1])
  <2>1. SUFFICES ASSUME NEW i \in 0..n
                 PROVE  g[i] \in Balanced /\ g[i + 1] = Apply(g[i], diffs[i + 1])
    OBVIOUS
  <2>2. i \in 0..(n + 1)
    BY <1>3
  <2>. QED  BY <1>9, <1>10, <2>2, ApplyStepsIsStep
<1>. DEFINE F == {i \in 0..n : InStep(g[i + 1], f[i], sums, state)}
<1>12. 0 \in F
  <2>1. 0 \in 0..n /\ 0 + 1 = 1
    BY <1>3
  <2>2. g[1] = Apply(sums, first)
    BY <1>6, <1>9, <1>11, <2>1
  <2>3. InStep(g[1], s0, sums, state)
    BY <2>2, ApplyInStep
  <2>. QED  BY <1>4, <2>1, <2>3
<1>13. ASSUME NEW i \in 0..(n - 1), i \in F
      PROVE  i + 1 \in F
  <2>1. i \in 0..n /\ i + 1 \in 1..n /\ i + 1 \in 0..n
    BY <1>3
  <2>2. PICK s \in Settling(s0), fill \in Fill : s = f[i] /\ fill = fills[i + 1]
    BY <1>3, <1>4, <2>1
  <2>3. f[i + 1] = SettleFill(order, s, fill)
    <3>1. f[i + 1] = SettleSteps(order, s0)[s][fill]
      BY <1>4, <2>2
    <3>2. SettleSteps(order, s0)[s][fill] = SettleFill(order, s, fill)
      BY SettleFillFacts
    <3>. QED  BY <3>1, <3>2
  <2>4. fill.maker.address \in DOMAIN s0.base \cap DOMAIN s0.quote
    BY <1>3, <2>1, <2>2
  <2>5. DOMAIN s.base = DOMAIN s0.base /\ DOMAIN s.quote = DOMAIN s0.quote
    BY DEF Settling
  <2>6. /\ Buyer(order, fill) \in DOMAIN s.base \cap DOMAIN s.quote
        /\ Seller(order, fill) \in DOMAIN s.base \cap DOMAIN s.quote
    BY <2>4, <2>5 DEF Buyer, Seller
  <2>7. PICK diff \in AnyDiff, mid \in Balanced, next \in {g[(i + 1) + 1]} :
           /\ diff = diffs[(i + 1) + 1] /\ mid = g[i + 1] /\ next = g[(i + 1) + 1]
    BY <1>10, <1>11, <2>1
  <2>8. next = Apply(mid, diff)
    BY <1>11, <2>1, <2>7
  <2>9. diff = FillDiff(Buyer(order, fill), Seller(order, fill), fill.size, FillQuote(fill))
    <3>1. diff = rest[i + 1]
      BY <1>6, <2>1, <2>7
    <3>. QED  BY <1>7, <2>1, <2>2, <3>1
  <2>10. Grown(f[i + 1], s, diff)
    BY <2>3, <2>6, <2>9, SettleFillGrows
  <2>11. InStep(next, f[i + 1], mid, s)
    BY <2>8, <2>10, ApplyInStep
  <2>12. InStep(mid, s, sums, state)
    BY <1>13, <2>2, <2>7
  <2>13. InStep(next, f[i + 1], sums, state)
    BY <2>11, <2>12, InStepFacts
  <2>. QED  BY <2>1, <2>7, <2>13
<1>. HIDE DEF F
<1>14. 0..n \subseteq F
  BY <1>3, <1>12, <1>13, InductionUpTo
<1>15. n \in F
  BY <1>3, <1>14
<1>16. InStep(g[n + 1], f[n], sums, state)
  BY <1>15 DEF F
<1>17. ApplyAll(sums, diffs) = g[n + 1]
  BY <1>5, <1>9, ApplyAllFacts
<1>18. SettleFills(order, s0, fills) = f[n]
  BY <1>4, SettleIsFolded
<1>. QED  BY <1>5, <1>16, <1>17, <1>18

LEMMA ApplyOne ==
  ASSUME NEW sums \in Balanced
  PROVE  /\ ApplyAll(sums, <<>>) = sums
         /\ \A diff \in AnyDiff : ApplyAll(sums, <<diff>>) = Apply(sums, diff)
<1>1. <<>> \in Seq(AnyDiff) /\ \A diff \in AnyDiff : <<diff>> \in Seq(AnyDiff)
  OBVIOUS
<1>2. ApplyAll(sums, <<>>) = Folded(ApplySteps, sums, <<>>)
  BY <1>1, ApplyAllFacts
<1>3. Folded(ApplySteps, sums, <<>>) = sums
  BY ApplyStepsIsStep, FoldedEmpty
<1>4. ASSUME NEW diff \in AnyDiff
      PROVE  ApplyAll(sums, <<diff>>) = Apply(sums, diff)
  <2>1. ApplyAll(sums, <<diff>>) = Folded(ApplySteps, sums, <<diff>>)
    BY <1>1, ApplyAllFacts
  <2>2. PICK none \in Seq(AnyDiff) : none = <<>> /\ Append(none, diff) = <<diff>>
    <3>1. Append(<<>>, diff) = <<diff>>
      OBVIOUS
    <3>. QED  BY <1>1, <3>1
  <2>3. Folded(ApplySteps, sums, Append(none, diff)) = ApplySteps[Folded(ApplySteps, sums, none)][diff]
    BY ApplyStepsIsStep, FoldedAppend
  <2>. QED  BY <1>3, <2>1, <2>2, <2>3, ApplyStepsIsStep
<1>. QED  BY <1>2, <1>3, <1>4

\* A request that leaves the deltas and the CLOB in step.
Moved(out, sums, state) == InStep(ApplyAll(sums, out.diffs), out.state, sums, state)

LEMMA UnmovedFacts ==
  ASSUME NEW state \in State, NEW after, after.base = state.base, after.quote = state.quote
  PROVE  Level0(after, state)
  BY HeldFacts, StateFacts DEF Level0, BalancesOf

LEMMA DepositMoves ==
  ASSUME NEW sums \in Balanced, NEW state, Sound(state), NEW req \in FundsRequest
  PROVE  Moved(deposit(req, state), sums, state)
<1>1. state \in State /\ state.base \in Balances /\ state.quote \in Balances
  BY StateFacts DEF Sound
<1>2. PICK user \in User, m \in U64, n \in U64 :
         user = req.address /\ m = req.base_free /\ n = req.quote_free
  BY RequestFacts, Zenon
<1>3. PICK base, quote : base = Credit(state.base, user, m) /\ quote = Credit(state.quote, user, n)
  OBVIOUS
<1>4. PICK after : after = [state EXCEPT !.base = base, !.quote = quote]
  OBVIOUS
<1>5. PICK amounts \in Amounts : amounts = Both(m, n)
  BY BothFacts, U64Facts
<1>6. PICK diff \in UserDiff : diff = Diff("deposit", user, amounts)
  BY DEF Diff, UserDiff
<1>7. deposit(req, state) = Outcome(TRUE, after, <<diff>>)
  BY <1>2, <1>3, <1>4, <1>5, <1>6 DEF deposit
<1>8. after.base = base /\ after.quote = quote
  BY <1>1, <1>4 DEF State
<1>9. ASSUME NEW u \in User
      PROVE  /\ Up(base, state.base, u, Brings(diff, u, "base"))
             /\ Up(quote, state.quote, u, Brings(diff, u, "quote"))
  <2>1. Brings(diff, u, "base") = For(user, u, m) /\ Brings(diff, u, "quote") = For(user, u, n)
    BY <1>5, <1>6 DEF Brings, Diff, Both, Asset
  <2>. QED  BY <1>1, <1>3, <2>1, CreditUp
<1>10. Grown(after, state, diff)
  BY <1>8, <1>9 DEF Grown, BalancesOf, Asset
<1>11. InStep(Apply(sums, diff), after, sums, state)
  BY <1>10, ApplyInStep DEF AnyDiff
<1>. QED  BY <1>7, <1>11, ApplyOne DEF Moved, Outcome, AnyDiff

LEMMA WithdrawMoves ==
  ASSUME NEW sums \in Balanced, NEW state, Sound(state), NEW req \in FundsRequest
  PROVE  Moved(withdraw(req, state), sums, state)
<1>1. /\ state \in State /\ state.base \in Balances /\ state.quote \in Balances
      /\ DOMAIN state.quote = DOMAIN state.base
  BY StateFacts DEF Sound
<1>2. PICK user \in User, m \in U64, n \in U64 :
         user = req.address /\ m = req.base_free /\ n = req.quote_free
  BY RequestFacts, Zenon
<1>3. CASE ~Covers(state, user, m, n)
  <2>1. withdraw(req, state) = Outcome(FALSE, state, <<>>)
    BY <1>2, <1>3 DEF withdraw
  <2>2. InStep(sums, state, sums, state)
    BY InStepFacts
  <2>. QED  BY <2>1, <2>2, ApplyOne DEF Moved, Outcome
<1>4. CASE Covers(state, user, m, n)
  <2>1. PICK lessBase \in Int, lessQuote \in Int : lessBase = -m /\ lessQuote = -n
    <3>1. m \in Int /\ n \in Int
      BY U64Facts
    <3>. QED  BY <3>1
  <2>2. PICK base, quote : /\ base = Adjust(state.base, user, "free", lessBase)
                           /\ quote = Adjust(state.quote, user, "free", lessQuote)
    OBVIOUS
  <2>3. PICK lower, after : /\ lower = [state EXCEPT !.base = base, !.quote = quote]
                            /\ after = Prune(lower, user)
    OBVIOUS
  <2>4. user \in DOMAIN state.base /\ user \in DOMAIN state.quote
    BY <1>4 DEF Covers
  <2>5. /\ base \in Balances /\ quote \in Balances
        /\ DOMAIN base = DOMAIN state.base /\ DOMAIN quote = DOMAIN state.quote
    BY <1>1, <2>2, AdjustFacts
  <2>6. lower \in State /\ lower.base = base /\ lower.quote = quote
    BY <1>1, <2>3, <2>5 DEF State
  <2>7. PICK amounts \in Amounts : amounts = Both(m, n)
    BY BothFacts, U64Facts
  <2>8. PICK diff \in UserDiff : diff = Diff("withdraw", user, amounts)
    BY DEF Diff, UserDiff
  <2>9. withdraw(req, state) = Outcome(TRUE, after, <<diff>>)
    BY <1>2, <1>4, <2>1, <2>2, <2>3, <2>7, <2>8 DEF withdraw
  <2>10. ASSUME NEW u \in User
         PROVE  /\ Up(after.base, state.base, u, Brings(diff, u, "base"))
                /\ Up(after.quote, state.quote, u, Brings(diff, u, "quote"))
    <3>1. /\ Brings(diff, u, "base") = For(user, u, lessBase)
          /\ Brings(diff, u, "quote") = For(user, u, lessQuote)
      BY <2>1, <2>7, <2>8 DEF Brings, Diff, Both, Asset
    <3>2. /\ Up(base, state.base, u, For(user, u, lessBase))
          /\ Up(quote, state.quote, u, For(user, u, lessQuote))
      BY <1>1, <2>2, <2>4, AdjustUp
    <3>3. HeldIn(after.base, u) = HeldIn(base, u) /\ HeldIn(after.quote, u) = HeldIn(quote, u)
      <4>1. user \in DOMAIN lower.base \cap DOMAIN lower.quote
        BY <2>4, <2>5, <2>6
      <4>2. /\ HeldIn(Prune(lower, user).base, u) = HeldIn(lower.base, u)
            /\ HeldIn(Prune(lower, user).quote, u) = HeldIn(lower.quote, u)
        BY <2>6, <4>1, PruneUp
      <4>3. Prune(lower, user) = after /\ lower.base = base /\ lower.quote = quote
        BY <2>3, <2>6
      <4>. QED  BY <4>2, <4>3, Zenon
    <3>. QED  BY <3>1, <3>2, <3>3 DEF Up
  <2>11. Grown(after, state, diff)
    BY <2>10 DEF Grown, BalancesOf, Asset
  <2>12. InStep(Apply(sums, diff), after, sums, state)
    BY <2>11, ApplyInStep DEF AnyDiff
  <2>. QED  BY <2>9, <2>12, ApplyOne DEF Moved, Outcome, AnyDiff
<1>. QED  BY <1>3, <1>4

LEMMA CancelMoves ==
  ASSUME NEW sums \in Balanced, NEW state, Sound(state), NEW req
  PROVE  Moved(cancel_order(req, state), sums, state)
<1>1. state \in State /\ state.base \in Balances /\ state.quote \in Balances
  BY StateFacts DEF Sound
<1>2. PICK after, diffs : /\ after = cancel_order(req, state).state
                          /\ diffs = cancel_order(req, state).diffs
  OBVIOUS
<1>3. Unlocks(after, state) /\ Cancels(diffs)
  BY <1>2, CancelOutcome
<1>4. Level0(after, state)
  <2>1. CASE after.base = state.base /\ after.quote = state.quote
    BY <1>1, <2>1, UnmovedFacts
  <2>2. ASSUME NEW user \in DOMAIN state.base, NEW n \in Int,
               after.base = Unlock(state.base, user, n), after.quote = state.quote
        PROVE  Level0(after, state)
    BY <1>1, <2>2, UnlockUp, HeldFacts DEF Level0, BalancesOf
  <2>3. ASSUME NEW user \in DOMAIN state.quote, NEW n \in Int,
               after.quote = Unlock(state.quote, user, n), after.base = state.base
        PROVE  Level0(after, state)
    BY <1>1, <2>3, UnlockUp, HeldFacts DEF Level0, BalancesOf
  <2>. QED  BY <1>3, <2>1, <2>2, <2>3 DEF Unlocks
<1>5. CASE diffs = <<>>
  <2>1. InStep(sums, after, sums, state)
    BY <1>4, StillInStep
  <2>. QED  BY <1>2, <1>5, <2>1, ApplyOne DEF Moved
<1>6. ASSUME NEW diff \in UserDiff, diff.kind = "cancel", diffs = <<diff>>
      PROVE  Moved(cancel_order(req, state), sums, state)
  <2>1. Grown(after, state, diff)
    BY <1>4, <1>6 DEF Grown, Level0, Brings
  <2>2. InStep(Apply(sums, diff), after, sums, state)
    BY <2>1, ApplyInStep DEF AnyDiff
  <2>. QED  BY <1>2, <1>6, <2>2, ApplyOne DEF Moved, AnyDiff
<1>. QED  BY <1>3, <1>5, <1>6 DEF Cancels

LEMMA AddOrderMoves ==
  ASSUME NEW sums \in Balanced, NEW state, Sound(state), Agreed(state),
         NEW req \in AddOrderRequest,
         \A o \in OrdersOf(state.book) : o.address \in DOMAIN state.base
  PROVE  Moved(add_order(req, state), sums, state)
<1>1. PICK out : out = add_order(req, state)
  OBVIOUS
<1>2. /\ state \in State /\ state.book \in Book /\ state.oid \in Nat
      /\ state.base \in Balances /\ state.quote \in Balances
      /\ NotCrossed(state.book) /\ DOMAIN state.quote = DOMAIN state.base
  BY StateFacts DEF Sound
<1>3. Indexed(state.book) /\ \A oid \in DOMAIN state.book.oid_to_level : oid < state.oid
  BY DEF Agreed
<1>4. CASE out = Outcome(FALSE, state, <<>>)
  <2>1. out.state = state /\ out.diffs = <<>>
    BY <1>4 DEF Outcome
  <2>2. InStep(sums, state, sums, state)
    BY InStepFacts
  <2>. QED  BY <1>1, <2>1, <2>2, ApplyOne DEF Moved
<1>5. CASE out = Outcome(FALSE, [state EXCEPT !.oid = @ + 1], <<>>)
  <2>1. PICK oid \in Nat : oid = state.oid + 1
    BY <1>2
  <2>2. PICK after : after = [state EXCEPT !.oid = oid]
    OBVIOUS
  <2>3. out.state = after /\ out.diffs = <<>>
    <3>1. [state EXCEPT !.oid = @ + 1] = after
      BY <2>1, <2>2
    <3>. QED  BY <1>5, <3>1 DEF Outcome
  <2>4. after.base = state.base /\ after.quote = state.quote
    BY <1>2, <2>2 DEF State
  <2>5. InStep(sums, after, sums, state)
    BY <1>2, <2>4, UnmovedFacts, StillInStep
  <2>. QED  BY <1>1, <2>3, <2>5, ApplyOne DEF Moved
<1>6. ASSUME NEW order \in Order, NEW locked \in State, NEW settled \in State,
             NEW status \in FillStatus,
             Placed(add_order(req, state), state, order, locked, settled, status)
      PROVE  Moved(out, sums, state)
  <2>1. PICK limit : limit = Limit(state.book, order)
    OBVIOUS
  <2>2. /\ DOMAIN locked.base = DOMAIN state.base /\ DOMAIN locked.quote = DOMAIN state.quote
        /\ Charged(locked, state, order) /\ order.oid = state.oid
        /\ settled = SettleFills(order, locked, limit.fills)
        /\ out.diffs = <<Created(order)>> \o FillDiffs(order, limit.fills)
        /\ out.state = IF limit.remaining = 0 THEN settled
                       ELSE [settled EXCEPT !.order_status = Put(@, order.oid, status)]
    BY <1>1, <1>6, <2>1 DEF Placed
  <2>3. limit.fills \in Seq(Fill)
    BY <1>2, <2>1, LimitFacts
  <2>4. IsNew(state.book, order)
    BY <1>3, <2>2 DEF IsNew
  <2>5. PICK mid : Took(limit.fills, OrdersOf(state.book), mid)
    <3>1. \E mid : Left(limit, OrdersOf(state.book), order, mid)
      BY <1>2, <1>3, <2>1, <2>4, LimitLeaves
    <3>. QED  BY <3>1 DEF Left
  <2>6. \A i \in DOMAIN limit.fills :
           limit.fills[i].maker.address \in DOMAIN locked.base \cap DOMAIN locked.quote
    BY <1>2, <2>2, <2>5 DEF Took
  <2>7. order.address \in DOMAIN locked.base \cap DOMAIN locked.quote
    BY <2>2 DEF Charged
  <2>8. PICK base \in Int, quote \in Int, user \in User :
           /\ user = order.address
           /\ base = IF order.is_buy THEN 0 ELSE order.size
           /\ quote = IF order.is_buy THEN QuoteSize(order) ELSE 0
    <3>1. order.size \in Int /\ order.limit_price \in Int /\ order.address \in User
      BY OrderFacts, U64Facts
    <3>2. QuoteSize(order) \in Int
      <4>1. PICK x \in Int, y \in Int : x = order.size /\ y = order.limit_price
        BY <3>1
      <4>2. x * y \in Int
        OBVIOUS
      <4>. QED  BY <4>1, <4>2, WrapFacts, U64Facts DEF QuoteSize
    <3>. QED  BY <3>1, <3>2
  <2>9. PICK first \in UserDiff : first = Created(order) /\ first.kind = "create"
    <3>1. PICK amounts \in Amounts : amounts = Both(base, quote)
      BY BothFacts
    <3>2. Created(order) = Diff("create", user, amounts)
      BY <2>8, <3>1 DEF Created
    <3>. QED  BY <3>2 DEF Diff, UserDiff
  <2>10. Grown(locked, state, first)
    <3>1. /\ locked.base = Lock(state.base, user, base)
          /\ locked.quote = Lock(state.quote, user, quote)
          /\ user \in DOMAIN state.base /\ user \in DOMAIN state.quote
      BY <2>2, <2>8 DEF Charged
    <3>2. Level0(locked, state)
      BY <1>2, <3>1, UnlockUp DEF Level0, BalancesOf
    <3>. QED  BY <2>9, <3>2 DEF Grown, Level0, Brings
  <2>11. PICK fills \in Seq(Fill), after \in {ApplyAll(sums, out.diffs)} : fills = limit.fills
    BY <2>3
  <2>12. InStep(after, settled, sums, state)
    BY <2>2, <2>6, <2>7, <2>9, <2>10, <2>11, FillsInStep DEF AnyDiff
  <2>13. out.state.base = settled.base /\ out.state.quote = settled.quote
    <3>1. PICK statuses : statuses = Put(settled.order_status, order.oid, status)
      OBVIOUS
    <3>2. PICK more : more = [settled EXCEPT !.order_status = statuses]
      OBVIOUS
    <3>3. more.base = settled.base /\ more.quote = settled.quote
      BY <3>2 DEF State
    <3>4. out.state \in {settled, more}
      BY <2>2, <3>1, <3>2
    <3>. QED  BY <3>3, <3>4
  <2>14. InStep(after, out.state, after, settled)
    BY <2>13, InStepFacts DEF InStep, Likewise, Level, BalancesOf
  <2>15. InStep(after, out.state, sums, state)
    BY <2>12, <2>14, InStepFacts
  <2>. QED  BY <2>11, <2>15 DEF Moved
<1>. QED  BY <1>1, <1>4, <1>5, <1>6, AddOrderFacts

\* What the contract has for a user, outside the deposits that wait.
Due(c, u, asset) == c.free[u][asset] + c.locked[u][asset]

GapOf(c, sums, state, u) ==
    [asset \in Asset |-> Wrap(Due(c, u, asset) + Level(sums, state, u, asset))]

OwedOf(c, sums, u) ==
    Plus(Minus(Plus(Plus(c.free[u], sums.deposits[u]), sums.orders[u].free), sums.withdraws[u]),
         Plus(c.locked[u], sums.orders[u].locked))

LEMMA DueFacts ==
  ASSUME NEW c \in Consumer, NEW u \in User, NEW asset \in Asset
  PROVE  /\ c.free[u] \in Amounts /\ c.locked[u] \in Amounts
         /\ c.free[u][asset] \in Int /\ c.locked[u][asset] \in Int
         /\ Due(c, u, asset) \in Int
<1>1. c.free \in Owned /\ c.locked \in Owned
  BY DEF Consumer
<1>2. c.free[u] \in Amounts /\ c.locked[u] \in Amounts
  BY <1>1 DEF Owned
<1>3. \A a \in Amounts : a[asset] \in Int
  BY DEF Amounts
<1>4. c.free[u][asset] \in Int /\ c.locked[u][asset] \in Int
  BY <1>2, <1>3
<1>5. c.free[u][asset] + c.locked[u][asset] \in Int
  BY <1>4
<1>. QED  BY <1>2, <1>4, <1>5 DEF Due

LEMMA OwedFacts ==
  ASSUME NEW c \in Consumer, NEW sums \in Balanced, NEW u \in User, NEW asset \in Asset
  PROVE  OwedOf(c, sums, u)[asset] = Due(c, u, asset) + Net(sums, u, asset)
<1>1. PICK free \in Amounts, locked \in Amounts : free = c.free[u] /\ locked = c.locked[u]
  BY DueFacts
<1>2. sums \in Deltas
  BY DEF Balanced
<1>3. PICK ins \in Amounts, outs \in Amounts : ins = sums.deposits[u] /\ outs = sums.withdraws[u]
  BY <1>2 DEF Deltas, Owned
<1>4. PICK freed \in Amounts, moved \in Amounts : /\ freed = sums.orders[u].free
                                                  /\ moved = sums.orders[u].locked
  <2>1. sums.orders[u] \in [free : Amounts, locked : Amounts]
    BY <1>2 DEF Deltas, Orders
  <2>. QED  BY <2>1
<1>5. PICK a \in Amounts : /\ a = Plus(free, ins)
                           /\ a[asset] = free[asset] + ins[asset]
  BY AmountsFacts
<1>6. PICK b \in Amounts : /\ b = Plus(a, freed)
                           /\ b[asset] = a[asset] + freed[asset]
  BY AmountsFacts
<1>7. PICK d \in Amounts : /\ d = Minus(b, outs)
                           /\ d[asset] = b[asset] - outs[asset]
  BY AmountsFacts
<1>8. PICK e \in Amounts : /\ e = Plus(locked, moved)
                           /\ e[asset] = locked[asset] + moved[asset]
  BY AmountsFacts
<1>9. PICK all \in Amounts : /\ all = Plus(d, e)
                             /\ all[asset] = d[asset] + e[asset]
  BY AmountsFacts
<1>10. OwedOf(c, sums, u) = all
  BY <1>1, <1>3, <1>4, <1>5, <1>6, <1>7, <1>8, <1>9 DEF OwedOf
<1>11. /\ free[asset] \in Int /\ locked[asset] \in Int /\ ins[asset] \in Int
       /\ outs[asset] \in Int /\ freed[asset] \in Int /\ moved[asset] \in Int
  BY AmountsFacts
<1>12. all[asset] = free[asset] + locked[asset]
                      + (ins[asset] - outs[asset] + (freed[asset] + moved[asset]))
  BY <1>5, <1>6, <1>7, <1>8, <1>9, <1>11
<1>13. Due(c, u, asset) = free[asset] + locked[asset]
  BY <1>1 DEF Due
<1>14. Net(sums, u, asset) = ins[asset] - outs[asset] + (freed[asset] + moved[asset])
  BY <1>3, <1>4 DEF Net, InAccount
<1>. QED  BY <1>10, <1>12, <1>13, <1>14

LEMMA GapFacts ==
  ASSUME NEW c \in Consumer, NEW sums \in Balanced, NEW state \in State, NEW u \in User
  PROVE  GapOf(c, sums, state, u) =
           [asset \in Asset |->
              Wrap(OwedOf(c, sums, u)[asset] - Both(HeldIn(state.base, u), HeldIn(state.quote, u))[asset])]
<1>. SUFFICES ASSUME NEW asset \in Asset
              PROVE  Due(c, u, asset) + Level(sums, state, u, asset) =
                       OwedOf(c, sums, u)[asset]
                         - Both(HeldIn(state.base, u), HeldIn(state.quote, u))[asset]
  BY DEF GapOf
<1>1. PICK n \in Int, k \in Int : /\ n = Due(c, u, asset) /\ k = Net(sums, u, asset)
                                  /\ OwedOf(c, sums, u)[asset] = n + k
  BY DueFacts, NetFacts, OwedFacts DEF Balanced
<1>2. PICK h \in Int : h = HeldIn(BalancesOf(state, asset), u)
  BY StateFacts, HeldFacts DEF BalancesOf
<1>3. Both(HeldIn(state.base, u), HeldIn(state.quote, u))[asset] = h
  BY <1>2 DEF Both, BalancesOf, Asset
<1>4. Level(sums, state, u, asset) = k - h
  BY <1>1, <1>2 DEF Level
<1>. QED  BY <1>1, <1>3, <1>4

LEMMA InStepKeepsGaps ==
  ASSUME NEW c \in Consumer, NEW sums, NEW state, NEW sums2, NEW state2,
         InStep(sums2, state2, sums, state), NEW u \in User
  PROVE  GapOf(c, sums2, state2, u) = GapOf(c, sums, state, u)
<1>1. ASSUME NEW asset \in Asset
      PROVE  Wrap(Due(c, u, asset) + Level(sums2, state2, u, asset)) =
               Wrap(Due(c, u, asset) + Level(sums, state, u, asset))
  <2>1. Due(c, u, asset) \in Int
    BY DueFacts
  <2>. QED  BY <2>1 DEF InStep, Likewise
<1>. QED  BY <1>1 DEF GapOf

LEMMA NoDeltasBring ==
  ASSUME NEW u \in User, NEW asset \in Asset
  PROVE  Net(NoDeltas, u, asset) = 0
<1>1. PICK none : none = Nothing /\ none[asset] = 0
  <2>1. Nothing[asset] = 0
    BY DEF Nothing, Both
  <2>. QED  BY <2>1
<1>2. /\ NoDeltas.deposits[u] = none /\ NoDeltas.withdraws[u] = none
      /\ NoDeltas.orders[u].free = none /\ NoDeltas.orders[u].locked = none
  BY <1>1 DEF NoDeltas, PerUser
<1>. QED  BY <1>1, <1>2 DEF Net, InAccount

\* A batch applied to the contract.
LEMMA SettleKeepsGaps ==
  ASSUME NEW c \in Consumer, NEW c2 \in Consumer, NEW sums \in Balanced, NEW state \in State,
         NEW u \in User,
         \A asset \in Asset : Due(c2, u, asset) = OwedOf(c, sums, u)[asset]
  PROVE  GapOf(c2, NoDeltas, state, u) = GapOf(c, sums, state, u)
<1>1. ASSUME NEW asset \in Asset
      PROVE  Due(c2, u, asset) + Level(NoDeltas, state, u, asset) =
               Due(c, u, asset) + Level(sums, state, u, asset)
  <2>1. PICK n \in Int, k \in Int : /\ n = Due(c, u, asset) /\ k = Net(sums, u, asset)
                                    /\ Due(c2, u, asset) = n + k
    BY DueFacts, NetFacts, OwedFacts DEF Balanced
  <2>2. PICK h \in Int : h = HeldIn(BalancesOf(state, asset), u)
    BY StateFacts, HeldFacts DEF BalancesOf
  <2>3. Level(NoDeltas, state, u, asset) = 0 - h /\ Level(sums, state, u, asset) = k - h
    BY <2>1, <2>2, NoDeltasBring DEF Level
  <2>. QED  BY <2>1, <2>3
<1>. QED  BY <1>1 DEF GapOf

LEMMA GapIsGap ==
  /\ SettlementInv => \A u \in User : Gap(u) = GapOf(consumer, deltas, clob, u)
  /\ SettlementInv' => \A u \in User : Gap(u)' = GapOf(consumer', deltas', clob', u)
<1>1. /\ SettlementInv => consumer \in Consumer /\ deltas \in Balanced /\ clob \in State
      /\ SettlementInv' => consumer' \in Consumer /\ deltas' \in Balanced /\ clob' \in State
  BY DEF SettlementInv, Sound
<1>2. ASSUME NEW u \in User
      PROVE  /\ Gap(u) =
                  [asset \in Asset |->
                     Wrap(OwedOf(consumer, deltas, u)[asset]
                          - Both(HeldIn(clob.base, u), HeldIn(clob.quote, u))[asset])]
             /\ Gap(u)' =
                  [asset \in Asset |->
                     Wrap(OwedOf(consumer', deltas', u)[asset]
                          - Both(HeldIn(clob'.base, u), HeldIn(clob'.quote, u))[asset])]
  BY DEF Gap, Owed, Held, FreeAfter, OrderedAfter, LockedAfter, OwedOf, HeldIn
<1>. QED  BY <1>1, <1>2, GapFacts

GapsKept ==
    Owners(Resting) \subseteq DOMAIN clob.base =>
        \A u \in User : GapOf(consumer', deltas', clob', u) = GapOf(consumer, deltas, clob, u)

LEMMA RequestKeepsGaps ==
  ASSUME SettlementInv, NEW out, Moved(out, deltas, clob), clob' = out.state, Accumulate(out),
         UNCHANGED consumer
  PROVE  GapsKept
<1>1. consumer \in Consumer /\ consumer' = consumer
  BY DEF SettlementInv
<1>2. InStep(deltas', clob', deltas, clob)
  BY DEF Moved, Accumulate
<1>. QED  BY <1>1, <1>2, InStepKeepsGaps DEF GapsKept

LEMMA NextKeepsGaps ==
  SettlementInv /\ SettlementInv' /\ Agreement /\ [SettlementNext]_settlementVars
     => [GapsKept]_settlementVars
<1>. SUFFICES ASSUME SettlementInv, SettlementInv', Agreed(clob), [SettlementNext]_settlementVars,
                     ~UNCHANGED settlementVars, Owners(Resting) \subseteq DOMAIN clob.base
              PROVE  GapsKept
  BY DEF GapsKept, Agreement
<1>1. /\ Sound(clob) /\ clob \in State /\ deltas \in Balanced /\ consumer \in Consumer
      /\ consumer' \in Consumer /\ events \in Seq(FundsRequest)
  BY DEF SettlementInv, Sound
<1>2. \A o \in OrdersOf(clob.book) : o.address \in DOMAIN clob.base
  BY DEF Owners, Resting, OrdersOf
<1>3. ASSUME NEW req \in Deposits, DepositOnChain(req)
      PROVE  GapsKept
  <2>1. clob' = clob /\ deltas' = deltas
    BY <1>3 DEF DepositOnChain
  <2>2. consumer'.free = consumer.free /\ consumer'.locked = consumer.locked
    BY <1>1, <1>3 DEF DepositOnChain, Consumer
  <2>. QED  BY <2>1, <2>2 DEF GapsKept, GapOf, Due
<1>4. CASE CreditDeposit
  <2>1. /\ clob' = deposit(Head(events), clob).state /\ Accumulate(deposit(Head(events), clob))
        /\ UNCHANGED consumer /\ events # <<>>
    BY <1>4 DEF CreditDeposit, Deposit
  <2>2. Head(events) \in FundsRequest
    BY <1>1, <2>1
  <2>3. Moved(deposit(Head(events), clob), deltas, clob)
    BY <1>1, <2>2, DepositMoves
  <2>. QED  BY <2>1, <2>3, RequestKeepsGaps
<1>5. ASSUME NEW req \in Trades, RequestOrder(req)
      PROVE  GapsKept
  <2>1. /\ req \in AddOrderRequest /\ clob' = add_order(req, clob).state
        /\ Accumulate(add_order(req, clob)) /\ UNCHANGED consumer
    BY <1>5, AmountAssumption DEF RequestOrder, AddOrder
  <2>2. Moved(add_order(req, clob), deltas, clob)
    BY <1>1, <1>2, <2>1, AddOrderMoves
  <2>. QED  BY <2>1, <2>2, RequestKeepsGaps
<1>6. ASSUME NEW req, RequestCancel(req)
      PROVE  GapsKept
  <2>1. /\ clob' = cancel_order(req, clob).state
        /\ Accumulate(cancel_order(req, clob)) /\ UNCHANGED consumer
    BY <1>6 DEF RequestCancel, CancelOrder
  <2>2. Moved(cancel_order(req, clob), deltas, clob)
    BY <1>1, CancelMoves
  <2>. QED  BY <2>1, <2>2, RequestKeepsGaps
<1>7. ASSUME NEW req \in Withdrawals, RequestWithdraw(req)
      PROVE  GapsKept
  <2>1. /\ clob' = withdraw(req, clob).state /\ req \in FundsRequest
        /\ Accumulate(withdraw(req, clob)) /\ UNCHANGED consumer
    BY <1>7, AmountAssumption DEF RequestWithdraw, Withdraw
  <2>2. Moved(withdraw(req, clob), deltas, clob)
    BY <1>1, <2>1, WithdrawMoves
  <2>. QED  BY <2>1, <2>2, RequestKeepsGaps
<1>8. CASE Settle
  <2>1. /\ clob' = clob /\ deltas' = NoDeltas
        /\ consumer'.free = [u \in User |-> FreeAfter(u)]
        /\ consumer'.locked = [u \in User |-> LockedAfter(u)]
    BY <1>8 DEF Settle
  <2>2. ASSUME NEW u \in User
        PROVE  GapOf(consumer', NoDeltas, clob, u) = GapOf(consumer, deltas, clob, u)
    <3>1. /\ consumer'.free[u] = FreeAfter(u) /\ consumer'.locked[u] = LockedAfter(u)
          /\ OwedOf(consumer, deltas, u) = Plus(FreeAfter(u), LockedAfter(u))
      BY <2>1 DEF OwedOf, FreeAfter, OrderedAfter, LockedAfter
    <3>2. \A asset \in Asset : Due(consumer', u, asset) = OwedOf(consumer, deltas, u)[asset]
      BY <3>1 DEF Due, Plus
    <3>. QED  BY <1>1, <3>2, SettleKeepsGaps
  <2>. QED  BY <2>1, <2>2 DEF GapsKept
<1>. QED  BY <1>3, <1>4, <1>5, <1>6, <1>7, <1>8 DEF SettlementNext

\* A user's funds, free and locked together, move in the CLOB's state (lib.rs) and
\* in the contract (the diffs that zkvm_stf sums and _receiveResult of
\* ClobConsumer.sol applies) by the same amounts, whatever is deposited, matched,
\* cancelled or withdrawn and wherever a batch ends, as u64 wraps and while those
\* whose orders rest have accounts.
THEOREM SidesMoveTogetherHolds == SettlementSpec => SidesMoveTogether
<1>1. SettlementInit => Agreement
  BY GenesisAgrees DEF SettlementInit, ClobInit, Agreement
<1>2. SettlementInv /\ SettlementInv' /\ [GapsKept]_settlementVars =>
         [Owners(Resting) \subseteq DOMAIN clob.base
             => \A u \in User : Gap(u)' = Gap(u)]_settlementVars
  BY GapIsGap DEF GapsKept
<1>. QED  BY <1>1, <1>2, AgreementInvariant, NextKeepsGaps, SettlementInvariant, PTL
          DEF SettlementSpec, SidesMoveTogether
=============================================================================
