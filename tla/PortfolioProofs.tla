--------------------------- MODULE PortfolioProofs ---------------------------
(***************************************************************************)
(* Proofs about UniswapPool, for every width of its counters and every     *)
(* range, and about Portfolio, for every watchlist and every outcome of    *)
(* its reads.                                                              *)
(***************************************************************************)
EXTENDS Portfolio, UniswapPool, FiniteSetTheorems, SequenceTheorems, TLAPS

-----------------------------------------------------------------------------
(* Numbers modulo Modulus.                                                 *)

Residues == 0..(Modulus - 1)
Congruent(a, b) == \E k \in Int : a = b + (Modulus * k)

LEMMA WrapIsResidue ==
  ASSUME NEW x \in Int
  PROVE  Wrap(x) \in Residues /\ Congruent(x, Wrap(x))
<1>1. Wrap(x) \in Residues
  BY PoolAssumption DEF Wrap, Residues
<1>2. x \div Modulus \in Int /\ x = (x % Modulus) + (Modulus * (x \div Modulus))
  BY PoolAssumption
<1> QED
  BY <1>1, <1>2 DEF Wrap, Congruent

LEMMA CongruentSums ==
  ASSUME NEW a \in Int, NEW b \in Int, NEW c \in Int, NEW d \in Int,
         Congruent(a, b), Congruent(c, d)
  PROVE  Congruent(a + c, b + d) /\ Congruent(a - c, b - d)
<1>1. Modulus \in Int
  BY PoolAssumption
<1>2. PICK k \in Int : a = b + (Modulus * k)
  BY DEF Congruent
<1>3. PICK l \in Int : c = d + (Modulus * l)
  BY DEF Congruent
<1>4. Modulus * (k + l) = (Modulus * k) + (Modulus * l)
      /\ Modulus * (k - l) = (Modulus * k) - (Modulus * l)
      /\ Modulus * k \in Int /\ Modulus * l \in Int
  BY <1>1
<1>5. k + l \in Int /\ k - l \in Int
  OBVIOUS
<1>6. a + c = (b + d) + (Modulus * (k + l)) /\ a - c = (b - d) + (Modulus * (k - l))
  BY <1>2, <1>3, <1>4
<1> QED
  BY <1>5, <1>6 DEF Congruent

LEMMA CongruentTurns ==
  ASSUME NEW a \in Int, NEW b \in Int
  PROVE  Congruent(a, a) /\ (Congruent(a, b) => Congruent(b, a))
<1>1. Modulus \in Int
  BY PoolAssumption
<1>2. Congruent(a, a)
  <2>1. a = a + (Modulus * 0)
    BY <1>1
  <2> QED
    BY <2>1 DEF Congruent
<1>3. ASSUME Congruent(a, b) PROVE Congruent(b, a)
  <2>1. PICK k \in Int : a = b + (Modulus * k)
    BY <1>3 DEF Congruent
  <2>2. Modulus * (-k) = -(Modulus * k) /\ Modulus * k \in Int /\ -k \in Int
    BY <1>1
  <2>3. b = a + (Modulus * (-k))
    BY <2>1, <2>2
  <2> QED
    BY <2>2, <2>3 DEF Congruent
<1> QED
  BY <1>2, <1>3

LEMMA CongruentShift ==
  ASSUME NEW a \in Int, NEW b \in Int, NEW c \in Int, Congruent(a, b)
  PROVE  Congruent(a + c, b + c) /\ Congruent(a - c, b - c) /\ Congruent(c - a, c - b)
<1>1. Congruent(c, c)
  BY CongruentTurns
<1> QED
  BY <1>1, CongruentSums

LEMMA CongruentChain ==
  ASSUME NEW a \in Int, NEW b \in Int, NEW c \in Int, Congruent(a, b), Congruent(b, c)
  PROVE  Congruent(a, c)
<1>1. Congruent(a + b, b + c)
  BY CongruentSums
<1>2. Congruent((a + b) - b, (b + c) - b)
  BY <1>1, CongruentTurns, CongruentSums
<1>3. (a + b) - b = a /\ (b + c) - b = c
  OBVIOUS
<1> QED
  BY <1>2, <1>3

LEMMA OneResidue ==
  ASSUME NEW a \in Residues, NEW b \in Residues, Congruent(a, b)
  PROVE  a = b
<1>1. PICK k \in Int : a = b + (Modulus * k)
  BY DEF Congruent
<1>2. Modulus \in Int /\ Modulus > 0 /\ a \in 0..(Modulus - 1) /\ b \in 0..(Modulus - 1)
  BY PoolAssumption DEF Residues
<1>3. CASE k = 0
  BY <1>1, <1>2, <1>3
<1>4. CASE k >= 1
  <2>1. Modulus * k >= Modulus
    BY <1>2, <1>4
  <2> QED
    BY <1>1, <1>2, <2>1
<1>5. CASE k <= -1
  <2>1. Modulus * k <= -Modulus
    BY <1>2, <1>5
  <2> QED
    BY <1>1, <1>2, <2>1
<1> QED
  BY <1>3, <1>4, <1>5

LEMMA SameWrap ==
  ASSUME NEW a \in Int, NEW b \in Int, Congruent(a, b)
  PROVE  Wrap(a) = Wrap(b)
<1>1. Wrap(a) \in Residues /\ Wrap(b) \in Residues
      /\ Congruent(a, Wrap(a)) /\ Congruent(b, Wrap(b))
  BY WrapIsResidue
<1>2. Wrap(a) \in Int /\ Wrap(b) \in Int
  BY <1>1 DEF Residues
<1>3. Congruent(Wrap(a), a)
  BY <1>1, <1>2, CongruentTurns
<1>4. Congruent(Wrap(a), Wrap(b))
  BY <1>1, <1>2, <1>3, CongruentChain
<1> QED
  BY <1>1, <1>4, OneResidue

LEMMA WrapOfResidue ==
  ASSUME NEW a \in Int, NEW r \in Residues, Congruent(a, r)
  PROVE  Wrap(a) = r
<1>1. r \in Int
  BY DEF Residues
<1>2. Wrap(a) \in Residues /\ Wrap(a) \in Int /\ Congruent(a, Wrap(a))
  BY WrapIsResidue DEF Residues
<1>3. Congruent(Wrap(a), r)
  BY <1>1, <1>2, CongruentTurns, CongruentChain
<1> QED
  BY <1>2, <1>3, OneResidue

\* What is above or below a tick, turned over twice, is itself.
LEMMA TurnedTwice ==
  ASSUME NEW g \in Int, NEW x \in Residues
  PROVE  Wrap(g - Wrap(g - x)) = x
<1>1. x \in Int /\ g - x \in Int
  BY DEF Residues
<1>2. Wrap(g - x) \in Int /\ Congruent(g - x, Wrap(g - x))
  BY <1>1, WrapIsResidue DEF Residues
<1>3. Congruent(g - (g - x), g - Wrap(g - x))
  BY <1>1, <1>2, CongruentSums, CongruentTurns
<1>4. g - (g - x) = x /\ g - Wrap(g - x) \in Int
  BY <1>1, <1>2
<1>5. Congruent(g - Wrap(g - x), x)
  BY <1>1, <1>3, <1>4, CongruentTurns
<1> QED
  BY <1>4, <1>5, WrapOfResidue

-----------------------------------------------------------------------------
(* The fees: a tick that is crossed changes neither what is below nor what *)
(* is above, and a step earns them only in range.                          *)

Pools ==
  [open : BOOLEAN, price : Int, tick : Int, global : Residues, lower : Residues,
   upper : Residues, last : Residues, accrued : Residues]

Below(p) == IF p.tick >= TickLower THEN p.lower ELSE Wrap(p.global - p.lower)
Above(p) == IF p.tick < TickUpper THEN p.upper ELSE Wrap(p.global - p.upper)

LEMMA InsideParts ==
  ASSUME NEW p \in Pools
  PROVE  /\ FeeGrowthInside(p) = Wrap(p.global - Below(p) - Above(p))
         /\ Below(p) \in Residues /\ Above(p) \in Residues
         /\ FeeGrowthInside(p) \in Residues /\ UncollectedFee(p) \in Residues
<1>1. p.global \in Int /\ p.lower \in Int /\ p.upper \in Int /\ p.last \in Int
      /\ p.lower \in Residues /\ p.upper \in Residues
  BY DEF Pools, Residues
<1>2. Wrap(p.global - p.lower) \in Residues /\ Wrap(p.global - p.upper) \in Residues
  BY <1>1, WrapIsResidue
<1>3. Below(p) \in Residues /\ Above(p) \in Residues
  BY <1>1, <1>2 DEF Below, Above
<1>4. FeeGrowthInside(p) = Wrap(p.global - Below(p) - Above(p))
  BY DEF FeeGrowthInside, Below, Above
<1>5. p.global - Below(p) - Above(p) \in Int
  BY <1>1, <1>3 DEF Residues
<1>6. FeeGrowthInside(p) \in Residues /\ FeeGrowthInside(p) \in Int
  BY <1>4, <1>5, WrapIsResidue DEF Residues
<1>7. UncollectedFee(p) \in Residues
  BY <1>1, <1>6, WrapIsResidue DEF UncollectedFee
<1> QED
  BY <1>3, <1>4, <1>6, <1>7

\* A pool that has moved over a tick, or not: everything but the tick and its
\* counter is as before, and so are the fees inside.
SameFees(p, q) ==
  /\ q \in Pools /\ q.open = p.open /\ q.price = p.price /\ q.global = p.global
  /\ q.last = p.last /\ q.accrued = p.accrued
  /\ FeeGrowthInside(q) = FeeGrowthInside(p)

LEMMA TickMoves ==
  ASSUME NEW p \in Pools, NEW at \in Int, NEW to \in Int,
         \/ at = p.tick + 1 /\ to = at
         \/ at = p.tick /\ to = at - 1
  PROVE  SameFees(p, [Cross(p, at) EXCEPT !.tick = to])
<1> DEFINE q == [Cross(p, at) EXCEPT !.tick = to]
<1>1. TickLower \in Int /\ TickUpper \in Int /\ TickLower < TickUpper
  BY PoolAssumption
<1>2. p.global \in Int /\ p.tick \in Int /\ p.lower \in Residues /\ p.upper \in Residues
      /\ p.lower \in Int /\ p.upper \in Int
  BY DEF Pools, Residues
<1>3. Wrap(p.global - p.lower) \in Residues /\ Wrap(p.global - p.upper) \in Residues
  BY <1>2, WrapIsResidue
<1>4. Wrap(p.global - Wrap(p.global - p.lower)) = p.lower
      /\ Wrap(p.global - Wrap(p.global - p.upper)) = p.upper
  BY <1>2, TurnedTwice
<1>5. CASE at = TickLower
  <2>1. q = [p EXCEPT !.lower = Wrap(p.global - p.lower), !.tick = to]
    <3>1. TickUpper # TickLower
      BY <1>1
    <3>2. Cross(p, at) = [p EXCEPT !.lower = Wrap(p.global - p.lower)]
      BY <1>5, <3>1 DEF Cross
    <3> QED
      BY <3>2 DEF Pools
  <2>2. /\ q.lower = Wrap(p.global - p.lower) /\ q.upper = p.upper /\ q.tick = to
        /\ q.open = p.open /\ q.price = p.price /\ q.global = p.global
        /\ q.last = p.last /\ q.accrued = p.accrued /\ q \in Pools
    BY <1>3, <2>1 DEF Pools
  <2> HIDE DEF q
  <2>3. Below(q) = Below(p) /\ Above(q) = Above(p)
    BY <1>1, <1>2, <1>4, <1>5, <2>2 DEF Below, Above
  <2> QED
    BY <2>2, <2>3, InsideParts DEF SameFees, q
<1>6. CASE at = TickUpper
  <2>1. q = [p EXCEPT !.upper = Wrap(p.global - p.upper), !.tick = to]
    <3>1. TickUpper # TickLower
      BY <1>1
    <3>2. Cross(p, at) = [p EXCEPT !.upper = Wrap(p.global - p.upper)]
      BY <1>6, <3>1 DEF Cross
    <3> QED
      BY <3>2 DEF Pools
  <2>2. /\ q.upper = Wrap(p.global - p.upper) /\ q.lower = p.lower /\ q.tick = to
        /\ q.open = p.open /\ q.price = p.price /\ q.global = p.global
        /\ q.last = p.last /\ q.accrued = p.accrued /\ q \in Pools
    BY <1>3, <2>1 DEF Pools
  <2> HIDE DEF q
  <2>3. Below(q) = Below(p) /\ Above(q) = Above(p)
    BY <1>1, <1>2, <1>4, <1>6, <2>2 DEF Below, Above
  <2> QED
    BY <2>2, <2>3, InsideParts DEF SameFees, q
<1>7. CASE at # TickLower /\ at # TickUpper
  <2>1. q = [p EXCEPT !.tick = to]
    BY <1>7 DEF Cross, Pools
  <2>2. /\ q.upper = p.upper /\ q.lower = p.lower /\ q.tick = to
        /\ q.open = p.open /\ q.price = p.price /\ q.global = p.global
        /\ q.last = p.last /\ q.accrued = p.accrued /\ q \in Pools
    BY <2>1 DEF Pools
  <2> HIDE DEF q
  <2>3. Below(q) = Below(p) /\ Above(q) = Above(p)
    BY <1>1, <1>2, <1>7, <2>2 DEF Below, Above
  <2> QED
    BY <2>2, <2>3, InsideParts DEF SameFees, q
<1> QED
  BY <1>5, <1>6, <1>7

LEMMA EntersAndLeaves ==
  ASSUME NEW p \in Pools
  PROVE  SameFees(p, EnterUp(p)) /\ SameFees(p, LeaveDown(p))
<1>1. p.tick \in Int /\ p.tick + 1 \in Int /\ p.tick - 1 \in Int
  BY DEF Pools
<1>2. SameFees(p, p)
  BY DEF SameFees
<1>3. SameFees(p, [Cross(p, p.tick + 1) EXCEPT !.tick = p.tick + 1])
  BY <1>1, TickMoves
<1>4. SameFees(p, [Cross(p, p.tick) EXCEPT !.tick = p.tick - 1])
  BY <1>1, TickMoves
<1> QED
  BY <1>2, <1>3, <1>4 DEF EnterUp, LeaveDown

\* The fees shown are those accrued.
Agrees(p) == UncollectedFee(p) = p.accrued

LEMMA SameFeesAgree ==
  ASSUME NEW p, NEW q, Agrees(p), SameFees(p, q)
  PROVE  Agrees(q)
BY DEF SameFees, Agrees, UncollectedFee

\* Out of range the growth inside does not depend on the global growth.
LEMMA GrowsInRange ==
  ASSUME NEW p \in Pools, NEW q \in Pools, NEW grown \in Int, Congruent(q.global, grown),
         grown = p.global + Fee, q.tick = p.tick, q.lower = p.lower, q.upper = p.upper
  PROVE  IF p.tick \in TickLower..(TickUpper - 1)
           THEN Congruent(FeeGrowthInside(q), FeeGrowthInside(p) + Fee)
           ELSE FeeGrowthInside(q) = FeeGrowthInside(p)
<1>1. TickLower \in Int /\ TickUpper \in Int /\ TickLower < TickUpper /\ Fee \in Int
  BY PoolAssumption
<1>2. p.global \in Int /\ q.global \in Int /\ p.tick \in Int /\ p.lower \in Int /\ p.upper \in Int
  BY DEF Pools, Residues
<1>3. FeeGrowthInside(p) = Wrap(p.global - Below(p) - Above(p))
      /\ FeeGrowthInside(q) = Wrap(q.global - Below(q) - Above(q))
      /\ FeeGrowthInside(p) \in Int /\ FeeGrowthInside(q) \in Int
  BY InsideParts DEF Residues
<1>4. CASE p.tick \in TickLower..(TickUpper - 1)
  <2> DEFINE x == p.global - p.lower - p.upper
             y == q.global - p.lower - p.upper
  <2>1. Below(p) = p.lower /\ Above(p) = p.upper /\ Below(q) = p.lower /\ Above(q) = p.upper
    BY <1>1, <1>2, <1>4 DEF Below, Above
  <2>2. x \in Int /\ y \in Int /\ p.lower + p.upper \in Int
        /\ y = q.global - (p.lower + p.upper) /\ grown - (p.lower + p.upper) = x + Fee
    BY <1>1, <1>2
  <2>3. Congruent(y, x + Fee)
    <3>1. Congruent(q.global - (p.lower + p.upper), grown - (p.lower + p.upper))
      BY <1>2, <2>2, CongruentShift
    <3> HIDE DEF x, y
    <3> QED
      BY <2>2, <3>1
  <2>4. FeeGrowthInside(p) = Wrap(x) /\ FeeGrowthInside(q) = Wrap(y)
    BY <1>3, <2>1
  <2> HIDE DEF x, y
  <2>5. Wrap(x) \in Int /\ Wrap(y) \in Int /\ Congruent(Wrap(x), x) /\ Congruent(Wrap(y), y)
    BY <1>3, <2>2, <2>4, WrapIsResidue, CongruentTurns
  <2>6. Congruent(x + Fee, Wrap(x) + Fee)
    BY <1>1, <2>2, <2>5, CongruentTurns, CongruentSums
  <2>7. x + Fee \in Int /\ Wrap(x) + Fee \in Int
    BY <1>1, <2>2, <2>5
  <2>8. Congruent(Wrap(y), x + Fee)
    BY <2>2, <2>3, <2>5, <2>7, CongruentChain
  <2>9. Congruent(Wrap(y), Wrap(x) + Fee)
    BY <2>5, <2>6, <2>7, <2>8, CongruentChain
  <2> QED
    BY <1>4, <2>4, <2>9
<1>5. CASE p.tick < TickLower
  <2>1. ASSUME NEW r \in Pools, r.tick = p.tick, r.lower = p.lower, r.upper = p.upper
        PROVE  FeeGrowthInside(r) = Wrap(p.lower - p.upper)
    <3>1. r.global \in Int /\ r.global - p.lower \in Int
      BY <1>2 DEF Pools, Residues
    <3>2. Below(r) = Wrap(r.global - p.lower) /\ Above(r) = p.upper
      BY <1>1, <1>2, <1>5, <2>1 DEF Below, Above
    <3> DEFINE b == Wrap(r.global - p.lower)
    <3>3. b \in Int /\ Congruent(r.global - p.lower, b)
      BY <3>1, WrapIsResidue DEF Residues
    <3>4. FeeGrowthInside(r) = Wrap(r.global - b - p.upper)
      BY <3>2, InsideParts
    <3> HIDE DEF b
    <3>5. Congruent(r.global - (r.global - p.lower), r.global - b)
      BY <3>1, <3>3, CongruentShift
    <3>6. r.global - (r.global - p.lower) = p.lower /\ r.global - b \in Int
      BY <1>2, <3>1, <3>3
    <3>7. Congruent(p.lower - p.upper, (r.global - b) - p.upper)
      <4>1. Congruent(p.lower, r.global - b)
        BY <3>5, <3>6
      <4> QED
        BY <1>2, <3>6, <4>1, CongruentShift
    <3>8. p.lower - p.upper \in Int /\ (r.global - b) - p.upper \in Int
      BY <1>2, <3>6
    <3>9. Wrap(p.lower - p.upper) = Wrap((r.global - b) - p.upper)
      BY <3>7, <3>8, SameWrap
    <3> QED
      BY <3>4, <3>9
  <2> QED
    BY <1>1, <1>2, <1>5, <2>1
<1>6. CASE p.tick >= TickUpper
  <2>1. ASSUME NEW r \in Pools, r.tick = p.tick, r.lower = p.lower, r.upper = p.upper
        PROVE  FeeGrowthInside(r) = Wrap(p.upper - p.lower)
    <3>1. r.global \in Int /\ r.global - p.upper \in Int
      BY <1>2 DEF Pools, Residues
    <3>2. Below(r) = p.lower /\ Above(r) = Wrap(r.global - p.upper)
      BY <1>1, <1>2, <1>6, <2>1 DEF Below, Above
    <3> DEFINE b == Wrap(r.global - p.upper)
    <3>3. b \in Int /\ Congruent(r.global - p.upper, b)
      BY <3>1, WrapIsResidue DEF Residues
    <3>4. FeeGrowthInside(r) = Wrap(r.global - p.lower - b)
      BY <3>2, InsideParts
    <3> HIDE DEF b
    <3>5. Congruent((r.global - p.lower) - (r.global - p.upper), (r.global - p.lower) - b)
      <4>1. r.global - p.lower \in Int
        BY <1>2, <3>1
      <4> QED
        BY <3>1, <3>3, <4>1, CongruentShift
    <3>6. (r.global - p.lower) - (r.global - p.upper) = p.upper - p.lower
          /\ p.upper - p.lower \in Int /\ (r.global - p.lower) - b \in Int
      BY <1>2, <3>1, <3>3
    <3>7. Wrap(p.upper - p.lower) = Wrap((r.global - p.lower) - b)
      BY <3>5, <3>6, SameWrap
    <3> QED
      BY <3>4, <3>7
  <2> QED
    BY <1>1, <1>2, <1>6, <2>1
<1> QED
  BY <1>1, <1>2, <1>4, <1>5, <1>6

LEMMA EarnAgrees ==
  ASSUME NEW p \in Pools, Agrees(p), p.accrued + Fee < Modulus
  PROVE  /\ Earn(p) \in Pools /\ Agrees(Earn(p)) /\ Earn(p).tick = p.tick
         /\ Earn(p).open = p.open /\ Earn(p).price = p.price
<1> DEFINE q == Earn(p)
<1>1. Fee \in Int /\ Fee >= 0 /\ Modulus \in Int
  BY PoolAssumption
<1>2. p.global \in Int /\ p.last \in Int /\ p.accrued \in Int /\ p.accrued >= 0
      /\ p.global + Fee \in Int
  BY <1>1 DEF Pools, Residues
<1>3. Wrap(p.global + Fee) \in Residues
  BY <1>2, WrapIsResidue
<1>4. p.accrued + Fee \in Residues
  BY <1>1, <1>2 DEF Residues
<1>5. /\ q \in Pools /\ q.tick = p.tick /\ q.lower = p.lower /\ q.upper = p.upper
      /\ q.last = p.last /\ q.open = p.open /\ q.price = p.price
      /\ q.global = Wrap(p.global + Fee)
      /\ q.accrued = IF p.tick \in TickLower..(TickUpper - 1) THEN p.accrued + Fee ELSE p.accrued
  BY <1>3, <1>4 DEF Earn, Pools
<1> HIDE DEF q
<1>6. Congruent(q.global, p.global + Fee)
  BY <1>2, <1>3, <1>5, WrapIsResidue, CongruentTurns DEF Residues
<1> DEFINE i == FeeGrowthInside(p)
           j == FeeGrowthInside(q)
<1>7. IF p.tick \in TickLower..(TickUpper - 1) THEN Congruent(j, i + Fee) ELSE j = i
  BY <1>2, <1>5, <1>6, GrowsInRange
<1>8. i \in Int /\ j \in Int
  BY <1>5, InsideParts DEF Residues
<1>9. Wrap(i - p.last) = p.accrued
  BY DEF Agrees, UncollectedFee
<1>10. UncollectedFee(q) = Wrap(j - p.last)
  BY <1>5 DEF UncollectedFee
<1> HIDE DEF i, j
<1>11. CASE p.tick \in TickLower..(TickUpper - 1)
  <2>1. Congruent(i - p.last, p.accrued) /\ i - p.last \in Int /\ i + Fee \in Int
    BY <1>1, <1>2, <1>8, <1>9, WrapIsResidue
  <2>2. Congruent((i - p.last) + Fee, p.accrued + Fee)
    BY <1>1, <1>2, <1>8, <2>1, CongruentShift
  <2>3. Congruent(j - p.last, (i + Fee) - p.last)
    <3>1. Congruent(j, i + Fee)
      BY <1>7, <1>11
    <3> QED
      BY <1>2, <1>8, <2>1, <3>1, CongruentShift
  <2>4. (i + Fee) - p.last = (i - p.last) + Fee /\ j - p.last \in Int
        /\ (i - p.last) + Fee \in Int /\ p.accrued + Fee \in Int
    BY <1>1, <1>2, <1>8
  <2>5. Congruent(j - p.last, p.accrued + Fee)
    BY <2>2, <2>3, <2>4, CongruentChain
  <2>6. Wrap(j - p.last) = p.accrued + Fee
    BY <1>4, <2>4, <2>5, WrapOfResidue
  <2> QED
    BY <1>5, <1>10, <1>11, <2>6 DEF Agrees, q
<1>12. CASE p.tick \notin TickLower..(TickUpper - 1)
  BY <1>5, <1>7, <1>9, <1>10, <1>12 DEF Agrees, q
<1> QED
  BY <1>5, <1>11, <1>12 DEF q

-----------------------------------------------------------------------------
(* The price lies between the tick and the next one.                       *)

PriceAtTick(p) == Ratio(p.tick) <= p.price /\ p.price <= Ratio(p.tick + 1)

LEMMA RatioType ==
  ASSUME NEW t \in Int
  PROVE  Ratio(t) \in Int /\ Ratio(t + 1) = Ratio(t) + PricesPerTick /\ PricesPerTick \in Int
         /\ PricesPerTick >= 2
<1>1. PricesPerTick \in Int /\ PricesPerTick >= 2
  BY PoolAssumption
<1>2. (t + 1) * PricesPerTick = (t * PricesPerTick) + PricesPerTick /\ t * PricesPerTick \in Int
  BY <1>1
<1> QED
  BY <1>1, <1>2 DEF Ratio

LEMMA RatioGrows ==
  ASSUME NEW t \in Int, NEW u \in Int, t <= u
  PROVE  Ratio(t) <= Ratio(u)
<1>1. PricesPerTick \in Int /\ PricesPerTick >= 2
  BY PoolAssumption
<1>2. t * PricesPerTick <= u * PricesPerTick
      /\ t * PricesPerTick \in Int /\ u * PricesPerTick \in Int
  BY <1>1
<1> QED
  BY <1>2 DEF Ratio

\* Up: the pool stands strictly below the next tick's price after entering.
LEMMA EnterPrice ==
  ASSUME NEW p \in Pools, PriceAtTick(p)
  PROVE  /\ PriceAtTick(EnterUp(p)) /\ EnterUp(p).price < Ratio(EnterUp(p).tick + 1)
         /\ PriceAtTick(LeaveDown(p)) /\ LeaveDown(p).price > Ratio(LeaveDown(p).tick)
<1>1. p.tick \in Int /\ p.price \in Int /\ p.tick + 1 \in Int /\ p.tick - 1 \in Int
  BY DEF Pools
<1>2. \A to \in Int : \A at \in Int : [Cross(p, at) EXCEPT !.tick = to].tick = to
  BY DEF Cross, Pools
<1>3. EnterUp(p).price = p.price /\ LeaveDown(p).price = p.price
  BY EntersAndLeaves DEF SameFees
<1>4. Ratio(p.tick) \in Int /\ Ratio(p.tick + 1) = Ratio(p.tick) + PricesPerTick
      /\ Ratio((p.tick + 1) + 1) = Ratio(p.tick + 1) + PricesPerTick
      /\ Ratio((p.tick - 1) + 1) = Ratio(p.tick - 1) + PricesPerTick
      /\ Ratio(p.tick - 1) \in Int /\ PricesPerTick \in Int /\ PricesPerTick >= 2
  BY <1>1, RatioType
<1>5. (p.tick - 1) + 1 = p.tick
  BY <1>1
<1>6. EnterUp(p).tick = (IF p.price = Ratio(p.tick + 1) THEN p.tick + 1 ELSE p.tick)
  BY <1>1, <1>2 DEF EnterUp
<1>7. LeaveDown(p).tick = (IF p.price = Ratio(p.tick) THEN p.tick - 1 ELSE p.tick)
  BY <1>1, <1>2 DEF LeaveDown
<1>8. PriceAtTick(EnterUp(p)) /\ EnterUp(p).price < Ratio(EnterUp(p).tick + 1)
  BY <1>1, <1>3, <1>4, <1>6 DEF PriceAtTick
<1>9. PriceAtTick(LeaveDown(p)) /\ LeaveDown(p).price > Ratio(LeaveDown(p).tick)
  BY <1>1, <1>3, <1>4, <1>5, <1>7 DEF PriceAtTick
<1> QED
  BY <1>8, <1>9

-----------------------------------------------------------------------------
(* The invariant of the pool.                                              *)

PoolInv ==
  /\ pool \in Pools /\ PriceAtTick(pool)
  /\ pool.open => Agrees(pool)
  /\ ~pool.open => pool.accrued = 0

\* A swap: the fees of the step are earned with the price where it was.
Swapped(p, price) == [Earn(p) EXCEPT !.price = price]

LEMMA SwappedAgrees ==
  ASSUME NEW p \in Pools, NEW q \in Pools, Agrees(p), SameFees(p, q), p.accrued + Fee < Modulus,
         NEW price \in Int
  PROVE  /\ Swapped(q, price) \in Pools /\ Agrees(Swapped(q, price))
         /\ Swapped(q, price).price = price /\ Swapped(q, price).tick = q.tick
         /\ Swapped(q, price).open = p.open
<1> DEFINE e == Earn(q)
           r == [e EXCEPT !.price = price]
<1>1. q.accrued + Fee < Modulus /\ Agrees(q) /\ q.open = p.open /\ q.price = p.price
  BY SameFeesAgree DEF SameFees
<1>2. e \in Pools /\ Agrees(e) /\ e.tick = q.tick /\ e.open = q.open
  BY <1>1, EarnAgrees
<1>3. r = Swapped(q, price)
  BY DEF Swapped
<1> HIDE DEF e
<1>4. /\ r \in Pools /\ r.price = price /\ r.tick = e.tick /\ r.open = e.open
      /\ r.global = e.global /\ r.lower = e.lower /\ r.upper = e.upper /\ r.last = e.last
      /\ r.accrued = e.accrued
  BY <1>2 DEF Pools
<1> HIDE DEF r
<1>5. Agrees(r)
  BY <1>2, <1>4 DEF Agrees, UncollectedFee, FeeGrowthInside
<1> QED
  BY <1>1, <1>2, <1>3, <1>4, <1>5

LEMMA SwapUpStep ==
  ASSUME PoolInv, SwapUp
  PROVE  PoolInv'
<1> DEFINE q == EnterUp(pool)
           r == Swapped(q, pool.price + 1)
<1>1. pool \in Pools /\ pool.open /\ Agrees(pool) /\ PriceAtTick(pool)
      /\ pool.accrued + Fee < Modulus /\ pool' = EnterUp(r)
  BY DEF PoolInv, SwapUp, Swapped
<1>2. SameFees(pool, q) /\ q \in Pools
  BY <1>1, EntersAndLeaves DEF SameFees
<1>3. PriceAtTick(q) /\ q.price < Ratio(q.tick + 1)
  BY <1>1, EnterPrice
<1> HIDE DEF q
<1>4. r \in Pools /\ Agrees(r) /\ r.price = q.price + 1 /\ r.tick = q.tick /\ r.open = pool.open
  <2>1. pool.price + 1 \in Int /\ q.price = pool.price
    BY <1>1, <1>2 DEF Pools, SameFees
  <2>2. /\ r \in Pools /\ Agrees(r) /\ r.price = pool.price + 1 /\ r.tick = q.tick
        /\ r.open = pool.open
    <3> DEFINE next == pool.price + 1
    <3>1. next \in Int
      BY <2>1
    <3>2. Agrees(pool) /\ pool.accrued + Fee < Modulus /\ pool \in Pools
      BY <1>1
    <3> HIDE DEF next
    <3>3. /\ Swapped(q, next) \in Pools /\ Agrees(Swapped(q, next))
          /\ Swapped(q, next).price = next /\ Swapped(q, next).tick = q.tick
          /\ Swapped(q, next).open = pool.open
      BY <1>2, <3>1, <3>2, SwappedAgrees
    <3> QED
      BY <3>3 DEF next
  <2> QED
    BY <2>1, <2>2
<1>5. PriceAtTick(r)
  <2>1. q.price \in Int /\ q.tick \in Int /\ Ratio(q.tick) \in Int /\ Ratio(q.tick + 1) \in Int
    BY <1>2, RatioType DEF Pools
  <2> HIDE DEF r
  <2> QED
    BY <1>3, <1>4, <2>1 DEF PriceAtTick
<1> HIDE DEF r
<1>6. SameFees(r, pool') /\ PriceAtTick(EnterUp(r))
  BY <1>1, <1>4, <1>5, EntersAndLeaves, EnterPrice
<1>7. pool' \in Pools /\ Agrees(EnterUp(r)) /\ pool'.open
  BY <1>1, <1>4, <1>6, SameFeesAgree DEF SameFees
<1> QED
  BY <1>1, <1>6, <1>7 DEF PoolInv, Agrees, PriceAtTick, UncollectedFee, FeeGrowthInside

LEMMA SwapDownStep ==
  ASSUME PoolInv, SwapDown
  PROVE  PoolInv'
<1> DEFINE q == LeaveDown(pool)
           next == pool.price - 1
           r == Swapped(q, next)
<1>1. pool \in Pools /\ pool.open /\ Agrees(pool) /\ PriceAtTick(pool)
      /\ pool.accrued + Fee < Modulus /\ pool' = LeaveDown(r)
  BY DEF PoolInv, SwapDown, Swapped
<1>2. SameFees(pool, q) /\ q \in Pools
  BY <1>1, EntersAndLeaves DEF SameFees
<1>3. PriceAtTick(q) /\ q.price > Ratio(q.tick)
  BY <1>1, EnterPrice
<1>4. next \in Int /\ next = q.price - 1 /\ q.price \in Int
  BY <1>1, <1>2 DEF Pools, SameFees
<1> HIDE DEF q, next
<1>5. r \in Pools /\ Agrees(r) /\ r.price = next /\ r.tick = q.tick /\ r.open = pool.open
  <2>1. Agrees(pool) /\ pool.accrued + Fee < Modulus /\ pool \in Pools
    BY <1>1
  <2> QED
    BY <1>2, <1>4, <2>1, SwappedAgrees
<1>6. PriceAtTick(r)
  <2>1. q.tick \in Int /\ Ratio(q.tick) \in Int /\ Ratio(q.tick + 1) \in Int
    BY <1>2, RatioType DEF Pools
  <2> HIDE DEF r
  <2> QED
    BY <1>3, <1>4, <1>5, <2>1 DEF PriceAtTick
<1> HIDE DEF r
<1>7. SameFees(r, pool') /\ PriceAtTick(LeaveDown(r))
  BY <1>1, <1>5, <1>6, EntersAndLeaves, EnterPrice
<1>8. pool' \in Pools /\ Agrees(LeaveDown(r)) /\ pool'.open
  BY <1>1, <1>5, <1>7, SameFeesAgree DEF SameFees
<1> QED
  BY <1>1, <1>7, <1>8 DEF PoolInv, Agrees, PriceAtTick, UncollectedFee, FeeGrowthInside

\* A position that has just seen all growth has no fees to collect.
LEMMA SeenAll ==
  ASSUME NEW p \in Pools, p.last = FeeGrowthInside(p), p.accrued = 0
  PROVE  Agrees(p)
<1>1. FeeGrowthInside(p) \in Int
  BY InsideParts DEF Residues
<1>2. 0 \in Residues
  BY PoolAssumption DEF Residues
<1>3. FeeGrowthInside(p) - FeeGrowthInside(p) = 0
  BY <1>1
<1>4. Wrap(0) = 0
  BY <1>2, WrapOfResidue, CongruentTurns
<1> QED
  BY <1>3, <1>4 DEF Agrees, UncollectedFee

LEMMA LastSeen ==
  ASSUME NEW p \in Pools, NEW a \in Residues, a = 0
  PROVE  LET q == [p EXCEPT !.last = FeeGrowthInside(p), !.accrued = a]
         IN  q \in Pools /\ Agrees(q) /\ (PriceAtTick(p) => PriceAtTick(q)) /\ q.open = p.open
<1> DEFINE f == FeeGrowthInside(p)
           q == [p EXCEPT !.last = f, !.accrued = a]
<1>1. f \in Residues
  BY InsideParts
<1> HIDE DEF f
<1>2. /\ q \in Pools /\ q.last = f /\ q.accrued = a /\ q.global = p.global /\ q.tick = p.tick
      /\ q.lower = p.lower /\ q.upper = p.upper /\ q.open = p.open /\ q.price = p.price
  BY <1>1 DEF Pools
<1> HIDE DEF q
<1>3. f = FeeGrowthInside(q)
  BY <1>2 DEF f, FeeGrowthInside
<1> QED
  BY <1>2, <1>3, SeenAll DEF PriceAtTick, q, f

LEMMA CollectStep ==
  ASSUME PoolInv, Collect
  PROVE  PoolInv'
<1> DEFINE q == [pool EXCEPT !.last = FeeGrowthInside(pool), !.accrued = 0]
<1>1. 0 \in Residues
  BY PoolAssumption DEF Residues
<1>2. pool' = q /\ pool.open /\ pool \in Pools /\ PriceAtTick(pool)
  BY DEF Collect, PoolInv
<1>3. q \in Pools /\ Agrees(q) /\ PriceAtTick(q) /\ q.open
  BY <1>1, <1>2, LastSeen
<1> HIDE DEF q
<1> QED
  BY <1>2, <1>3 DEF PoolInv, Agrees, PriceAtTick, UncollectedFee, FeeGrowthInside

LEMMA OpenStep ==
  ASSUME PoolInv, OpenPosition
  PROVE  PoolInv'
<1>1. PICK tick \in {MinTick, TickLower, TickUpper}, g \in 0..(Modulus - 1) :
        LET fresh == [pool EXCEPT !.open = TRUE, !.price = Ratio(tick), !.tick = tick, !.global = g,
                                  !.lower = Outside(TickLower, tick, g),
                                  !.upper = Outside(TickUpper, tick, g)]
        IN  pool' = [fresh EXCEPT !.last = FeeGrowthInside(fresh)]
  BY DEF OpenPosition
<1> DEFINE fresh == [pool EXCEPT !.open = TRUE, !.price = Ratio(tick), !.tick = tick, !.global = g,
                                 !.lower = Outside(TickLower, tick, g),
                                 !.upper = Outside(TickUpper, tick, g)]
<1>2. pool \in Pools /\ pool.accrued = 0
  BY DEF PoolInv, OpenPosition
<1>3. tick \in Int
  BY PoolAssumption
<1>4. g \in Residues /\ 0 \in Residues
  BY PoolAssumption DEF Residues
<1>5. Ratio(tick) \in Int /\ Ratio(tick) <= Ratio(tick + 1)
  BY <1>3, RatioType
<1>6. Outside(TickLower, tick, g) \in Residues /\ Outside(TickUpper, tick, g) \in Residues
  BY <1>4 DEF Outside
<1>7. /\ fresh \in Pools /\ fresh.accrued = 0 /\ fresh.open /\ fresh.price = Ratio(tick)
      /\ fresh.tick = tick
  BY <1>2, <1>3, <1>4, <1>5, <1>6 DEF Pools
<1>8. pool' = [fresh EXCEPT !.last = FeeGrowthInside(fresh)]
  BY <1>1
<1> HIDE DEF fresh
<1>9. PriceAtTick(fresh)
  BY <1>5, <1>7 DEF PriceAtTick
<1>10. pool' = [fresh EXCEPT !.last = FeeGrowthInside(fresh), !.accrued = 0]
  BY <1>7, <1>8 DEF Pools
<1> DEFINE q == [fresh EXCEPT !.last = FeeGrowthInside(fresh), !.accrued = 0]
<1>11. q \in Pools /\ Agrees(q) /\ PriceAtTick(q) /\ q.open
  BY <1>4, <1>7, <1>9, LastSeen
<1> HIDE DEF q
<1>12. pool' = q
  BY <1>10 DEF q
<1> QED
  BY <1>11, <1>12 DEF PoolInv, Agrees, PriceAtTick, UncollectedFee, FeeGrowthInside

LEMMA PoolInvariant == PoolSpec => []PoolInv
<1>1. PoolInit => PoolInv
  <2> SUFFICES ASSUME PoolInit PROVE PoolInv
    OBVIOUS
  <2>1. MinTick \in Int /\ 0 \in Residues
    BY PoolAssumption DEF Residues
  <2>2. Ratio(MinTick) \in Int /\ Ratio(MinTick) <= Ratio(MinTick + 1)
    BY <2>1, RatioType
  <2> QED
    BY <2>1, <2>2 DEF PoolInit, PoolInv, Pools, PriceAtTick
<1>2. PoolInv /\ [PoolNext]_pool => PoolInv'
  <2>1. CASE UNCHANGED pool
    BY <2>1 DEF PoolInv, Agrees, PriceAtTick, UncollectedFee, FeeGrowthInside
  <2> QED
    BY <2>1, OpenStep, SwapUpStep, SwapDownStep, CollectStep DEF PoolNext
<1> QED
  BY <1>1, <1>2, PTL DEF PoolSpec

LEMMA AmountsMatch ==
  ASSUME PoolInv
  PROVE  RangeMatchesAmounts
<1> DEFINE lo == Ratio(TickLower)
           hi == Ratio(TickUpper)
           t == pool.tick
           price == pool.price
<1>1. TickLower \in Int /\ TickUpper \in Int /\ TickLower + 1 <= TickUpper /\ t \in Int
      /\ price \in Int
  BY PoolAssumption DEF PoolInv, Pools
<1>2. lo \in Int /\ hi \in Int /\ Ratio(TickLower + 1) > lo /\ Ratio(TickLower + 1) \in Int
  BY <1>1, RatioType
<1>3. lo < hi
  BY <1>1, <1>2, RatioGrows
<1>4. Ratio(t) \in Int /\ Ratio(t + 1) \in Int /\ Ratio(t) <= price /\ price <= Ratio(t + 1)
  BY <1>1, RatioType DEF PoolInv, PriceAtTick
<1>5. t < TickLower => price <= lo
  BY <1>1, <1>2, <1>4, RatioGrows
<1>6. t >= TickLower => lo <= price
  BY <1>1, <1>2, <1>4, RatioGrows
<1>7. t < TickUpper => price <= hi
  BY <1>1, <1>2, <1>4, RatioGrows
<1>8. t >= TickUpper => hi <= price
  BY <1>1, <1>2, <1>4, RatioGrows
<1> HIDE DEF lo, hi
<1>9. LiquidityAmounts(pool) =
        IF price <= lo THEN <<hi - lo, 0>>
        ELSE IF price < hi THEN <<hi - price, price - lo>>
        ELSE <<0, hi - lo>>
  BY DEF LiquidityAmounts, lo, hi
<1>10. RangeState(t) = "below_range" <=> t < TickLower
  BY <1>1 DEF RangeState
<1>11. RangeState(t) = "above_range" <=> t >= TickUpper
  BY <1>1 DEF RangeState
<1>12. RangeState(t) = "in_range" <=> TickLower <= t /\ t < TickUpper
  BY <1>1 DEF RangeState
<1> HIDE DEF t, price
<1> DEFINE amounts == LiquidityAmounts(pool)
<1>13. t < TickLower => amounts[2] = 0
  BY <1>5, <1>9
<1>14. t >= TickUpper => amounts[1] = 0
  BY <1>1, <1>2, <1>3, <1>8, <1>9
<1>15. TickLower <= t /\ t < TickUpper => price \in lo..hi
  BY <1>1, <1>2, <1>6, <1>7
<1>16. amounts[1] > 0 /\ amounts[2] > 0 => TickLower <= t /\ t < TickUpper
  <2>1. CASE t < TickLower
    BY <1>5, <1>9, <2>1
  <2>2. CASE t >= TickUpper
    BY <1>1, <1>2, <1>3, <1>8, <1>9, <2>2
  <2> QED
    BY <1>1, <2>1, <2>2
<1> QED
  BY <1>10, <1>11, <1>12, <1>13, <1>14, <1>15, <1>16 DEF RangeMatchesAmounts, lo, hi, t, price

(* Wherever the price has been, however often the counters wrapped and on  *)
(* whichever side of a boundary a swap ended: the fees that the adapter    *)
(* computes are those earned in range since the last collection, and the   *)
(* range state it shows agrees with the amounts (uniswap_v3.py,            *)
(* _uncollected_fees, _liquidity_amounts and _range_state), for every      *)
(* width of the counters, every range of ticks and every fee.              *)
THEOREM PositionTheorem == PoolSpec => []PositionIsPoolsOwn
<1>1. PoolInv => PositionIsPoolsOwn
  BY AmountsMatch DEF PoolInv, PositionIsPoolsOwn, FeesEarnedInRange, Agrees
<1> QED
  BY <1>1, PoolInvariant, PTL

-----------------------------------------------------------------------------
(* What follows from the evidence of one snapshot.                         *)

LEMMA EvidenceIs ==
  ASSUME NEW p, NEW h, NEW e \in EvidenceOf(p, h)
  PROVE  e.protocol = p /\ e.holding = h
<1>1. PICK f : e = [protocol |-> p, holding |-> h, failed |-> f]
  BY Zenon DEF EvidenceOf
<1> QED
  BY <1>1

\* The item is in a position that has an asset.
Stands(e, item) == \E q \in Positions(e) : q.item = item /\ q.assets # {}

\* The tokens that positions stand for.
LeftOut(e) == ProtocolReceiptTokens(Analyze(e))

ReadWell(e) == "reserve token addresses" \notin e.failed

\* The items whose receipt tokens are left out.
KnownItems(e) ==
  CASE e.protocol = "aave-v3" ->
         IF e.failed \cap {"user reserve data", "reserve token addresses"} # {} THEN {}
         ELSE e.holding
    [] e.protocol = "compound-v3" -> e.holding \cap {"supply"}
    [] e.protocol = "erc4626" -> {q.item : q \in {r \in Positions(e) : r.assets # {}}}
    [] OTHER -> {}

LEMMA LeftOutIs ==
  ASSUME NEW e, e.protocol \in ProtocolNames
  PROVE  LeftOut(e) = ReceiptsHeld(e.protocol, KnownItems(e))
<1>1. Analyze(e).evidence = e /\ Analyze(e).positions = Positions(e)
  BY DEF Analyze
<1> QED
  BY <1>1 DEF LeftOut, ProtocolReceiptTokens, KnownItems

LEMMA PositionOf ==
  ASSUME NEW item, NEW assets, NEW liability
  PROVE  /\ Position(item, assets, liability).item = item
         /\ Position(item, assets, liability).assets = assets
BY DEF Position

(* A receipt token is left out if its holding is in a position with an     *)
(* asset, unless its address could not be read; and for Compound and       *)
(* vaults only if it is.                                                   *)
LEMMA AaveReceipts ==
  ASSUME NEW h, NEW e \in EvidenceOf("aave-v3", h), NEW item \in h, ReadWell(e),
         Stands(e, item)
  PROVE  item \in KnownItems(e)
<1>1. e.protocol = "aave-v3" /\ e.holding = h
  BY EvidenceIs
<1>2. Positions(e) = AavePositions(e)
  BY <1>1 DEF Positions
<1>3. e.failed \cap {"user reserve data", "reserve configuration"} = {}
  BY <1>2 DEF Stands, AavePositions
<1>4. e.failed \cap {"user reserve data", "reserve token addresses"} = {}
  BY <1>3 DEF ReadWell
<1> QED
  BY <1>1, <1>4 DEF KnownItems

LEMMA CompoundReceipts ==
  ASSUME NEW h, NEW e \in EvidenceOf("compound-v3", h), NEW item \in h
  PROVE  item = "supply" => item \in KnownItems(e) /\ Stands(e, item)
<1> SUFFICES ASSUME item = "supply" PROVE item \in KnownItems(e) /\ Stands(e, item)
  OBVIOUS
<1>1. e.protocol = "compound-v3" /\ e.holding = h
  BY EvidenceIs
<1>2. item \in KnownItems(e)
  BY <1>1 DEF KnownItems
<1> DEFINE q == Position(item, {IF item = "collateral" THEN "weth" ELSE "usdc"}, item = "debt")
<1>3. item \in e.holding \ (IF "collateral balance" \in e.failed THEN {"collateral"} ELSE {})
  BY <1>1
<1>4. q \in CompoundPositions(e)
  BY <1>3 DEF CompoundPositions
<1>5. Positions(e) = CompoundPositions(e)
  BY <1>1 DEF Positions
<1>6. q.item = item /\ q.assets # {}
  BY PositionOf
<1> QED
  BY <1>2, <1>4, <1>5, <1>6 DEF Stands

LEMMA VaultReceipts ==
  ASSUME NEW h, NEW e \in EvidenceOf("erc4626", h), NEW item
  PROVE  item \in KnownItems(e) <=> Stands(e, item)
<1>1. e.protocol = "erc4626"
  BY EvidenceIs
<1>2. KnownItems(e) = {q.item : q \in {r \in Positions(e) : r.assets # {}}}
  BY <1>1 DEF KnownItems
<1> QED
  BY <1>2 DEF Stands

\* No two things that may be held have the same receipt token.
LEMMA ReceiptsDiffer ==
  ASSUME NEW p \in ProtocolNames, NEW i, NEW o \in ProtocolNames, NEW j,
         ReceiptToken(p, i) = ReceiptToken(o, j), ReceiptToken(p, i) # "none"
  PROVE  p = o /\ i = j
BY DEF ReceiptToken, ProtocolNames

LEMMA LeftOutItems ==
  ASSUME NEW e, e.protocol \in ProtocolNames, NEW item
  PROVE  ReceiptToken(e.protocol, item) \in LeftOut(e)
           <=> item \in KnownItems(e) /\ ReceiptToken(e.protocol, item) # "none"
<1>1. LeftOut(e) = {ReceiptToken(e.protocol, k) : k \in KnownItems(e)} \ {"none"}
  BY LeftOutIs DEF ReceiptsHeld
<1> QED
  BY <1>1, ReceiptsDiffer

LEMMA StandsForReceipt ==
  ASSUME NEW p \in ProtocolNames, NEW h \in Holdings(p), NEW e \in EvidenceOf(p, h),
         NEW item \in h, ReadWell(e), Stands(e, item)
  PROVE  ReceiptToken(p, item) = "none" \/ ReceiptToken(p, item) \in LeftOut(e)
<1>1. e.protocol = p
  BY EvidenceIs
<1>2. CASE p = "aave-v3"
  BY <1>1, <1>2, AaveReceipts, LeftOutItems
<1>3. CASE p = "compound-v3"
  <2>1. ReceiptToken(p, item) = "none" \/ item = "supply"
    BY <1>3 DEF ReceiptToken
  <2> QED
    BY <1>1, <1>3, <2>1, CompoundReceipts, LeftOutItems
<1>4. CASE p = "erc4626"
  BY <1>1, <1>4, VaultReceipts, LeftOutItems
<1>5. CASE p = "uniswap-v3"
  BY <1>5 DEF ReceiptToken
<1> QED
  BY <1>2, <1>3, <1>4, <1>5 DEF ProtocolNames

LEMMA LeftOutStands ==
  ASSUME NEW p \in ProtocolNames, p # "aave-v3", NEW h \in Holdings(p),
         NEW e \in EvidenceOf(p, h), NEW item \in h, ReceiptToken(p, item) \in LeftOut(e)
  PROVE  Stands(e, item)
<1>1. e.protocol = p
  BY EvidenceIs
<1>2. item \in KnownItems(e) /\ ReceiptToken(p, item) # "none"
  BY <1>1, LeftOutItems
<1>3. CASE p = "compound-v3"
  <2>1. item = "supply"
    BY <1>2, <1>3 DEF ReceiptToken
  <2> QED
    BY <1>3, <2>1, CompoundReceipts
<1>4. CASE p = "erc4626"
  BY <1>2, <1>4, VaultReceipts
<1>5. CASE p = "uniswap-v3"
  BY <1>2, <1>5 DEF ReceiptToken
<1> QED
  BY <1>3, <1>4, <1>5 DEF ProtocolNames

\* A snapshot without a failed read has a position of everything held.
LEMMA MatchedIsWhole ==
  ASSUME NEW p \in ProtocolNames, NEW h \in Holdings(p), NEW e \in EvidenceOf(p, h),
         AdapterStatus(e) = "MATCHED", NEW item \in h
  PROVE  ReadWell(e) /\ \E q \in Positions(e) : q.item = item
<1>1. e.protocol = p /\ e.holding = h /\ e.failed = {}
  BY EvidenceIs DEF AdapterStatus
<1>2. ReadWell(e)
  BY <1>1 DEF ReadWell
<1>3. ASSUME NEW assets, NEW liability, Position(item, assets, liability) \in Positions(e)
      PROVE  ReadWell(e) /\ \E q \in Positions(e) : q.item = item
  BY <1>2, <1>3, PositionOf
<1>4. CASE p = "aave-v3"
  <2>1. Position(item, {"usdc"}, item = "debt") \in Positions(e)
    BY <1>1, <1>4 DEF Positions, AavePositions
  <2> QED
    BY <1>3, <2>1
<1>5. CASE p = "compound-v3"
  <2>1. item \in e.holding \ (IF "collateral balance" \in e.failed THEN {"collateral"} ELSE {})
    BY <1>1
  <2>2. Position(item, {IF item = "collateral" THEN "weth" ELSE "usdc"}, item = "debt")
          \in CompoundPositions(e)
    BY <2>1 DEF CompoundPositions
  <2>3. Positions(e) = CompoundPositions(e)
    BY <1>1, <1>5 DEF Positions
  <2> QED
    BY <1>3, <2>2, <2>3
<1>6. CASE p = "erc4626"
  <2>1. Position(item, IF "convertToAssets" \in e.failed THEN {} ELSE {"usdc"}, FALSE)
          \in Positions(e)
    BY <1>1, <1>6 DEF Positions, VaultPositions
  <2> QED
    BY <1>3, <2>1
<1>7. CASE p = "uniswap-v3"
  <2>1. Position(item, {"usdc", "weth"}, FALSE) \in Positions(e)
    BY <1>1, <1>7 DEF Positions, LiquidityPositions
  <2> QED
    BY <1>3, <2>1
<1> QED
  BY <1>4, <1>5, <1>6, <1>7 DEF ProtocolNames

-----------------------------------------------------------------------------
(* What is counted of one wallet.                                          *)

\* A snapshot of protocol p, of whatever was held at its block.
IsSnapshot(p, s) ==
  /\ p \in ProtocolNames /\ s.age \in Ages
  /\ \E h \in Holdings(p) : \E e \in EvidenceOf(p, h) : s.result = Analyze(e)

StoredOK == \A p \in DOMAIN stored.kept : IsSnapshot(p, stored.kept[p])
ListingOK == listing.tokens \subseteq balances /\ "none" \notin balances

\* What a complete total says of the snapshot kept of protocol p.
Whole(w, p) ==
  LET r == w.kept[p].result
  IN  /\ w.kept[p].age \in 0..StaleAfterSeconds
      /\ \A item \in r.evidence.holding : Counts(w, p, item) = 1
      /\ \A q \in r.positions : \A a \in q.assets : <<p, q.item, a>> \in w.counted.positions

\* What the properties say of one wallet's part of the result.
OnceCounted(w, r) ==
  \A item \in r.evidence.holding :
    /\ ReadWell(r.evidence) => Counts(w, r.protocol, item) <= 1
    /\ r.protocol # "aave-v3" /\ ReceiptToken(r.protocol, item) \in w.excluded
         => \E q \in r.positions : q.item = item /\ q.assets # {}
Sound(w) ==
  /\ \A r \in w.results : OnceCounted(w, r)
  /\ \A t \in w.excluded : \E r \in w.results : t \in ReceiptsHeld(r.protocol, r.evidence.holding)
  /\ ~w.error /\ ~ProtocolIncomplete(w) => \A p \in DOMAIN w.kept : Whole(w, p)

\* Result r is what the adapter makes of evidence e of holding h.
Tells(r, h, e) ==
  /\ h \in Holdings(r.protocol) /\ e \in EvidenceOf(r.protocol, h)
  /\ e.protocol = r.protocol /\ e.holding = h
  /\ r.evidence = e /\ r.positions = Positions(e) /\ r.status = AdapterStatus(e)
  /\ ProtocolReceiptTokens(r) = LeftOut(e)

\* The results are those of the snapshots kept, one per protocol.
LEMMA ResultOf ==
  ASSUME StoredOK, NEW r \in Results
  PROVE  /\ r.protocol \in DOMAIN stored.kept /\ r = stored.kept[r.protocol].result
         /\ r.protocol \in ProtocolNames
         /\ \E h, e : Tells(r, h, e)
<1>1. PICK p \in DOMAIN stored.kept : r = stored.kept[p].result
  BY DEF Results
<1>2. PICK h, e : h \in Holdings(p) /\ e \in EvidenceOf(p, h) /\ r = Analyze(e)
  BY <1>1 DEF StoredOK, IsSnapshot
<1>3. e.protocol = p /\ e.holding = h
  BY <1>2, EvidenceIs
<1>4. /\ r.protocol = p /\ r.evidence = e /\ r.positions = Positions(e)
      /\ r.status = AdapterStatus(e)
  BY <1>2, <1>3 DEF Analyze
<1>5. ProtocolReceiptTokens(r) = LeftOut(e)
  BY <1>2 DEF LeftOut
<1>6. p \in ProtocolNames
  BY DEF StoredOK, IsSnapshot
<1> QED
  BY <1>1, <1>2, <1>3, <1>4, <1>5, <1>6 DEF Tells

LEMMA OneResult ==
  ASSUME StoredOK, NEW r \in Results, NEW s \in Results, r.protocol = s.protocol
  PROVE  r = s
BY ResultOf

LEMMA CountOf ==
  ASSUME NEW T, NEW x
  PROVE  Cardinality({t \in T : t = x}) = IF x \in T THEN 1 ELSE 0
<1>1. CASE x \in T
  <2>1. {t \in T : t = x} = {x}
    BY <1>1
  <2> QED
    BY <1>1, <2>1, FS_Singleton
<1>2. CASE x \notin T
  <2>1. {t \in T : t = x} = {}
    BY <1>2
  <2> QED
    BY <1>2, <2>1, FS_EmptySet
<1> QED
  BY <1>1, <1>2

\* What a token listed in its own right may be.
LEMMA TokenCounted ==
  ASSUME ListingOK, NEW p, NEW item, NEW priced, NEW excluded,
         ReceiptToken(p, item) \in CountedTokens(priced, excluded)
  PROVE  ReceiptToken(p, item) # "none" /\ ReceiptToken(p, item) \notin excluded
<1> DEFINE t == ReceiptToken(p, item)
<1>1. t # NativeAsset
  BY DEF ReceiptToken, NativeAsset
<1> HIDE DEF t
<1>2. t \in Shown \ excluded /\ Shown \subseteq listing.tokens
  BY <1>1 DEF CountedTokens, Shown, t
<1> QED
  BY <1>2 DEF ListingOK, t

LEMMA ValuedIs ==
  ASSUME StoredOK, NEW priced, NEW v \in ValuedPositions(priced)
  PROVE  \E r \in Results : \E q \in r.positions : \E a \in q.assets :
           v = <<r.protocol, q.item, a>>
<1>1. PICK r \in Results : v \in Valued(r, priced)
  BY DEF ValuedPositions
<1>2. v \in UNION {{<<r.protocol, q.item, a>> : a \in q.assets \cap priced} : q \in r.positions}
  BY <1>1 DEF Valued
<1>3. PICK q \in r.positions : v \in {<<r.protocol, q.item, a>> : a \in q.assets \cap priced}
  BY <1>2
<1> QED
  BY <1>3

LEMMA MergedIs ==
  ASSUME NEW priced
  PROVE  LET w == Merged(priced)
         IN  /\ w.loaded /\ w.kept = stored.kept /\ w.results = Results /\ w.excluded = Excluded
             /\ w.error = (stored.failed \/ (options.exact /\ Results = {}))
             /\ w.counted.tokens = CountedTokens(priced, Excluded)
             /\ w.counted.positions = ValuedPositions(priced)
             /\ w.counted.unpriced = Unpriced(priced)
BY DEF Merged

\* The items of protocol p that are counted by a position.
ItemsOf(p, priced) == {v[2] : v \in {x \in ValuedPositions(priced) : x[1] = p}}

LEMMA CountsOf ==
  ASSUME NEW priced, NEW p, NEW item
  PROVE  Counts(Merged(priced), p, item)
           = (IF ReceiptToken(p, item) \in CountedTokens(priced, Excluded) THEN 1 ELSE 0)
               + (IF item \in ItemsOf(p, priced) THEN 1 ELSE 0)
<1> DEFINE tokens == CountedTokens(priced, Excluded)
           items == ItemsOf(p, priced)
<1>1. Merged(priced).counted.tokens = tokens
      /\ Merged(priced).counted.positions = ValuedPositions(priced)
  BY MergedIs
<1>2. Counts(Merged(priced), p, item)
        = Cardinality({t \in tokens : t = ReceiptToken(p, item)})
            + Cardinality({i \in items : i = item})
  BY <1>1 DEF Counts, ItemsOf
<1> HIDE DEF tokens, items
<1>3. Cardinality({t \in tokens : t = ReceiptToken(p, item)})
        = IF ReceiptToken(p, item) \in tokens THEN 1 ELSE 0
  BY CountOf
<1>4. Cardinality({i \in items : i = item}) = IF item \in items THEN 1 ELSE 0
  BY CountOf
<1> QED
  BY <1>2, <1>3, <1>4 DEF tokens, items

\* An item counted by a position stands in a position of its own protocol.
LEMMA CountedStands ==
  ASSUME StoredOK, NEW priced, NEW r \in Results, NEW item \in ItemsOf(r.protocol, priced)
  PROVE  \E q \in r.positions : q.item = item /\ q.assets # {}
<1>1. PICK v \in ValuedPositions(priced) : v[1] = r.protocol /\ v[2] = item
  BY DEF ItemsOf
<1>2. PICK s, q, a : /\ s \in Results /\ q \in s.positions /\ a \in q.assets
                      /\ v = <<s.protocol, q.item, a>>
  BY ValuedIs
<1>3. v[1] = s.protocol /\ v[2] = q.item
  BY <1>2
<1>4. s \in Results /\ s.protocol = r.protocol /\ q \in s.positions /\ q.assets # {}
  BY <1>1, <1>2, <1>3
<1>5. s = r
  BY <1>4, OneResult
<1> QED
  BY <1>1, <1>3, <1>4, <1>5

\* A receipt that is left out, is left out for the snapshot of its own protocol.
LEMMA LeftOutByOwn ==
  ASSUME StoredOK, NEW r \in Results, NEW item, ReceiptToken(r.protocol, item) \in Excluded
  PROVE  ReceiptToken(r.protocol, item) \in ProtocolReceiptTokens(r)
<1> DEFINE t == ReceiptToken(r.protocol, item)
<1>1. PICK s \in Results : t \in ProtocolReceiptTokens(s)
  BY DEF Excluded
<1>2. s.protocol \in ProtocolNames /\ r.protocol \in ProtocolNames
  BY ResultOf
<1>3. PICK e : e.protocol = s.protocol /\ ProtocolReceiptTokens(s) = LeftOut(e)
  BY ResultOf DEF Tells
<1>4. LeftOut(e) = {ReceiptToken(s.protocol, k) : k \in KnownItems(e)} \ {"none"}
  BY <1>2, <1>3, LeftOutIs DEF ReceiptsHeld
<1>5. PICK k : t = ReceiptToken(s.protocol, k) /\ t # "none"
  BY <1>1, <1>3, <1>4
<1>6. s.protocol = r.protocol
  BY <1>2, <1>5, ReceiptsDiffer
<1>7. s = r
  BY <1>6, OneResult
<1> QED
  BY <1>1, <1>7

\* Nothing is counted both by its receipt token and by its position.
LEMMA NeverTwice ==
  ASSUME StoredOK, ListingOK, NEW priced, NEW r \in Results, NEW item \in r.evidence.holding,
         ReadWell(r.evidence), item \in ItemsOf(r.protocol, priced)
  PROVE  ReceiptToken(r.protocol, item) \notin CountedTokens(priced, Excluded)
<1>1. PICK h, e : Tells(r, h, e)
  BY ResultOf
<1>2. Stands(e, item)
  BY <1>1, CountedStands DEF Stands, Tells
<1>3. r.protocol \in ProtocolNames
  BY ResultOf
<1>4. ReceiptToken(r.protocol, item) = "none" \/ ReceiptToken(r.protocol, item) \in LeftOut(e)
  BY <1>1, <1>2, <1>3, StandsForReceipt DEF Tells
<1>5. LeftOut(e) \subseteq Excluded
  BY <1>1 DEF Excluded, Tells
<1> QED
  BY <1>4, <1>5, TokenCounted

LEMMA MergedOnce ==
  ASSUME StoredOK, ListingOK, NEW priced, NEW r \in Results
  PROVE  OnceCounted(Merged(priced), r)
<1> DEFINE w == Merged(priced)
<1> SUFFICES ASSUME NEW item \in r.evidence.holding
             PROVE  /\ ReadWell(r.evidence) => Counts(w, r.protocol, item) <= 1
                    /\ r.protocol # "aave-v3" /\ ReceiptToken(r.protocol, item) \in w.excluded
                         => \E q \in r.positions : q.item = item /\ q.assets # {}
  BY DEF OnceCounted
<1>1. w.excluded = Excluded
  BY MergedIs
<1>2. ASSUME ReadWell(r.evidence) PROVE Counts(w, r.protocol, item) <= 1
  <2>1. ~(/\ ReceiptToken(r.protocol, item) \in CountedTokens(priced, Excluded)
          /\ item \in ItemsOf(r.protocol, priced))
    BY <1>2, NeverTwice
  <2> QED
    BY <2>1, CountsOf
<1>3. ASSUME r.protocol # "aave-v3", ReceiptToken(r.protocol, item) \in Excluded
      PROVE  \E q \in r.positions : q.item = item /\ q.assets # {}
  <2>1. PICK h, e : Tells(r, h, e)
    BY ResultOf
  <2>2. r.protocol \in ProtocolNames /\ ReceiptToken(r.protocol, item) \in LeftOut(e)
    BY <1>3, <2>1, ResultOf, LeftOutByOwn DEF Tells
  <2> QED
    BY <1>3, <2>1, <2>2, LeftOutStands DEF Stands, Tells
<1> QED
  BY <1>1, <1>2, <1>3

\* Only receipts of what a snapshot found held are left out.
LEMMA KnownIsHeld ==
  ASSUME NEW p \in ProtocolNames, NEW h \in Holdings(p), NEW e \in EvidenceOf(p, h)
  PROVE  KnownItems(e) \subseteq h
<1>1. e.protocol = p /\ e.holding = h
  BY EvidenceIs
<1>2. CASE p # "erc4626"
  BY <1>1, <1>2 DEF KnownItems
<1>3. CASE p = "erc4626"
  <2>1. Positions(e)
          = {Position(k, IF "convertToAssets" \in e.failed THEN {} ELSE {"usdc"}, FALSE) : k \in h}
    BY <1>1, <1>3 DEF Positions, VaultPositions
  <2>2. ASSUME NEW q \in Positions(e) PROVE q.item \in h
    <3>1. PICK k \in h : q = Position(k, IF "convertToAssets" \in e.failed THEN {} ELSE {"usdc"}, FALSE)
      BY <2>1
    <3> QED
      BY <3>1, PositionOf
  <2> QED
    BY <1>1, <1>3, <2>2 DEF KnownItems
<1> QED
  BY <1>2, <1>3

LEMMA LeftOutIsHeld ==
  ASSUME StoredOK, NEW t \in Excluded
  PROVE  \E r \in Results : t \in ReceiptsHeld(r.protocol, r.evidence.holding)
<1>1. PICK r \in Results : t \in ProtocolReceiptTokens(r)
  BY DEF Excluded
<1>2. PICK h, e : Tells(r, h, e)
  BY ResultOf
<1>3. r.protocol \in ProtocolNames
  BY ResultOf
<1>4. t \in ReceiptsHeld(r.protocol, KnownItems(e))
  BY <1>1, <1>2, <1>3, LeftOutIs DEF Tells
<1>5. KnownItems(e) \subseteq h
  BY <1>2, <1>3, KnownIsHeld DEF Tells
<1> QED
  BY <1>2, <1>4, <1>5 DEF ReceiptsHeld, Tells

\* Of snapshots that were read, are fresh, and lack neither reads nor prices.
LEMMA MergedWhole ==
  ASSUME StoredOK, ListingOK, NEW priced, NEW p \in DOMAIN stored.kept,
         ~Merged(priced).error, ~ProtocolIncomplete(Merged(priced))
  PROVE  Whole(Merged(priced), p)
<1> DEFINE w == Merged(priced)
           r == stored.kept[p].result
<1>1. /\ w.kept = stored.kept /\ w.results = Results
      /\ w.counted.positions = ValuedPositions(priced) /\ w.counted.unpriced = Unpriced(priced)
      /\ ~stored.failed
  BY MergedIs
<1>2. r \in Results
  BY <1>1 DEF Results
<1>3. r.protocol = p
  <2>1. PICK h, e : h \in Holdings(p) /\ e \in EvidenceOf(p, h) /\ r = Analyze(e)
    BY DEF StoredOK, IsSnapshot
  <2>2. e.protocol = p
    BY <2>1, EvidenceIs
  <2> QED
    BY <2>1, <2>2 DEF Analyze
<1>4. r.status = "MATCHED" /\ Freshness(stored.kept[p].age) = "fresh" /\ Unpriced(priced) = {}
  BY <1>1, <1>2 DEF ProtocolIncomplete
<1>5. stored.kept[p].age \in 0..StaleAfterSeconds
  <2>1. stored.kept[p].age \in Int /\ StaleAfterSeconds \in Nat
    BY PortfolioAssumption DEF StoredOK, IsSnapshot
  <2> QED
    BY <1>4, <2>1 DEF Freshness
<1>6. PICK h, e : Tells(r, h, e)
  BY <1>2, <1>3, ResultOf
<1>7. p \in ProtocolNames
  BY DEF StoredOK, IsSnapshot
<1> HIDE DEF r
<1>8. ASSUME NEW q \in r.positions
      PROVE  /\ q.assets # {}
             /\ \A a \in q.assets : <<p, q.item, a>> \in ValuedPositions(priced)
  <2> DEFINE bad(s) == {x \in s.positions : x.assets = {}
                          \/ \E a \in x.assets : <<s.protocol, x.item, a>> \notin Valued(s, priced)}
  <2>1. bad(r) \subseteq Unpriced(priced)
    BY <1>2 DEF Unpriced
  <2>2. q.assets # {} /\ \A a \in q.assets : <<r.protocol, q.item, a>> \in Valued(r, priced)
    BY <1>4, <2>1
  <2> QED
    BY <1>2, <1>3, <2>2 DEF ValuedPositions
<1>9. ASSUME NEW item \in r.evidence.holding PROVE Counts(w, p, item) = 1
  <2>1. ReadWell(e) /\ \E q \in Positions(e) : q.item = item
    BY <1>3, <1>4, <1>6, <1>7, <1>9, MatchedIsWhole DEF Tells
  <2>2. PICK q \in r.positions : q.item = item
    BY <1>6, <2>1 DEF Tells
  <2>3. PICK a \in q.assets : <<p, item, a>> \in ValuedPositions(priced)
    BY <1>8, <2>2
  <2>4. <<p, item, a>>[1] = p /\ <<p, item, a>>[2] = item
    OBVIOUS
  <2>5. item \in ItemsOf(p, priced)
    BY <2>3, <2>4 DEF ItemsOf
  <2>6. ReceiptToken(p, item) \notin CountedTokens(priced, Excluded)
    BY <1>2, <1>3, <1>6, <1>9, <2>1, <2>5, NeverTwice DEF Tells
  <2> QED
    BY <2>5, <2>6, CountsOf
<1> QED
  BY <1>1, <1>5, <1>8, <1>9 DEF Whole, r

LEMMA MergedSound ==
  ASSUME StoredOK, ListingOK, NEW priced
  PROVE  Sound(Merged(priced))
<1> DEFINE w == Merged(priced)
<1>1. w.kept = stored.kept /\ w.results = Results /\ w.excluded = Excluded
  BY MergedIs
<1>2. \A r \in w.results : OnceCounted(w, r)
  BY <1>1, MergedOnce
<1>3. \A t \in w.excluded : \E r \in w.results : t \in ReceiptsHeld(r.protocol, r.evidence.holding)
  BY <1>1, LeftOutIsHeld
<1>4. ~w.error /\ ~ProtocolIncomplete(w) => \A p \in DOMAIN w.kept : Whole(w, p)
  BY <1>1, MergedWhole
<1> HIDE DEF w
<1>5. Sound(w)
  BY <1>2, <1>3, <1>4 DEF Sound
<1> QED
  BY <1>5 DEF w

-----------------------------------------------------------------------------
(* The load of all wallets.                                                *)

WalletParts == {wallets[i] : i \in DOMAIN wallets}

\* One part of the result per wallet already passed, each of them sound.
WalletsOK ==
  /\ wallets \in Seq(WalletParts)
  /\ index \in Nat \ {0} /\ index <= Len(Wallets) + 1
  /\ Len(wallets) = index - 1
  /\ \A i \in DOMAIN wallets : wallets[i].loaded => Sound(wallets[i])

\* What is known of the wallet under way, at each stage of it.
StageOK ==
  /\ stage \in {"choose", "wallet", "balances", "snapshots", "merge", "done"}
  /\ stage \in {"choose", "wallet"} => listing.tokens = {}
  /\ stage \in {"balances", "snapshots", "merge"} => index <= Len(Wallets) /\ ListingOK
  /\ stage = "merge" => StoredOK

\* A total is given once every wallet was passed.
TotalOK ==
  stage = "done" => /\ index = Len(Wallets) + 1
                    /\ total.loaded = Cardinality(Loaded)
                    /\ total.complete => CompleteTotal

PortfolioInv == WalletsOK /\ StageOK /\ TotalOK

LEMMA OwnSeq ==
  ASSUME NEW S, NEW s \in Seq(S)
  PROVE  s \in Seq({s[i] : i \in DOMAIN s}) /\ Len(s) \in Nat /\ DOMAIN s = 1 .. Len(s)
<1> DEFINE T == {s[i] : i \in DOMAIN s}
<1>1. Len(s) \in Nat /\ DOMAIN s = 1 .. Len(s) /\ s \in [1 .. Len(s) -> S]
  BY LenProperties
<1>2. s \in [1 .. Len(s) -> T]
  BY <1>1
<1>3. s \in Seq(T)
  BY <1>1, <1>2, SeqDef
<1> QED
  BY <1>1, <1>3

LEMMA Appended ==
  ASSUME NEW S, NEW s \in Seq(S), NEW x
  PROVE  LET t == Append(s, x)
         IN  /\ t \in Seq(S \cup {x})
             /\ Len(t) = Len(s) + 1
             /\ \A i \in 1 .. Len(s) : t[i] = s[i]
             /\ t[Len(s) + 1] = x
<1>1. s \in Seq(S \cup {x})
  BY SeqMonotonic
<1> QED
  BY <1>1, AppendProperties

LEMMA WalletsStay ==
  ASSUME WalletsOK, UNCHANGED <<wallets, index>>
  PROVE  WalletsOK'
<1> QED
  BY DEF WalletsOK, WalletParts

LEMMA WalletsGrow ==
  ASSUME WalletsOK, index <= Len(Wallets), NEW w, w.loaded => Sound(w),
         wallets' = Append(wallets, w), index' = index + 1
  PROVE  WalletsOK'
<1> DEFINE t == Append(wallets, w)
<1>1. Len(wallets) \in Nat /\ DOMAIN wallets = 1 .. Len(wallets) /\ Len(wallets) = index - 1
  BY OwnSeq DEF WalletsOK
<1>2. /\ t \in Seq(WalletParts \cup {w}) /\ Len(t) = Len(wallets) + 1
      /\ \A i \in 1 .. Len(wallets) : t[i] = wallets[i]
      /\ t[Len(wallets) + 1] = w
  BY Appended DEF WalletsOK
<1> HIDE DEF t
<1>3. t \in Seq({t[i] : i \in DOMAIN t}) /\ DOMAIN t = 1 .. Len(t)
  BY <1>2, OwnSeq
<1>4. ASSUME NEW i \in DOMAIN t, t[i].loaded PROVE Sound(t[i])
  <2>1. CASE i = Len(wallets) + 1
    BY <1>2, <1>4, <2>1
  <2>2. CASE i # Len(wallets) + 1
    <3>1. i \in 1 .. Len(wallets)
      BY <1>1, <1>2, <1>3, <2>2
    <3>2. t[i] = wallets[i] /\ i \in DOMAIN wallets
      BY <1>1, <1>2, <3>1
    <3> QED
      BY <1>4, <3>2 DEF WalletsOK
  <2> QED
    BY <2>1, <2>2
<1>5. wallets' = t
  BY DEF t
<1>6. index' \in Nat \ {0} /\ Len(t) = index' - 1 /\ index' <= Len(Wallets) + 1
  <2>1. Len(Wallets) \in Nat /\ index \in Nat
    BY OwnSeq, PortfolioAssumption DEF WalletsOK
  <2> QED
    BY <1>1, <1>2, <2>1
<1>7. wallets' \in Seq({wallets'[i] : i \in DOMAIN wallets'})
  BY <1>3, <1>5
<1>8. \A i \in DOMAIN wallets' : wallets'[i].loaded => Sound(wallets'[i])
  BY <1>4, <1>5
<1>9. Len(wallets') = index' - 1
  BY <1>5, <1>6
<1> QED
  BY <1>6, <1>7, <1>8, <1>9 DEF WalletsOK, WalletParts

LEMMA PortfolioStarts == PortfolioInit => PortfolioInv
<1> SUFFICES ASSUME PortfolioInit PROVE PortfolioInv
  OBVIOUS
<1> USE DEF PortfolioInit
<1>1. WalletsOK
  <2>1. wallets \in Seq(WalletParts) /\ Len(wallets) = 0 /\ DOMAIN wallets = {}
    BY EmptySeq
  <2>2. Len(Wallets) \in Nat
    BY OwnSeq, PortfolioAssumption
  <2> QED
    BY <2>1, <2>2 DEF WalletsOK
<1>2. StageOK
  BY DEF StageOK, NoListing
<1>3. TotalOK
  BY DEF TotalOK
<1> QED
  BY <1>1, <1>2, <1>3 DEF PortfolioInv

LEMMA StartKeeps == PortfolioInv /\ Start => PortfolioInv'
<1> SUFFICES ASSUME PortfolioInv, Start PROVE PortfolioInv'
  OBVIOUS
<1>1. WalletsOK'
  BY WalletsStay DEF PortfolioInv, Start
<1>2. StageOK'
  BY DEF PortfolioInv, StageOK, Start
<1>3. TotalOK'
  BY DEF TotalOK, Start
<1> QED
  BY <1>1, <1>2, <1>3 DEF PortfolioInv

LEMMA OpenWalletKeeps == PortfolioInv /\ OpenWallet => PortfolioInv'
<1> SUFFICES ASSUME PortfolioInv, OpenWallet PROVE PortfolioInv'
  OBVIOUS
<1>1. WalletsOK'
  BY WalletsStay DEF PortfolioInv, OpenWallet
<1>2. Name \in Names
  <2>1. Len(Wallets) \in Nat /\ DOMAIN Wallets = 1 .. Len(Wallets)
    BY OwnSeq, PortfolioAssumption
  <2>2. index \in DOMAIN Wallets
    BY <2>1 DEF PortfolioInv, WalletsOK, OpenWallet
  <2> QED
    BY <2>2 DEF Name, Names
<1>3. /\ stage = "wallet" /\ stage' = "balances" /\ index' = index /\ index <= Len(Wallets)
      /\ listing' = listing /\ balances' \in Held[Name]
  BY DEF OpenWallet
<1>4. listing.tokens = {}
  BY <1>3 DEF PortfolioInv, StageOK
<1>5. ListingOK'
  BY <1>2, <1>3, <1>4, PortfolioAssumption DEF ListingOK
<1>6. StageOK'
  BY <1>3, <1>5 DEF StageOK
<1>7. TotalOK'
  BY <1>3 DEF TotalOK
<1> QED
  BY <1>1, <1>6, <1>7 DEF PortfolioInv

LEMMA ReadBalancesKeeps == PortfolioInv /\ ReadBalances => PortfolioInv'
<1> SUFFICES ASSUME PortfolioInv, ReadBalances PROVE PortfolioInv'
  OBVIOUS
<1>1. /\ stage = "balances" /\ index' = index /\ balances' = balances /\ stored' = stored
      /\ wallets' = wallets
  BY DEF ReadBalances
<1>2. WalletsOK'
  BY <1>1, WalletsStay DEF PortfolioInv
<1>3. PICK page \in SUBSET (balances \ listing.tokens) :
        \E pages, ended :
          /\ listing' = [tokens |-> listing.tokens \cup page, pages |-> pages, ended |-> ended]
          /\ stage' \in {"snapshots", "balances"}
  <2>1. PICK page \in SUBSET (balances \ listing.tokens) :
          LET tokens == listing.tokens \cup page
              pages == listing.pages + 1
              record(ended) == listing' = [tokens |-> tokens, pages |-> pages, ended |-> ended]
          IN  \/ record("last page") /\ stage' = "snapshots"
              \/ record("repeated key") /\ stage' = "snapshots"
              \/ record("page limit") /\ stage' = "snapshots"
              \/ record("no") /\ stage' = "balances"
    BY DEF ReadBalances
  <2> QED
    BY <2>1
<1>3a. listing'.tokens = listing.tokens \cup page /\ stage' \in {"snapshots", "balances"}
  BY <1>3
<1>4. index <= Len(Wallets) /\ ListingOK
  BY <1>1 DEF PortfolioInv, StageOK
<1>5. ListingOK'
  BY <1>1, <1>3a, <1>4 DEF ListingOK
<1>7. StageOK'
  BY <1>1, <1>3a, <1>4, <1>5 DEF StageOK
<1>8. TotalOK'
  BY <1>3a DEF TotalOK
<1> QED
  BY <1>2, <1>7, <1>8 DEF PortfolioInv

\* One wallet is done with, as `w`, and the next is to be opened.
LEMMA NextWalletKeeps ==
  ASSUME PortfolioInv, stage \in {"balances", "merge"}, NEW w, w.loaded => Sound(w),
         wallets' = Append(wallets, w), NextWallet
  PROVE  PortfolioInv'
<1>1. index <= Len(Wallets) /\ index' = index + 1 /\ stage' = "wallet"
  BY DEF PortfolioInv, StageOK, NextWallet
<1>2. WalletsOK'
  BY <1>1, WalletsGrow DEF PortfolioInv
<1>3. listing'.tokens = {}
  BY DEF NextWallet, NoListing
<1>4. StageOK'
  BY <1>1, <1>3 DEF StageOK
<1>5. TotalOK'
  BY <1>1 DEF TotalOK
<1> QED
  BY <1>2, <1>4, <1>5 DEF PortfolioInv

LEMMA WalletFailsKeeps == PortfolioInv /\ WalletFails => PortfolioInv'
<1> SUFFICES ASSUME PortfolioInv, WalletFails PROVE PortfolioInv'
  OBVIOUS
<1>1. stage = "balances" /\ wallets' = Append(wallets, Failure) /\ NextWallet
  BY DEF WalletFails
<1>2. ~Failure.loaded
  BY DEF Failure
<1> QED
  BY <1>1, <1>2, NextWalletKeeps

LEMMA MergeWalletKeeps == PortfolioInv /\ MergeWallet => PortfolioInv'
<1> SUFFICES ASSUME PortfolioInv, MergeWallet PROVE PortfolioInv'
  OBVIOUS
<1>1. stage = "merge" /\ NextWallet
  BY DEF MergeWallet
<1>2. PICK priced : wallets' = Append(wallets, Merged(priced))
  BY DEF MergeWallet
<1>3. ListingOK /\ StoredOK
  BY <1>1 DEF PortfolioInv, StageOK
<1>4. Sound(Merged(priced))
  BY <1>3, MergedSound
<1> QED
  BY <1>1, <1>2, <1>4, NextWalletKeeps

\* What the store may have of a wallet are snapshots, each of its protocol.
LEMMA KeptAreSnapshots ==
  ASSUME NEW name \in Names, NEW protocols \in Used[name], NEW kept \in KeptOf[protocols],
         NEW p \in DOMAIN kept
  PROVE  IsSnapshot(p, kept[p])
<1> DEFINE all == UNION {SnapshotsOf(o) : o \in protocols}
<1>1. /\ kept \in [protocols -> all]
      /\ \A o \in protocols : kept[o].result.protocol = o
  BY DEF KeptOf
<1>2. p \in protocols /\ kept[p] \in all /\ kept[p].result.protocol = p
  BY <1>1
<1> HIDE DEF all
<1>3. PICK o \in protocols : kept[p] \in SnapshotsOf(o)
  BY <1>2 DEF all
<1>4. PICK e \in UNION {EvidenceOf(o, h) : h \in Holdings(o)}, age \in Ages :
        kept[p] = [result |-> Analyze(e), age |-> age]
  BY <1>3 DEF SnapshotsOf
<1>5. PICK h \in Holdings(o) : e \in EvidenceOf(o, h)
  BY <1>4
<1>6. kept[p].result = Analyze(e) /\ kept[p].age = age
  BY <1>4
<1>7. o = p
  BY <1>2, <1>5, <1>6, EvidenceIs DEF Analyze
<1>8. p \in ProtocolNames
  BY <1>2, PortfolioAssumption
<1> QED
  BY <1>5, <1>6, <1>7, <1>8 DEF IsSnapshot

LEMMA ReadSnapshotsKeeps == PortfolioInv /\ (ReadSnapshots \/ SnapshotsFail) => PortfolioInv'
<1> SUFFICES ASSUME PortfolioInv, ReadSnapshots \/ SnapshotsFail PROVE PortfolioInv'
  OBVIOUS
<1>1. /\ stage = "snapshots" /\ stage' = "merge"
      /\ index' = index /\ balances' = balances /\ listing' = listing /\ wallets' = wallets
  BY DEF ReadSnapshots, SnapshotsFail
<1>2. WalletsOK'
  BY <1>1, WalletsStay DEF PortfolioInv
<1>3. index <= Len(Wallets) /\ ListingOK
  BY <1>1 DEF PortfolioInv, StageOK
<1>4. ListingOK'
  BY <1>1, <1>3 DEF ListingOK
<1>5. Name \in Names
  <2>1. Len(Wallets) \in Nat /\ DOMAIN Wallets = 1 .. Len(Wallets)
    BY OwnSeq, PortfolioAssumption
  <2>2. index \in DOMAIN Wallets
    BY <1>3, <2>1 DEF PortfolioInv, WalletsOK
  <2> QED
    BY <2>2 DEF Name, Names
<1>6. PICK protocols, kept : /\ protocols \in Used[Name] /\ kept \in KeptOf[protocols]
                            /\ stored'.kept = kept
  BY DEF ReadSnapshots, SnapshotsFail
<1>7. StoredOK'
  BY <1>5, <1>6, KeptAreSnapshots DEF StoredOK, IsSnapshot
<1>8. StageOK'
  BY <1>1, <1>3, <1>4, <1>7 DEF StageOK
<1>9. TotalOK'
  BY <1>1 DEF TotalOK
<1> QED
  BY <1>2, <1>8, <1>9 DEF PortfolioInv

LEMMA AddUpKeeps == PortfolioInv /\ AddUp => PortfolioInv'
<1> SUFFICES ASSUME PortfolioInv, AddUp PROVE PortfolioInv'
  OBVIOUS
<1>1. /\ stage = "wallet" /\ stage' = "done" /\ index > Len(Wallets)
      /\ index' = index /\ wallets' = wallets /\ options' = options
      /\ total' = [complete |-> CompleteTotal, loaded |-> Cardinality(Loaded)]
  BY DEF AddUp
<1>2. WalletsOK'
  BY <1>1, WalletsStay DEF PortfolioInv
<1>3. StageOK'
  BY <1>1 DEF StageOK
<1>4. Loaded' = Loaded
  BY <1>1 DEF Loaded
<1>5. CompleteTotal => CompleteTotal'
  BY <1>1, <1>4 DEF CompleteTotal
<1>6. total'.loaded = Cardinality(Loaded) /\ (total'.complete => CompleteTotal)
  BY <1>1
<1>7. index = Len(Wallets) + 1
  <2>1. Len(Wallets) \in Nat
    BY OwnSeq, PortfolioAssumption
  <2> QED
    BY <1>1, <2>1 DEF PortfolioInv, WalletsOK
<1>8. TotalOK'
  BY <1>1, <1>4, <1>5, <1>6, <1>7 DEF TotalOK
<1> QED
  BY <1>2, <1>3, <1>8 DEF PortfolioInv

LEMMA PortfolioStutters == PortfolioInv /\ UNCHANGED portfolioVars => PortfolioInv'
<1> SUFFICES ASSUME PortfolioInv, UNCHANGED portfolioVars PROVE PortfolioInv'
  OBVIOUS
<1>1. /\ stage' = stage /\ index' = index /\ options' = options /\ balances' = balances
      /\ listing' = listing /\ stored' = stored /\ wallets' = wallets /\ total' = total
  BY DEF portfolioVars
<1>2. WalletsOK'
  BY <1>1, WalletsStay DEF PortfolioInv
<1>3. StageOK'
  BY <1>1 DEF PortfolioInv, StageOK, ListingOK, StoredOK, IsSnapshot
<1>4. TotalOK'
  BY <1>1 DEF PortfolioInv, TotalOK, CompleteTotal, Loaded
<1> QED
  BY <1>2, <1>3, <1>4 DEF PortfolioInv

LEMMA PortfolioInvariant == PortfolioSpec => []PortfolioInv
<1>1. PortfolioInv /\ [PortfolioNext]_portfolioVars => PortfolioInv'
  BY StartKeeps, OpenWalletKeeps, ReadBalancesKeeps, WalletFailsKeeps, ReadSnapshotsKeeps,
     MergeWalletKeeps, AddUpKeeps, PortfolioStutters DEF PortfolioNext
<1> QED
  BY <1>1, PortfolioStarts, PTL DEF PortfolioSpec

(* Whichever reads fail, whatever has a price and however old the          *)
(* snapshots are, for any watchlist: nothing that a snapshot found held is *)
(* counted both by its receipt token and by its position, no receipt of    *)
(* Compound or of a vault is left out for a position that is not there,    *)
(* and no other token is left out (protocol_portfolio_service.py,          *)
(* protocol_receipt_token_addresses, and portfolio_service.py,             *)
(* load_portfolio).                                                        *)
THEOREM ReceiptTheorem == PortfolioSpec => []ReceiptOrPosition
<1>1. PortfolioInv => ReceiptOrPosition
  <2>1. ASSUME WalletsOK, NEW i \in Loaded PROVE Sound(wallets[i])
    BY <2>1 DEF WalletsOK, Loaded
  <2> QED
    BY <2>1 DEF PortfolioInv, ReceiptOrPosition, Sound, OnceCounted, ReadWell
<1> QED
  BY <1>1, PortfolioInvariant, PTL

(* A total shown as complete misses no wallet of the watchlist and no      *)
(* snapshot kept of one; each is fresh, and what it found held is counted  *)
(* exactly once and in all its assets (portfolio_service.py,               *)
(* complete_total_usd).                                                    *)
THEOREM CompleteTotalTheorem == PortfolioSpec => []CompleteTotalIsWhole
<1>1. PortfolioInv => CompleteTotalIsWhole
  <2> SUFFICES ASSUME PortfolioInv, stage = "done", total.complete
               PROVE  /\ total.loaded = Len(Wallets)
                      /\ \A i \in Loaded : \A p \in DOMAIN wallets[i].kept : Whole(wallets[i], p)
    BY DEF CompleteTotalIsWhole, Whole
  <2>1. CompleteTotal /\ index = Len(Wallets) + 1 /\ total.loaded = Cardinality(Loaded)
    BY DEF PortfolioInv, TotalOK
  <2>2. Loaded = 1 .. Len(Wallets) /\ Len(Wallets) \in Nat
    <3>1. Len(wallets) = index - 1 /\ DOMAIN wallets = 1 .. Len(wallets)
      BY OwnSeq DEF PortfolioInv, WalletsOK
    <3>2. Len(Wallets) \in Nat
      BY OwnSeq, PortfolioAssumption
    <3> QED
      BY <2>1, <3>1, <3>2 DEF CompleteTotal
  <2>3. total.loaded = Len(Wallets)
    <3> DEFINE n == Len(Wallets)
    <3>1. n \in Nat /\ total.loaded = Cardinality(1 .. n)
      BY <2>1, <2>2
    <3> HIDE DEF n
    <3>2. Cardinality(1 .. n) = IF 1 > n THEN 0 ELSE n - 1 + 1
      BY <3>1, FS_Interval
    <3>3. total.loaded = n
      BY <3>1, <3>2
    <3> QED
      BY <3>3 DEF n
  <2>4. ASSUME NEW i \in Loaded
        PROVE  Sound(wallets[i]) /\ ~wallets[i].error /\ ~ProtocolIncomplete(wallets[i])
    BY <2>1 DEF PortfolioInv, WalletsOK, Loaded, CompleteTotal
  <2> QED
    BY <2>3, <2>4 DEF Sound
<1> QED
  BY <1>1, PortfolioInvariant, PTL
=============================================================================
