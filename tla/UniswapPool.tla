---------------------------- MODULE UniswapPool ----------------------------
(***************************************************************************)
(* One Uniswap V3 position and the pool it is in, and what UniswapV3Adapter*)
(* computes from a read of both: uncollected fees, token amounts and the   *)
(* range state.  The pool is external; its counters wrap, and the code     *)
(* relies on that.  Square-root prices are numbers on the grid Ratio, fees *)
(* and liquidity are scaled to a modulus of Modulus.                       *)
(***************************************************************************)
EXTENDS Integers

CONSTANTS
  Modulus,     \* 2^256, the width of the fee counters
  TickLower, TickUpper,    \* the position's range
  MinTick, MaxTick,        \* the ticks the pool reaches
  PricesPerTick,        \* prices between two ticks
  Fee          \* the fees one swap step earns, per unit of liquidity

ASSUME PoolAssumption ==
  /\ Modulus \in Nat \ {0} /\ PricesPerTick \in Nat \ {0, 1} /\ Fee \in 1..(Modulus - 1)
  /\ {TickLower, TickUpper, MinTick, MaxTick} \subseteq Nat
  /\ MinTick < TickLower /\ TickLower < TickUpper /\ TickUpper < MaxTick

VARIABLE pool
\* open             there is a position
\* price, tick      where the pool stands
\* global           fee growth so far
\* lower, upper     fee growth outside, as the two ticks keep it
\* last             fee growth inside, as the position last saw it
\* accrued          history: what the pool earned in range since then

Wrap(x) == x % Modulus

\* sqrt_ratio_at_tick: increasing in the tick, and never zero.
Ratio(tick) == 1 + tick * PricesPerTick

-----------------------------------------------------------------------------
(* UniswapV3Adapter.                                                       *)

\* Mutant: the lower tick itself counts as below the range.
LowerTickOutside(p) ==
  LET below == IF p.tick > TickLower THEN p.lower ELSE Wrap(p.global - p.lower)
      above == IF p.tick < TickUpper THEN p.upper ELSE Wrap(p.global - p.upper)
  IN  Wrap(p.global - below - above)

FeeGrowthInside(p) ==
  LET below == IF p.tick >= TickLower THEN p.lower ELSE Wrap(p.global - p.lower)
      above == IF p.tick < TickUpper THEN p.upper ELSE Wrap(p.global - p.upper)
  IN  Wrap(p.global - below - above)

UncollectedFee(p) == Wrap(FeeGrowthInside(p) - p.last)

\* Amounts of token 0 and token 1, up to the unit.
LiquidityAmounts(p) ==
  LET lo == Ratio(TickLower)
      hi == Ratio(TickUpper)
  IN  IF p.price <= lo THEN <<hi - lo, 0>>
      ELSE IF p.price < hi THEN <<hi - p.price, p.price - lo>>
      ELSE <<0, hi - lo>>

RangeState(tick) ==
  IF tick < TickLower THEN "below_range" ELSE IF tick >= TickUpper THEN "above_range" ELSE "in_range"

-----------------------------------------------------------------------------
(* The pool.  Crossing a tick turns its counter over; a swap that goes down*)
(* to a tick's price crosses it.                                           *)

Outside(tick, at, global) == IF at >= tick THEN global ELSE 0

PoolInit ==
  pool = [open |-> FALSE, price |-> Ratio(MinTick), tick |-> MinTick, global |-> 0,
          lower |-> 0, upper |-> 0, last |-> 0, accrued |-> 0]

\* The position is opened with the pool anywhere, after any growth.
OpenPosition ==
  /\ ~pool.open
  /\ \E tick \in {MinTick, TickLower, TickUpper}, g \in 0..(Modulus - 1) :
       LET fresh == [pool EXCEPT !.open = TRUE, !.price = Ratio(tick), !.tick = tick, !.global = g,
                                 !.lower = Outside(TickLower, tick, g),
                                 !.upper = Outside(TickUpper, tick, g)]
       IN  pool' = [fresh EXCEPT !.last = FeeGrowthInside(fresh)]

Cross(p, tick) ==
  CASE tick = TickLower -> [p EXCEPT !.lower = Wrap(p.global - p.lower)]
    [] tick = TickUpper -> [p EXCEPT !.upper = Wrap(p.global - p.upper)]
    [] OTHER -> p

\* Fees of a step are earned where it is made.
Earn(p) ==
  [p EXCEPT !.global = Wrap(p.global + Fee),
            !.accrued = IF p.tick \in TickLower..(TickUpper - 1) THEN p.accrued + Fee ELSE p.accrued]

\* Crossing upwards enters the tick's interval, downwards leaves it.
EnterUp(p) ==
  IF p.price = Ratio(p.tick + 1) THEN [Cross(p, p.tick + 1) EXCEPT !.tick = p.tick + 1] ELSE p
LeaveDown(p) ==
  IF p.price = Ratio(p.tick) THEN [Cross(p, p.tick) EXCEPT !.tick = p.tick - 1] ELSE p

SwapUp ==
  /\ pool.open /\ pool.price < Ratio(MaxTick) /\ pool.accrued + Fee < Modulus
  /\ pool' = EnterUp([Earn(EnterUp(pool)) EXCEPT !.price = pool.price + 1])

SwapDown ==
  /\ pool.open /\ pool.price > Ratio(MinTick) + 1 /\ pool.accrued + Fee < Modulus
  /\ pool' = LeaveDown([Earn(LeaveDown(pool)) EXCEPT !.price = pool.price - 1])

\* The owner collects: the position remembers the growth it has seen.
Collect == pool.open /\ pool' = [pool EXCEPT !.last = FeeGrowthInside(pool), !.accrued = 0]

PoolNext == OpenPosition \/ SwapUp \/ SwapDown \/ Collect

PoolSpec == PoolInit /\ [][PoolNext]_pool

-----------------------------------------------------------------------------
(* Correctness.                                                            *)

\* The fees shown, and those earned in range since the last collection.
FeesEarnedInRange == pool.open => UncollectedFee(pool) = pool.accrued

\* A position shown below its range is all token 0, one shown above all token 1.
RangeMatchesAmounts ==
  LET shown == RangeState(pool.tick)
      amounts == LiquidityAmounts(pool)
  IN  /\ shown = "below_range" => amounts[2] = 0
      /\ shown = "above_range" => amounts[1] = 0
      /\ shown = "in_range" => pool.price \in Ratio(TickLower)..Ratio(TickUpper)
      /\ amounts[1] > 0 /\ amounts[2] > 0 => shown = "in_range"

(* The position shown is the pool's own, wherever the price has been       *)
(* meanwhile, however often the counters wrapped, and also where price and *)
(* tick stand at a boundary, where the tick a swap ends on depends on its  *)
(* direction: the fees are those the pool earned while it was in range     *)
(* since the last collection, and the range state agrees with the amounts. *)
PositionIsPoolsOwn == FeesEarnedInRange /\ RangeMatchesAmounts
=============================================================================
