----------------------------- MODULE CurveMath -----------------------------
(***************************************************************************)
(* The integer quotes of paper/curve_math.py, as the paper broker uses     *)
(* them: fills are simulated against observed reserves that a paper trade  *)
(* does not move, so the same quote can be asked again and again.  The     *)
(* tally counts what a series of buys and partial sells pays and receives  *)
(* while one observation of the reserves stays in force.                   *)
(*                                                                         *)
(* Lamports, token units and basis points are exact integers as in the     *)
(* code; the displayed price impact (a float) is left out.                 *)
(***************************************************************************)
EXTENDS Integers

CONSTANTS
    BPS,        \* 10_000: basis points of the whole
    Markets,    \* observed reserves
    Schedules,  \* fee schedules in basis points
    Budgets,    \* wallet_trade_budget_lamports
    NetworkFee, \* network_fee_lamports
    MaxTrades   \* bound: trades under one observation

\* vt, vs: virtual token and SOL reserves; rt: real token reserves; rq: real quote
\* reserves, meaningful when `known`.
Market == [vt : Nat \ {0}, vs : Nat \ {0}, rt : Nat, rq : Nat, known : BOOLEAN]

\* The parts of the sell fee.  A quote without fee_components is the schedule
\* whose single part is `protocol`, and lp_fee_bps is 0 in it.
Schedule == [lp : 0..BPS, protocol : 0..BPS, creator : 0..BPS]

ASSUME CurveAssumption ==
    /\ BPS \in Nat \ {0}
    /\ Markets \subseteq Market
    /\ Schedules \subseteq Schedule
    /\ \A s \in Schedules : s.lp + s.protocol + s.creator <= BPS
    /\ Budgets \subseteq Nat \ {0}
    /\ NetworkFee \in Nat
    /\ MaxTrades \in Nat

VARIABLES
    market,     \* the reserves in force
    schedule,   \* the fees in force
    trades,     \* fills since they were observed
    bought, sold,   \* token units
    paid, received  \* wallet lamports

vars == <<market, schedule, trades, bought, sold, paid, received>>

-----------------------------------------------------------------------------
floor_div(a, b) == a \div b

ceil_div(a, b) == -((-a) \div b)

FeeBps(s) == s.lp + s.protocol + s.creator

Fee(amount, bps) == ceil_div(amount * bps, BPS)

\* Mutant: the search starts from the budget less its fee.
StartInputNet(budget) == budget - Fee(budget, FeeBps(schedule))

\* The first candidate of quote_buy's loop.
StartInput(budget) == (budget * BPS) \div (BPS + FeeBps(schedule))

Affordable(c, budget) == c + Fee(c, FeeBps(schedule)) <= budget

\* The loop counts down from StartInput to the first affordable input.
IsCurveInput(c, budget) ==
    /\ c \in 1..StartInput(budget)
    /\ Affordable(c, budget)
    /\ \A d \in (c + 1)..StartInput(budget) : ~Affordable(d, budget)

\* Tokens that a buy with curve input c receives.
TokenOut(c) ==
    LET out == market.vt - ceil_div(market.vt * market.vs, market.vs + c)
    IN  IF market.rt <= out THEN market.rt ELSE out

\* Mutant: the sell's proceeds are rounded in the trader's favour.
GrossRoundedUp(u) == market.vs - floor_div(market.vt * market.vs, market.vt + u)

\* SOL that the curve gives for u token units, before fees.
Gross(u) == market.vs - ceil_div(market.vt * market.vs, market.vt + u)

\* Mutant: the LP part of the fee is forgotten.
SellFeesWithoutLp(gross) == Fee(gross, schedule.protocol) + Fee(gross, schedule.creator)

\* Each component of the fee is rounded up on its own.
SellFees(gross) ==
    Fee(gross, schedule.lp) + Fee(gross, schedule.protocol) + Fee(gross, schedule.creator)

-----------------------------------------------------------------------------
Init ==
    /\ market \in Markets /\ schedule \in Schedules
    /\ trades = 0
    /\ bought = 0 /\ sold = 0 /\ paid = 0 /\ received = 0

\* New reserves or fees are observed: the tally starts again.
Observe ==
    /\ market' \in Markets /\ schedule' \in Schedules
    /\ trades' = 0
    /\ bought' = 0 /\ sold' = 0 /\ paid' = 0 /\ received' = 0

\* quote_buy, refused when the budget is smaller than the fees or buys no token.
Buy(budget) ==
    /\ trades < MaxTrades /\ market.rt > 0
    /\ \E c \in 1..budget :
          /\ IsCurveInput(c, budget)
          /\ TokenOut(c) > 0
          /\ bought' = bought + TokenOut(c)
          /\ paid' = paid + c + Fee(c, FeeBps(schedule)) + NetworkFee
    /\ trades' = trades + 1
    /\ UNCHANGED <<market, schedule, sold, received>>

\* quote_sell, refused without proceeds, beyond the real quote vault (whose LP part
\* of the fee never leaves it), or when the fees eat the proceeds.
Sell(u) ==
    /\ trades < MaxTrades
    /\ u <= bought - sold
    /\ LET gross == Gross(u) IN
          /\ gross > 0
          /\ market.known => gross - Fee(gross, schedule.lp) <= market.rq
          /\ gross - SellFees(gross) - NetworkFee > 0
          /\ received' = received + gross - SellFees(gross) - NetworkFee
    /\ sold' = sold + u
    /\ trades' = trades + 1
    /\ UNCHANGED <<market, schedule, bought, paid>>

Next ==
    \/ Observe
    \/ \E budget \in Budgets : Buy(budget)
    \/ \E u \in 1..(bought - sold) : Sell(u)

Spec == Init /\ [][Next]_vars

-----------------------------------------------------------------------------
\* Reserves and fees are observed ones, and no more is sold than was bought.
CurveTypeOK ==
    /\ market \in Markets /\ schedule \in Schedules
    /\ trades \in Nat
    /\ bought \in Nat /\ sold \in Nat /\ paid \in Nat /\ received \in Nat
    /\ sold <= bought

\* Rounding always falls to the curve: what was bought cost at least the spot price
\* and what was sold brought at most the spot price (curve_math.py:47-49, 93-95).
SpotBounds ==
    /\ paid * market.vt >= bought * market.vs
    /\ received * market.vt <= sold * market.vs

\* A paper fill does not move the reserves it is quoted from, so the same quote may
\* be bought from and sold to piece by piece; no series of such fills takes out more
\* than it put in (broker.py:1081-1110).
NoFreeMoney == received <= paid

\* The counting-down loop of quote_buy finds the largest affordable input: its first
\* candidate is never below it (curve_math.py:40-45).
MaximalInput ==
    \A budget \in Budgets : \A c \in 1..budget :
        IsCurveInput(c, budget) <=>
            /\ Affordable(c, budget)
            /\ \A d \in (c + 1)..budget : ~Affordable(d, budget)

\* A filled sell never pays the wallet more than the exact quote vault can cover
\* (curve_math.py:98-105).
VaultCovers == [][market' = market /\ market.known => received' - received <= market.rq]_vars
=============================================================================
