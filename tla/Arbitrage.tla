----------------------------- MODULE Arbitrage -----------------------------
(***************************************************************************)
(* Arbitrageur::execute_arb (crates/sim/src/arbitrageur.rs) as operators on  *)
(* one pool.  An Option<ArbCandidate> is a set with at most one element.     *)
(*                                                                          *)
(* The bracket and golden-section search for the submission's curve returns  *)
(* one of the inputs it sampled: here any of SearchInputs.  Module ArbSearch  *)
(* says which.                                                               *)
(***************************************************************************)
EXTENDS AmmOps

CONSTANTS
    SearchInputs,      \* inputs the search over the submission's curve may settle on
    MinInput,          \* MIN_INPUT
    MinArbNotionalY,   \* MIN_ARB_NOTIONAL_Y
    MaxInput,          \* MAX_INPUT_AMOUNT
    MinArbProfit       \* config.min_arb_profit

ASSUME ArbAssumption ==
    /\ SearchInputs \subseteq Nat
    /\ MinInput \in Nat \ {0}
    /\ MinArbNotionalY \in Nat
    /\ MaxInput \in Nat
    /\ MinArbProfit \in Nat

Larger(a, b) == IF a >= b THEN a ELSE b
Smaller(a, b) == IF a <= b THEN a ELSE b

(* min_buy_input_y and min_sell_input_x. *)
MinTradeInput(side, fair) ==
    Larger(MinInput, IF side = BUY_X THEN MinArbNotionalY ELSE MinArbNotionalY \div fair)

(* What a trade is worth to the trader at the fair price. *)
Profit(side, fair, input, output) ==
    IF side = BUY_X THEN output * fair - input ELSE output - input * fair

(* Mutant: any profit or loss will do. *)
CandidatesUnchecked(amm, side, fair, input) ==
    {IF q > 0
     THEN {[side |-> side, input |-> input, profit |-> Profit(side, fair, input, q)]}
     ELSE {} : q \in Quotes(amm, side, input)}

(* The candidate for one input, if its quote clears the threshold. *)
Candidates(amm, side, fair, input) ==
    {IF q > 0 /\ Profit(side, fair, input, q) >= MinArbProfit
     THEN {[side |-> side, input |-> input, profit |-> Profit(side, fair, input, q)]}
     ELSE {} : q \in Quotes(amm, side, input)}

(* plan_arb_buy_x and plan_arb_sell_x. *)
SearchPlans(amm, side, fair) ==
    UNION {IF input < MinTradeInput(side, fair) THEN {{}}
           ELSE Candidates(amm, side, fair, input) : input \in SearchInputs}

(* The integer square root of n, known to be at most top, as a set with that one element. *)
Roots(n, top) == {t \in 0 .. top : t * t <= n /\ n < (t + 1) * (t + 1)}

(* plan_normalizer_buy_x and plan_normalizer_sell_x: the closed-form optimum of *)
(* a constant-product curve whose fee is the one in the pool's storage.         *)
NormalizerPlans(amm, side, fair) ==
    LET keep == BPS - StorageFee(amm.storage)
        rx == amm.reserve_x
        ry == amm.reserve_y
        in == IF side = BUY_X THEN ry ELSE rx
        targets == IF side = BUY_X THEN Roots((fair * rx * ry * keep) \div BPS, fair * rx + ry)
                   ELSE Roots((ry * rx * keep) \div (BPS * fair), rx + ry)
        Input(t) == Larger(MinTradeInput(side, fair),
                           Smaller(((t - in) * BPS) \div keep, MaxInput))
    IN  IF keep <= 0 \/ rx <= 0 \/ ry <= 0 THEN {{}}
        ELSE UNION {IF t <= in THEN {{}} ELSE Candidates(amm, side, fair, Input(t)) :
                       t \in targets}

Plans(amm, side, fair) ==
    IF amm.name = "normalizer" THEN NormalizerPlans(amm, side, fair)
    ELSE SearchPlans(amm, side, fair)

(* best_candidate: the better of the two sides, the buy on a tie. *)
BestCandidate(buy, sell) ==
    IF buy = {} THEN sell
    ELSE IF \E b \in buy, s \in sell : s.profit > b.profit THEN sell ELSE buy

(* Mutant: the planned profit is booked, not the trade's. *)
ExecuteCandidateAsPlanned(amm, fair, c) ==
    {[amm |-> r.amm, edge |-> -c.profit] : r \in Executions(amm, c.side, c.input)}

(* execute_candidate: the trade is quoted again when it is executed; edge is    *)
(* what the pool gained, 0 when there was no trade.                             *)
ExecuteCandidate(amm, fair, c) ==
    {[amm |-> r.amm,
      edge |-> IF r.out <= 0 THEN 0 ELSE -Profit(c.side, fair, c.input, r.out)] :
        r \in Executions(amm, c.side, c.input)}

ExecuteArb(amm, fair) ==
    UNION {LET best == BestCandidate(buy, sell)
           IN  IF best = {} THEN {[amm |-> amm, edge |-> 0]}
               ELSE UNION {ExecuteCandidate(amm, fair, c) : c \in best} :
             buy \in Plans(amm, BUY_X, fair), sell \in Plans(amm, SELL_X, fair)}
=============================================================================
