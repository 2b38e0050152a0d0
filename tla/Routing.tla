------------------------------ MODULE Routing ------------------------------
(***************************************************************************)
(* OrderRouter (crates/sim/src/router.rs) as operators on the two pools.     *)
(*                                                                          *)
(* maximize_split always samples both ends of the split and keeps the best   *)
(* point it sampled; which points lie between is left open here.  Module      *)
(* RouterSearch says which.                                                  *)
(***************************************************************************)
EXTENDS AmmOps

CONSTANT MinTrade    \* MIN_TRADE_SIZE

ASSUME TradeAssumption == MinTrade \in Nat

(* A leg of a split too small to trade is quoted as nothing. *)
LegQuotes(amm, side, input) == IF input > MinTrade THEN Quotes(amm, side, input) ELSE {0}

(* quote_buy_split and quote_sell_split, the submission taking in_sub of the total. *)
SplitQuotes(sub, norm, side, total, in_sub) ==
    {[in_sub |-> in_sub, in_norm |-> total - in_sub, out_sub |-> s, out_norm |-> n] :
        s \in LegQuotes(sub, side, in_sub), n \in LegQuotes(norm, side, total - in_sub)}

QuoteScore(p) == p.out_sub + p.out_norm

(* best_quote: the earlier point unless the later one is strictly better. *)
BestQuote(a, b) == IF QuoteScore(b) > QuoteScore(a) THEN b ELSE a

(* One leg of route_buy or route_sell. *)
LegRuns(amm, side, input, quoted) ==
    IF input > MinTrade /\ quoted > 0 THEN Executions(amm, side, input)
    ELSE {[amm |-> amm, out |-> 0]}

(* The trades a leg adds to the router's result: one, or none if it was rejected. *)
LegTrades(is_submission, side, input, output) ==
    IF output <= 0 THEN <<>>
    ELSE <<[is_submission |-> is_submission,
            amm_buys_x |-> side = SELL_X,
            amount_x |-> IF side = SELL_X THEN input ELSE output,
            amount_y |-> IF side = SELL_X THEN output ELSE input]>>
=============================================================================
