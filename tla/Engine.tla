------------------------------- MODULE Engine -------------------------------
(***************************************************************************)
(* One simulation: run_sim_inner (crates/sim/src/engine.rs) drives the price, *)
(* the arbitrageur and the router over the submission's and the normalizer's  *)
(* pool and accounts the submission's edge.  pc names the statement the loop   *)
(* is at; routing an order takes one step per leg, because the submission's    *)
(* hook runs between the two.                                                 *)
(***************************************************************************)
EXTENDS Arbitrage, Routing, Sequences

CONSTANTS
    Amounts,        \* amounts that can be traded: the naturals, or enough of them
    NSteps,         \* config.n_steps
    Prices,         \* fair prices the price process may reach, in Y per X
    OrderFlows,     \* sequences of orders generate_orders may return
    Misshapen,      \* whether the submission's quotes can fail the shape check
    SubAtStart,     \* the submission's pools as run_simulation builds them
    NormAtStart     \* the normalizer's

Orders == [is_buy : BOOLEAN, size : Nat]

ASSUME EngineAssumption ==
    /\ NSteps \in Nat
    /\ Prices \subseteq Nat \ {0}
    /\ OrderFlows \subseteq Seq(Orders)
    /\ Misshapen \in BOOLEAN
    /\ SubAtStart \subseteq SubAmms /\ NormAtStart \subseteq NormAmms
    /\ \A a \in SubAtStart \cup NormAtStart : Floored(a)

VARIABLES
    step, pc, fair, sub, norm,
    orders,            \* orders of this step not yet routed
    best,              \* the split the router chose for the first of them
    trades,            \* the router's trades not yet accounted
    submission_edge,
    mark,              \* ghost: what the submission's reserves gained, each move at
                       \*        the fair price of its step
    ends,              \* ghost: the quotes for the order unsplit, <<normalizer, submission>>
    got                \* ghost: what the trader of the order received

vars == <<step, pc, fair, sub, norm, orders, best, trades, submission_edge, mark, ends, got>>

NoQuote == [in_sub |-> 0, in_norm |-> 0, out_sub |-> 0, out_norm |-> 0]

Init ==
    /\ step = 0 /\ pc = "begin" /\ fair \in Prices
    /\ sub \in SubAtStart /\ norm \in NormAtStart
    /\ orders = <<>> /\ best = NoQuote /\ trades = <<>>
    /\ submission_edge = 0 /\ mark = 0
    /\ ends = <<NoQuote, NoQuote>> /\ got = 0

-----------------------------------------------------------------------------
Worth(amm, price) == amm.reserve_x * price + amm.reserve_y

MarkSub == mark' = mark + Worth(sub', fair) - Worth(sub, fair)

TradeEdge(t) ==
    IF t.amm_buys_x THEN t.amount_x * fair - t.amount_y ELSE t.amount_y - t.amount_x * fair

(* The side and the input of an order; a sell's size is in Y. *)
Side(order) == IF order.is_buy THEN BUY_X ELSE SELL_X
Total(order) == IF order.is_buy THEN order.size ELSE order.size \div fair

-----------------------------------------------------------------------------
(* Mutant: the loop has no last step. *)
BeginStepForever ==
    /\ pc = "begin"
    /\ sub' = [sub EXCEPT !.current_step = step]
    /\ norm' = [norm EXCEPT !.current_step = step]
    /\ fair' \in Prices
    /\ pc' = "arb_sub"
    /\ UNCHANGED <<step, orders, best, trades, submission_edge, mark, ends, got>>

BeginStep ==
    /\ pc = "begin" /\ step < NSteps
    /\ sub' = [sub EXCEPT !.current_step = step]
    /\ norm' = [norm EXCEPT !.current_step = step]
    /\ fair' \in Prices
    /\ pc' = "arb_sub"
    /\ UNCHANGED <<step, orders, best, trades, submission_edge, mark, ends, got>>

ArbSub ==
    /\ pc = "arb_sub"
    /\ \E r \in ExecuteArb(sub, fair) :
          sub' = r.amm /\ submission_edge' = submission_edge + r.edge
    /\ MarkSub
    /\ pc' = "arb_norm"
    /\ UNCHANGED <<step, fair, norm, orders, best, trades, ends, got>>

ArbNorm ==
    /\ pc = "arb_norm"
    /\ \E r \in ExecuteArb(norm, fair) : norm' = r.amm
    /\ pc' = "retail"
    /\ UNCHANGED <<step, fair, sub, orders, best, trades, submission_edge, mark, ends, got>>

GenerateOrders ==
    /\ pc = "retail"
    /\ orders' \in OrderFlows
    /\ pc' = "order"
    /\ UNCHANGED <<step, fair, sub, norm, best, trades, submission_edge, mark, ends, got>>

(* Mutant: the ends of the split are not among the candidates. *)
SplitInterior ==
    /\ pc = "order" /\ orders # <<>>
    /\ LET side == Side(Head(orders))
           total == Total(Head(orders))
           Points(in_sub) == SplitQuotes(sub, norm, side, total, in_sub)
       IN  \E l \in Points(0), r \in Points(total), m \in UNION {Points(i) : i \in 0 .. total} :
              best' = m /\ ends' = <<l, r>>
    /\ trades' = <<>> /\ got' = 0
    /\ pc' = "leg_sub"
    /\ UNCHANGED <<step, fair, sub, norm, orders, submission_edge, mark>>

(* maximize_split for the next order: both ends, and the best of what lies between. *)
Split ==
    /\ pc = "order" /\ orders # <<>>
    /\ LET side == Side(Head(orders))
           total == Total(Head(orders))
           Points(in_sub) == SplitQuotes(sub, norm, side, total, in_sub)
       IN  \E l \in Points(0), r \in Points(total), m \in UNION {Points(i) : i \in 0 .. total} :
              best' = BestQuote(BestQuote(l, r), m) /\ ends' = <<l, r>>
    /\ trades' = <<>> /\ got' = 0
    /\ pc' = "leg_sub"
    /\ UNCHANGED <<step, fair, sub, norm, orders, submission_edge, mark>>

(* Mutant: the reserves are moved by hand and the hook does not run. *)
LegSubUnhooked ==
    /\ pc = "leg_sub"
    /\ LET side == Side(Head(orders))
       IN  \E r \in LegRuns(sub, side, best.in_sub, best.out_sub) :
              /\ sub' = [r.amm EXCEPT !.storage = sub.storage]
              /\ trades' = trades \o LegTrades(TRUE, side, best.in_sub, r.out)
              /\ got' = got + r.out
    /\ MarkSub
    /\ pc' = "leg_norm"
    /\ UNCHANGED <<step, fair, norm, orders, best, submission_edge, ends>>

LegSub ==
    /\ pc = "leg_sub"
    /\ LET side == Side(Head(orders))
       IN  \E r \in LegRuns(sub, side, best.in_sub, best.out_sub) :
              /\ sub' = r.amm
              /\ trades' = trades \o LegTrades(TRUE, side, best.in_sub, r.out)
              /\ got' = got + r.out
    /\ MarkSub
    /\ pc' = "leg_norm"
    /\ UNCHANGED <<step, fair, norm, orders, best, submission_edge, ends>>

LegNorm ==
    /\ pc = "leg_norm"
    /\ LET side == Side(Head(orders))
       IN  \E r \in LegRuns(norm, side, best.in_norm, best.out_norm) :
              /\ norm' = r.amm
              /\ trades' = trades \o LegTrades(FALSE, side, best.in_norm, r.out)
              /\ got' = got + r.out
    /\ pc' = "account"
    /\ UNCHANGED <<step, fair, sub, orders, best, submission_edge, mark, ends>>

(* Mutant: the normalizer's trades are counted too. *)
AccountAll ==
    /\ pc = "account" /\ trades # <<>>
    /\ submission_edge' = submission_edge + TradeEdge(Head(trades))
    /\ trades' = Tail(trades)
    /\ UNCHANGED <<step, pc, fair, sub, norm, orders, best, mark, ends, got>>

(* The loop over the router's trades: only the submission's count. *)
Account ==
    /\ pc = "account" /\ trades # <<>>
    /\ submission_edge' = submission_edge
          + (IF Head(trades).is_submission THEN TradeEdge(Head(trades)) ELSE 0)
    /\ trades' = Tail(trades)
    /\ UNCHANGED <<step, pc, fair, sub, norm, orders, best, mark, ends, got>>

NextOrder ==
    /\ pc = "account" /\ trades = <<>>
    /\ orders' = Tail(orders)
    /\ pc' = "order"
    /\ UNCHANGED <<step, fair, sub, norm, best, trades, submission_edge, mark, ends, got>>

(* Mutant: the step is not counted. *)
EndStepUncounted ==
    /\ pc = "order" /\ orders = <<>>
    /\ pc' = "begin"
    /\ UNCHANGED <<step, fair, sub, norm, orders, best, trades, submission_edge, mark, ends, got>>

EndStep ==
    /\ pc = "order" /\ orders = <<>>
    /\ step' = step + 1
    /\ pc' = "begin"
    /\ UNCHANGED <<fair, sub, norm, orders, best, trades, submission_edge, mark, ends, got>>

(* enforce_submission_monotonic_concave panics on quotes that are not monotonic and *)
(* concave: after the arbitrageur's search or the router's, before anything moved.   *)
ShapePanic ==
    /\ Misshapen
    /\ pc = "arb_sub" \/ (pc = "order" /\ orders # <<>>)
    /\ pc' = "panicked"
    /\ UNCHANGED <<step, fair, sub, norm, orders, best, trades, submission_edge, mark, ends, got>>

(* The result was returned, or the thread panicked. *)
Finished == (pc = "panicked" \/ (pc = "begin" /\ step = NSteps)) /\ UNCHANGED vars

Next ==
    \/ BeginStep \/ ArbSub \/ ArbNorm \/ GenerateOrders
    \/ Split \/ LegSub \/ LegNorm \/ Account \/ NextOrder \/ EndStep
    \/ ShapePanic \/ Finished

(* The loop runs in one thread and waits for nobody. *)
Spec == Init /\ [][Next]_vars /\ WF_vars(Next)

-----------------------------------------------------------------------------
Points == [in_sub : Nat, in_norm : Nat, out_sub : Nat, out_norm : Nat]

Trades == [is_submission : BOOLEAN, amm_buys_x : BOOLEAN, amount_x : Nat, amount_y : Nat]

TypeOK ==
    /\ step \in 0 .. NSteps
    /\ pc \in {"begin", "arb_sub", "arb_norm", "retail", "order", "leg_sub", "leg_norm", "account",
              "panicked"}
    /\ fair \in Prices
    /\ sub \in SubAmms /\ norm \in NormAmms
    /\ orders \in Seq(Orders)
    /\ best \in Points /\ ends \in Points \X Points
    /\ trades \in Seq(Trades)
    /\ submission_edge \in Int /\ mark \in Int /\ got \in Nat

(* The edge of the router's trades that the loop has not reached yet. *)
Pending ==
    IF trades # <<>> /\ trades[1].is_submission THEN TradeEdge(trades[1]) ELSE 0

(* The score is a mark to market: whatever the programs answer and the hooks    *)
(* do, the edge run_sim_inner reports is what the submission's reserves gained,  *)
(* each movement valued at the fair price of its step.  No trade is counted      *)
(* twice, none is missed when a leg is rejected or dropped, and no trade of the   *)
(* normalizer slips in.                                                          *)
EdgeIsMarkToMarket == mark = submission_edge + Pending

Paid(before, after) ==
    \/ after.reserve_x = before.reserve_x
    \/ Worth(after, fair) + MinArbProfit <= Worth(before, fair)

(* The arbitrageur never trades below its threshold: although execute_candidate  *)
(* takes a second quote after the one it planned with, a pool it touched paid     *)
(* it at least min_arb_profit at the fair price.                                 *)
ArbTakesItsProfit ==
    [][(pc \in {"arb_sub", "arb_norm"}) => (Paid(sub, sub') /\ Paid(norm, norm'))]_vars

(* What the router promised is what the trader gets: the legs executed after     *)
(* the search, the second one after the submission's hook ran, pay exactly the    *)
(* chosen split's quote, and at least what either pool alone quoted.             *)
RouterDelivers ==
    pc = "account" =>
        /\ got = QuoteScore(best)
        /\ got >= QuoteScore(ends[1]) /\ got >= QuoteScore(ends[2])

(* What truncation to nanos may hide from the closed form: a nano of what is paid out, *)
(* and of what is paid in one in the input, and one after its fee, before which it is  *)
(* more than one.                                                                    *)
Hidden(side) == Unit * (IF side = BUY_X THEN fair + 3 ELSE 1 + 3 * fair)

(* After the arbitrageur was at the normalizer's pool, no trade of any size is     *)
(* left there that would clear its threshold by more than truncation hides: the      *)
(* closed form really is the optimum of the curve that the pool's program computes.  *)
NormArbExhausts ==
    pc = "retail" =>
        \A side \in Sides : \A input \in MinTradeInput(side, fair) .. MaxInput :
            \A q \in Quotes(norm, side, input) :
                q = 0 \/ Profit(side, fair, input, q) < MinArbProfit + Hidden(side)

(* The engine, the arbitrageur and the router change a pool only through BpfAmm's   *)
(* methods: each pool of a simulation behaves as module Amm says, although its      *)
(* reserves are public fields.                                                     *)
SubPool == INSTANCE Amm WITH amm <- sub, InitialAmms <- SubAtStart,
                             Inputs <- Amounts, Steps <- 0 .. NSteps
NormPool == INSTANCE Amm WITH amm <- norm, InitialAmms <- NormAtStart,
                              Inputs <- Amounts, Steps <- 0 .. NSteps
SubPoolIsAmm == SubPool!Spec
NormPoolIsAmm == NormPool!Spec

(* Every simulation ends: with its result, or in the panic that a misshapen         *)
(* submission brings on itself.                                                    *)
Terminates == <>(pc = "begin" /\ step = NSteps) \/ (Misshapen /\ <>(pc = "panicked"))
=============================================================================
