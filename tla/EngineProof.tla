---------------------------- MODULE EngineProof ----------------------------
(***************************************************************************)
(* What holds of a simulation for every number of steps, every price path,   *)
(* every order flow and every submission; and what holds of those whose       *)
(* submission answers the same call the same way.                            *)
(***************************************************************************)
EXTENDS Engine, SequenceTheorems, WellFoundedInduction, TLAPS

(* A submission that answers the same call the same way. *)
PureSubmission ==
    \A side \in Sides, amount, rx, ry \in U64, storage \in Storages :
        \A p, q \in SubReplies(side, amount, rx, ry, storage) \cap U64 : p = q

(* A submission that never offers the whole reserve. *)
SolventSubmission ==
    \A side \in Sides, amount, rx, ry \in U64, storage \in Storages :
        \A q \in SubReplies(side, amount, rx, ry, storage) \cap U64 :
            q = 0 \/ q < (IF side = BUY_X THEN rx ELSE ry)

-----------------------------------------------------------------------------
(* Module AmmProof proves what one pool does; its lemmas hold of both pools here. *)
Pool == INSTANCE AmmProof WITH amm <- sub, InitialAmms <- {}, Inputs <- {}, Steps <- {}

LEMMA SameNano ==
    \A v : Pool!F64ToNano(v) = F64ToNano(v)
BY DEF Pool!F64ToNano, F64ToNano

LEMMA SameCall ==
    \A a, side, amount, rx, ry : Pool!Call(a, side, amount, rx, ry) = Call(a, side, amount, rx, ry)
<1>1. \A a, b : Pool!SaturatingSub(a, b) = SaturatingSub(a, b) /\ Pool!CeilDiv(a, b) = CeilDiv(a, b)
    BY Zenon DEF Pool!SaturatingSub, SaturatingSub, Pool!CeilDiv, CeilDiv
<1>2. \A a, b, c, d, e : Pool!CpOutput(a, b, c, d, e) = CpOutput(a, b, c, d, e)
    BY <1>1, Zenon DEF Pool!CpOutput, CpOutput
<1>3. \A s : Pool!NormalizerFee(s) = NormalizerFee(s)
    BY Zenon DEF Pool!NormalizerFee, NormalizerFee, Pool!StorageFee, StorageFee
<1>4. \A s, a, x, y, t : Pool!NormalizerSwap(s, a, x, y, t) = NormalizerSwap(s, a, x, y, t)
    BY <1>2, <1>3, Zenon DEF Pool!NormalizerSwap, NormalizerSwap, Pool!BUY_X, BUY_X
<1> QED
    BY <1>4, Zenon DEF Pool!Call, Call, Pool!U64, U64

LEMMA SamePool ==
    /\ \A a : Pool!IsPool(a) = IsPool(a) /\ Pool!Floored(a) = Floored(a)
    /\ \A a, side : Pool!OutReserve(a, side) = OutReserve(a, side)
    /\ Pool!Sides = Sides /\ Pool!BUY_X = BUY_X
BY Zenon DEF Pool!IsPool, IsPool, Pool!NormAmms, NormAmms, Pool!SubAmms, SubAmms, Pool!Floored, Floored,
       Pool!OutReserve, OutReserve, Pool!Sides, Sides, Pool!BUY_X, BUY_X, Pool!SELL_X, SELL_X

LEMMA SameTrade ==
    /\ \A a, side, input : Pool!Quotes(a, side, input) = Quotes(a, side, input)
    /\ \A a, side, input : Pool!Executions(a, side, input) = Executions(a, side, input)
<1>1. \A a, side, input : Pool!Quotes(a, side, input) = Quotes(a, side, input)
    BY SameNano, SameCall, SamePool, Zenon DEF Pool!Quotes, Quotes, Pool!NanoToF64, NanoToF64
<1>2. \A a, s, i, o : Pool!Moved(a, s, i, o) = Moved(a, s, i, o)
    BY SamePool, Zenon DEF Pool!Moved, Moved
<1>3. \A a, s, i, o : Pool!Accepts(a, s, i, o) = Accepts(a, s, i, o)
    BY <1>2, SamePool, Zenon DEF Pool!Accepts, Accepts
<1>4. \A a, s, i, o, x, y : Pool!CallAfterSwap(a, s, i, o, x, y) = CallAfterSwap(a, s, i, o, x, y)
    BY Zenon DEF Pool!CallAfterSwap, CallAfterSwap
<1>5. \A a, s, i, o : Pool!AfterSwap(a, s, i, o) = AfterSwap(a, s, i, o)
    BY <1>4, SameNano, Zenon DEF Pool!AfterSwap, AfterSwap
<1>6. \A a, side, input : Pool!Executions(a, side, input) = Executions(a, side, input)
    <2> SUFFICES ASSUME NEW a, NEW side, NEW input
                 PROVE  Pool!Executions(a, side, input) = Executions(a, side, input)
        OBVIOUS
    <2>1. ASSUME NEW q
          PROVE  Pool!AfterSwap(Pool!Moved(a, side, input, q), side, input, q)
                    = AfterSwap(Moved(a, side, input, q), side, input, q)
        BY <1>2, <1>5, Zenon
    <2> DEFINE theirs(q) == IF Pool!Accepts(a, side, input, q)
                            THEN {[amm |-> b, out |-> q] :
                                    b \in Pool!AfterSwap(Pool!Moved(a, side, input, q), side, input, q)}
                            ELSE {[amm |-> a, out |-> 0]}
               ours(q) == IF Accepts(a, side, input, q)
                          THEN {[amm |-> b, out |-> q] :
                                  b \in AfterSwap(Moved(a, side, input, q), side, input, q)}
                          ELSE {[amm |-> a, out |-> 0]}
    <2>2. \A q : theirs(q) = ours(q)
        BY <1>3, <2>1, Zenon
    <2>3. /\ Pool!Executions(a, side, input) = UNION {theirs(q) : q \in Pool!Quotes(a, side, input)}
          /\ Executions(a, side, input) = UNION {ours(q) : q \in Quotes(a, side, input)}
        BY Zenon DEF Pool!Executions, Executions
    <2> HIDE DEF theirs, ours
    <2> QED
        BY <1>1, <2>2, <2>3, SMT
<1> QED
    BY <1>1, <1>6

(* What module AmmProof proves of nanos, replies, quotes and executions. *)
LEMMA NanoBound ==
    ASSUME NEW v \in Nat
    PROVE  F64ToNano(v) \in Nat /\ F64ToNano(v) \in U64 /\ F64ToNano(v) * Unit <= v
BY Pool!NanoBound, SameNano, AmountAssumption, FeeAssumption, ReserveAssumption, StorageAssumption DEF Pool!U64, U64

LEMMA CallType ==
    ASSUME NEW a, IsPool(a), NEW side \in Sides,
           NEW amount \in Nat, NEW rx \in Nat, NEW ry \in Nat,
           NEW q \in Call(a, side, amount, rx, ry)
    PROVE  q \in Nat
BY Pool!CallType, SameCall, SamePool, AmountAssumption, FeeAssumption, ReserveAssumption, StorageAssumption

LEMMA QuoteType ==
    ASSUME NEW a, IsPool(a), NEW side \in Sides, NEW input \in Nat,
           NEW q \in Quotes(a, side, input)
    PROVE  q \in 0 .. OutReserve(a, side)
BY Pool!QuoteType, SameTrade, SamePool, AmountAssumption, FeeAssumption, ReserveAssumption, StorageAssumption

LEMMA ExecutionEffect ==
    ASSUME NEW a, IsPool(a), Floored(a), NEW side \in Sides, NEW input \in Nat,
           NEW r \in Executions(a, side, input)
    PROVE  \/ r.amm = a /\ r.out = 0
           \/ /\ input > 0 /\ r.out \in Nat \ {0} /\ r.out \in Quotes(a, side, input)
              /\ r.amm.name = a.name /\ r.amm.current_step = a.current_step
              /\ IF side = BUY_X
                 THEN r.amm.reserve_x = a.reserve_x - r.out /\ r.amm.reserve_y = a.reserve_y + input
                 ELSE r.amm.reserve_x = a.reserve_x + input /\ r.amm.reserve_y = a.reserve_y - r.out
              /\ IsPool(r.amm) /\ Floored(r.amm)
BY Pool!ExecutionEffect, SameTrade, SamePool, AmountAssumption, FeeAssumption, ReserveAssumption, StorageAssumption

-----------------------------------------------------------------------------
(* A candidate is a trade of its side with a quote that clears the threshold. *)
LEMMA CandidateQuote ==
    ASSUME NEW a, NEW side \in Sides, NEW price \in Nat \ {0}, NEW input \in Nat,
           NEW plan \in Candidates(a, side, price, input), NEW c \in plan
    PROVE  /\ c.side = side /\ c.input = input
           /\ \E q \in Quotes(a, side, input) :
                 q > 0 /\ Profit(side, price, input, q) >= MinArbProfit
<1>1. PICK q \in Quotes(a, side, input) :
         plan = IF q > 0 /\ Profit(side, price, input, q) >= MinArbProfit
                THEN {[side |-> side, input |-> input, profit |-> Profit(side, price, input, q)]}
                ELSE {}
    BY DEF Candidates
<1>2. q > 0 /\ Profit(side, price, input, q) >= MinArbProfit
    BY <1>1
<1>3. c = [side |-> side, input |-> input, profit |-> Profit(side, price, input, q)]
    BY <1>1, <1>2
<1> QED BY <1>2, <1>3

(* What a plan expects to earn is a quote's profit, and clears the threshold. *)
LEMMA PlanQuote ==
    ASSUME NEW a, IsPool(a), NEW side \in Sides, NEW price \in Nat \ {0},
           NEW plan \in Plans(a, side, price), NEW c \in plan
    PROVE  /\ c.side = side /\ c.input \in Nat
           /\ \E q \in Quotes(a, side, c.input) :
                 q > 0 /\ Profit(side, price, c.input, q) >= MinArbProfit
<1>1. CASE a.name = "normalizer"
    <2> DEFINE keep == BPS - StorageFee(a.storage)
               in == IF side = BUY_X THEN a.reserve_y ELSE a.reserve_x
               Input(t) == Larger(MinTradeInput(side, price),
                                  Smaller(((t - in) * BPS) \div keep, MaxInput))
               targets == IF side = BUY_X
                          THEN Roots((price * a.reserve_x * a.reserve_y * keep) \div BPS,
                                     price * a.reserve_x + a.reserve_y)
                          ELSE Roots((a.reserve_y * a.reserve_x * keep) \div (BPS * price),
                                     a.reserve_x + a.reserve_y)
    <2>1. plan \in NormalizerPlans(a, side, price) BY <1>1 DEF Plans
    <2>2. ~(keep <= 0) /\ plan \in UNION {IF t <= in THEN {{}} ELSE Candidates(a, side, price, Input(t)) :
                                        t \in targets}
        <3>1. plan # {} OBVIOUS
        <3> QED BY <2>1, <3>1, Zenon DEF NormalizerPlans
    <2>10. PICK t \in targets : plan \in Candidates(a, side, price, Input(t))
        <3> HIDE DEF targets, in, Input
        <3> QED BY <2>2
    <2>3. a.reserve_x \in Nat /\ a.reserve_y \in Nat /\ a.storage \in 0 .. BPS - 1
        BY <1>1 DEF IsPool, NormAmms
    <2>4. keep \in Nat \ {0} BY <2>2, <2>3, FeeAssumption DEF StorageFee
    <2>5. t \in Nat /\ in \in Nat BY <2>3 DEF Roots
    <2>6. MinTradeInput(side, price) \in Nat
        BY ArbAssumption DEF MinTradeInput, Larger
    <2>7. ((t - in) * BPS) \div keep \in Int
        <3> HIDE DEF keep, in
        <3>1. (t - in) * BPS \in Int BY <2>5, FeeAssumption
        <3> QED BY <2>4, <3>1
    <2>8. Input(t) \in Nat
        <3> HIDE DEF keep, in
        <3> QED BY <2>6, <2>7, ArbAssumption DEF Larger, Smaller
    <2> HIDE DEF Input
    <2> QED BY <2>8, <2>10, CandidateQuote
<1>2. CASE a.name # "normalizer"
    <2>1. PICK input \in SearchInputs : plan \in Candidates(a, side, price, input)
        BY <1>2 DEF Plans, SearchPlans
    <2>2. input \in Nat BY ArbAssumption
    <2> QED BY <2>1, <2>2, CandidateQuote
<1> QED BY <1>1, <1>2

(* What the arbitrageur does to a pool: nothing, or one execution of a planned    *)
(* candidate, whose edge is what the pool gained at the fair price.               *)
LEMMA ArbEffect ==
    ASSUME NEW a, IsPool(a), Floored(a), NEW price \in Nat \ {0}, NEW r \in ExecuteArb(a, price)
    PROVE  \/ r.amm = a /\ r.edge = 0
           \/ \E side \in Sides, input \in Nat : \E e \in Executions(a, side, input) :
                 /\ e.amm = r.amm /\ e.out > 0
                 /\ r.edge = -Profit(side, price, input, e.out)
                 /\ \E q \in Quotes(a, side, input) :
                       q > 0 /\ Profit(side, price, input, q) >= MinArbProfit
<1>1. PICK buy \in Plans(a, BUY_X, price), sell \in Plans(a, SELL_X, price) :
         LET chosen == BestCandidate(buy, sell)
         IN  r \in IF chosen = {} THEN {[amm |-> a, edge |-> 0]}
                   ELSE UNION {ExecuteCandidate(a, price, c) : c \in chosen}
    BY DEF ExecuteArb
<1> DEFINE chosen == BestCandidate(buy, sell)
<1>2. CASE chosen = {}
    BY <1>1, <1>2
<1>3. CASE chosen # {}
    <2>1. PICK c \in chosen : r \in ExecuteCandidate(a, price, c) BY <1>1, <1>3
    <2>2. \E side \in Sides : /\ c.side = side /\ c.input \in Nat
                              /\ \E q \in Quotes(a, side, c.input) :
                                    q > 0 /\ Profit(side, price, c.input, q) >= MinArbProfit
        <3>1. c \in buy \/ c \in sell BY DEF BestCandidate
        <3> QED BY <3>1, PlanQuote DEF Sides
    <2>3. PICK e \in Executions(a, c.side, c.input) :
             r = [amm |-> e.amm, edge |-> IF e.out <= 0 THEN 0 ELSE -Profit(c.side, price, c.input, e.out)]
        BY <2>1 DEF ExecuteCandidate
    <2>4. CASE e.out <= 0
        <3>1. e.amm = a BY <2>2, <2>4, ExecutionEffect
        <3> QED BY <2>3, <2>4, <3>1
    <2>5. CASE ~(e.out <= 0)
        <3>1. e.out > 0 BY <2>2, <2>5, ExecutionEffect
        <3> QED BY <2>2, <2>3, <2>5, <3>1
    <2> QED BY <2>4, <2>5
<1> QED BY <1>2, <1>3

(* An execution changes the worth of the pool by minus the trader's profit. *)
LEMMA ExecutionWorth ==
    ASSUME NEW a, IsPool(a), Floored(a), NEW price \in Nat \ {0},
           NEW side \in Sides, NEW input \in Nat, NEW r \in Executions(a, side, input)
    PROVE  /\ r.out \in Nat
           /\ r.out > 0 => Worth(r.amm, price) - Worth(a, price) = -Profit(side, price, input, r.out)
           /\ r.out = 0 => r.amm = a
           /\ Worth(a, price) \in Int /\ Worth(r.amm, price) \in Int
<1>1. a.reserve_x \in Nat /\ a.reserve_y \in Nat
    BY DEF IsPool, NormAmms, SubAmms
<1>2. CASE r.amm = a /\ r.out = 0
    BY <1>1, <1>2 DEF Worth
<1>3. CASE ~(r.amm = a /\ r.out = 0)
    <2>1. /\ r.out \in Nat \ {0}
          /\ IF side = BUY_X
             THEN r.amm.reserve_x = a.reserve_x - r.out /\ r.amm.reserve_y = a.reserve_y + input
             ELSE r.amm.reserve_x = a.reserve_x + input /\ r.amm.reserve_y = a.reserve_y - r.out
        BY <1>3, ExecutionEffect
    <2>2. CASE side = BUY_X
        <3>1. (a.reserve_x - r.out) * price = a.reserve_x * price - r.out * price BY <1>1, <2>1
        <3>2. a.reserve_x * price \in Int /\ r.out * price \in Int BY <1>1, <2>1
        <3> QED BY <1>1, <2>1, <2>2, <3>1, <3>2 DEF Worth, Profit
    <2>3. CASE side # BUY_X
        <3>1. (a.reserve_x + input) * price = a.reserve_x * price + input * price BY <1>1
        <3>2. a.reserve_x * price \in Int /\ input * price \in Int BY <1>1
        <3> QED BY <1>1, <2>1, <2>3, <3>1, <3>2 DEF Worth, Profit
    <2> QED BY <2>2, <2>3
<1> QED BY <1>2, <1>3

-----------------------------------------------------------------------------
(* What holds between the statements of the loop: the pools are above the       *)
(* floor, a step is being simulated and an order routed at the statements that    *)
(* do so, and of the trades still to account only the first can be the            *)
(* submission's.                                                                 *)
InLoop ==
    /\ pc # "begin" => step < NSteps
    /\ pc \in {"leg_sub", "leg_norm", "account"} => orders # <<>>

SubmissionFirst ==
    /\ pc \notin {"leg_norm", "account"} => trades = <<>>
    /\ \A i \in 2 .. Len(trades) : ~trades[i].is_submission

IInv ==
    /\ TypeOK
    /\ Floored(sub) /\ Floored(norm)
    /\ InLoop
    /\ SubmissionFirst
    /\ EdgeIsMarkToMarket

(* The types the steps need, spelled out. *)
LEMMA StateFacts ==
    ASSUME TypeOK
    PROVE  /\ IsPool(sub) /\ sub.name = "submission"
           /\ IsPool(norm) /\ norm.name = "normalizer"
           /\ fair \in Nat \ {0}
           /\ submission_edge \in Int /\ mark \in Int /\ got \in Nat
           /\ sub.reserve_x \in Nat /\ sub.reserve_y \in Nat
           /\ norm.reserve_x \in Nat /\ norm.reserve_y \in Nat
           /\ step \in Nat
BY EngineAssumption DEF TypeOK, IsPool, SubAmms, NormAmms

(* A pool of one kind is in that kind's set. *)
LEMMA PoolKind ==
    ASSUME NEW a, IsPool(a)
    PROVE  /\ a.name = "submission" => a \in SubAmms
           /\ a.name = "normalizer" => a \in NormAmms
BY DEF IsPool

(* A pool keeps its kind and its reserves when the engine sets the step. *)
LEMMA StepSet ==
    ASSUME NEW n \in Nat, NEW a, IsPool(a), Floored(a),
           NEW b, b = [a EXCEPT !.current_step = n]
    PROVE  /\ IsPool(b) /\ Floored(b) /\ b.name = a.name
           /\ b.reserve_x = a.reserve_x /\ b.reserve_y = a.reserve_y
<1>1. CASE a \in SubAmms
    BY <1>1 DEF SubAmms, IsPool, Floored
<1>2. CASE a \in NormAmms
    BY <1>2 DEF NormAmms, IsPool, Floored
<1> QED BY <1>1, <1>2 DEF IsPool

(* A leg changes nothing, or trades and changes the pool's worth by the trade's  *)
(* edge; its trade is of the kind asked for.                                     *)
LEMMA LegEffect ==
    ASSUME NEW a, IsPool(a), Floored(a), NEW price \in Nat \ {0},
           NEW side \in Sides, NEW input \in Nat, NEW quoted \in Nat,
           NEW r \in LegRuns(a, side, input, quoted)
    PROVE  /\ r.out \in Nat /\ IsPool(r.amm) /\ Floored(r.amm) /\ r.amm.name = a.name
           /\ r.out = 0 => r.amm = a
           /\ r.out > 0 => Worth(r.amm, price) - Worth(a, price)
                                = -Profit(side, price, input, r.out)
<1>1. CASE r = [amm |-> a, out |-> 0]
    BY <1>1
<1>2. CASE r \in Executions(a, side, input)
    <2>1. r.amm = a \/ (IsPool(r.amm) /\ Floored(r.amm) /\ r.amm.name = a.name)
        BY <1>2, ExecutionEffect
    <2> QED BY <1>2, <2>1, ExecutionWorth
<1> QED BY <1>1, <1>2 DEF LegRuns

(* A sequence is empty exactly when its length says so. *)
LEMMA EmptyLen ==
    ASSUME NEW S, NEW s \in Seq(S)
    PROVE  /\ Len(s) \in Nat
           /\ s = <<>> <=> Len(s) = 0
           /\ s # <<>> <=> Len(s) >= 1
BY EmptySeq, LenProperties

(* A leg's trade, as a sequence of trades, and the edge it is accounted with. *)
LEMMA LegTradesType ==
    ASSUME NEW mine, mine \in BOOLEAN, NEW side \in Sides, NEW input \in Nat, NEW output \in Nat,
           NEW price \in Nat \ {0}
    PROVE  LET ts == LegTrades(mine, side, input, output)
           IN  /\ ts \in Seq(Trades)
               /\ output = 0 => Len(ts) = 0 /\ ts = <<>>
               /\ output > 0 => /\ Len(ts) = 1 /\ ts # <<>>
                                /\ (IF ts[1].amm_buys_x
                                    THEN ts[1].amount_x * price - ts[1].amount_y
                                    ELSE ts[1].amount_y - ts[1].amount_x * price)
                                      = -Profit(side, price, input, output)
<1> DEFINE ts == LegTrades(mine, side, input, output)
           t == [is_submission |-> mine, amm_buys_x |-> side = SELL_X,
                 amount_x |-> IF side = SELL_X THEN input ELSE output,
                 amount_y |-> IF side = SELL_X THEN output ELSE input]
<1>1. t \in Trades BY DEF Trades
<1>2. CASE output = 0 BY <1>2 DEF LegTrades
<1>3. CASE output > 0
    <2>1. ts = <<t>> BY <1>3 DEF LegTrades
    <2>2. /\ t.amm_buys_x <=> side = SELL_X
          /\ t.amount_x = (IF side = SELL_X THEN input ELSE output)
          /\ t.amount_y = (IF side = SELL_X THEN output ELSE input)
        BY Zenon
    <2> HIDE DEF t, ts
    <2>3. ts \in Seq(Trades) /\ Len(ts) = 1 /\ ts[1] = t /\ ts # <<>> BY <1>1, <2>1
    <2>4. side # SELL_X <=> side = BUY_X BY DEF Sides, BUY_X, SELL_X
    <2>5. input * price \in Int /\ output * price \in Int OBVIOUS
    <2>6. (IF t.amm_buys_x THEN t.amount_x * price - t.amount_y
           ELSE t.amount_y - t.amount_x * price) = -Profit(side, price, input, output)
        BY <2>2, <2>4, <2>5 DEF Profit
    <2> QED BY <1>3, <2>3, <2>6 DEF ts
<1> QED BY <1>2, <1>3

(* ... and whose trade it is. *)
LEMMA LegTradesMine ==
    ASSUME NEW mine, NEW side, NEW input, NEW output, ~(output <= 0)
    PROVE  LegTrades(mine, side, input, output)[1].is_submission = mine
<1> DEFINE t == [is_submission |-> mine, amm_buys_x |-> side = SELL_X,
                 amount_x |-> IF side = SELL_X THEN input ELSE output,
                 amount_y |-> IF side = SELL_X THEN output ELSE input]
<1>1. LegTrades(mine, side, input, output) = <<t>> BY DEF LegTrades
<1>2. t.is_submission = mine BY Zenon
<1>3. LegTrades(mine, side, input, output)[1] = t
    <2> HIDE DEF t
    <2> QED BY <1>1
<1> QED BY <1>2, <1>3, Zenon

(* A point of the split: its inputs add up to the total, each leg has a quote.   *)
LEMMA SplitPoint ==
    ASSUME NEW a, IsPool(a), NEW b, IsPool(b), NEW side \in Sides,
           NEW total \in Nat, NEW i \in 0 .. total,
           NEW p \in SplitQuotes(a, b, side, total, i)
    PROVE  /\ p \in Points
           /\ p.out_sub \in LegQuotes(a, side, p.in_sub)
           /\ p.out_norm \in LegQuotes(b, side, p.in_norm)
<1>1. PICK s \in LegQuotes(a, side, i), n \in LegQuotes(b, side, total - i) :
         p = [in_sub |-> i, in_norm |-> total - i, out_sub |-> s, out_norm |-> n]
    BY DEF SplitQuotes
<1>2. total - i \in Nat OBVIOUS
<1>3. s \in Nat
    <2>1. CASE s \in Quotes(a, side, i) BY <2>1, QuoteType DEF OutReserve, IsPool, SubAmms, NormAmms
    <2> QED BY <2>1 DEF LegQuotes
<1>4. n \in Nat
    <2>1. CASE n \in Quotes(b, side, total - i)
        BY <1>2, <2>1, QuoteType DEF OutReserve, IsPool, SubAmms, NormAmms
    <2> QED BY <2>1 DEF LegQuotes
<1> QED BY <1>1, <1>2, <1>3, <1>4 DEF Points

(* The size of an order in the pool's input currency. *)
LEMMA OrderTotal ==
    ASSUME NEW o \in Orders, NEW price \in Nat \ {0}
    PROVE  o.size \in Nat /\ o.size \div price \in Nat /\ Side(o) \in Sides
<1>1. o.size \in Nat BY DEF Orders
<1>2. o.size \div price \in Nat
    BY <1>1
<1> QED BY <1>1, <1>2 DEF Side, Sides, BUY_X, SELL_X

-----------------------------------------------------------------------------
(* The initial states, and each action. *)
LEMMA InitInv == Init => IInv
<1> SUFFICES ASSUME Init PROVE IInv OBVIOUS
<1> USE DEF Init
<1>1. TypeOK
    BY EngineAssumption, EmptySeq DEF TypeOK, Points, NoQuote
<1>2. Floored(sub) /\ Floored(norm) BY EngineAssumption
<1>3. InLoop /\ SubmissionFirst BY DEF InLoop, SubmissionFirst
<1>4. EdgeIsMarkToMarket BY DEF EdgeIsMarkToMarket, Pending
<1> QED BY <1>1, <1>2, <1>3, <1>4 DEF IInv

(* A new step moves no reserve. *)
LEMMA BeginStepInv == IInv /\ BeginStep => IInv'
<1> SUFFICES ASSUME IInv, BeginStep PROVE IInv' OBVIOUS
<1> USE DEF BeginStep
<1>1. TypeOK /\ Floored(sub) /\ Floored(norm) BY DEF IInv
<1>2. /\ IsPool(sub') /\ Floored(sub') /\ sub'.name = "submission"
      /\ IsPool(norm') /\ Floored(norm') /\ norm'.name = "normalizer"
    BY <1>1, StateFacts, StepSet
<1>3. TypeOK' BY <1>1, <1>2, PoolKind DEF TypeOK
<1>4. InLoop' /\ SubmissionFirst' BY DEF IInv, InLoop, SubmissionFirst
<1>5. trades = <<>> BY DEF IInv, SubmissionFirst
<1>6. EdgeIsMarkToMarket' BY <1>5 DEF IInv, EdgeIsMarkToMarket, Pending
<1> QED BY <1>2, <1>3, <1>4, <1>6 DEF IInv

(* The arbitrage on the submission's pool books what its reserves gained. *)
LEMMA ArbSubInv == IInv /\ ArbSub => IInv'
<1> SUFFICES ASSUME IInv, ArbSub PROVE IInv' OBVIOUS
<1>1. PICK r \in ExecuteArb(sub, fair) :
         sub' = r.amm /\ submission_edge' = submission_edge + r.edge
    BY DEF ArbSub
<1>2. TypeOK /\ Floored(sub) /\ Floored(norm) BY DEF IInv
<1>3. /\ IsPool(sub') /\ Floored(sub') /\ sub'.name = "submission"
      /\ r.edge \in Int /\ Worth(sub', fair) - Worth(sub, fair) = r.edge
      /\ Worth(sub', fair) \in Int /\ Worth(sub, fair) \in Int
    <2>1. CASE r.amm = sub /\ r.edge = 0
        <3>1. Worth(sub, fair) \in Int BY <1>2, StateFacts DEF Worth
        <3> QED BY <1>1, <1>2, <2>1, <3>1, StateFacts
    <2>2. CASE ~(r.amm = sub /\ r.edge = 0)
        <3>1. PICK side \in Sides, input \in Nat : \E e \in Executions(sub, side, input) :
                 /\ e.amm = r.amm /\ e.out > 0
                 /\ r.edge = -Profit(side, fair, input, e.out)
            BY <1>2, <2>2, StateFacts, ArbEffect
        <3>2. PICK e \in Executions(sub, side, input) :
                 /\ e.amm = r.amm /\ e.out > 0
                 /\ r.edge = -Profit(side, fair, input, e.out)
            BY <3>1
        <3>3. IsPool(sub') /\ Floored(sub') /\ sub'.name = "submission"
            BY <1>1, <1>2, <3>2, StateFacts, ExecutionEffect
        <3>4. /\ Worth(sub', fair) - Worth(sub, fair) = r.edge
              /\ Worth(sub', fair) \in Int /\ Worth(sub, fair) \in Int
            BY <1>1, <1>2, <3>2, StateFacts, ExecutionWorth
        <3> QED BY <3>3, <3>4
    <2> QED BY <2>1, <2>2
<1>4. submission_edge' \in Int /\ mark' \in Int
    BY <1>1, <1>2, <1>3, StateFacts DEF ArbSub, MarkSub
<1>5. TypeOK' BY <1>2, <1>3, <1>4, PoolKind DEF TypeOK, ArbSub
<1>6. InLoop' /\ SubmissionFirst' BY DEF ArbSub, IInv, InLoop, SubmissionFirst
<1>7. trades = <<>> /\ trades' = <<>> BY DEF ArbSub, IInv, SubmissionFirst
<1>8. mark = submission_edge BY <1>2, <1>7, StateFacts DEF IInv, EdgeIsMarkToMarket, Pending
<1>9. EdgeIsMarkToMarket'
    BY <1>1, <1>2, <1>3, <1>7, <1>8, StateFacts DEF EdgeIsMarkToMarket, Pending, ArbSub, MarkSub
<1> QED BY <1>2, <1>3, <1>5, <1>6, <1>9 DEF IInv, ArbSub

(* The arbitrage on the normalizer's pool does not touch the submission's score. *)
LEMMA ArbNormInv == IInv /\ ArbNorm => IInv'
<1> SUFFICES ASSUME IInv, ArbNorm PROVE IInv' OBVIOUS
<1> USE DEF ArbNorm
<1>1. PICK r \in ExecuteArb(norm, fair) : norm' = r.amm OBVIOUS
<1>2. TypeOK /\ Floored(sub) /\ Floored(norm) BY DEF IInv
<1>3. IsPool(norm') /\ Floored(norm') /\ norm'.name = "normalizer"
    <2>1. CASE r.amm = norm BY <1>1, <1>2, <2>1, StateFacts
    <2>2. CASE r.amm # norm
        <3>1. PICK side \in Sides, input \in Nat : \E e \in Executions(norm, side, input) :
                 e.amm = r.amm
            BY <1>2, <2>2, StateFacts, ArbEffect
        <3> QED BY <1>1, <1>2, <3>1, StateFacts, ExecutionEffect
    <2> QED BY <2>1, <2>2
<1>4. TypeOK' BY <1>2, <1>3, PoolKind DEF TypeOK
<1>5. InLoop' /\ SubmissionFirst' BY DEF IInv, InLoop, SubmissionFirst
<1>6. EdgeIsMarkToMarket' BY DEF IInv, EdgeIsMarkToMarket, Pending, TradeEdge
<1> QED BY <1>2, <1>3, <1>4, <1>5, <1>6 DEF IInv

(* New orders move nothing. *)
LEMMA GenerateOrdersInv == IInv /\ GenerateOrders => IInv'
<1> SUFFICES ASSUME IInv, GenerateOrders PROVE IInv' OBVIOUS
<1> USE DEF GenerateOrders
<1>1. TypeOK' BY EngineAssumption DEF IInv, TypeOK
<1>2. InLoop' /\ SubmissionFirst' BY DEF IInv, InLoop, SubmissionFirst
<1>3. EdgeIsMarkToMarket' BY DEF IInv, EdgeIsMarkToMarket, Pending, TradeEdge
<1> QED BY <1>1, <1>2, <1>3 DEF IInv

(* Quoting a split moves nothing. *)
LEMMA SplitInv == IInv /\ Split => IInv'
<1> SUFFICES ASSUME IInv, Split PROVE IInv' OBVIOUS
<1>1. TypeOK BY DEF IInv
<1> DEFINE side == Side(Head(orders))
           total == Total(Head(orders))
           At(i) == SplitQuotes(sub, norm, side, total, i)
<1>2. PICK l \in At(0), r \in At(total), m \in UNION {At(i) : i \in 0 .. total} :
         best' = BestQuote(BestQuote(l, r), m) /\ ends' = <<l, r>>
    BY Zenon DEF Split
<1>3. PICK i \in 0 .. total : m \in At(i) OBVIOUS
<1>4. side \in Sides /\ total \in Nat
    <2>1. Head(orders) \in Orders BY <1>1, HeadTailProperties DEF TypeOK, Split
    <2> QED BY <1>1, <2>1, StateFacts, OrderTotal DEF Total
<1> HIDE DEF side, total
<1>5. 0 \in 0 .. total /\ total \in 0 .. total BY <1>4
<1>6. l \in Points /\ r \in Points /\ m \in Points
    BY <1>1, <1>3, <1>4, <1>5, StateFacts, SplitPoint
<1>7. best' \in Points BY <1>2, <1>6 DEF BestQuote
<1>8. ends' \in Points \X Points BY <1>2, <1>6
<1>9. TypeOK' BY <1>1, <1>7, <1>8, EmptySeq DEF TypeOK, Split
<1>10. InLoop' /\ SubmissionFirst' BY DEF IInv, Split, InLoop, SubmissionFirst
<1>11. trades = <<>> /\ trades' = <<>> BY DEF IInv, Split, SubmissionFirst
<1>12. EdgeIsMarkToMarket' BY <1>11 DEF IInv, Split, EdgeIsMarkToMarket, Pending
<1> QED BY <1>9, <1>10, <1>12 DEF IInv, Split

(* The submission's leg leaves its gain pending, in the first trade of the list. *)
LEMMA LegSubInv == IInv /\ LegSub => IInv'
<1> SUFFICES ASSUME IInv, LegSub PROVE IInv' OBVIOUS
<1>1. TypeOK /\ Floored(sub) BY DEF IInv
<1> DEFINE side == Side(Head(orders))
<1>2. PICK r \in LegRuns(sub, side, best.in_sub, best.out_sub) :
         /\ sub' = r.amm /\ got' = got + r.out
         /\ trades' = trades \o LegTrades(TRUE, side, best.in_sub, r.out)
    BY DEF LegSub
<1>3. side \in Sides /\ fair \in Nat \ {0} /\ best.in_sub \in Nat /\ best.out_sub \in Nat
    <2>1. orders # <<>> BY DEF IInv, InLoop, LegSub
    <2>2. Head(orders) \in Orders BY <1>1, <2>1, HeadTailProperties DEF TypeOK
    <2>3. side \in Sides /\ fair \in Nat \ {0} BY <1>1, <2>2, StateFacts, OrderTotal
    <2> QED BY <1>1, <2>3 DEF TypeOK, Points
<1> HIDE DEF side
<1>4. /\ r.out \in Nat /\ IsPool(sub') /\ Floored(sub') /\ sub'.name = sub.name
      /\ r.out = 0 => sub' = sub
      /\ r.out > 0 => Worth(sub', fair) - Worth(sub, fair)
                          = -Profit(side, fair, best.in_sub, r.out)
    <2>1. /\ r.out \in Nat /\ IsPool(r.amm) /\ Floored(r.amm) /\ r.amm.name = sub.name
          /\ r.out = 0 => r.amm = sub
          /\ r.out > 0 => Worth(r.amm, fair) - Worth(sub, fair)
                              = -Profit(side, fair, best.in_sub, r.out)
        BY <1>1, <1>3, StateFacts, LegEffect
    <2> QED BY <1>2, <2>1
<1> DEFINE ts == LegTrades(TRUE, side, best.in_sub, r.out)
<1>5. trades' = trades \o ts BY <1>2
<1>6. r.out > 0 => ts[1].is_submission
    <2>1. r.out > 0 => ts[1].is_submission = TRUE
        <3>1. r.out > 0 => ~(r.out <= 0) BY <1>4
        <3> QED BY <3>1, LegTradesMine, Zenon
    <2> QED BY <2>1, Zenon
<1>7. /\ ts \in Seq(Trades)
      /\ r.out = 0 => Len(ts) = 0 /\ ts = <<>>
      /\ r.out > 0 => /\ Len(ts) = 1 /\ ts # <<>>
                      /\ (IF ts[1].amm_buys_x
                          THEN ts[1].amount_x * fair - ts[1].amount_y
                          ELSE ts[1].amount_y - ts[1].amount_x * fair)
                            = -Profit(side, fair, best.in_sub, r.out)
    <2>1. TRUE \in BOOLEAN OBVIOUS
    <2> QED BY <1>3, <1>4, <2>1, LegTradesType
<1> HIDE DEF ts
<1>8. r.out = 0 \/ r.out > 0 BY <1>4
<1>9. trades = <<>> BY DEF IInv, SubmissionFirst, LegSub
<1>10. trades' = ts BY <1>5, <1>7, <1>9, ConcatEmptySeq
<1>11. Worth(sub', fair) \in Int /\ Worth(sub, fair) \in Int
    BY <1>1, <1>3, <1>4, StateFacts DEF Worth, IsPool, SubAmms, NormAmms
<1>12. TypeOK'
    <2>1. mark' \in Int BY <1>1, <1>11, StateFacts DEF LegSub, MarkSub
    <2>2. got' \in Nat BY <1>1, <1>2, <1>4, StateFacts
    <2>3. sub' \in SubAmms BY <1>1, <1>4, StateFacts, PoolKind
    <2> QED BY <1>1, <1>7, <1>10, <2>1, <2>2, <2>3 DEF TypeOK, LegSub
<1>13. InLoop' BY DEF IInv, LegSub, InLoop
<1>14. SubmissionFirst'
    <2>1. Len(trades') = 0 \/ Len(trades') = 1 BY <1>7, <1>8, <1>10
    <2>2. pc' = "leg_norm" BY DEF LegSub
    <2>3. ASSUME NEW i \in 2 .. Len(trades') PROVE FALSE
        <3>1. i >= 2 /\ i <= 1
            <4>1. Len(trades') <= 1 /\ Len(trades') \in Int BY <2>1
            <4> QED BY <2>3, <4>1
        <3> QED BY <3>1
    <2> QED BY <2>2, <2>3, Zenon DEF SubmissionFirst
<1>15. mark = submission_edge BY <1>1, <1>9, StateFacts DEF IInv, EdgeIsMarkToMarket, Pending
<1>16. Worth(sub', fair) - Worth(sub, fair) = Pending'
    <2>1. CASE r.out = 0
        BY <1>4, <1>7, <1>10, <1>11, <2>1 DEF Pending
    <2>2. CASE r.out > 0
        <3>1. fair' = fair BY DEF LegSub
        <3>2. trades' # <<>> /\ trades'[1].is_submission BY <1>6, <1>7, <1>10, <2>2
        <3>3. Pending' = (IF trades'[1].amm_buys_x
                          THEN trades'[1].amount_x * fair - trades'[1].amount_y
                          ELSE trades'[1].amount_y - trades'[1].amount_x * fair)
            BY <3>1, <3>2 DEF Pending, TradeEdge
        <3> QED BY <1>4, <1>7, <1>10, <2>2, <3>3
    <2> QED BY <1>8, <2>1, <2>2
<1>17. EdgeIsMarkToMarket'
    BY <1>1, <1>11, <1>15, <1>16, StateFacts DEF EdgeIsMarkToMarket, LegSub, MarkSub
<1> QED BY <1>4, <1>12, <1>13, <1>14, <1>17 DEF IInv, LegSub

(* The normalizer's leg adds no trade that counts. *)
LEMMA LegNormInv == IInv /\ LegNorm => IInv'
<1> SUFFICES ASSUME IInv, LegNorm PROVE IInv' OBVIOUS
<1>1. TypeOK /\ Floored(norm) BY DEF IInv
<1> DEFINE side == Side(Head(orders))
<1>2. PICK r \in LegRuns(norm, side, best.in_norm, best.out_norm) :
         /\ norm' = r.amm /\ got' = got + r.out
         /\ trades' = trades \o LegTrades(FALSE, side, best.in_norm, r.out)
    BY DEF LegNorm
<1>3. side \in Sides /\ fair \in Nat \ {0} /\ best.in_norm \in Nat /\ best.out_norm \in Nat
    <2>1. orders # <<>> BY DEF IInv, InLoop, LegNorm
    <2>2. Head(orders) \in Orders BY <1>1, <2>1, HeadTailProperties DEF TypeOK
    <2>3. side \in Sides /\ fair \in Nat \ {0} BY <1>1, <2>2, StateFacts, OrderTotal
    <2> QED BY <1>1, <2>3 DEF TypeOK, Points
<1> HIDE DEF side
<1>4. /\ r.out \in Nat /\ IsPool(norm') /\ Floored(norm') /\ norm'.name = norm.name
      /\ r.out = 0 => norm' = norm
      /\ r.out > 0 => Worth(norm', fair) - Worth(norm, fair)
                          = -Profit(side, fair, best.in_norm, r.out)
    <2>1. /\ r.out \in Nat /\ IsPool(r.amm) /\ Floored(r.amm) /\ r.amm.name = norm.name
          /\ r.out = 0 => r.amm = norm
          /\ r.out > 0 => Worth(r.amm, fair) - Worth(norm, fair)
                              = -Profit(side, fair, best.in_norm, r.out)
        BY <1>1, <1>3, StateFacts, LegEffect
    <2> QED BY <1>2, <2>1
<1> DEFINE ts == LegTrades(FALSE, side, best.in_norm, r.out)
<1>5. trades' = trades \o ts BY <1>2
<1>6. r.out > 0 => ~ts[1].is_submission
    <2>1. r.out > 0 => ts[1].is_submission = FALSE
        <3>1. r.out > 0 => ~(r.out <= 0) BY <1>4
        <3> QED BY <3>1, LegTradesMine, Zenon
    <2> QED BY <2>1, Zenon
<1>7. /\ ts \in Seq(Trades)
      /\ r.out = 0 => Len(ts) = 0 /\ ts = <<>>
      /\ r.out > 0 => /\ Len(ts) = 1 /\ ts # <<>>
                      /\ (IF ts[1].amm_buys_x
                          THEN ts[1].amount_x * fair - ts[1].amount_y
                          ELSE ts[1].amount_y - ts[1].amount_x * fair)
                            = -Profit(side, fair, best.in_norm, r.out)
    <2>1. FALSE \in BOOLEAN OBVIOUS
    <2> QED BY <1>3, <1>4, <2>1, LegTradesType
<1> HIDE DEF ts
<1>8. r.out = 0 \/ r.out > 0 BY <1>4
<1>9. Len(ts) \in {0, 1} /\ (Len(ts) = 1 => ~ts[1].is_submission) BY <1>6, <1>7, <1>8
<1>10. trades \in Seq(Trades) /\ Len(trades) \in Nat /\ (trades = <<>> <=> Len(trades) = 0)
    BY <1>1, EmptyLen DEF TypeOK
<1>11. /\ trades' \in Seq(Trades) /\ Len(trades') = Len(trades) + Len(ts)
       /\ trades' = <<>> <=> Len(trades') = 0
       /\ \A i \in 1 .. Len(trades) + Len(ts) :
             trades'[i] = IF i <= Len(trades) THEN trades[i] ELSE ts[i - Len(trades)]
    BY <1>5, <1>7, <1>10, ConcatProperties, EmptyLen
<1>12. TypeOK'
    <2>1. got' \in Nat BY <1>1, <1>2, <1>4, StateFacts
    <2>2. norm' \in NormAmms BY <1>1, <1>4, StateFacts, PoolKind
    <2> QED BY <1>1, <1>11, <2>1, <2>2 DEF TypeOK, LegNorm
<1>13. InLoop' BY DEF IInv, LegNorm, InLoop
<1>14. SubmissionFirst'
    <2>1. ASSUME NEW i \in 2 .. Len(trades') PROVE ~trades'[i].is_submission
        <3>1. CASE i <= Len(trades)
            BY <1>9, <1>10, <1>11, <2>1, <3>1 DEF IInv, SubmissionFirst
        <3>2. CASE i > Len(trades)
            BY <1>9, <1>10, <1>11, <2>1, <3>2
        <3> QED BY <1>10, <3>1, <3>2
    <2> QED BY <2>1 DEF LegNorm, SubmissionFirst
<1>15. Pending' = Pending
    <2>1. CASE trades = <<>>
        <3>1. trades' # <<>> => ~trades'[1].is_submission
            BY <1>9, <1>10, <1>11, <2>1
        <3> QED BY <2>1, <3>1 DEF Pending
    <2>2. CASE trades # <<>>
        <3>1. trades'[1] = trades[1] /\ trades' # <<>>
            BY <1>9, <1>10, <1>11, <2>2
        <3>2. fair' = fair BY DEF LegNorm
        <3> QED BY <2>2, <3>1, <3>2 DEF Pending, TradeEdge
    <2> QED BY <2>1, <2>2
<1>16. EdgeIsMarkToMarket' BY <1>15 DEF IInv, EdgeIsMarkToMarket, LegNorm
<1> QED BY <1>4, <1>12, <1>13, <1>14, <1>16 DEF IInv, LegNorm

(* Accounting a trade turns the pending edge into the score. *)
LEMMA AccountInv == IInv /\ Account => IInv'
<1> SUFFICES ASSUME IInv, Account PROVE IInv' OBVIOUS
<1> USE DEF Account
<1>1. TypeOK BY DEF IInv
<1>2. /\ trades \in Seq(Trades) /\ trades # <<>> /\ Head(trades) = trades[1]
      /\ trades[1] \in Trades
      /\ trades' \in Seq(Trades) /\ Len(trades') = Len(trades) - 1
      /\ \A i \in 1 .. Len(trades) - 1 : trades'[i] = trades[i + 1]
    BY <1>1, HeadTailProperties DEF TypeOK
<1>3. Len(trades) \in Nat /\ Len(trades) >= 1 BY <1>2, EmptySeq, LenProperties
<1>4. submission_edge' = submission_edge + Pending BY <1>2 DEF Pending
<1>5. Pending \in Int
    <2>1. /\ trades[1].amount_x \in Nat /\ trades[1].amount_y \in Nat
        BY <1>2 DEF Trades
    <2>2. fair \in Nat BY <1>1, StateFacts
    <2>3. trades[1].amount_x * fair \in Int BY <2>1, <2>2
    <2> QED BY <2>1, <2>3 DEF Pending, TradeEdge
<1>6. TypeOK' BY <1>1, <1>2, <1>4, <1>5, StateFacts DEF TypeOK
<1>7. InLoop' BY DEF IInv, InLoop
<1>8. \A i \in 1 .. Len(trades') : ~trades'[i].is_submission
    <2>1. ASSUME NEW i \in 1 .. Len(trades') PROVE ~trades'[i].is_submission
        <3>1. i \in 1 .. Len(trades) - 1 /\ i + 1 \in 2 .. Len(trades) BY <1>2, <1>3, <2>1
        <3> QED BY <1>2, <3>1 DEF IInv, SubmissionFirst
    <2> QED BY <2>1
<1>9. SubmissionFirst' BY <1>2, <1>3, <1>8 DEF SubmissionFirst
<1>10. Pending' = 0
    <2>1. trades' # <<>> => 1 \in 1 .. Len(trades') BY <1>2, EmptyLen
    <2> QED BY <1>8, <2>1 DEF Pending
<1>11. EdgeIsMarkToMarket'
    BY <1>1, <1>4, <1>5, <1>10, StateFacts DEF IInv, EdgeIsMarkToMarket
<1> QED BY <1>6, <1>7, <1>9, <1>11 DEF IInv

(* The next order starts with nothing pending. *)
LEMMA NextOrderInv == IInv /\ NextOrder => IInv'
<1> SUFFICES ASSUME IInv, NextOrder PROVE IInv' OBVIOUS
<1> USE DEF NextOrder
<1>1. orders' \in Seq(Orders)
    <2>1. orders \in Seq(Orders) /\ orders # <<>> BY DEF IInv, TypeOK, InLoop
    <2> QED BY <2>1, HeadTailProperties
<1>2. TypeOK' BY <1>1 DEF IInv, TypeOK
<1>3. InLoop' /\ SubmissionFirst' BY DEF IInv, InLoop, SubmissionFirst
<1>4. EdgeIsMarkToMarket' BY DEF IInv, EdgeIsMarkToMarket, Pending, TradeEdge
<1> QED BY <1>2, <1>3, <1>4 DEF IInv

(* The end of a step moves nothing. *)
LEMMA EndStepInv == IInv /\ EndStep => IInv'
<1> SUFFICES ASSUME IInv, EndStep PROVE IInv' OBVIOUS
<1> USE DEF EndStep
<1>1. TypeOK /\ Floored(sub) /\ Floored(norm) BY DEF IInv
<1>2. step' \in 0 .. NSteps BY <1>1, EngineAssumption DEF IInv, InLoop, TypeOK
<1>3. TypeOK' BY <1>1, <1>2 DEF TypeOK
<1>4. InLoop' /\ SubmissionFirst' BY DEF IInv, InLoop, SubmissionFirst
<1>5. EdgeIsMarkToMarket' BY DEF IInv, EdgeIsMarkToMarket, Pending, TradeEdge
<1> QED BY <1>1, <1>3, <1>4, <1>5 DEF IInv

(* A panic moves nothing. *)
LEMMA ShapePanicInv == IInv /\ ShapePanic => IInv'
<1> SUFFICES ASSUME IInv, ShapePanic PROVE IInv' OBVIOUS
<1> USE DEF ShapePanic
<1>1. TypeOK /\ Floored(sub) /\ Floored(norm) BY DEF IInv
<1>2. TypeOK' BY <1>1 DEF TypeOK
<1>3. InLoop' /\ SubmissionFirst' BY DEF IInv, InLoop, SubmissionFirst
<1>4. EdgeIsMarkToMarket' BY DEF IInv, EdgeIsMarkToMarket, Pending, TradeEdge
<1> QED BY <1>1, <1>2, <1>3, <1>4 DEF IInv, Floored

(* The invariant is inductive. *)
LEMMA StepInv == IInv /\ [Next]_vars => IInv'
<1>1. IInv /\ UNCHANGED vars => IInv'
    BY DEF IInv, vars, TypeOK, Floored, InLoop, SubmissionFirst, EdgeIsMarkToMarket,
           Pending, TradeEdge
<1> QED BY <1>1, BeginStepInv, ArbSubInv, ArbNormInv, GenerateOrdersInv, SplitInv, LegSubInv,
           LegNormInv, AccountInv, NextOrderInv, EndStepInv, ShapePanicInv
    DEF Next, Finished

(* The invariant holds throughout every simulation. *)
LEMMA AlwaysInv == Spec => []IInv
BY InitInv, StepInv, PTL DEF Spec

(* Whatever the submission's programs answer and whatever its hook leaves in the  *)
(* storage, the state stays well formed and both pools stay above the floor.       *)
THEOREM SimulationTyped == Spec => [](TypeOK /\ Floored(sub) /\ Floored(norm))
<1>1. IInv => TypeOK /\ Floored(sub) /\ Floored(norm) BY DEF IInv
<1> QED BY <1>1, AlwaysInv, PTL

(* The score of a simulation is a mark to market of the submission's reserves, for *)
(* every submission, price path, order flow, split and number of steps.            *)
THEOREM ScoreIsMarkToMarket == Spec => []EdgeIsMarkToMarket
<1>1. IInv => EdgeIsMarkToMarket BY DEF IInv
<1> QED BY <1>1, AlwaysInv, PTL

-----------------------------------------------------------------------------
(* A pool whose program is pure has one quote for a trade. *)
LEMMA QuoteUnique ==
    ASSUME PureSubmission, NEW a, IsPool(a), NEW side \in Sides, NEW input \in Nat,
           NEW p \in Quotes(a, side, input), NEW q \in Quotes(a, side, input)
    PROVE  p = q
<1>1. a.reserve_x \in Nat /\ a.reserve_y \in Nat
    BY DEF IsPool, NormAmms, SubAmms
<1> DEFINE amt == F64ToNano(input)
           nx == F64ToNano(a.reserve_x)
           ny == F64ToNano(a.reserve_y)
           Answer(n) == IF NanoToF64(n) > OutReserve(a, side) THEN 0 ELSE NanoToF64(n)
<1>2. CASE input <= 0 \/ ~Floored(a) BY <1>2 DEF Quotes
<1>3. CASE ~(input <= 0 \/ ~Floored(a))
    <2>1. PICK m \in Call(a, side, amt, nx, ny) : p = Answer(m) BY <1>3 DEF Quotes
    <2>2. PICK n \in Call(a, side, amt, nx, ny) : q = Answer(n) BY <1>3 DEF Quotes
    <2>3. amt \in U64 /\ nx \in U64 /\ ny \in U64 BY <1>1, NanoBound
    <2> HIDE DEF amt, nx, ny
    <2>4. m = n
        <3>1. CASE a.name = "normalizer" BY <3>1 DEF Call
        <3>2. CASE a.name # "normalizer"
            <4>1. a.storage \in Storages BY <3>2 DEF IsPool, SubAmms
            <4>2. /\ m \in SubReplies(side, amt, nx, ny, a.storage) \cap U64
                  /\ n \in SubReplies(side, amt, nx, ny, a.storage) \cap U64
                BY <3>2 DEF Call
            <4> QED BY <2>3, <4>1, <4>2 DEF PureSubmission
        <3> QED BY <3>1, <3>2
    <2> QED BY <2>1, <2>2, <2>4
<1> QED BY <1>2, <1>3

(* With one quote for a trade, the arbitrageur is paid what it planned. *)
LEMMA ArbPays ==
    ASSUME PureSubmission, NEW a, IsPool(a), Floored(a), NEW price \in Nat \ {0},
           NEW r \in ExecuteArb(a, price)
    PROVE  r.amm = a \/ Worth(r.amm, price) + MinArbProfit <= Worth(a, price)
<1>1. CASE r.amm = a BY <1>1
<1>2. CASE r.amm # a
    <2>1. PICK side \in Sides, input \in Nat : \E e \in Executions(a, side, input) :
             /\ e.amm = r.amm /\ e.out > 0
             /\ \E q \in Quotes(a, side, input) :
                   q > 0 /\ Profit(side, price, input, q) >= MinArbProfit
        BY <1>2, ArbEffect
    <2>2. PICK e \in Executions(a, side, input) :
             /\ e.amm = r.amm /\ e.out > 0
             /\ \E q \in Quotes(a, side, input) :
                   q > 0 /\ Profit(side, price, input, q) >= MinArbProfit
        BY <2>1
    <2>3. e.out \in Quotes(a, side, input) BY <1>2, <2>2, ExecutionEffect
    <2>4. Profit(side, price, input, e.out) >= MinArbProfit
        BY <2>2, <2>3, QuoteUnique
    <2>5. /\ e.out \in Nat /\ Worth(a, price) \in Int /\ Worth(e.amm, price) \in Int
          /\ Worth(e.amm, price) - Worth(a, price) = -Profit(side, price, input, e.out)
        BY <2>2, ExecutionWorth
    <2>6. Profit(side, price, input, e.out) \in Int
        <3>1. e.out * price \in Int /\ input * price \in Int BY <2>5
        <3> QED BY <2>5, <3>1 DEF Profit
    <2> QED BY <2>2, <2>4, <2>5, <2>6, ArbAssumption
<1> QED BY <1>1, <1>2

(* Against a submission that answers the same call the same way, the arbitrageur   *)
(* never trades below its threshold, on either pool.                              *)
THEOREM ArbProfitable == PureSubmission => (Spec => ArbTakesItsProfit)
<1> SUFFICES ASSUME PureSubmission PROVE Spec => ArbTakesItsProfit OBVIOUS
<1>1. IInv /\ [Next]_vars =>
         [(pc \in {"arb_sub", "arb_norm"}) => (Paid(sub, sub') /\ Paid(norm, norm'))]_vars
    <2> SUFFICES ASSUME IInv, Next, pc \in {"arb_sub", "arb_norm"}
                 PROVE  Paid(sub, sub') /\ Paid(norm, norm')
        OBVIOUS
    <2>1. TypeOK /\ Floored(sub) /\ Floored(norm) BY DEF IInv
    <2>2. CASE ArbSub
        BY <2>1, <2>2, StateFacts, ArbPays DEF ArbSub, Paid
    <2>3. CASE ArbNorm
        BY <2>1, <2>3, StateFacts, ArbPays DEF ArbNorm, Paid
    <2>5. CASE ShapePanic
        BY <2>5 DEF ShapePanic, Paid
    <2>4. ArbSub \/ ArbNorm \/ ShapePanic
        BY DEF Next, BeginStep, GenerateOrders, Split, LegSub, LegNorm, Account, NextOrder,
               EndStep, Finished
    <2> QED BY <2>2, <2>3, <2>4, <2>5
<1> QED BY <1>1, AlwaysInv, PTL DEF Spec, ArbTakesItsProfit

-----------------------------------------------------------------------------
(* The constant-product curve never pays the whole reserve. *)
LEMMA CurveKeepsSome ==
    ASSUME NEW amount \in Nat, NEW in \in Nat, NEW out \in Nat,
           NEW num \in Nat, NEW den \in Nat \ {0},
           CpOutput(amount, in, out, num, den) # 0
    PROVE  CpOutput(amount, in, out, num, den) < out
<1> DEFINE net == (amount * num) \div den
           kept == CeilDiv(out * in, in + net)
<1>1. in # 0 /\ out # 0 /\ CpOutput(amount, in, out, num, den) = SaturatingSub(out, kept)
    BY DEF CpOutput
<1>2. amount * num \in Nat OBVIOUS
<1>3. net \in Nat BY <1>2
<1>4. in + net \in Nat \ {0} BY <1>1, <1>3
<1>5. out * in \in Nat \ {0} BY <1>1
<1> HIDE DEF net
<1>6. kept \in Nat /\ kept >= 1
    <2> DEFINE a == out * in
               b == in + net
    <2>1. a \in Nat \ {0} /\ b \in Nat \ {0} BY <1>4, <1>5
    <2> HIDE DEF a, b
    <2>2. (a + b - 1) \div b \in Nat /\ (a + b - 1) \div b >= 1 BY <2>1
    <2> QED BY <2>2 DEF a, b, CeilDiv
<1> HIDE DEF kept
<1> QED BY <1>1, <1>6 DEF SaturatingSub

(* A trade that was quoted is executed at its quote, if the program is pure and   *)
(* never offers the whole reserve.                                               *)
LEMMA QuoteIsPaid ==
    ASSUME PureSubmission, SolventSubmission, NEW a, IsPool(a), Floored(a), NEW side \in Sides,
           NEW input \in Nat, NEW q \in LegQuotes(a, side, input),
           NEW r \in LegRuns(a, side, input, q)
    PROVE  r.out = q
<1>1. /\ a.reserve_x \in Nat /\ a.reserve_y \in Nat
      /\ OutReserve(a, side) \in Nat /\ OutReserve(a, side) > MinReserve
    BY DEF IsPool, NormAmms, SubAmms, OutReserve, Floored
<1>2. CASE ~(input > MinTrade)
    BY <1>2 DEF LegQuotes, LegRuns
<1>3. CASE input > MinTrade /\ q <= 0
    <2>1. q \in Quotes(a, side, input) BY <1>3 DEF LegQuotes
    <2>2. q \in 0 .. OutReserve(a, side) BY <2>1, QuoteType
    <2>3. r.out = 0 BY <1>1, <1>3, <2>2 DEF LegRuns
    <2> QED BY <1>1, <1>3, <2>2, <2>3
<1>4. CASE input > MinTrade /\ ~(q <= 0)
    <2>1. q \in Quotes(a, side, input) BY <1>4 DEF LegQuotes
    <2>2. q \in Nat /\ q > 0 BY <1>1, <1>4, <2>1, QuoteType
    <2>3. r \in Executions(a, side, input) BY <2>2, <1>4 DEF LegRuns
    <2> DEFINE amt == F64ToNano(input)
               nx == F64ToNano(a.reserve_x)
               ny == F64ToNano(a.reserve_y)
               nout == IF side = BUY_X THEN nx ELSE ny
    <2>4. PICK n \in Call(a, side, amt, nx, ny) : q = NanoToF64(n)
        BY <2>1, <2>2 DEF Quotes
    <2>5. /\ amt \in U64 /\ nx \in U64 /\ ny \in U64 /\ amt \in Nat /\ nx \in Nat /\ ny \in Nat
          /\ nout \in Nat /\ nout * Unit <= OutReserve(a, side)
        <3>1. /\ amt \in U64 /\ nx \in U64 /\ ny \in U64
              /\ amt \in Nat /\ nx \in Nat /\ ny \in Nat
              /\ nx * Unit <= a.reserve_x /\ ny * Unit <= a.reserve_y
            BY <1>1, NanoBound
        <3> HIDE DEF amt, nx, ny
        <3> QED BY <3>1 DEF OutReserve
    <2> HIDE DEF amt, nx, ny
    <2>6. n \in Nat /\ n # 0
        <3>1. n \in Nat BY <2>4, <2>5, CallType
        <3> QED BY <2>2, <2>4, <3>1, AmountAssumption DEF NanoToF64
    <2>7. n < nout
        <3>1. CASE a.name = "normalizer"
            <4>1. a.storage \in 0 .. BPS - 1 BY <3>1 DEF IsPool, NormAmms
            <4>2. BPS - NormalizerFee(a.storage) \in Nat /\ BPS \in Nat \ {0}
                BY <4>1, FeeAssumption DEF NormalizerFee, StorageFee
            <4>3. n = NormalizerSwap(side, amt, nx, ny, a.storage) BY <2>4, <3>1 DEF Call
            <4>4. CASE side = BUY_X
                <5>1. n = CpOutput(amt, ny, nx, BPS - NormalizerFee(a.storage), BPS)
                    BY <4>3, <4>4 DEF NormalizerSwap
                <5> QED BY <2>5, <2>6, <4>2, <4>4, <5>1, CurveKeepsSome
            <4>5. CASE side # BUY_X
                <5>1. n = CpOutput(amt, nx, ny, BPS - NormalizerFee(a.storage), BPS)
                    BY <4>3, <4>5 DEF NormalizerSwap
                <5> QED BY <2>5, <2>6, <4>2, <4>5, <5>1, CurveKeepsSome
            <4> QED BY <4>4, <4>5
        <3>2. CASE a.name # "normalizer"
            <4>1. a.storage \in Storages BY <3>2 DEF IsPool, SubAmms
            <4>2. n \in SubReplies(side, amt, nx, ny, a.storage) \cap U64
                BY <2>4, <3>2 DEF Call
            <4> QED BY <2>5, <2>6, <4>1, <4>2 DEF SolventSubmission
        <3> QED BY <3>1, <3>2
    <2> HIDE DEF nout
    <2>8. q + Unit <= OutReserve(a, side)
        <3>1. n + 1 <= nout BY <2>5, <2>6, <2>7
        <3>2. (n + 1) * Unit <= nout * Unit BY <2>5, <2>6, <3>1, AmountAssumption, Pool!MulMono
        <3>3. (n + 1) * Unit = n * Unit + Unit BY <2>6, AmountAssumption
        <3>4. n * Unit \in Nat /\ nout * Unit \in Nat BY <2>5, <2>6, AmountAssumption
        <3> QED BY <1>1, <2>4, <2>5, <3>2, <3>3, <3>4, AmountAssumption DEF NanoToF64
    <2>9. Accepts(a, side, input, q)
        <3>1. OutReserve(a, side) - q > MinReserve /\ MinReserve \in Nat
            BY <1>1, <2>2, <2>8, AmountAssumption, ReserveAssumption
        <3>2. input > 0 /\ q > 0 /\ q < OutReserve(a, side)
            BY <1>1, <1>4, <2>2, <2>8, AmountAssumption, TradeAssumption
        <3>3. Floored(Moved(a, side, input, q))
            <4>1. CASE side = BUY_X
                <5>1. /\ Moved(a, side, input, q).reserve_x = a.reserve_x - q
                      /\ Moved(a, side, input, q).reserve_y = a.reserve_y + input
                    BY <4>1 DEF Moved, IsPool, SubAmms, NormAmms
                <5> QED BY <1>1, <3>1, <4>1, <5>1 DEF Floored, OutReserve
            <4>2. CASE side # BUY_X
                <5>1. /\ Moved(a, side, input, q).reserve_x = a.reserve_x + input
                      /\ Moved(a, side, input, q).reserve_y = a.reserve_y - q
                    BY <4>2 DEF Moved, IsPool, SubAmms, NormAmms
                <5> QED BY <1>1, <3>1, <4>2, <5>1 DEF Floored, OutReserve
            <4> QED BY <4>1, <4>2
        <3> QED BY <3>2, <3>3 DEF Accepts
    <2>10. PICK p \in Quotes(a, side, input) :
              r \in IF Accepts(a, side, input, p)
                    THEN {[amm |-> b, out |-> p] :
                             b \in AfterSwap(Moved(a, side, input, p), side, input, p)}
                    ELSE {[amm |-> a, out |-> 0]}
        BY <2>3 DEF Executions
    <2>11. p = q BY <2>1, QuoteUnique
    <2> QED BY <2>9, <2>10, <2>11
<1> QED BY <1>1, <1>2, <1>3, <1>4, TradeAssumption

(* What the router knows of the order it is routing: the split it chose beats both *)
(* ends, the legs not yet executed are still quoted at the split's outputs, and     *)
(* the trader has received those of the legs that were.                            *)
Promise ==
    LET side == Side(Head(orders))
    IN  /\ pc \in {"leg_sub", "leg_norm", "account"} =>
              /\ QuoteScore(best) >= QuoteScore(ends[1])
              /\ QuoteScore(best) >= QuoteScore(ends[2])
        /\ pc = "leg_sub" =>
              got = 0 /\ best.out_sub \in LegQuotes(sub, side, best.in_sub)
        /\ pc \in {"leg_sub", "leg_norm"} =>
              best.out_norm \in LegQuotes(norm, side, best.in_norm)
        /\ pc = "leg_norm" => got = best.out_sub
        /\ pc = "account" => got = QuoteScore(best)

(* The chosen split's quotes are quotes of the pools as they are, and no worse than the ends'. *)
LEMMA PromiseMade ==
    ASSUME IInv, Split
    PROVE  Promise'
<1> DEFINE side == Side(Head(orders))
           total == Total(Head(orders))
           At(i) == SplitQuotes(sub, norm, side, total, i)
<1>1. TypeOK BY DEF IInv
<1>2. PICK l \in At(0), r \in At(total), m \in UNION {At(i) : i \in 0 .. total} :
         best' = BestQuote(BestQuote(l, r), m) /\ ends' = <<l, r>>
    BY Zenon DEF Split
<1>3. PICK i \in 0 .. total : m \in At(i) OBVIOUS
<1>4. side \in Sides /\ total \in Nat
    <2>1. Head(orders) \in Orders BY <1>1, HeadTailProperties DEF TypeOK, Split
    <2> QED BY <1>1, <2>1, StateFacts, OrderTotal DEF Total
<1>5. /\ pc' = "leg_sub" /\ got' = 0 /\ sub' = sub /\ norm' = norm
      /\ Side(Head(orders))' = side
    BY DEF Split, Side
<1> HIDE DEF side, total
<1>6. 0 \in 0 .. total /\ total \in 0 .. total BY <1>4
<1>7. \A p \in {l, r, m} :
         /\ p \in Points
         /\ p.out_sub \in LegQuotes(sub, side, p.in_sub)
         /\ p.out_norm \in LegQuotes(norm, side, p.in_norm)
    BY <1>1, <1>3, <1>4, <1>6, StateFacts, SplitPoint
<1>8. best' \in {l, r, m} BY <1>2 DEF BestQuote
<1>9. QuoteScore(l) \in Nat /\ QuoteScore(r) \in Nat /\ QuoteScore(m) \in Nat
    BY <1>7 DEF Points, QuoteScore
<1>10. QuoteScore(best') >= QuoteScore(l) /\ QuoteScore(best') >= QuoteScore(r)
    BY <1>2, <1>9 DEF BestQuote
<1>11. ends'[1] = l /\ ends'[2] = r BY <1>2
<1> QED BY <1>5, <1>7, <1>8, <1>10, <1>11 DEF Promise

(* Each leg pays its quote, and leaves the other leg's quote as it was. *)
LEMMA PromiseKept ==
    ASSUME PureSubmission, SolventSubmission, IInv, Promise, [Next]_vars
    PROVE  Promise'
<1> DEFINE side == Side(Head(orders))
<1>1. TypeOK /\ Floored(sub) /\ Floored(norm) BY DEF IInv
<1>2. pc \in {"leg_sub", "leg_norm"} => side \in Sides
    <2>1. ASSUME pc \in {"leg_sub", "leg_norm"} PROVE Head(orders) \in Orders
        BY <1>1, <2>1, HeadTailProperties DEF IInv, InLoop, TypeOK
    <2> QED BY <1>1, <2>1, StateFacts, OrderTotal
<1>3. best \in Points BY <1>1 DEF TypeOK
<1>4. CASE LegSub
    <2>1. PICK r \in LegRuns(sub, side, best.in_sub, best.out_sub) : got' = got + r.out
        BY <1>4 DEF LegSub
    <2>2. /\ pc = "leg_sub" /\ pc' = "leg_norm" /\ norm' = norm /\ best' = best /\ ends' = ends
          /\ Side(Head(orders))' = side
        BY <1>4 DEF LegSub, Side
    <2>3. best.out_sub \in LegQuotes(sub, side, best.in_sub) /\ got = 0 BY <2>2 DEF Promise
    <2>4. best.in_sub \in Nat /\ best.out_sub \in Nat BY <1>3 DEF Points
    <2>5. side \in Sides BY <1>2, <2>2
    <2> HIDE DEF side
    <2>6. r.out = best.out_sub BY <1>1, <2>1, <2>3, <2>4, <2>5, StateFacts, QuoteIsPaid
    <2>7. got' = best.out_sub BY <2>1, <2>3, <2>4, <2>6
    <2> QED BY <2>2, <2>7 DEF Promise, side
<1>5. CASE LegNorm
    <2>1. PICK r \in LegRuns(norm, side, best.in_norm, best.out_norm) : got' = got + r.out
        BY <1>5 DEF LegNorm
    <2>2. /\ pc = "leg_norm" /\ pc' = "account" /\ best' = best /\ ends' = ends
        BY <1>5 DEF LegNorm
    <2>3. best.out_norm \in LegQuotes(norm, side, best.in_norm) /\ got = best.out_sub
        BY <2>2 DEF Promise
    <2>4. best.in_norm \in Nat /\ best.out_norm \in Nat BY <1>3 DEF Points
    <2>5. side \in Sides BY <1>2, <2>2
    <2> HIDE DEF side
    <2>6. r.out = best.out_norm BY <1>1, <2>1, <2>3, <2>4, <2>5, StateFacts, QuoteIsPaid
    <2>7. got' = QuoteScore(best) BY <2>1, <2>3, <2>6 DEF QuoteScore
    <2> QED BY <2>2, <2>7 DEF Promise
<1>6. CASE Split BY <1>6, PromiseMade
<1>7. CASE UNCHANGED vars BY <1>7 DEF vars, Promise
<1>8. CASE Account BY <1>8 DEF Account, Promise
<1>9. CASE BeginStep \/ ArbSub \/ ArbNorm \/ GenerateOrders \/ NextOrder \/ EndStep \/ ShapePanic
    <2>1. pc' \notin {"leg_sub", "leg_norm", "account"}
        BY <1>9 DEF BeginStep, ArbSub, ArbNorm, GenerateOrders, NextOrder, EndStep,
               ShapePanic
    <2> QED BY <2>1 DEF Promise
<1> QED BY <1>4, <1>5, <1>6, <1>7, <1>8, <1>9 DEF Next, Finished

(* Against a submission that answers the same call the same way and never offers   *)
(* its whole reserve, the trader of every order gets exactly what the chosen split  *)
(* promised, whatever the submission's hook did after its own leg, and no less than  *)
(* either pool alone had quoted.                                                   *)
THEOREM RouterKeepsItsPromise ==
    PureSubmission /\ SolventSubmission => (Spec => []RouterDelivers)
<1> SUFFICES ASSUME PureSubmission, SolventSubmission PROVE Spec => []RouterDelivers OBVIOUS
<1>1. Init => Promise BY DEF Init, Promise
<1>2. IInv /\ Promise /\ [Next]_vars => Promise' BY PromiseKept
<1>3. Promise => RouterDelivers BY DEF Promise, RouterDelivers
<1> QED BY <1>1, <1>2, <1>3, AlwaysInv, PTL DEF Spec
-----------------------------------------------------------------------------
(* The engine's pools run the same programs and the same executions as module Amm's. *)
LEMMA SameExecutions ==
    ASSUME NEW a, NEW side, NEW input
    PROVE  SubPool!Executions(a, side, input) = Executions(a, side, input)
BY DEF Executions, Accepts, Floored, Moved, OutReserve, AfterSwap, CallAfterSwap, Quotes, Call,
       F64ToNano, NanoToF64, NormalizerSwap, NormalizerFee, StorageFee, CpOutput, CeilDiv,
       SaturatingSub, BUY_X, SELL_X, U64, SubPool!Executions, SubPool!Accepts, SubPool!Floored,
       SubPool!Moved, SubPool!OutReserve, SubPool!AfterSwap, SubPool!CallAfterSwap,
       SubPool!Quotes, SubPool!Call, SubPool!F64ToNano, SubPool!NanoToF64,
       SubPool!NormalizerSwap, SubPool!NormalizerFee, SubPool!StorageFee, SubPool!CpOutput,
       SubPool!CeilDiv, SubPool!SaturatingSub, SubPool!BUY_X, SubPool!SELL_X, SubPool!U64

LEMMA SameNormExecutions ==
    ASSUME NEW a, NEW side, NEW input
    PROVE  NormPool!Executions(a, side, input) = Executions(a, side, input)
BY DEF Executions, Accepts, Floored, Moved, OutReserve, AfterSwap, CallAfterSwap, Quotes, Call,
       F64ToNano, NanoToF64, NormalizerSwap, NormalizerFee, StorageFee, CpOutput, CeilDiv,
       SaturatingSub, BUY_X, SELL_X, U64, NormPool!Executions, NormPool!Accepts,
       NormPool!Floored, NormPool!Moved, NormPool!OutReserve, NormPool!AfterSwap,
       NormPool!CallAfterSwap, NormPool!Quotes, NormPool!Call, NormPool!F64ToNano,
       NormPool!NanoToF64, NormPool!NormalizerSwap, NormPool!NormalizerFee, NormPool!StorageFee,
       NormPool!CpOutput, NormPool!CeilDiv, NormPool!SaturatingSub, NormPool!BUY_X,
       NormPool!SELL_X, NormPool!U64

(* Every step of a simulation is a call of the submission's pool, or leaves it alone. *)
LEMMA SubPoolStep ==
    ASSUME Amounts = Nat, IInv, [Next]_vars
    PROVE  [SubPool!Next]_sub
<1>1. TypeOK /\ Floored(sub) BY DEF IInv
<1>2. IsPool(sub) /\ fair \in Nat \ {0} BY <1>1, StateFacts
<1>3. ASSUME NEW side \in Sides, NEW input \in Nat,
             \E e \in Executions(sub, side, input) : e.amm = sub'
      PROVE  SubPool!Next
    <2>1. SubPool!Trade(side, input) BY <1>3, SameExecutions DEF SubPool!Trade
    <2>2. side \in SubPool!Sides
        BY DEF Sides, BUY_X, SELL_X, SubPool!Sides, SubPool!BUY_X, SubPool!SELL_X
    <2> QED BY <2>1, <2>2 DEF SubPool!Next
<1>4. CASE BeginStep
    <2>1. step \in 0 .. NSteps /\ sub' = [sub EXCEPT !.current_step = step]
        BY <1>1, <1>4 DEF BeginStep, TypeOK
    <2> QED BY <2>1 DEF SubPool!Next, SubPool!SetCurrentStep
<1>5. CASE ArbSub
    <2>1. PICK r \in ExecuteArb(sub, fair) : sub' = r.amm BY <1>5 DEF ArbSub
    <2>2. \/ sub' = sub
          \/ \E side \in Sides, input \in Nat : \E e \in Executions(sub, side, input) : e.amm = sub'
        BY <1>1, <1>2, <2>1, ArbEffect
    <2> QED BY <1>3, <2>2
<1>6. CASE LegSub
    <2> DEFINE side == Side(Head(orders))
    <2>1. PICK r \in LegRuns(sub, side, best.in_sub, best.out_sub) : sub' = r.amm
        BY <1>6 DEF LegSub
    <2>2. side \in Sides /\ best.in_sub \in Nat
        <3>1. orders # <<>> BY <1>6 DEF IInv, InLoop, LegSub
        <3>2. Head(orders) \in Orders BY <1>1, <3>1, HeadTailProperties DEF TypeOK
        <3> QED BY <1>1, <1>2, <3>2, OrderTotal DEF TypeOK, Points
    <2> HIDE DEF side
    <2>3. sub' = sub \/ \E e \in Executions(sub, side, best.in_sub) : e.amm = sub'
        BY <2>1 DEF LegRuns
    <2> QED BY <1>3, <2>2, <2>3
<1>7. UNCHANGED sub \/ BeginStep \/ ArbSub \/ LegSub
    BY DEF Next, vars, ArbNorm, GenerateOrders, Split, LegNorm, Account, NextOrder, EndStep,
           ShapePanic, Finished
<1> QED BY <1>4, <1>5, <1>6, <1>7

(* Every step of a simulation is a call of the normalizer's pool, or leaves it alone. *)
LEMMA NormPoolStep ==
    ASSUME Amounts = Nat, IInv, [Next]_vars
    PROVE  [NormPool!Next]_norm
<1>1. TypeOK /\ Floored(norm) BY DEF IInv
<1>2. IsPool(norm) /\ fair \in Nat \ {0} BY <1>1, StateFacts
<1>3. ASSUME NEW side \in Sides, NEW input \in Nat,
             \E e \in Executions(norm, side, input) : e.amm = norm'
      PROVE  NormPool!Next
    <2>1. NormPool!Trade(side, input) BY <1>3, SameNormExecutions DEF NormPool!Trade
    <2>2. side \in NormPool!Sides
        BY DEF Sides, BUY_X, SELL_X, NormPool!Sides, NormPool!BUY_X, NormPool!SELL_X
    <2> QED BY <2>1, <2>2 DEF NormPool!Next
<1>4. CASE BeginStep
    <2>1. step \in 0 .. NSteps /\ norm' = [norm EXCEPT !.current_step = step]
        BY <1>1, <1>4 DEF BeginStep, TypeOK
    <2> QED BY <2>1 DEF NormPool!Next, NormPool!SetCurrentStep
<1>5. CASE ArbNorm
    <2>1. PICK r \in ExecuteArb(norm, fair) : norm' = r.amm BY <1>5 DEF ArbNorm
    <2>2. \/ norm' = norm
          \/ \E side \in Sides, input \in Nat : \E e \in Executions(norm, side, input) : e.amm = norm'
        BY <1>1, <1>2, <2>1, ArbEffect
    <2> QED BY <1>3, <2>2
<1>6. CASE LegNorm
    <2> DEFINE side == Side(Head(orders))
    <2>1. PICK r \in LegRuns(norm, side, best.in_norm, best.out_norm) : norm' = r.amm
        BY <1>6 DEF LegNorm
    <2>2. side \in Sides /\ best.in_norm \in Nat
        <3>1. orders # <<>> BY <1>6 DEF IInv, InLoop, LegNorm
        <3>2. Head(orders) \in Orders BY <1>1, <3>1, HeadTailProperties DEF TypeOK
        <3> QED BY <1>1, <1>2, <3>2, OrderTotal DEF TypeOK, Points
    <2> HIDE DEF side
    <2>3. norm' = norm \/ \E e \in Executions(norm, side, best.in_norm) : e.amm = norm'
        BY <2>1 DEF LegRuns
    <2> QED BY <1>3, <2>2, <2>3
<1>7. UNCHANGED norm \/ BeginStep \/ ArbNorm \/ LegNorm
    BY DEF Next, vars, ArbSub, GenerateOrders, Split, LegSub, Account, NextOrder, EndStep,
           ShapePanic, Finished
<1> QED BY <1>4, <1>5, <1>6, <1>7

(* A simulation's two pools are pools as module Amm describes them: although their  *)
(* reserves are public fields, the engine, the arbitrageur and the router change them *)
(* only through the methods of BpfAmm, for every submission, price path and order      *)
(* flow.  So what is proved of module Amm holds of the pools of every simulation.        *)
THEOREM SimulationRefinesAmm ==
    ASSUME Amounts = Nat
    PROVE  Spec => SubPoolIsAmm /\ NormPoolIsAmm
<1>1. Init => SubPool!Init /\ NormPool!Init
    BY DEF Init, SubPool!Init, NormPool!Init
<1>2. IInv /\ [Next]_vars => [SubPool!Next]_sub /\ [NormPool!Next]_norm
    BY SubPoolStep, NormPoolStep
<1> QED
    BY <1>1, <1>2, AlwaysInv, PTL
    DEF Spec, SubPoolIsAmm, NormPoolIsAmm, SubPool!Spec, NormPool!Spec

-----------------------------------------------------------------------------
(* The arithmetic of the closed form, in nanos.  A pool holds I nanos of what is   *)
(* paid in and O of what is paid out; a trade pays A nanos in, of which N count     *)
(* after the fee (k of B are kept) and receives q; w and c are what a unit of the    *)
(* output and of the input are worth at the fair price, i, o and t the reserves and  *)
(* the target in quanta, U quanta to a nano.                                        *)

(* A product with a natural number keeps the order. *)
LEMMA MulMono ==
    ASSUME NEW a \in Int, NEW b \in Int, NEW c \in Nat, a <= b
    PROVE  a * c <= b * c
OBVIOUS

(* ... and one with a positive number reflects it. *)
LEMMA Cancel ==
    ASSUME NEW a \in Int, NEW b \in Int, NEW c \in Nat \ {0}, a * c <= b * c
    PROVE  a <= b
<1> SUFFICES ASSUME b + 1 <= a PROVE FALSE OBVIOUS
<1>1. (b + 1) * c <= a * c BY MulMono
<1>2. (b + 1) * c = b * c + c OBVIOUS
<1> QED BY <1>1, <1>2

(* What the integer quotient leaves is less than the divisor. *)
LEMMA Quotient ==
    ASSUME NEW n \in Nat, NEW d \in Nat \ {0}
    PROVE  n \div d \in Nat /\ (n \div d) * d <= n /\ n < (n \div d) * d + d
OBVIOUS

(* The program's answer q to A nanos, of which N count, is the most that leaves the *)
(* product of the reserves where it was: within one nano on either side.            *)
LEMMA CurveBounds ==
    ASSUME NEW A \in Nat, NEW I \in Nat \ {0}, NEW O \in Nat \ {0},
           NEW k \in Nat, NEW B \in Nat \ {0}
    PROVE  LET N == (A * k) \div B
               q == CpOutput(A, I, O, k, B)
           IN  /\ N \in Nat /\ N * B <= A * k /\ A * k < N * B + B
               /\ q \in Nat /\ q < O
               /\ (O - q) * (I + N) >= O * I
               /\ (O - q) * (I + N) < O * I + I + N
<1> DEFINE N == (A * k) \div B
           v == I + N
           R == (O * I + v - 1) \div v
<1>1. N \in Nat /\ N * B <= A * k /\ A * k < N * B + B
    BY Quotient
<1> HIDE DEF N
<1>2. v \in Nat \ {0} /\ O * I \in Nat
    BY <1>1
<1> HIDE DEF v
<1>3. R \in Nat /\ R * v <= O * I + v - 1 /\ O * I + v - 1 < R * v + v
    BY <1>2, Quotient
<1> HIDE DEF R
<1>4. R * v >= O * I
    <2>1. R * v \in Nat BY <1>2, <1>3
    <2> QED BY <1>2, <1>3, <2>1
<1>5. R <= O
    <2>1. O * I <= O * v
        BY <1>1 DEF v
    <2>2. R * v < (O + 1) * v
        BY <1>2, <1>3, <2>1
    <2> QED BY <1>2, <1>3, <2>2, Cancel
<1>6. R >= 1
    <2>1. O * I >= 1 BY <1>2
    <2> QED BY <1>2, <1>3, <1>4, <2>1
<1>7. CpOutput(A, I, O, k, B) = O - R
    BY <1>3, <1>5 DEF CpOutput, SaturatingSub, CeilDiv, R, v, N
<1> QED
    BY <1>1, <1>2, <1>3, <1>4, <1>5, <1>6, <1>7 DEF v, N

(* What a trade earns at the fair price is bounded by what the part of it that counts *)
(* earns on the way from the marginal price before it.                                *)
LEMMA Overpaid ==
    ASSUME NEW A \in Nat, NEW I \in Nat \ {0}, NEW O \in Nat \ {0},
           NEW k \in Nat \ {0}, NEW B \in Nat \ {0}, NEW w \in Nat, NEW c \in Nat,
           NEW N \in Nat, N * B <= A * k,
           NEW q \in Nat, (O - q) * (I + N) >= O * I
    PROVE  k * (I + N) * (w * q - c * A) <= N * (k * w * O - B * c * (I + N))
<1> DEFINE v == I + N
<1>1. q * v <= O * N
    <2>1. (O - q) * v = O * v - q * v /\ O * v = O * I + O * N
        OBVIOUS
    <2> QED BY <2>1
<1>2. (q * v) * (k * w) <= (O * N) * (k * w)
    <2>1. q * v \in Int /\ O * N \in Int /\ k * w \in Nat OBVIOUS
    <2> QED BY <1>1, <2>1, MulMono
<1>3. (N * B) * (c * v) <= (A * k) * (c * v)
    <2>1. N * B \in Int /\ A * k \in Int /\ c * v \in Nat OBVIOUS
    <2> QED BY <2>1, MulMono
<1>4. k * v * (w * q - c * A) = (q * v) * (k * w) - (A * k) * (c * v)
    <2> HIDE DEF v
    <2> v \in Nat BY DEF v
    <2> QED OBVIOUS
<1>5. N * (k * w * O - B * c * v) = (O * N) * (k * w) - (N * B) * (c * v)
    <2> HIDE DEF v
    <2> v \in Nat BY DEF v
    <2> QED OBVIOUS
<1> HIDE DEF v
<1>6. /\ (q * v) * (k * w) \in Int /\ (O * N) * (k * w) \in Int
      /\ (N * B) * (c * v) \in Int /\ (A * k) * (c * v) \in Int
    BY DEF v
<1>7. k * v * (w * q - c * A) <= N * (k * w * O - B * c * v)
    BY <1>2, <1>3, <1>4, <1>5, <1>6
<1> QED BY <1>7 DEF v

(* Past the fair price every trade loses. *)
LEMMA NoLoss ==
    ASSUME NEW A \in Nat, NEW I \in Nat \ {0}, NEW O \in Nat \ {0},
           NEW k \in Nat \ {0}, NEW B \in Nat \ {0}, NEW w \in Nat, NEW c \in Nat,
           NEW N \in Nat, N * B <= A * k,
           NEW q \in Nat, (O - q) * (I + N) >= O * I,
           k * w * O <= B * c * I
    PROVE  w * q <= c * A
<1>1. k * (I + N) * (w * q - c * A) <= N * (k * w * O - B * c * (I + N))
    BY Overpaid
<1>2. N * (k * w * O - B * c * (I + N)) <= 0
    <2>1. B * c * (I + N) = B * c * I + B * c * N /\ B * c * N \in Nat /\ k * w * O \in Nat
          /\ B * c * I \in Nat
        OBVIOUS
    <2>2. k * w * O - B * c * (I + N) <= 0 BY <2>1
    <2> DEFINE d == k * w * O - B * c * (I + N)
    <2>3. d \in Int /\ d <= 0 BY <2>2
    <2> HIDE DEF d
    <2>4. N * d <= 0 BY <2>3
    <2> QED BY <2>4 DEF d
<1>3. k * (I + N) \in Nat \ {0} /\ w * q - c * A \in Int OBVIOUS
<1> DEFINE m == k * (I + N)
           z == w * q - c * A
<1>4. m * z <= 0 BY <1>1, <1>2, <1>3
<1>5. m \in Nat \ {0} /\ z \in Int BY <1>3
<1> HIDE DEF m, z
<1>6. z <= 0 BY <1>4, <1>5
<1> QED BY <1>6 DEF z

(* Within a few nanos of the fair price no trade earns more than truncation hides. *)
LEMMA LittleLeft ==
    ASSUME NEW A \in Nat, NEW I \in Nat \ {0}, NEW O \in Nat \ {0},
           NEW k \in Nat \ {0}, NEW B \in Nat \ {0}, NEW w \in Nat \ {0}, NEW c \in Nat \ {0},
           NEW N \in Nat, N * B <= A * k,
           NEW q \in Nat, (O - q) * (I + N) >= O * I,
           9 * B <= 10 * k, I >= 30, I >= w,
           k * w * O <= B * c * I + B * (7 * c + w)
    PROVE  w * q - c * A < w + 3 * c
<1> DEFINE v == I + N
           e == 7 * c + w
           f == w + 3 * c
           D == k * w * O
           Z == w * q - c * A
<1>0. /\ v \in Nat /\ e \in Nat /\ f \in Nat /\ D \in Nat /\ Z \in Int OBVIOUS
<1> SUFFICES ASSUME f <= Z PROVE FALSE BY <1>0
<1>1. (k * v) * Z <= N * (D - B * c * v)
    BY Overpaid
<1>2. N * (D - B * c * v) <= B * (N * (e - c * N))
    <2>1. B * c * v = B * c * I + B * (c * N) /\ B * c * I \in Nat /\ B * (c * N) \in Nat OBVIOUS
    <2>2. D - B * c * v <= B * e - B * (c * N)
        BY <2>1, <1>0
    <2>3. (D - B * c * v) * N <= (B * e - B * (c * N)) * N
        <3>1. D - B * c * v \in Int /\ B * e - B * (c * N) \in Int BY <1>0
        <3> QED BY <2>2, <3>1, MulMono
    <2> HIDE DEF e, D, v
    <2>4. (D - B * c * v) * N = N * (D - B * c * v) BY <1>0
    <2>5. (B * e - B * (c * N)) * N = B * (N * (e - c * N)) BY <1>0
    <2> QED BY <2>3, <2>4, <2>5
<1> HIDE DEF e, f, D, Z
<1>3. (k * v) * f <= B * (N * (e - c * N))
    <2>1. k * v \in Nat /\ (k * v) * f \in Nat BY <1>0
    <2>2. f * (k * v) <= Z * (k * v) BY <1>0, <2>1, MulMono
    <2>3. f * (k * v) = (k * v) * f /\ Z * (k * v) = (k * v) * Z BY <1>0, <2>1
    <2>4. N * (D - B * c * v) \in Int /\ B * (N * (e - c * N)) \in Int /\ (k * v) * Z \in Int BY <1>0
    <2> QED BY <1>1, <1>2, <2>1, <2>2, <2>3, <2>4
<1>4. 4 * c * (N * (e - c * N)) <= e * e
    <2>1. e * e - 4 * c * (N * (e - c * N)) = (e - 2 * (c * N)) * (e - 2 * (c * N))
        BY <1>0
    <2>2. \A x \in Int : x * x >= 0 OBVIOUS
    <2>3. e - 2 * (c * N) \in Int BY <1>0
    <2>4. (e - 2 * (c * N)) * (e - 2 * (c * N)) >= 0 BY <2>2, <2>3
    <2>5. e * e \in Int /\ 4 * c * (N * (e - c * N)) \in Int BY <1>0
    <2> QED BY <2>1, <2>4, <2>5
<1>5. 9 * (v * f) <= 10 * (N * (e - c * N))
    <2> DEFINE x == v * f
               y == N * (e - c * N)
    <2>1. x \in Nat /\ y \in Int BY <1>0
    <2>2. (k * v) * f = k * x BY <1>0
    <2>3. k * x <= B * y BY <1>3, <2>2
    <2> HIDE DEF x, y
    <2>4. (9 * B) * x <= (10 * k) * x BY <2>1, MulMono
    <2>5. (9 * x) * B <= (10 * y) * B
        <3>1. (9 * x) * B = (9 * B) * x /\ (10 * k) * x = 10 * (k * x) /\ (10 * y) * B = 10 * (B * y)
              /\ k * x \in Int /\ B * y \in Int /\ (9 * B) * x \in Int /\ (10 * k) * x \in Int
              /\ (9 * x) * B \in Int /\ (10 * y) * B \in Int
            BY <2>1
        <3> QED BY <2>3, <2>4, <3>1
    <2>6. 9 * x <= 10 * y BY <2>1, <2>5, Cancel
    <2> QED BY <2>6 DEF x, y
<1>6. 36 * (c * (v * f)) <= 10 * (e * e)
    <2> DEFINE x == v * f
               y == N * (e - c * N)
    <2>1. x \in Nat /\ y \in Int /\ e * e \in Int BY <1>0
    <2>2. 9 * x <= 10 * y /\ 4 * c * y <= e * e BY <1>4, <1>5
    <2> HIDE DEF x, y
    <2>3. (9 * x) * (4 * c) <= (10 * y) * (4 * c)
        <3>1. 9 * x \in Int /\ 10 * y \in Int /\ 4 * c \in Nat BY <2>1
        <3> QED BY <2>2, <3>1, MulMono
    <2>4. (9 * x) * (4 * c) = 36 * (c * x) /\ (10 * y) * (4 * c) = 10 * (4 * c * y)
        BY <2>1
    <2>5. c * x \in Int /\ 4 * c * y \in Int BY <2>1
    <2>6. 36 * (c * x) <= 10 * (e * e) BY <2>1, <2>2, <2>3, <2>4, <2>5
    <2> QED BY <2>6 DEF x
<1>7. 36 * v >= 600 + 16 * w
    BY DEF v
<1>8. (600 + 16 * w) * (c * f) <= (36 * v) * (c * f)
    <2>1. 600 + 16 * w \in Int /\ 36 * v \in Int /\ c * f \in Nat BY <1>0
    <2> QED BY <1>7, <2>1, MulMono
<1>9. (36 * v) * (c * f) = 36 * (c * (v * f))
    <2> HIDE DEF v
    <2> QED BY <1>0
<1>10. (600 + 16 * w) * (c * f) > 10 * (e * e)
    <2>1. (600 + 16 * w) * (c * f) = 600 * (c * w) + 1800 * (c * c) + 16 * (c * w * w) + 48 * (c * c * w)
        BY DEF f
    <2>2. 10 * (e * e) = 490 * (c * c) + 140 * (c * w) + 10 * (w * w)
        BY DEF e
    <2>3. w * w <= c * w * w
        <3>1. w * w \in Nat OBVIOUS
        <3>2. 1 * (w * w) <= c * (w * w) BY <3>1, MulMono
        <3>3. c * (w * w) = c * w * w OBVIOUS
        <3> QED BY <3>1, <3>2, <3>3
    <2>4. c * c > 0 /\ c * w > 0 /\ w * w > 0 /\ c * c * w > 0 /\ c * c \in Nat /\ c * w \in Nat /\ w * w \in Nat
          /\ c * w * w \in Nat /\ c * c * w \in Nat
        OBVIOUS
    <2> QED BY <2>1, <2>2, <2>3, <2>4
<1> QED
    <2>1. (600 + 16 * w) * (c * f) \in Int /\ (36 * v) * (c * f) \in Int /\ e * e \in Int BY <1>0
    <2> QED BY <1>6, <1>8, <1>9, <1>10, <2>1

(* A parabola is below its vertex. *)
LEMMA Vertex ==
    ASSUME NEW g \in Int, NEW h \in Int, NEW e \in Int
    PROVE  4 * g * (h * (e - g * h)) <= e * e
<1>1. e * e - 4 * g * (h * (e - g * h)) = (e - 2 * (g * h)) * (e - 2 * (g * h))
    OBVIOUS
<1>2. \A x \in Int : x * x >= 0 OBVIOUS
<1>3. e - 2 * (g * h) \in Int OBVIOUS
<1>4. (e - 2 * (g * h)) * (e - 2 * (g * h)) >= 0 BY <1>2, <1>3
<1>5. e * e \in Int /\ 4 * g * (h * (e - g * h)) \in Int OBVIOUS
<1> QED BY <1>1, <1>4, <1>5

(* What the planned trade earns at least: a nano less of output, one more of input. *)
LEMMA AtLeast ==
    ASSUME NEW U \in Nat \ {0}, NEW a \in Nat, NEW A \in Nat, a < U * A + U,
           NEW I \in Nat \ {0}, NEW O \in Nat \ {0},
           NEW k \in Nat \ {0}, NEW B \in Nat \ {0}, NEW w \in Nat \ {0}, NEW c \in Nat \ {0},
           NEW M \in Nat, A * k < M * B + B,
           NEW q \in Nat, (O - q) * (I + M) < O * I + I + M
    PROVE  U * (M * (k * w * O - B * c * (I + M)) - (I + M) * (k * w + c * B + c * k))
              <= k * (I + M) * (U * w * q - c * a)
<1> DEFINE v == I + M
<1>0. v \in Nat \ {0} OBVIOUS
<1>1. O * M - v <= q * v
    <2>1. (O - q) * v = O * v - q * v /\ O * v = O * I + O * M
        OBVIOUS
    <2>2. O * v \in Int /\ q * v \in Int /\ O * I \in Int /\ O * M \in Int OBVIOUS
    <2> QED BY <2>1, <2>2
<1>2. a * k <= U * (M * B + B + k)
    <2>1. a * k <= (U * A + U) * k BY MulMono
    <2>2. (U * A + U) * k = (A * k + k) * U OBVIOUS
    <2>3. (A * k + k) * U <= (M * B + B + k) * U
        <3>1. A * k + k <= M * B + B + k /\ A * k + k \in Int /\ M * B + B + k \in Int OBVIOUS
        <3> QED BY <3>1, MulMono
    <2>4. (M * B + B + k) * U = U * (M * B + B + k) OBVIOUS
    <2>5. a * k \in Int /\ (U * A + U) * k \in Int /\ (A * k + k) * U \in Int /\ (M * B + B + k) * U \in Int OBVIOUS
    <2> QED BY <2>1, <2>2, <2>3, <2>4, <2>5
<1> HIDE DEF v
<1>3. (O * M - v) * (U * k * w) <= (q * v) * (U * k * w)
    <2>1. O * M - v \in Int /\ q * v \in Int /\ U * k * w \in Nat BY <1>0
    <2> QED BY <1>1, <2>1, MulMono
<1>4. (a * k) * (c * v) <= (U * (M * B + B + k)) * (c * v)
    <2>1. a * k \in Int /\ U * (M * B + B + k) \in Int /\ c * v \in Nat BY <1>0
    <2> QED BY <1>2, <2>1, MulMono
<1>5. k * v * (U * w * q - c * a) = (q * v) * (U * k * w) - (a * k) * (c * v)
    BY <1>0
<1>6. U * (M * (k * w * O - B * c * v) - v * (k * w + c * B + c * k))
         = (O * M - v) * (U * k * w) - (U * (M * B + B + k)) * (c * v)
    BY <1>0
<1>7. /\ (O * M - v) * (U * k * w) \in Int /\ (q * v) * (U * k * w) \in Int
      /\ (a * k) * (c * v) \in Int /\ (U * (M * B + B + k)) * (c * v) \in Int
    BY <1>0
<1>8. U * (M * (k * w * O - B * c * v) - v * (k * w + c * B + c * k)) <= k * v * (U * w * q - c * a)
    BY <1>3, <1>4, <1>5, <1>6, <1>7
<1> QED BY <1>8 DEF v

(* Beyond the target a longer trade earns no more than the planned one, but for a term of *)
(* less than a nano.                                                                      *)
LEMMA TooMuch ==
    ASSUME NEW B \in Nat \ {0}, NEW c \in Nat \ {0}, NEW S \in Nat,
           NEW u \in Nat, NEW v \in Nat, v <= u, v >= 30,
           S < B * c * ((v + 3) * (v + 3))
    PROVE  10 * ((u - v) * (S - B * c * (u * v))) < 8 * (B * c * (u * v))
<1> DEFINE g == B * c
           h == u - v
<1>0. g \in Nat \ {0} /\ h \in Nat /\ u = v + h OBVIOUS
<1> HIDE DEF g, h
<1>1. S <= g * (v * (v + 7))
    <2>1. (v + 3) * (v + 3) <= v * (v + 7) OBVIOUS
    <2>2. ((v + 3) * (v + 3)) * g <= (v * (v + 7)) * g
        <3>1. (v + 3) * (v + 3) \in Int /\ v * (v + 7) \in Int OBVIOUS
        <3> QED BY <1>0, <2>1, <3>1, MulMono
    <2>3. S < g * ((v + 3) * (v + 3)) BY DEF g
    <2>4. g * ((v + 3) * (v + 3)) \in Int /\ g * (v * (v + 7)) \in Int
          /\ ((v + 3) * (v + 3)) * g = g * ((v + 3) * (v + 3)) /\ (v * (v + 7)) * g = g * (v * (v + 7))
        BY <1>0
    <2> QED BY <2>2, <2>3, <2>4
<1>2. g * (v * (v + 7)) - g * (u * v) = (g * v) * (7 - h)
    BY <1>0
<1>3. S - g * (u * v) <= (g * v) * (7 - h)
    <2>1. g * (v * (v + 7)) \in Int /\ g * (u * v) \in Int /\ (g * v) * (7 - h) \in Int BY <1>0
    <2> QED BY <1>1, <1>2, <2>1
<1>4. h * (S - g * (u * v)) <= 12 * (g * v)
    <2> DEFINE x == S - g * (u * v)
               y == g * v
    <2>1. x \in Int /\ y \in Nat /\ x <= y * (7 - h) BY <1>0, <1>3
    <2> HIDE DEF x, y
    <2>2. x * h <= (y * (7 - h)) * h
        <3>1. y * (7 - h) \in Int BY <1>0, <2>1
        <3> QED BY <1>0, <2>1, <3>1, MulMono
    <2>3. h * (7 - h) <= 12
        <3>1. (h - 3) * (h - 4) >= 0
            <4>1. CASE h <= 3
                <5>1. 3 - h \in Nat /\ 4 - h \in Nat BY <1>0, <4>1
                <5>2. (3 - h) * (4 - h) \in Nat BY <5>1
                <5>3. (3 - h) * (4 - h) = (h - 3) * (h - 4) BY <1>0
                <5> QED BY <5>2, <5>3
            <4>2. CASE h >= 4
                <5>1. h - 3 \in Nat /\ h - 4 \in Nat BY <1>0, <4>2
                <5>2. (h - 3) * (h - 4) \in Nat BY <5>1
                <5> QED BY <5>2
            <4> QED BY <1>0, <4>1, <4>2
        <3>2. (h - 3) * (h - 4) = 12 - h * (7 - h) /\ h * (7 - h) \in Int BY <1>0
        <3> QED BY <3>1, <3>2
    <2>4. (h * (7 - h)) * y <= 12 * y
        <3>1. h * (7 - h) \in Int BY <1>0
        <3> QED BY <2>1, <2>3, <3>1, MulMono
    <2>5. (y * (7 - h)) * h = (h * (7 - h)) * y /\ x * h = h * x BY <1>0, <2>1
    <2>6. x * h \in Int /\ (h * (7 - h)) * y \in Int BY <1>0, <2>1
    <2>7. h * x <= 12 * y BY <2>1, <2>2, <2>4, <2>5, <2>6
    <2> QED BY <2>7 DEF x, y
<1>5. g * (u * v) >= 30 * (g * v)
    <2>1. 30 * (g * v) <= u * (g * v)
        <3>1. g * v \in Nat BY <1>0
        <3> QED BY <3>1, MulMono
    <2>2. u * (g * v) = g * (u * v) BY <1>0
    <2> QED BY <2>1, <2>2
<1>6. g * v \in Nat \ {0} /\ g * (u * v) \in Nat /\ h * (S - g * (u * v)) \in Int
    BY <1>0
<1>7. 10 * (h * (S - g * (u * v))) < 8 * (g * (u * v))
    BY <1>4, <1>5, <1>6
<1> QED BY <1>7 DEF g, h

(* The reserves are large against what the rounding of the target can move. *)
LEMMA Balanced ==
    ASSUME NEW I \in Nat, NEW O \in Nat, I >= 30, O >= 30, NEW w \in Nat \ {0}, NEW c \in Nat \ {0},
           2 * w <= I, 2 * w <= O, 2 * w * O <= c * I * I
    PROVE  50 * (w * ((O + I + 1) * (O + I + 1))) < 128 * (c * (O * (I * I)))
<1> DEFINE s == O + I
           T == c * (O * (I * I))
<1>1. 100 * ((s + 1) * (s + 1)) <= 104 * (s * s)
    <2>1. s \in Nat /\ s >= 60 OBVIOUS
    <2> HIDE DEF s
    <2>2. 60 * s <= s * s BY <2>1, MulMono
    <2>3. (s + 1) * (s + 1) = s * s + 2 * s + 1 /\ s * s \in Nat BY <2>1
    <2> QED BY <2>1, <2>2, <2>3
<1>2. w * (s * s) <= 2 * T
    <2>1. w * (s * s) = (w * O) * O + 2 * (w * (O * I)) + w * (I * I)
        OBVIOUS
    <2>2. 2 * ((w * O) * O) <= T
        <3>1. (2 * w * O) * O <= (c * I * I) * O
            <4>1. 2 * w * O \in Int /\ c * I * I \in Int OBVIOUS
            <4> QED BY <4>1, MulMono
        <3>2. (2 * w * O) * O = 2 * ((w * O) * O) /\ (c * I * I) * O = T OBVIOUS
        <3> QED BY <3>1, <3>2
    <2>3. O * (I * I) <= T
        <3>1. O * (I * I) \in Nat OBVIOUS
        <3>2. 1 * (O * (I * I)) <= c * (O * (I * I)) BY <3>1, MulMono
        <3> QED BY <3>1, <3>2
    <2>4. 2 * (w * (O * I)) <= O * (I * I)
        <3>1. (2 * w) * (O * I) <= I * (O * I)
            <4>1. O * I \in Nat OBVIOUS
            <4> QED BY <4>1, MulMono
        <3>2. (2 * w) * (O * I) = 2 * (w * (O * I)) /\ I * (O * I) = O * (I * I) OBVIOUS
        <3> QED BY <3>1, <3>2
    <2>5. 2 * (w * (I * I)) <= O * (I * I)
        <3>1. (2 * w) * (I * I) <= O * (I * I)
            <4>1. I * I \in Nat OBVIOUS
            <4> QED BY <4>1, MulMono
        <3>2. (2 * w) * (I * I) = 2 * (w * (I * I)) OBVIOUS
        <3> QED BY <3>1, <3>2
    <2>6. /\ T \in Int /\ O * (I * I) \in Int /\ w * (I * I) \in Int /\ w * (O * I) \in Int
          /\ (w * O) * O \in Int
        OBVIOUS
    <2> HIDE DEF T, s
    <2> QED BY <2>1, <2>2, <2>3, <2>4, <2>5, <2>6
<1>3. 100 * (w * ((s + 1) * (s + 1))) <= 104 * (w * (s * s))
    <2>1. (100 * ((s + 1) * (s + 1))) * w <= (104 * (s * s)) * w
        <3>1. 100 * ((s + 1) * (s + 1)) \in Int /\ 104 * (s * s) \in Int OBVIOUS
        <3> QED BY <1>1, <3>1, MulMono
    <2> HIDE DEF s
    <2>2. s \in Nat BY DEF s
    <2>3. /\ (100 * ((s + 1) * (s + 1))) * w = 100 * (w * ((s + 1) * (s + 1)))
          /\ (104 * (s * s)) * w = 104 * (w * (s * s))
        BY <2>2
    <2> QED BY <2>1, <2>3
<1>4. T \in Nat \ {0}
    <2>1. I * I \in Nat \ {0} OBVIOUS
    <2>2. O * (I * I) \in Nat \ {0} BY <2>1
    <2> QED BY <2>2
<1>5. w * (s * s) \in Int /\ w * ((s + 1) * (s + 1)) \in Int OBVIOUS
<1> HIDE DEF T, s
<1>6. 50 * (w * ((s + 1) * (s + 1))) < 128 * T BY <1>2, <1>3, <1>4, <1>5
<1> QED BY <1>6 DEF T, s

(* Before the target, neither does a shorter one. *)
LEMMA TooLittle ==
    ASSUME NEW I \in Nat, NEW O \in Nat, I >= 30, O >= 30, NEW w \in Nat \ {0}, NEW c \in Nat \ {0},
           2 * w <= I, 2 * w <= O, 2 * w * O <= c * I * I,
           NEW k \in Nat \ {0}, NEW B \in Nat \ {0}, k <= B,
           NEW u \in Nat, NEW v \in Nat, I <= u, u < v,
           k * w * (O * I) < B * c * ((v + 3) * (v + 3)),
           B * c * (v * v) <= k * w * ((O + 1) * (I + 1))
    PROVE  10 * ((u - v) * (k * w * (O * I) - B * c * (u * v))) < 8 * (B * c * (u * v))
<1> DEFINE g == B * c
           m == k * w
           h == v - u
           S == m * (O * I)
           E == m * (O + I + 1)
           G == g * v
<1>0. /\ g \in Nat \ {0} /\ m \in Nat \ {0} /\ h \in Nat \ {0} /\ S \in Nat /\ E \in Nat
      /\ G \in Nat \ {0} /\ u = v - h
    OBVIOUS
<1>1. g * (v * v) - S <= E
    <2>1. m * ((O + 1) * (I + 1)) = S + E OBVIOUS
    <2>2. g * (v * v) \in Int OBVIOUS
    <2>3. g * (v * v) <= m * ((O + 1) * (I + 1)) OBVIOUS
    <2> QED BY <1>0, <2>1, <2>2, <2>3
<1>2. 4 * S <= 5 * (g * (v * v))
    <2>1. 4 * ((v + 3) * (v + 3)) <= 5 * (v * v)
        <3>1. 30 * v <= v * v BY MulMono
        <3>2. (v + 3) * (v + 3) = v * v + 6 * v + 9 /\ v * v \in Nat OBVIOUS
        <3> QED BY <3>1, <3>2
    <2>2. (4 * ((v + 3) * (v + 3))) * g <= (5 * (v * v)) * g
        <3>1. 4 * ((v + 3) * (v + 3)) \in Int /\ 5 * (v * v) \in Int OBVIOUS
        <3> QED BY <1>0, <2>1, <3>1, MulMono
    <2>3. S < g * ((v + 3) * (v + 3)) OBVIOUS
    <2> HIDE DEF g, S
    <2>4. /\ (4 * ((v + 3) * (v + 3))) * g = 4 * (g * ((v + 3) * (v + 3)))
          /\ (5 * (v * v)) * g = 5 * (g * (v * v))
          /\ g * ((v + 3) * (v + 3)) \in Int /\ g * (v * v) \in Int
        BY <1>0
    <2> QED BY <1>0, <2>2, <2>3, <2>4
<1>3. 128 * ((g * I) * S) > 50 * (E * E)
    <2> DEFINE b == w * ((O + I + 1) * (O + I + 1))
               T == c * (O * (I * I))
    <2>1. 50 * b < 128 * T BY Balanced
    <2>2. b \in Nat /\ T \in Nat OBVIOUS
    <2>3. k * b <= B * b BY <2>2, MulMono
    <2>4. (g * I) * S = m * (B * T) OBVIOUS
    <2>5. E * E = m * (k * b) OBVIOUS
    <2> HIDE DEF b, T
    <2>6. B * (50 * b) < B * (128 * T) BY <2>1, <2>2
    <2>7. 50 * (k * b) < 128 * (B * T)
        <3>1. B * (50 * b) = 50 * (B * b) /\ B * (128 * T) = 128 * (B * T)
              /\ k * b \in Int /\ B * b \in Int /\ B * T \in Int
            BY <2>2
        <3> QED BY <2>3, <2>6, <3>1
    <2> DEFINE x == k * b
               y == B * T
    <2>8. x \in Int /\ y \in Int /\ 50 * x < 128 * y BY <2>2, <2>7
    <2> HIDE DEF x, y, m
    <2>9. m * (50 * x) < m * (128 * y) BY <1>0, <2>8
    <2>10. m * (50 * x) = 50 * (m * x) /\ m * (128 * y) = 128 * (m * y) BY <1>0, <2>8
    <2>11. 50 * (m * x) < 128 * (m * y) BY <2>9, <2>10
    <2> QED BY <2>4, <2>5, <2>11 DEF x, y
<1> SUFFICES ASSUME 8 * (g * (u * v)) <= 10 * ((u - v) * (S - g * (u * v))) PROVE FALSE
    <2>1. (u - v) * (S - g * (u * v)) \in Int /\ g * (u * v) \in Int BY <1>0
    <2> QED BY <2>1
<1> HIDE DEF g, m, h, S, E, G
<1>4. (u - v) * (S - g * (u * v)) <= h * (E - G * h)
    <2>1. g * (u * v) - S <= E - G * h
        <3>1. g * (u * v) = g * (v * v) - G * h
            BY <1>0 DEF G
        <3>2. g * (v * v) \in Int /\ G * h \in Int BY <1>0
        <3> QED BY <1>0, <1>1, <3>1, <3>2
    <2>2. g * (u * v) - S \in Int /\ E - G * h \in Int BY <1>0
    <2>3. (g * (u * v) - S) * h <= (E - G * h) * h
        BY <1>0, <2>1, <2>2, MulMono
    <2>4. (g * (u * v) - S) * h = (u - v) * (S - g * (u * v)) BY <1>0
    <2>5. (E - G * h) * h = h * (E - G * h) BY <1>0
    <2> QED BY <2>3, <2>4, <2>5
<1>5. 4 * G * (h * (E - G * h)) <= E * E
    BY <1>0, Vertex
<1>6. 32 * (G * (g * (u * v))) <= 10 * (E * E)
    <2> DEFINE x == g * (u * v)
               y == h * (E - G * h)
    <2>1. x \in Int /\ y \in Int BY <1>0
    <2>2. 8 * x <= 10 * y
        <3>1. (u - v) * (S - g * (u * v)) \in Int BY <1>0
        <3> QED BY <1>4, <2>1, <3>1
    <2> HIDE DEF x, y
    <2>3. (8 * x) * (4 * G) <= (10 * y) * (4 * G)
        <3>1. 8 * x \in Int /\ 10 * y \in Int /\ 4 * G \in Nat BY <1>0, <2>1
        <3> QED BY <2>2, <3>1, MulMono
    <2>4. (8 * x) * (4 * G) = 32 * (G * x) /\ (10 * y) * (4 * G) = 10 * (4 * G * y) BY <1>0, <2>1
    <2>5. G * x \in Int /\ 4 * G * y \in Int /\ E * E \in Int BY <1>0, <2>1
    <2>6. 4 * G * y <= E * E BY <1>5 DEF y
    <2>7. 32 * (G * x) <= 10 * (E * E) BY <2>3, <2>4, <2>5, <2>6
    <2> QED BY <2>7 DEF x
<1>7. G * (g * (u * v)) = (g * (v * v)) * (g * u)
    BY <1>0 DEF G
<1>8. (4 * S) * (g * u) <= (5 * (g * (v * v))) * (g * u)
    <2>1. 4 * S \in Int /\ 5 * (g * (v * v)) \in Int /\ g * u \in Nat BY <1>0
    <2> QED BY <1>2, <2>1, MulMono
<1>9. (g * I) * S <= (g * u) * S
    <2>1. I * (g * S) <= u * (g * S)
        <3>1. g * S \in Nat BY <1>0
        <3> QED BY <3>1, MulMono
    <2>2. I * (g * S) = (g * I) * S /\ u * (g * S) = (g * u) * S BY <1>0
    <2> QED BY <2>1, <2>2
<1> QED
    <2> DEFINE x == (g * u) * S
               y == (g * (v * v)) * (g * u)
               z == (g * I) * S
    <2>1. x \in Int /\ y \in Int /\ z \in Int /\ E * E \in Int BY <1>0
    <2>2. (4 * S) * (g * u) = 4 * x /\ (5 * (g * (v * v))) * (g * u) = 5 * y BY <1>0
    <2>3. 4 * x <= 5 * y BY <1>8, <2>2
    <2>4. 32 * y <= 10 * (E * E) BY <1>6, <1>7
    <2>5. z <= x BY <1>9
    <2>6. 128 * z > 50 * (E * E) BY <1>3
    <2> HIDE DEF x, y, z
    <2> QED BY <2>1, <2>3, <2>4, <2>5, <2>6

(* The closed form is the optimum: where the planned trade does not clear the threshold P, *)
(* no other clears it by more than truncation hides.                                       *)
LEMMA NoBetter ==
    ASSUME NEW U \in Nat \ {0}, NEW P \in Nat,
           NEW I \in Nat, NEW O \in Nat, I >= 30, O >= 30, NEW w \in Nat \ {0}, NEW c \in Nat \ {0},
           2 * w <= I, 2 * w <= O, 2 * w * O <= c * I * I,
           NEW k \in Nat \ {0}, NEW B \in Nat \ {0}, k <= B, 9 * B <= 10 * k,
           NEW a \in Nat, NEW A \in Nat, a < U * A + U, NEW M \in Nat, A * k < M * B + B,
           NEW q \in Nat, (O - q) * (I + M) < O * I + I + M,
           U * w * q - c * a < P,
           k * w * (O * I) < B * c * ((I + M + 3) * (I + M + 3)),
           NEW D \in Nat, NEW N \in Nat, N * B <= D * k,
           NEW r \in Nat, (O - r) * (I + N) >= O * I,
           N < M => B * c * ((I + M) * (I + M)) <= k * w * ((O + 1) * (I + 1))
    PROVE  U * (w * r - c * D) < P + U * (w + 3 * c)
<1> DEFINE u == I + N
           v == I + M
           Z == w * r - c * D
           Y == U * w * q - c * a
           m == k * w + c * B + c * k
           Sv == k * w * O - B * c * v
           Su == k * w * O - B * c * u
           S == k * w * (O * I) - B * c * (u * v)
           T == B * c * (u * v)
<1>0. /\ u \in Nat \ {0} /\ v \in Nat \ {0} /\ Z \in Int /\ Y \in Int /\ m \in Nat
      /\ Sv \in Int /\ Su \in Int /\ S \in Int /\ T \in Nat
    OBVIOUS
<1> SUFFICES ASSUME P + U * (w + 3 * c) <= U * Z PROVE FALSE
    <2>1. U * Z \in Int /\ U * (w + 3 * c) \in Int BY <1>0
    <2> QED BY <2>1
<1>1. k * u * Z <= N * Su
    BY Overpaid
<1>2. U * (M * Sv - v * m) <= k * v * Y
    BY AtLeast
<1>3. v * (N * Su) - u * (M * Sv) = (u - v) * S
    OBVIOUS
<1>4. v * u * (k * (w + 3 * c)) - u * (v * m) = (u * v) * (c * (2 * k - B))
    OBVIOUS
<1>5. 10 * ((u - v) * S) < 8 * T
    <2>1. CASE v <= u
        BY <2>1, TooMuch
    <2>2. CASE u < v
        <3>1. I <= u /\ N < M BY <2>2
        <3>2. B * c * (v * v) <= k * w * ((O + 1) * (I + 1)) BY <3>1
        <3>3. k * w * (O * I) < B * c * ((v + 3) * (v + 3)) OBVIOUS
        <3> HIDE DEF u, v
        <3> QED BY <1>0, <2>2, <3>1, <3>2, <3>3, TooLittle DEF S, T
    <2> QED BY <1>0, <2>1, <2>2
<1>6. 8 * T <= 10 * ((u * v) * (c * (2 * k - B)))
    <2>1. c * (u * v) \in Nat BY <1>0
    <2>2. (8 * B) * (c * (u * v)) <= (10 * (2 * k - B)) * (c * (u * v))
        <3>1. 8 * B <= 10 * (2 * k - B) OBVIOUS
        <3>2. 8 * B \in Int /\ 10 * (2 * k - B) \in Int OBVIOUS
        <3> HIDE DEF u, v
        <3> QED BY <2>1, <3>1, <3>2, MulMono
    <2> HIDE DEF u, v
    <2>3. (8 * B) * (c * (u * v)) = 8 * (B * c * (u * v)) BY <1>0
    <2>4. (10 * (2 * k - B)) * (c * (u * v)) = 10 * ((u * v) * (c * (2 * k - B))) BY <1>0
    <2> QED BY <2>2, <2>3, <2>4 DEF T
<1> HIDE DEF u, v, Z, Y, m, Sv, Su, S, T
<1>7. (P + U * (w + 3 * c)) * (k * u * v) <= U * (v * (N * Su))
    <2>1. k * u * v \in Nat /\ P + U * (w + 3 * c) \in Int /\ U * Z \in Int BY <1>0
    <2>2. (P + U * (w + 3 * c)) * (k * u * v) <= (U * Z) * (k * u * v)
        BY <2>1, MulMono
    <2>3. (U * Z) * (k * u * v) = (k * u * Z) * (U * v) BY <1>0
    <2>4. (k * u * Z) * (U * v) <= (N * Su) * (U * v)
        <3>1. k * u * Z \in Int /\ N * Su \in Int /\ U * v \in Nat BY <1>0
        <3> QED BY <1>1, <3>1, MulMono
    <2>5. (N * Su) * (U * v) = U * (v * (N * Su)) BY <1>0
    <2>6. /\ (P + U * (w + 3 * c)) * (k * u * v) \in Int /\ (U * Z) * (k * u * v) \in Int
          /\ (N * Su) * (U * v) \in Int
        BY <1>0
    <2> QED BY <2>2, <2>3, <2>4, <2>5, <2>6
<1>8. U * (u * (M * Sv) - u * (v * m)) <= P * (k * u * v)
    <2>1. (U * (M * Sv - v * m)) * u <= (k * v * Y) * u
        <3>1. U * (M * Sv - v * m) \in Int /\ k * v * Y \in Int BY <1>0
        <3> QED BY <1>0, <1>2, <3>1, MulMono
    <2>2. Y * (k * u * v) <= P * (k * u * v)
        <3>1. Y <= P BY <1>0 DEF Y
        <3>2. k * u * v \in Nat BY <1>0
        <3> QED BY <1>0, <3>1, <3>2, MulMono
    <2>3. (U * (M * Sv - v * m)) * u = U * (u * (M * Sv) - u * (v * m)) BY <1>0
    <2>4. (k * v * Y) * u = Y * (k * u * v) BY <1>0
    <2>5. /\ (U * (M * Sv - v * m)) * u \in Int /\ (k * v * Y) * u \in Int /\ P * (k * u * v) \in Int
        BY <1>0
    <2> QED BY <2>1, <2>2, <2>3, <2>4, <2>5
<1>9. U * ((u * v) * (c * (2 * k - B))) <= U * ((u - v) * S)
    <2> DEFINE x == u * (M * Sv)
               y == u * (v * m)
               z == v * (N * Su)
               t == v * u * (k * (w + 3 * c))
    <2>1. x \in Int /\ y \in Int /\ z \in Int /\ t \in Int BY <1>0
    <2>2. (P + U * (w + 3 * c)) * (k * u * v) = P * (k * u * v) + U * t BY <1>0
    <2>3. P * (k * u * v) \in Int BY <1>0
    <2>4. P * (k * u * v) + U * t <= U * z BY <1>7, <2>2
    <2>5. U * (x - y) <= P * (k * u * v) BY <1>8
    <2> DEFINE Q == P * (k * u * v)
    <2>6. Q + U * t <= U * z /\ U * (x - y) <= Q /\ Q \in Int BY <2>3, <2>4, <2>5
    <2>7. (u * v) * (c * (2 * k - B)) = t - y /\ (u - v) * S = z - x BY <1>3, <1>4
    <2> HIDE DEF x, y, z, t, Q
    <2>8. U * (t - y) <= U * (z - x)
        <3>1. U * (t - y) = U * t - U * y /\ U * (z - x) = U * z - U * x /\ U * (x - y) = U * x - U * y
              /\ U * t \in Int /\ U * y \in Int /\ U * z \in Int /\ U * x \in Int
            BY <2>1
        <3> QED BY <2>6, <3>1
    <2> QED BY <2>7, <2>8
<1> QED
    <2> DEFINE x == (u * v) * (c * (2 * k - B))
               y == (u - v) * S
    <2>1. x \in Int /\ y \in Int BY <1>0
    <2>2. 10 * y < 8 * T /\ 8 * T <= 10 * x /\ U * x <= U * y BY <1>5, <1>6, <1>9
    <2> HIDE DEF x, y
    <2>3. x * U <= y * U BY <2>1, <2>2
    <2>4. x <= y BY <2>1, <2>3, Cancel
    <2> QED BY <1>0, <2>1, <2>2, <2>4

(* Where the target is not past the reserve, the marginal price is within a few nanos of *)
(* the fair one.                                                                         *)
LEMMA NoReason ==
    ASSUME NEW U \in Nat \ {0}, NEW I \in Nat \ {0}, NEW O \in Nat, NEW i \in Nat, NEW o \in Nat,
           U * I <= i, i < U * I + U, U * O <= o,
           NEW w \in Nat \ {0}, NEW c \in Nat \ {0}, NEW k \in Nat \ {0}, NEW B \in Nat \ {0},
           NEW n \in Nat, (k * w) * (o * i) < n * (B * c) + B * c,
           NEW t \in Nat, n < (t + 1) * (t + 1), t <= i
    PROVE  k * w * O <= B * c * I + B * (7 * c + w)
<1> DEFINE m == k * w
           g == B * c
<1>0. m \in Nat \ {0} /\ g \in Nat \ {0} /\ i >= 1
    <2>1. U * I >= 1 OBVIOUS
    <2> QED BY <2>1
<1>1. m * (o * i) < ((i + 1) * (i + 1)) * g
    <2>1. (t + 1) * (t + 1) <= (i + 1) * (i + 1)
        <3>1. (t + 1) * (t + 1) <= (i + 1) * (t + 1) BY MulMono
        <3>2. (t + 1) * (i + 1) <= (i + 1) * (i + 1) BY MulMono
        <3>3. (i + 1) * (t + 1) = (t + 1) * (i + 1) OBVIOUS
        <3> QED BY <3>1, <3>2, <3>3
    <2>2. n + 1 <= (i + 1) * (i + 1) /\ (i + 1) * (i + 1) \in Int
        <3>1. (t + 1) * (t + 1) \in Int /\ (i + 1) * (i + 1) \in Int OBVIOUS
        <3> QED BY <2>1, <3>1
    <2>3. (n + 1) * g <= ((i + 1) * (i + 1)) * g BY <1>0, <2>2, MulMono
    <2>4. m * (o * i) < n * g + g OBVIOUS
    <2> HIDE DEF m, g
    <2>5. (n + 1) * g = n * g + g /\ n * g \in Int /\ m * (o * i) \in Int /\ ((i + 1) * (i + 1)) * g \in Int BY <1>0
    <2> QED BY <1>0, <2>3, <2>4, <2>5
<1> HIDE DEF m, g
<1>2. m * o < g * (i + 3)
    <2> SUFFICES ASSUME g * (i + 3) <= m * o PROVE FALSE
        <3>1. m * o \in Int /\ g * (i + 3) \in Int BY <1>0
        <3> QED BY <3>1
    <2>1. (g * (i + 3)) * i <= (m * o) * i
        <3>1. m * o \in Int /\ g * (i + 3) \in Int BY <1>0
        <3> QED BY <3>1, MulMono
    <2>2. (m * o) * i = m * (o * i) BY <1>0
    <2>3. (g * (i + 3)) * i = ((i + 1) * (i + 1)) * g + (i - 1) * g BY <1>0
    <2>4. (i - 1) * g \in Nat /\ ((i + 1) * (i + 1)) * g \in Int /\ m * (o * i) \in Int BY <1>0
    <2> QED BY <1>1, <2>1, <2>2, <2>3, <2>4
<1>3. (m * O) * U < (g * (I + 3)) * U
    <2>1. (U * O) * m <= o * m BY <1>0, MulMono
    <2>2. i + 3 <= U * (I + 3)
        <3>1. U * (I + 3) = U * I + 3 * U /\ U * I \in Int OBVIOUS
        <3> QED BY <3>1
    <2>3. (i + 3) * g <= (U * (I + 3)) * g BY <1>0, <2>2, MulMono
    <2>4. (U * O) * m = (m * O) * U /\ o * m = m * o /\ (i + 3) * g = g * (i + 3)
          /\ (U * (I + 3)) * g = (g * (I + 3)) * U
        BY <1>0
    <2>5. (m * O) * U \in Int /\ m * o \in Int /\ g * (i + 3) \in Int /\ (g * (I + 3)) * U \in Int BY <1>0
    <2> QED BY <1>2, <2>1, <2>3, <2>4, <2>5
<1>4. m * O <= g * (I + 3)
    <2>1. m * O \in Int /\ g * (I + 3) \in Int BY <1>0
    <2>2. (m * O) * U <= (g * (I + 3)) * U
        <3>1. (m * O) * U \in Int /\ (g * (I + 3)) * U \in Int BY <2>1
        <3> QED BY <1>3, <3>1
    <2> QED BY <2>1, <2>2, Cancel
<1>5. g * (I + 3) <= B * c * I + B * (7 * c + w)
    <2>1. g * (I + 3) = B * c * I + 3 * (B * c) BY DEF g
    <2>2. B * (7 * c + w) = 7 * (B * c) + B * w /\ B * w \in Nat /\ B * c \in Nat OBVIOUS
    <2>3. B * c * I \in Int OBVIOUS
    <2> QED BY <2>1, <2>2, <2>3
<1>6. k * w * O = m * O /\ m * O \in Int /\ g * (I + 3) \in Int /\ B * c * I + B * (7 * c + w) \in Int
    BY <1>0 DEF m
<1> QED BY <1>4, <1>5, <1>6

(* The planned input reaches the target, but for a few nanos. *)
LEMMA Reached ==
    ASSUME NEW U \in Nat \ {0}, NEW I \in Nat \ {0}, NEW O \in Nat, NEW i \in Nat, NEW o \in Nat,
           U * I <= i, i < U * I + U, U * O <= o,
           NEW w \in Nat \ {0}, NEW c \in Nat \ {0}, NEW k \in Nat \ {0}, NEW B \in Nat \ {0}, k <= B,
           NEW n \in Nat, (k * w) * (o * i) < n * (B * c) + B * c,
           NEW t \in Nat, n < (t + 1) * (t + 1), i < t,
           NEW a \in Nat, (t - i) * B < a * k + k,
           NEW A \in Nat, a < U * A + U, NEW N \in Nat, A * k < N * B + B
    PROVE  k * w * (O * I) < B * c * ((I + N + 3) * (I + N + 3))
<1> DEFINE m == k * w
           g == B * c
           v == I + N
<1>0. m \in Nat \ {0} /\ g \in Nat \ {0} /\ v \in Nat \ {0}
    OBVIOUS
<1>1. t + 1 <= U * (v + 3)
    <2>1. a * k <= (U * A + U - 1) * k BY MulMono
    <2>2. (U * A + U - 1) * k = U * (A * k) + (U - 1) * k OBVIOUS
    <2>3. (A * k) * U <= (N * B + B - 1) * U
        <3>1. A * k <= N * B + B - 1 /\ A * k \in Int /\ N * B + B - 1 \in Int OBVIOUS
        <3> QED BY <3>1, MulMono
    <2>4. (N * B + B - 1) * U = (U * N + U) * B - U OBVIOUS
    <2>5. U * k <= U * B
        <3>1. k * U <= B * U BY MulMono
        <3> QED BY <3>1
    <2>6. (t - i) * B <= (U * N + 2 * U) * B
        <3>1. (U - 1) * k + k = U * k /\ (U * N + 2 * U) * B = (U * N + U) * B + U * B
              /\ U * (A * k) = (A * k) * U
            OBVIOUS
        <3>2. /\ (t - i) * B \in Int /\ a * k \in Int /\ (U - 1) * k \in Int /\ (A * k) * U \in Int
              /\ (U * N + U) * B \in Int /\ U * k \in Int /\ U * B \in Int
            OBVIOUS
        <3> QED BY <2>1, <2>2, <2>3, <2>4, <2>5, <3>1, <3>2
    <2>7. t - i <= U * N + 2 * U
        <3>1. t - i \in Int /\ U * N + 2 * U \in Int OBVIOUS
        <3> QED BY <2>6, <3>1, Cancel
    <2>8. U * (v + 3) = U * I + U * N + 3 * U /\ U * I \in Int /\ U * N \in Int OBVIOUS
    <2> HIDE DEF v
    <2> QED BY <2>7, <2>8
<1>2. m * (o * i) < (((v + 3) * (v + 3)) * g) * (U * U)
    <2> DEFINE x == U * (v + 3)
    <2>1. x \in Nat BY <1>0
    <2>2. t + 1 <= x BY <1>1
    <2> HIDE DEF x
    <2>3. (t + 1) * (t + 1) <= x * x
        <3>1. (t + 1) * (t + 1) <= x * (t + 1) BY <2>1, <2>2, MulMono
        <3>2. (t + 1) * x <= x * x BY <2>1, <2>2, MulMono
        <3>3. x * (t + 1) = (t + 1) * x BY <2>1
        <3>4. (t + 1) * (t + 1) \in Int /\ x * (t + 1) \in Int /\ x * x \in Int BY <2>1
        <3> QED BY <3>1, <3>2, <3>3, <3>4
    <2>4. n + 1 <= x * x /\ x * x \in Int
        <3>1. (t + 1) * (t + 1) \in Int /\ x * x \in Int BY <2>1
        <3> QED BY <2>3, <3>1
    <2>5. (n + 1) * g <= (x * x) * g BY <1>0, <2>4, MulMono
    <2>6. m * (o * i) < n * g + g OBVIOUS
    <2> HIDE DEF m, g, v
    <2>7. (n + 1) * g = n * g + g /\ n * g \in Int /\ m * (o * i) \in Int /\ (x * x) * g \in Int BY <1>0, <2>1
    <2>8. (x * x) * g = (((v + 3) * (v + 3)) * g) * (U * U) BY <1>0 DEF x
    <2>9. m * (o * i) < (x * x) * g BY <1>0, <2>5, <2>6, <2>7
    <2> QED BY <2>8, <2>9
<1> HIDE DEF m, g, v
<1>3. (m * (O * I)) * (U * U) <= m * (o * i)
    <2>1. (U * O) * (U * I) <= o * (U * I)
        <3>1. U * O \in Int /\ U * I \in Nat OBVIOUS
        <3> QED BY <3>1, MulMono
    <2>2. (U * I) * o <= i * o
        <3>1. U * I \in Int OBVIOUS
        <3> QED BY <3>1, MulMono
    <2>3. (U * O) * (U * I) <= o * i
        <3>1. (U * I) * o = o * (U * I) /\ i * o = o * i /\ (U * O) * (U * I) \in Int /\ o * (U * I) \in Int /\ o * i \in Int
            OBVIOUS
        <3> QED BY <2>1, <2>2, <3>1
    <2>4. ((U * O) * (U * I)) * m <= (o * i) * m
        <3>1. (U * O) * (U * I) \in Int /\ o * i \in Int OBVIOUS
        <3> QED BY <1>0, <2>3, <3>1, MulMono
    <2>5. ((U * O) * (U * I)) * m = (m * (O * I)) * (U * U) /\ (o * i) * m = m * (o * i) BY <1>0
    <2> QED BY <2>4, <2>5
<1>4. m * (O * I) < ((v + 3) * (v + 3)) * g
    <2> DEFINE x == m * (O * I)
               y == ((v + 3) * (v + 3)) * g
               z == m * (o * i)
    <2>1. x \in Int /\ y \in Int /\ z \in Int /\ U * U \in Nat \ {0} BY <1>0
    <2>2. x * (U * U) <= z /\ z < y * (U * U) BY <1>2, <1>3
    <2> HIDE DEF x, y, z
    <2> SUFFICES ASSUME y <= x PROVE FALSE BY <2>1 DEF x, y
    <2>3. y * (U * U) <= x * (U * U) BY <2>1, MulMono
    <2>4. y * (U * U) \in Int /\ x * (U * U) \in Int BY <2>1
    <2> QED BY <2>1, <2>2, <2>3, <2>4
<1>5. ((v + 3) * (v + 3)) * g = g * ((v + 3) * (v + 3)) BY <1>0
<1> QED BY <1>4, <1>5 DEF m, g, v

(* ... and what counts of it does not pass the target. *)
LEMMA NotPassed ==
    ASSUME NEW U \in Nat \ {0}, NEW I \in Nat \ {0}, NEW O \in Nat, NEW i \in Nat, NEW o \in Nat,
           U * I <= i, i < U * I + U, o < U * O + U,
           NEW w \in Nat \ {0}, NEW c \in Nat \ {0}, NEW k \in Nat \ {0}, NEW B \in Nat \ {0},
           NEW n \in Nat, n * (B * c) <= (k * w) * (o * i),
           NEW t \in Nat, t * t <= n, i < t,
           NEW a \in Nat, a * k <= (t - i) * B,
           NEW A \in Nat, U * A <= a, NEW N \in Nat, N * B <= A * k
    PROVE  /\ U * (I + N) <= t
           /\ (t * t) * (B * c) <= (k * w * ((O + 1) * (I + 1))) * (U * U)
           /\ B * c * ((I + N) * (I + N)) <= k * w * ((O + 1) * (I + 1))
<1> DEFINE m == k * w
           g == B * c
           v == I + N
<1>0. m \in Nat \ {0} /\ g \in Nat \ {0} /\ v \in Nat \ {0}
    OBVIOUS
<1>1. U * v <= t
    <2>1. (N * B) * U <= (A * k) * U
        <3>1. N * B \in Int /\ A * k \in Int OBVIOUS
        <3> QED BY <3>1, MulMono
    <2>2. (U * A) * k <= a * k
        <3>1. U * A \in Int OBVIOUS
        <3> QED BY <3>1, MulMono
    <2>3. (U * N) * B <= (t - i) * B
        <3>1. (N * B) * U = (U * N) * B /\ (A * k) * U = (U * A) * k OBVIOUS
        <3>2. (U * N) * B \in Int /\ (U * A) * k \in Int /\ a * k \in Int /\ (t - i) * B \in Int OBVIOUS
        <3> QED BY <2>1, <2>2, <3>1, <3>2
    <2>4. U * N <= t - i
        <3>1. U * N \in Int /\ t - i \in Int OBVIOUS
        <3> QED BY <2>3, <3>1, Cancel
    <2>5. U * v = U * I + U * N /\ U * I \in Int /\ U * N \in Int OBVIOUS
    <2> HIDE DEF v
    <2> QED BY <2>4, <2>5
<1>2. (t * t) * g <= (m * ((O + 1) * (I + 1))) * (U * U)
    <2>1. (t * t) * g <= n * g
        <3>1. t * t \in Int OBVIOUS
        <3> QED BY <1>0, <3>1, MulMono
    <2>2. n * g <= m * (o * i) OBVIOUS
    <2>3. o * i <= (U * (O + 1)) * (U * (I + 1))
        <3> DEFINE x == U * (O + 1)
                   y == U * (I + 1)
        <3>1. x \in Nat /\ y \in Nat OBVIOUS
        <3>2. o <= x /\ i <= y
            <4>1. U * (O + 1) = U * O + U /\ U * (I + 1) = U * I + U /\ U * O \in Int /\ U * I \in Int OBVIOUS
            <4> QED BY <4>1
        <3> HIDE DEF x, y
        <3>3. o * i <= x * i BY <3>1, <3>2, MulMono
        <3>4. i * x <= y * x BY <3>1, <3>2, MulMono
        <3>5. x * i = i * x /\ y * x = x * y /\ o * i \in Int /\ x * i \in Int /\ x * y \in Int BY <3>1
        <3>6. o * i <= x * y BY <3>3, <3>4, <3>5
        <3> QED BY <3>6 DEF x, y
    <2>4. (o * i) * m <= ((U * (O + 1)) * (U * (I + 1))) * m
        <3>1. o * i \in Int /\ (U * (O + 1)) * (U * (I + 1)) \in Int OBVIOUS
        <3> QED BY <1>0, <2>3, <3>1, MulMono
    <2> HIDE DEF m, g
    <2>5. (o * i) * m = m * (o * i) /\ ((U * (O + 1)) * (U * (I + 1))) * m = (m * ((O + 1) * (I + 1))) * (U * U)
        BY <1>0
    <2>6. (t * t) * g \in Int /\ n * g \in Int /\ m * (o * i) \in Int /\ (m * ((O + 1) * (I + 1))) * (U * U) \in Int
        BY <1>0
    <2> QED BY <2>1, <2>2, <2>4, <2>5, <2>6
<1> HIDE DEF m, g, v
<1>3. (g * (v * v)) * (U * U) <= (t * t) * g
    <2> DEFINE x == U * v
    <2>1. x \in Nat /\ x <= t BY <1>0, <1>1
    <2>2. (g * (v * v)) * (U * U) = (x * x) * g BY <1>0
    <2> HIDE DEF x
    <2>3. x * x <= t * x BY <2>1, MulMono
    <2>4. x * t <= t * t BY <2>1, MulMono
    <2>5. x * x <= t * t /\ x * x \in Int /\ t * t \in Int
        <3>1. t * x = x * t /\ x * x \in Int /\ t * t \in Int /\ t * x \in Int BY <2>1
        <3> QED BY <2>3, <2>4, <3>1
    <2>6. (x * x) * g <= (t * t) * g BY <1>0, <2>5, MulMono
    <2> QED BY <2>2, <2>6
<1>4. g * (v * v) <= m * ((O + 1) * (I + 1))
    <2> DEFINE x == g * (v * v)
               y == m * ((O + 1) * (I + 1))
               z == (t * t) * g
    <2>1. x \in Int /\ y \in Int /\ z \in Int /\ U * U \in Nat \ {0} BY <1>0
    <2>2. x * (U * U) <= z /\ z <= y * (U * U) BY <1>2, <1>3
    <2> HIDE DEF x, y, z
    <2>3. x * (U * U) \in Int /\ y * (U * U) \in Int BY <2>1
    <2>4. x * (U * U) <= y * (U * U) BY <2>1, <2>2, <2>3
    <2>5. x <= y BY <2>1, <2>4, Cancel
    <2> QED BY <2>5 DEF x, y
<1> QED BY <1>1, <1>2, <1>4 DEF m, g, v

(* After it, the marginal price is within a few nanos of the fair one. *)
LEMMA SameSide ==
    ASSUME NEW O \in Nat, NEW I \in Nat, NEW v \in Nat, v >= 30, NEW R \in Nat, R * v < O * I + v,
           NEW w \in Nat \ {0}, NEW c \in Nat \ {0}, NEW k \in Nat \ {0}, NEW B \in Nat \ {0}, k <= B,
           k * w * (O * I) < B * c * ((v + 3) * (v + 3)), NEW J \in Nat, v <= J
    PROVE  k * w * R <= B * c * J + B * (7 * c + w)
<1> DEFINE m == k * w
           g == B * c
           h == B * w
<1>0. m \in Nat \ {0} /\ g \in Nat \ {0} /\ h \in Nat \ {0} OBVIOUS
<1>1. m <= h
    BY MulMono
<1>2. B * c * J + B * (7 * c + w) = g * J + 7 * g + h OBVIOUS
<1>3. m * (O * I) < g * ((v + 3) * (v + 3)) OBVIOUS
<1> HIDE DEF m, g, h
<1>4. (m * R) * v <= (g * v + 7 * g + h) * v
    <2>1. (R * v) * m <= (O * I + v) * m
        <3>1. R * v \in Int /\ O * I + v \in Int OBVIOUS
        <3> QED BY <1>0, <3>1, MulMono
    <2>2. (R * v) * m = (m * R) * v /\ (O * I + v) * m = m * (O * I) + m * v BY <1>0
    <2>3. g * ((v + 3) * (v + 3)) = (g * v) * v + 6 * (g * v) + 9 * g BY <1>0
    <2>4. 30 * g <= v * g BY <1>0, MulMono
    <2>5. m * v <= h * v BY <1>0, <1>1, MulMono
    <2>6. (g * v + 7 * g + h) * v = (g * v) * v + 7 * (g * v) + h * v BY <1>0
    <2>7. /\ (m * R) * v \in Int /\ m * (O * I) \in Int /\ m * v \in Int /\ h * v \in Int
          /\ (g * v) * v \in Int /\ g * v \in Int /\ v * g = g * v /\ g * ((v + 3) * (v + 3)) \in Int
        BY <1>0
    <2> QED BY <1>0, <1>3, <2>1, <2>2, <2>3, <2>4, <2>5, <2>6, <2>7
<1>5. m * R <= g * v + 7 * g + h
    <2>1. m * R \in Int /\ g * v + 7 * g + h \in Int BY <1>0
    <2> QED BY <1>4, <2>1, Cancel
<1>6. g * v <= g * J
    <2>1. v * g <= J * g BY <1>0, MulMono
    <2>2. v * g = g * v /\ J * g = g * J BY <1>0
    <2> QED BY <2>1, <2>2
<1>7. m * R \in Int /\ g * v \in Int /\ g * J \in Int BY <1>0
<1>8. m * R <= g * J + 7 * g + h BY <1>0, <1>5, <1>6, <1>7
<1> QED BY <1>2, <1>8 DEF m

(* The fee keeps the price after the planned trade from making the opposite trade pay: what *)
(* does not count of the input stays in the pool too.                                       *)
LEMMA NotPastTheOther ==
    ASSUME NEW U \in Nat \ {0}, NEW B \in Nat \ {0}, NEW k \in Nat \ {0}, k + 1 <= B,
           NEW O \in Nat, O >= 3 * B, NEW I \in Nat, I >= 3 * B,
           NEW w \in Nat \ {0}, NEW c \in Nat \ {0}, NEW t \in Nat \ {0},
           NEW v \in Nat, U * v <= t, NEW R \in Nat, R * v >= O * I,
           (t * t) * (B * c) <= (k * w * ((O + 1) * (I + 1))) * (U * U),
           NEW J \in Nat, k * (U * J) <= t * B
    PROVE  k * c * J <= B * w * R
<1>1. k * ((O + 1) * (I + 1)) <= B * (O * I)
    <2>1. (k + 1) * (O * I) <= B * (O * I)
        <3>1. O * I \in Nat OBVIOUS
        <3> QED BY <3>1, MulMono
    <2>2. k * (O + I + 1) <= O * I
        <3>1. k * (O + I + 1) <= B * (O + I + 1) BY MulMono
        <3>2. (3 * B) * O <= I * O BY MulMono
        <3>3. (3 * B) * I <= O * I BY MulMono
        <3>4. 3 * B <= (3 * B) * I BY MulMono
        <3>5. B * (O + I + 1) = B * O + B * I + B /\ (3 * B) * O = 3 * (B * O) /\ (3 * B) * I = 3 * (B * I)
              /\ I * O = O * I
            OBVIOUS
        <3>6. B * O \in Int /\ B * I \in Int /\ O * I \in Int /\ k * (O + I + 1) \in Int OBVIOUS
        <3> QED BY <3>1, <3>2, <3>3, <3>4, <3>5, <3>6
    <2>3. k * ((O + 1) * (I + 1)) = (k + 1) * (O * I) - O * I + k * (O + I + 1) OBVIOUS
    <2>4. (k + 1) * (O * I) \in Int /\ O * I \in Int /\ k * (O + I + 1) \in Int /\ B * (O * I) \in Int OBVIOUS
    <2> QED BY <2>1, <2>2, <2>3, <2>4
<1>2. (k * ((O + 1) * (I + 1))) * (w * (U * U)) <= (B * (O * I)) * (w * (U * U))
    <2>1. k * ((O + 1) * (I + 1)) \in Int /\ B * (O * I) \in Int /\ w * (U * U) \in Nat OBVIOUS
    <2> QED BY <1>1, <2>1, MulMono
<1>3. (k * (U * J)) * (c * t) <= (t * B) * (c * t)
    <2>1. k * (U * J) \in Int /\ t * B \in Int /\ c * t \in Nat OBVIOUS
    <2> QED BY <2>1, MulMono
<1>4. (O * I) * (B * (w * (U * U))) <= (R * v) * (B * (w * (U * U)))
    <2>1. O * I \in Int /\ R * v \in Int /\ B * (w * (U * U)) \in Nat OBVIOUS
    <2> QED BY <2>1, MulMono
<1>5. (U * v) * (B * (w * (R * U))) <= t * (B * (w * (R * U)))
    <2>1. U * v \in Int /\ B * (w * (R * U)) \in Nat OBVIOUS
    <2> QED BY <2>1, MulMono
<1>6. /\ (k * (U * J)) * (c * t) = (k * c * J) * (U * t)
      /\ (t * B) * (c * t) = (t * t) * (B * c)
      /\ (k * w * ((O + 1) * (I + 1))) * (U * U) = (k * ((O + 1) * (I + 1))) * (w * (U * U))
      /\ (B * (O * I)) * (w * (U * U)) = (O * I) * (B * (w * (U * U)))
      /\ (R * v) * (B * (w * (U * U))) = (U * v) * (B * (w * (R * U)))
      /\ t * (B * (w * (R * U))) = (B * w * R) * (U * t)
    OBVIOUS
<1>7. (k * c * J) * (U * t) <= (B * w * R) * (U * t)
    <2> DEFINE e1 == (k * c * J) * (U * t)
               e2 == (t * t) * (B * c)
               e3 == (k * w * ((O + 1) * (I + 1))) * (U * U)
               e4 == (O * I) * (B * (w * (U * U)))
               e5 == (U * v) * (B * (w * (R * U)))
               e6 == (B * w * R) * (U * t)
    <2>1. /\ e1 \in Int /\ e2 \in Int /\ e3 \in Int /\ e4 \in Int /\ e5 \in Int /\ e6 \in Int
        OBVIOUS
    <2>2. e1 <= e2 /\ e2 <= e3 /\ e3 <= e4
        BY <1>2, <1>3, <1>6, Zenon
    <2>3. e4 <= e5 /\ e5 <= e6
        BY <1>4, <1>5, <1>6, Zenon
    <2> HIDE DEF e1, e2, e3, e4, e5, e6
    <2>4. e1 <= e6 BY <2>1, <2>2, <2>3
    <2> QED BY <2>4 DEF e1, e6
<1>8. k * c * J \in Int /\ B * w * R \in Int /\ U * t \in Nat \ {0} OBVIOUS
<1> QED BY ONLY <1>7, <1>8, Cancel

(* So it is when the input was raised to the least one, as long as that one is small against *)
(* the reserve.                                                                              *)
LEMMA NotPastTheFloor ==
    ASSUME NEW U \in Nat \ {0}, NEW B \in Nat \ {0}, NEW k \in Nat \ {0}, k + 1 <= B,
           NEW O \in Nat \ {0}, NEW I \in Nat \ {0}, NEW w \in Nat \ {0}, NEW c \in Nat \ {0},
           NEW a \in Nat, NEW A \in Nat, U * A <= a, NEW N \in Nat, N * B <= A * k,
           NEW q \in Nat \ {0}, (O - q) * (I + N) >= O * I, c * a <= U * w * q,
           NEW R \in Nat, R = O - q, B * (U + a) <= U * I,
           NEW J \in Nat, U * J <= U * I + U + a
    PROVE  k * c * J <= B * w * R
<1> DEFINE v == I + N
<1>0. v \in Nat \ {0} OBVIOUS
<1>1. q * v <= O * N
    <2>1. (O - q) * v = O * v - q * v /\ O * v = O * I + O * N
        OBVIOUS
    <2>2. q * v \in Int /\ O * v \in Int /\ O * I \in Int /\ O * N \in Int OBVIOUS
    <2> QED BY <2>1, <2>2
<1>r. O * I <= R * v OBVIOUS
<1>2. N >= 1
    <2>1. q * v >= 1 OBVIOUS
    <2>2. N = 0 => O * N = 0 OBVIOUS
    <2> QED BY <1>1, <2>1, <2>2
<1> HIDE DEF v
<1>3. (c * v * B) * (U * N) <= (k * w * O) * (U * N)
    <2>1. (N * B) * (U * (c * v)) <= (A * k) * (U * (c * v))
        <3>1. N * B \in Int /\ A * k \in Int /\ U * (c * v) \in Nat BY <1>0
        <3> QED BY <3>1, MulMono
    <2>2. (U * A) * (k * (c * v)) <= a * (k * (c * v))
        <3>1. U * A \in Int /\ k * (c * v) \in Nat BY <1>0
        <3> QED BY <3>1, MulMono
    <2>3. (c * a) * (k * v) <= (U * w * q) * (k * v)
        <3>1. c * a \in Int /\ U * w * q \in Int /\ k * v \in Nat BY <1>0
        <3> QED BY <3>1, MulMono
    <2>4. (q * v) * (U * (w * k)) <= (O * N) * (U * (w * k))
        <3>1. q * v \in Int /\ O * N \in Int /\ U * (w * k) \in Nat BY <1>0
        <3> QED BY <1>1, <3>1, MulMono
    <2>5. /\ (c * v * B) * (U * N) = (N * B) * (U * (c * v))
          /\ (A * k) * (U * (c * v)) = (U * A) * (k * (c * v))
          /\ a * (k * (c * v)) = (c * a) * (k * v)
          /\ (U * w * q) * (k * v) = (q * v) * (U * (w * k))
          /\ (O * N) * (U * (w * k)) = (k * w * O) * (U * N)
        BY <1>0
    <2>6. /\ (N * B) * (U * (c * v)) \in Int /\ (U * A) * (k * (c * v)) \in Int /\ (c * a) * (k * v) \in Int
          /\ (q * v) * (U * (w * k)) \in Int /\ (k * w * O) * (U * N) \in Int
        BY <1>0
    <2> QED BY ONLY <2>1, <2>2, <2>3, <2>4, <2>5, <2>6
<1>4. c * v * B <= k * w * O
    <2>1. c * v * B \in Int /\ k * w * O \in Int /\ U * N \in Nat \ {0} BY <1>0, <1>2
    <2> QED BY ONLY <1>3, <2>1, Cancel
<1>5. (B * c * I) * v <= (k * w * R) * v
    <2>1. (c * v * B) * I <= (k * w * O) * I
        <3>1. c * v * B \in Int /\ k * w * O \in Int BY <1>0
        <3> QED BY <1>4, <3>1, MulMono
    <2>2. (O * I) * (k * w) <= (R * v) * (k * w)
        <3>1. O * I \in Int /\ R * v \in Int /\ k * w \in Nat BY <1>0
        <3> QED BY <1>r, <3>1, MulMono
    <2>3. /\ (B * c * I) * v = (c * v * B) * I /\ (k * w * O) * I = (O * I) * (k * w)
          /\ (R * v) * (k * w) = (k * w * R) * v
        BY <1>0
    <2>4. (B * c * I) * v \in Int /\ (k * w * O) * I \in Int /\ (k * w * R) * v \in Int BY <1>0
    <2> QED BY ONLY <2>1, <2>2, <2>3, <2>4
<1>6. B * c * I <= k * w * R
    <2>1. B * c * I \in Int /\ k * w * R \in Int BY <1>0
    <2> QED BY <1>0, <1>5, <2>1, Cancel
<1>7. (k * k) * J <= (B * B) * I
    <2>1. (U * J) * (k * k) <= (U * I + U + a) * (k * k)
        <3>1. U * J \in Int /\ U * I + U + a \in Int /\ k * k \in Nat OBVIOUS
        <3> QED BY <3>1, MulMono
    <2>2. k * k + B <= B * B
        <3>1. k * k <= (B - 1) * k BY MulMono
        <3>2. k * (B - 1) <= (B - 1) * (B - 1) BY MulMono
        <3>3. (B - 1) * (B - 1) = B * B - 2 * B + 1 /\ (B - 1) * k = k * (B - 1) OBVIOUS
        <3>4. B * B \in Int /\ k * k \in Int /\ k * (B - 1) \in Int OBVIOUS
        <3> QED BY <3>1, <3>2, <3>3, <3>4
    <2>3. (k * k + B) * (U * I) <= (B * B) * (U * I)
        <3>1. k * k + B \in Int /\ B * B \in Int /\ U * I \in Nat OBVIOUS
        <3> QED BY <2>2, <3>1, MulMono
    <2>4. (B * (U + a)) * B <= (U * I) * B
        <3>1. B * (U + a) \in Int /\ U * I \in Int OBVIOUS
        <3> QED BY <3>1, MulMono
    <2>5. (k * k) * (U + a) <= (B * B) * (U + a)
        <3>1. k * k <= B * B /\ k * k \in Int /\ B * B \in Int
            <4>1. k * k \in Int /\ B * B \in Int OBVIOUS
            <4> QED BY <2>2, <4>1
        <3> QED BY <3>1, MulMono
    <2>6. /\ (U * I + U + a) * (k * k) = (k * k) * (U * I) + (k * k) * (U + a)
          /\ (k * k + B) * (U * I) = (k * k) * (U * I) + (U * I) * B
          /\ (B * (U + a)) * B = (B * B) * (U + a)
          /\ (U * J) * (k * k) = ((k * k) * J) * U
          /\ (B * B) * (U * I) = ((B * B) * I) * U
        OBVIOUS
    <2>7. /\ ((k * k) * J) * U \in Int /\ (k * k) * (U * I) \in Int /\ (k * k) * (U + a) \in Int
          /\ (U * I) * B \in Int /\ (B * B) * (U + a) \in Int /\ ((B * B) * I) * U \in Int
        OBVIOUS
    <2>8. ((k * k) * J) * U <= ((B * B) * I) * U BY ONLY <2>1, <2>3, <2>4, <2>5, <2>6, <2>7
    <2>9. (k * k) * J \in Int /\ (B * B) * I \in Int OBVIOUS
    <2> QED BY ONLY <2>8, <2>9, Cancel, U \in Nat \ {0}
<1>8. (k * c * J) * k <= (B * w * R) * k
    <2>1. ((k * k) * J) * c <= ((B * B) * I) * c
        <3>1. (k * k) * J \in Int /\ (B * B) * I \in Int OBVIOUS
        <3> QED BY <1>7, <3>1, MulMono
    <2>2. (B * c * I) * B <= (k * w * R) * B
        <3>1. B * c * I \in Int /\ k * w * R \in Int OBVIOUS
        <3> QED BY <1>6, <3>1, MulMono
    <2>3. /\ ((k * k) * J) * c = (k * c * J) * k /\ ((B * B) * I) * c = (B * c * I) * B
          /\ (k * w * R) * B = (B * w * R) * k
        OBVIOUS
    <2>4. (k * c * J) * k \in Int /\ (B * c * I) * B \in Int /\ (B * w * R) * k \in Int OBVIOUS
    <2> QED BY ONLY <2>1, <2>2, <2>3, <2>4
<1>9. k * c * J \in Int /\ B * w * R \in Int OBVIOUS
<1> QED BY ONLY <1>8, <1>9, Cancel, k \in Nat \ {0}

-----------------------------------------------------------------------------
(* What the arbitrageur leaves at the normalizer's pool. *)

(* A side's two prices: of a unit of what is paid out, and of one of what is paid in. *)
Gain(side, price) == IF side = BUY_X THEN price ELSE 1
Cost(side, price) == IF side = BUY_X THEN 1 ELSE price

InReserve(a, side) == IF side = BUY_X THEN a.reserve_y ELSE a.reserve_x

(* Whole nanos, and the part of a trade that a pool's fee keeps in the price. *)
Nanos(v) == v \div Unit

Keep(a) == BPS - StorageFee(a.storage)

(* Reserves large against a nano, for one visit of the arbitrageur: the program charges   *)
(* the fee the arbitrageur reads, of a tenth at most; a nano is little of either reserve, *)
(* of their fee and of their price; the least input is little of the reserve it is paid    *)
(* into; and no amount comes near the cap.                                              *)
Ample(a, price) ==
    LET x == Nanos(a.reserve_x)
        y == Nanos(a.reserve_y)
    IN  /\ NormalizerFee(a.storage) = StorageFee(a.storage)
        /\ 9 * BPS <= 10 * Keep(a)
        /\ \A r \in {x, y} : r >= 3 * BPS /\ r >= 2 * price
        /\ 2 * price * x <= y * y /\ 2 * y <= price * x * x
        /\ \A side \in Sides :
              BPS * (Unit + MinTradeInput(side, price)) <= Unit * Nanos(InReserve(a, side))
        /\ BPS * Worth(a, price) <= Keep(a) * MaxInput

(* MAX_INPUT_AMOUNT is 0.999999 of what a u64 of nanos can say. *)
Representable == MaxInput < Unit * U64Max

(* Nothing is left on one side of a pool. *)
Dry(a, side, price) ==
    \A input \in MinTradeInput(side, price) .. MaxInput : \A q \in Quotes(a, side, input) :
        q = 0 \/ Profit(side, price, input, q)
                    < MinArbProfit + Unit * (Gain(side, price) + 3 * Cost(side, price))

(* A trade's profit is the output at the one price less the input at the other. *)
LEMMA Weights ==
    ASSUME NEW side \in Sides, NEW price \in Nat \ {0}
    PROVE  /\ Gain(side, price) \in Nat \ {0} /\ Cost(side, price) \in Nat \ {0}
           /\ \A x, y \in Int : Profit(side, price, x, y) = Gain(side, price) * y - Cost(side, price) * x
<1>1. CASE side = BUY_X
    BY <1>1 DEF Gain, Cost, Profit
<1>2. CASE side # BUY_X
    BY <1>2 DEF Gain, Cost, Profit
<1> QED BY <1>1, <1>2

(* An amount is its whole nanos and less than a nano. *)
LEMMA NanoSplit ==
    ASSUME NEW v \in Nat
    PROVE  /\ Nanos(v) \in Nat /\ Unit * Nanos(v) <= v /\ v < Unit * Nanos(v) + Unit
           /\ v < Unit * U64Max => F64ToNano(v) = Nanos(v)
<1>1. Unit \in Nat \ {0} /\ U64Max \in Nat \ {0} BY AmountAssumption
<1>2. /\ v \div Unit \in Nat /\ (v \div Unit) * Unit <= v /\ v < (v \div Unit) * Unit + Unit
    BY <1>1, Quotient
<1>3. ASSUME v < Unit * U64Max PROVE F64ToNano(v) = v \div Unit
    <2>1. ~(v \div Unit >= U64Max)
        <3>1. SUFFICES ASSUME U64Max <= v \div Unit PROVE FALSE BY <1>1, <1>2
        <3>2. U64Max * Unit <= (v \div Unit) * Unit BY <1>1, <1>2, <3>1, MulMono
        <3>3. U64Max * Unit = Unit * U64Max /\ Unit * U64Max \in Int /\ (v \div Unit) * Unit \in Int BY <1>1, <1>2
        <3> QED BY <1>2, <1>3, <3>2, <3>3
    <2>2. v = 0 => v \div Unit = 0 BY <1>1
    <2> QED BY <2>1, <2>2 DEF F64ToNano
<1> DEFINE d == v \div Unit
<1> HIDE DEF d
<1>4. d * Unit = Unit * d BY <1>1, <1>2 DEF d
<1> QED BY <1>2, <1>3, <1>4 DEF d, Nanos

(* What the normalizer quotes, if all that it is told can be represented. *)
LEMMA NormQuote ==
    ASSUME NEW a \in NormAmms, Floored(a), NEW side \in Sides, NEW input \in Nat \ {0},
           input < Unit * U64Max, a.reserve_x < Unit * U64Max, a.reserve_y < Unit * U64Max,
           Nanos(a.reserve_x) > 0, Nanos(a.reserve_y) > 0,
           NormalizerFee(a.storage) = StorageFee(a.storage),
           NEW q \in Quotes(a, side, input)
    PROVE  q = Unit * CpOutput(Nanos(input), Nanos(InReserve(a, side)), Nanos(OutReserve(a, side)),
                               Keep(a), BPS)
<1> DEFINE i == InReserve(a, side)
           o == OutReserve(a, side)
           n == CpOutput(Nanos(input), Nanos(i), Nanos(o), Keep(a), BPS)
<1>1. /\ a.name = "normalizer" /\ a.reserve_x \in Nat /\ a.reserve_y \in Nat
      /\ a.storage \in 0 .. BPS - 1
    BY DEF NormAmms
<1>2. NormalizerSwap(side, F64ToNano(input), F64ToNano(a.reserve_x), F64ToNano(a.reserve_y), a.storage) = n
    <2>1. /\ F64ToNano(input) = Nanos(input)
          /\ F64ToNano(a.reserve_x) = Nanos(a.reserve_x) /\ F64ToNano(a.reserve_y) = Nanos(a.reserve_y)
        BY <1>1, NanoSplit
    <2> QED BY <2>1, Zenon DEF NormalizerSwap, InReserve, OutReserve, Keep
<1>3. i \in Nat /\ o \in Nat /\ Nanos(i) > 0 /\ Nanos(o) > 0
    BY <1>1 DEF InReserve, OutReserve
<1>4. n \in Nat /\ n < Nanos(o)
    <2>1. Nanos(input) \in Nat /\ Nanos(i) \in Nat \ {0} /\ Nanos(o) \in Nat \ {0}
        BY <1>3, NanoSplit
    <2>2. Keep(a) \in Nat /\ BPS \in Nat \ {0}
        BY <1>1, FeeAssumption DEF Keep, StorageFee
    <2> QED BY <2>1, <2>2, CurveBounds
<1>5. ~(NanoToF64(n) > o)
    <2>1. n * Unit <= Nanos(o) * Unit
        BY <1>3, <1>4, NanoSplit, AmountAssumption, MulMono
    <2>2. Nanos(o) * Unit = Unit * Nanos(o) /\ Unit * Nanos(o) <= o /\ n * Unit \in Int /\ Nanos(o) * Unit \in Int
        BY <1>3, <1>4, NanoSplit, AmountAssumption
    <2> QED BY <1>3, <2>1, <2>2 DEF NanoToF64
<1>6. Quotes(a, side, input) = {NanoToF64(n)}
    <2>1. Call(a, side, F64ToNano(input), F64ToNano(a.reserve_x), F64ToNano(a.reserve_y)) = {n}
        BY <1>1, <1>2 DEF Call
    <2> HIDE DEF n, o
    <2>2. ~(input <= 0 \/ ~Floored(a)) OBVIOUS
    <2>3. Quotes(a, side, input) = {IF NanoToF64(z) > o THEN 0 ELSE NanoToF64(z) : z \in {n}}
        BY <2>1, <2>2 DEF Quotes, o
    <2> QED BY <1>5, <2>3
<1> HIDE DEF n
<1>7. q = n * Unit /\ n * Unit = Unit * n
    BY <1>4, <1>6, AmountAssumption DEF NanoToF64
<1> QED BY <1>7 DEF n, i, o

(* The product under the root of the closed form. *)
LEMMA Optimum ==
    ASSUME NEW a \in NormAmms, NEW side \in Sides, NEW price \in Nat \ {0}, NEW k \in Nat \ {0}
    PROVE  LET n == IF side = BUY_X THEN (price * a.reserve_x * a.reserve_y * k) \div BPS
                    ELSE (a.reserve_y * a.reserve_x * k) \div (BPS * price)
               w == Gain(side, price)
               c == Cost(side, price)
               i == InReserve(a, side)
               o == OutReserve(a, side)
           IN  /\ n \in Nat /\ n * (BPS * c) <= (k * w) * (o * i)
               /\ (k * w) * (o * i) < n * (BPS * c) + BPS * c
<1>1. /\ a.reserve_x \in Nat /\ a.reserve_y \in Nat /\ BPS \in Nat \ {0} BY FeeAssumption DEF NormAmms
<1> DEFINE x == a.reserve_x
           y == a.reserve_y
<1>2. CASE side = BUY_X
    <2>1. price * x * y * k = (k * price) * (x * y) /\ price * x * y * k \in Nat /\ BPS * 1 = BPS BY <1>1
    <2> DEFINE p == price * x * y * k
    <2> HIDE DEF p
    <2>2. p \in Nat /\ p = (k * price) * (x * y) BY <2>1 DEF p
    <2>3. p \div BPS \in Nat /\ (p \div BPS) * BPS <= p /\ p < (p \div BPS) * BPS + BPS
        BY <1>1, <2>2, Quotient
    <2>4. /\ Gain(side, price) = price /\ Cost(side, price) = 1
          /\ InReserve(a, side) = y /\ OutReserve(a, side) = x
        BY <1>2 DEF Gain, Cost, InReserve, OutReserve
    <2> HIDE DEF x, y
    <2> QED BY <1>2, <2>1, <2>2, <2>3, <2>4 DEF p, x, y
<1>3. CASE side # BUY_X
    <2>1. y * x * k = (k * 1) * (y * x) /\ y * x * k \in Nat /\ BPS * price \in Nat \ {0} BY <1>1
    <2> DEFINE p == y * x * k
               d == BPS * price
    <2> HIDE DEF p, d
    <2>2. p \in Nat /\ p = (k * 1) * (y * x) /\ d \in Nat \ {0} BY <2>1 DEF p, d
    <2>3. p \div d \in Nat /\ (p \div d) * d <= p /\ p < (p \div d) * d + d
        BY <2>2, Quotient
    <2>4. /\ Gain(side, price) = 1 /\ Cost(side, price) = price
          /\ InReserve(a, side) = x /\ OutReserve(a, side) = y
        BY <1>3 DEF Gain, Cost, InReserve, OutReserve
    <2> HIDE DEF x, y
    <2> QED BY <1>3, <2>2, <2>3, <2>4 DEF p, d, x, y
<1> QED BY <1>2, <1>3

(* What the plan of a side is made from: the product n under the root of the closed form, *)
(* its integer root t, and the input u that would bring the reserve paid into there.      *)
ClosedForm(a, side, price, plan, n, t, u) ==
    LET k == Keep(a)
        w == Gain(side, price)
        c == Cost(side, price)
        i == InReserve(a, side)
        o == OutReserve(a, side)
    IN  /\ n * (BPS * c) <= (k * w) * (o * i)
        /\ (k * w) * (o * i) < n * (BPS * c) + BPS * c
        /\ t * t <= n /\ n < (t + 1) * (t + 1)
        /\ t * BPS <= k * MaxInput
        /\ t <= i => plan = {}
        /\ t > i => /\ u * k <= (t - i) * BPS /\ (t - i) * BPS < u * k + k
                    /\ u <= MaxInput
                    /\ plan \in Candidates(a, side, price, Larger(MinTradeInput(side, price), u))

(* Every plan is one of the closed form, and the cap on the input does not bind. *)
LEMMA NormPlan ==
    ASSUME NEW a \in NormAmms, NEW side \in Sides, NEW price \in Nat \ {0}, Floored(a), Ample(a, price),
           NEW plan \in NormalizerPlans(a, side, price)
    PROVE  \E n, t, u \in Nat : ClosedForm(a, side, price, plan, n, t, u)
<1> DEFINE k == BPS - StorageFee(a.storage)
           x == a.reserve_x
           y == a.reserve_y
           i == IF side = BUY_X THEN y ELSE x
           n == IF side = BUY_X THEN (price * x * y * k) \div BPS
                ELSE (y * x * k) \div (BPS * price)
           top == IF side = BUY_X THEN price * x + y ELSE x + y
           u(t) == ((t - i) * BPS) \div k
           Input(t) == Larger(MinTradeInput(side, price), Smaller(u(t), MaxInput))
<1>1. /\ x \in Nat \ {0} /\ y \in Nat \ {0} /\ BPS \in Nat \ {0} /\ k \in Nat \ {0} /\ k <= BPS
      /\ MaxInput \in Nat
    BY FeeAssumption, ReserveAssumption, ArbAssumption DEF NormAmms, Floored, StorageFee
<1>2. Keep(a) = k /\ i = InReserve(a, side) BY DEF Keep, InReserve
<1>3. PICK t \in Roots(n, top) :
         plan \in IF t <= i THEN {{}} ELSE Candidates(a, side, price, Input(t))
    <2>1. ~(k <= 0 \/ x <= 0 \/ y <= 0) BY <1>1
    <2>2. NormalizerPlans(a, side, price) =
             UNION {IF t <= i THEN {{}} ELSE Candidates(a, side, price, Input(t)) :
                       t \in IF side = BUY_X THEN Roots((price * x * y * k) \div BPS, price * x + y)
                             ELSE Roots((y * x * k) \div (BPS * price), x + y)}
        BY <2>1, Zenon DEF NormalizerPlans
    <2> DEFINE S == IF side = BUY_X THEN Roots((price * x * y * k) \div BPS, price * x + y)
                    ELSE Roots((y * x * k) \div (BPS * price), x + y)
    <2>3. S = Roots(n, top) BY Zenon
    <2> HIDE DEF k, i, Input, S, n, top, x, y
    <2>4. plan \in UNION {IF t <= i THEN {{}} ELSE Candidates(a, side, price, Input(t)) : t \in S}
        BY <2>2 DEF S
    <2> QED BY <2>3, <2>4
<1>4. t \in Nat /\ t <= top /\ t * t <= n /\ n < (t + 1) * (t + 1)
    <2>1. top \in Int BY <1>1
    <2> HIDE DEF top, n
    <2> QED BY <1>3, <2>1 DEF Roots
<1>5. top <= Worth(a, price) /\ Worth(a, price) \in Nat /\ top \in Nat
    <2>1. price * x = x * price /\ x * price \in Nat /\ x <= x * price
        <3>1. 1 * x <= price * x BY <1>1, MulMono
        <3> QED BY <1>1, <3>1
    <2> QED BY <1>1, <2>1 DEF Worth
<1>6. t * BPS <= k * MaxInput
    <2>1. t * BPS <= Worth(a, price) * BPS
        <3> HIDE DEF top
        <3> QED BY <1>1, <1>4, <1>5, MulMono
    <2>2. BPS * Worth(a, price) <= k * MaxInput BY DEF Ample, Keep
    <2>3. Worth(a, price) * BPS = BPS * Worth(a, price) /\ BPS * Worth(a, price) \in Int
          /\ t * BPS \in Int /\ k * MaxInput \in Int
        <3> HIDE DEF k
        <3> QED BY <1>1, <1>4, <1>5
    <2> HIDE DEF k
    <2> QED BY <2>1, <2>2, <2>3
<1>7. n \in Nat /\ n * (BPS * Cost(side, price)) <= (k * Gain(side, price)) * (OutReserve(a, side) * i)
      /\ (k * Gain(side, price)) * (OutReserve(a, side) * i)
            < n * (BPS * Cost(side, price)) + BPS * Cost(side, price)
    BY <1>1, <1>2, Optimum
<1> HIDE DEF k, top, n, x, y
<1>8. i \in Nat BY <1>1
<1> HIDE DEF i
<1>9. ASSUME t > i
      PROVE  /\ u(t) \in Nat /\ u(t) * k <= (t - i) * BPS /\ (t - i) * BPS < u(t) * k + k
             /\ u(t) <= MaxInput /\ Input(t) = Larger(MinTradeInput(side, price), u(t))
    <2>1. (t - i) * BPS \in Nat /\ (t - i) * BPS <= t * BPS
        <3>1. t - i \in Nat /\ t - i <= t BY <1>4, <1>8, <1>9
        <3> QED BY <1>1, <1>4, <3>1, MulMono
    <2>2. u(t) \in Nat /\ u(t) * k <= (t - i) * BPS /\ (t - i) * BPS < u(t) * k + k
        BY <1>1, <2>1, Quotient
    <2> HIDE DEF u
    <2>3. u(t) * k <= MaxInput * k
        <3>1. k * MaxInput = MaxInput * k /\ u(t) * k \in Int /\ MaxInput * k \in Int /\ t * BPS \in Int
            BY <1>1, <1>4, <2>2
        <3> QED BY <1>6, <2>1, <2>2, <3>1
    <2>4. u(t) <= MaxInput BY <1>1, <2>2, <2>3, Cancel
    <2>5. Smaller(u(t), MaxInput) = u(t) BY <2>4 DEF Smaller
    <2> QED BY <2>2, <2>4, <2>5
<1> DEFINE v == IF t > i THEN u(t) ELSE 0
<1>10. v \in Nat BY <1>9
<1>11. t <= i => plan = {} BY <1>3
<1>12. t > i => plan \in Candidates(a, side, price, Input(t)) BY <1>3, <1>4, <1>8
<1>13. t > i => v = u(t) OBVIOUS
<1> HIDE DEF u, v, Input
<1>14. n \in Nat /\ t \in Nat /\ v \in Nat BY <1>4, <1>7, <1>10
<1>15. ClosedForm(a, side, price, plan, n, t, v)
    BY <1>2, <1>4, <1>6, <1>7, <1>9, <1>11, <1>12, <1>13 DEF ClosedForm
<1> QED BY <1>14, <1>15

(* The reserves of an ample pool, seen from one side. *)
LEMMA AmpleSide ==
    ASSUME NEW a \in NormAmms, NEW side \in Sides, NEW price \in Nat \ {0}, Ample(a, price)
    PROVE  LET k == Keep(a)
               w == Gain(side, price)
               c == Cost(side, price)
               i == InReserve(a, side)
               o == OutReserve(a, side)
               I == Nanos(i)
               O == Nanos(o)
           IN  /\ k \in Nat \ {0} /\ BPS \in Nat \ {0} /\ k + 1 <= BPS /\ 9 * BPS <= 10 * k
               /\ NormalizerFee(a.storage) = StorageFee(a.storage)
               /\ i \in Nat /\ o \in Nat /\ i <= Worth(a, price) /\ o <= Worth(a, price)
               /\ Worth(a, price) \in Nat /\ BPS * Worth(a, price) <= k * MaxInput
               /\ Worth(a, price) <= MaxInput /\ MaxInput \in Nat
               /\ I \in Nat /\ O \in Nat /\ I >= 3 * BPS /\ O >= 3 * BPS /\ I >= 30 /\ O >= 30
               /\ 2 * w <= I /\ 2 * w <= O /\ 2 * w * O <= c * I * I
               /\ BPS * (Unit + MinTradeInput(side, price)) <= Unit * I
               /\ MinTradeInput(side, price) \in Nat \ {0}
<1> DEFINE k == Keep(a)
           x == a.reserve_x
           y == a.reserve_y
           W == Worth(a, price)
<1>1. x \in Nat /\ y \in Nat /\ a.storage \in 0 .. BPS - 1 BY DEF NormAmms
<1>2. k \in Nat \ {0} /\ BPS \in Nat \ {0} /\ k + 1 <= BPS
    BY <1>1, FeeAssumption DEF Keep, StorageFee
<1>3. 9 * BPS <= 10 * k /\ BPS * W <= k * MaxInput /\ NormalizerFee(a.storage) = StorageFee(a.storage)
    BY DEF Ample
<1>4. W \in Nat /\ x <= W /\ y <= W
    <2>1. x * price \in Nat /\ x <= x * price
        <3>1. 1 * x <= price * x BY <1>1, MulMono
        <3> QED BY <1>1, <3>1
    <2> QED BY <1>1, <2>1 DEF Worth
<1>5. BPS >= 10 BY <1>2, <1>3
<1>6. W <= MaxInput /\ MaxInput \in Nat
    <2>0. MaxInput \in Nat BY ArbAssumption
    <2>1. k * MaxInput <= BPS * MaxInput BY <1>2, <2>0, MulMono
    <2>2. W * BPS <= MaxInput * BPS
        <3> HIDE DEF k, W
        <3>1. /\ W * BPS = BPS * W /\ MaxInput * BPS = BPS * MaxInput
              /\ BPS * W \in Int /\ BPS * MaxInput \in Int /\ k * MaxInput \in Int
            BY <1>2, <1>4, <2>0
        <3> QED BY <1>3, <2>1, <3>1
    <2> HIDE DEF W
    <2> QED BY <1>2, <1>4, <2>0, <2>2, Cancel
<1>7. /\ Nanos(x) \in Nat /\ Nanos(y) \in Nat /\ Nanos(x) >= 3 * BPS /\ Nanos(y) >= 3 * BPS
      /\ 2 * price <= Nanos(x) /\ 2 * price <= Nanos(y)
      /\ 2 * price * Nanos(x) <= Nanos(y) * Nanos(y)
      /\ 2 * Nanos(y) <= price * Nanos(x) * Nanos(x)
    BY <1>1, <1>2, NanoSplit DEF Ample
<1>8. /\ BPS * (Unit + MinTradeInput(side, price)) <= Unit * Nanos(InReserve(a, side))
      /\ MinTradeInput(side, price) \in Nat \ {0}
    <2>1. MinTradeInput(side, price) \in Nat \ {0}
        BY ArbAssumption DEF MinTradeInput, Larger
    <2> QED BY <2>1 DEF Ample
<1>9. CASE side = BUY_X
    <2>1. /\ Gain(side, price) = price /\ Cost(side, price) = 1
          /\ InReserve(a, side) = y /\ OutReserve(a, side) = x
        BY <1>9 DEF Gain, Cost, InReserve, OutReserve
    <2>2. 1 * Nanos(y) * Nanos(y) = Nanos(y) * Nanos(y) BY <1>7
    <2> HIDE DEF k, x, y, W
    <2> QED BY <1>1, <1>2, <1>3, <1>4, <1>5, <1>6, <1>7, <1>8, <2>1, <2>2 DEF k, W
<1>10. CASE side # BUY_X
    <2>1. /\ Gain(side, price) = 1 /\ Cost(side, price) = price
          /\ InReserve(a, side) = x /\ OutReserve(a, side) = y
        BY <1>10 DEF Gain, Cost, InReserve, OutReserve
    <2>2. 2 * 1 <= Nanos(x) /\ 2 * 1 <= Nanos(y) /\ 2 * 1 * Nanos(y) = 2 * Nanos(y) BY <1>5, <1>7
    <2> HIDE DEF k, x, y, W
    <2> QED BY <1>1, <1>2, <1>3, <1>4, <1>5, <1>6, <1>7, <1>8, <2>1, <2>2 DEF k, W
<1> QED BY <1>9, <1>10

(* A quote of an ample pool is a point of the curve, in nanos. *)
OnCurve(a, side, amount, net, paid) ==
    LET k == Keep(a)
        I == Nanos(InReserve(a, side))
        O == Nanos(OutReserve(a, side))
    IN  /\ net * BPS <= amount * k /\ amount * k < net * BPS + BPS
        /\ paid < O
        /\ (O - paid) * (I + net) >= O * I
        /\ (O - paid) * (I + net) < O * I + I + net

(* A pool whose reserves the program is told as they are, and with the fee the arbitrageur reads. *)
Told(a) ==
    /\ NormalizerFee(a.storage) = StorageFee(a.storage)
    /\ a.reserve_x <= MaxInput /\ a.reserve_y <= MaxInput
    /\ Nanos(a.reserve_x) > 0 /\ Nanos(a.reserve_y) > 0

(* The normalizer's program is told the reserves of an ample pool as they are. *)
LEMMA AmpleTold ==
    ASSUME NEW a \in NormAmms, NEW price \in Nat \ {0}, Ample(a, price)
    PROVE  Told(a)
<1>1. /\ InReserve(a, BUY_X) <= MaxInput /\ OutReserve(a, BUY_X) <= MaxInput
      /\ NormalizerFee(a.storage) = StorageFee(a.storage)
      /\ Nanos(InReserve(a, BUY_X)) >= 30 /\ Nanos(OutReserve(a, BUY_X)) >= 30
      /\ Nanos(InReserve(a, BUY_X)) \in Nat /\ Nanos(OutReserve(a, BUY_X)) \in Nat
      /\ InReserve(a, BUY_X) \in Nat /\ OutReserve(a, BUY_X) \in Nat
      /\ InReserve(a, BUY_X) <= Worth(a, price) /\ OutReserve(a, BUY_X) <= Worth(a, price)
      /\ Worth(a, price) <= MaxInput /\ Worth(a, price) \in Nat /\ MaxInput \in Nat
    BY AmpleSide DEF Sides
<1>2. InReserve(a, BUY_X) = a.reserve_y /\ OutReserve(a, BUY_X) = a.reserve_x
    BY DEF InReserve, OutReserve
<1> QED BY <1>1, <1>2 DEF Told

(* Every quote of such a pool is a point of the curve. *)
LEMMA CurveQuote ==
    ASSUME NEW a \in NormAmms, Floored(a), NEW side \in Sides,
           Told(a), Representable, NEW input \in 1 .. MaxInput,
           NEW q \in Quotes(a, side, input)
    PROVE  \E net, paid \in Nat : q = Unit * paid /\ OnCurve(a, side, Nanos(input), net, paid)
<1> DEFINE k == Keep(a)
           i == InReserve(a, side)
           o == OutReserve(a, side)
           I == Nanos(i)
           O == Nanos(o)
           A == Nanos(input)
           net == (A * k) \div BPS
           paid == CpOutput(A, I, O, k, BPS)
<1>1. /\ k \in Nat \ {0} /\ BPS \in Nat \ {0} /\ i <= MaxInput /\ o <= MaxInput
      /\ NormalizerFee(a.storage) = StorageFee(a.storage)
      /\ I \in Nat \ {0} /\ O \in Nat \ {0} /\ i \in Nat /\ o \in Nat
    <2>1. /\ a.reserve_x \in Nat /\ a.reserve_y \in Nat /\ a.storage \in 0 .. BPS - 1
        BY DEF NormAmms
    <2>2. Nanos(a.reserve_x) \in Nat /\ Nanos(a.reserve_y) \in Nat BY <2>1, NanoSplit
    <2>3. k \in Nat \ {0} /\ BPS \in Nat \ {0} BY <2>1, FeeAssumption DEF Keep, StorageFee
    <2> HIDE DEF k
    <2> QED BY <2>1, <2>2, <2>3 DEF Told, InReserve, OutReserve
<1>2. MaxInput < Unit * U64Max BY DEF Representable
<1>3. MaxInput \in Nat /\ Unit * U64Max \in Nat BY ArbAssumption, AmountAssumption
<1>4. /\ input \in Nat \ {0} /\ input < Unit * U64Max
      /\ i < Unit * U64Max /\ o < Unit * U64Max
    BY <1>1, <1>2, <1>3
<1>5. /\ a.reserve_x < Unit * U64Max /\ a.reserve_y < Unit * U64Max
      /\ Nanos(a.reserve_x) > 0 /\ Nanos(a.reserve_y) > 0
    BY <1>1, <1>4 DEF InReserve, OutReserve
<1>6. q = Unit * paid
    <2> HIDE DEF k, i, o, I, O, A, paid
    <2> QED BY <1>1, <1>4, <1>5, NormQuote DEF k, i, o, I, O, A, paid
<1>7. A \in Nat BY <1>4, NanoSplit
<1>8. /\ net \in Nat /\ net * BPS <= A * k /\ A * k < net * BPS + BPS
      /\ paid \in Nat /\ paid < O
      /\ (O - paid) * (I + net) >= O * I
      /\ (O - paid) * (I + net) < O * I + I + net
    <2> HIDE DEF k, I, O, A
    <2> QED BY <1>1, <1>7, CurveBounds
<1>9. OnCurve(a, side, A, net, paid)
    <2> HIDE DEF net, paid
    <2> QED BY <1>8 DEF OnCurve
<1> HIDE DEF net, paid
<1> QED BY <1>6, <1>8, <1>9

(* What is left of a trade, as far as a quote's nanos tell. *)
LEMMA LeftOver ==
    ASSUME NEW side \in Sides, NEW price \in Nat \ {0}, NEW input \in Nat, NEW paid \in Nat,
           Unit * (Gain(side, price) * paid - Cost(side, price) * Nanos(input))
              < MinArbProfit + Unit * (Gain(side, price) + 3 * Cost(side, price))
    PROVE  Profit(side, price, input, Unit * paid)
              < MinArbProfit + Unit * (Gain(side, price) + 3 * Cost(side, price))
<1> DEFINE w == Gain(side, price)
           c == Cost(side, price)
           A == Nanos(input)
           rest == MinArbProfit + Unit * (w + 3 * c)
<1>1. w \in Nat \ {0} /\ c \in Nat \ {0} /\ Unit \in Nat \ {0} BY Weights, AmountAssumption
<1>2. A \in Nat /\ Unit * A <= input BY NanoSplit
<1>3. Profit(side, price, input, Unit * paid) = w * (Unit * paid) - c * input
    <2>1. Unit * paid \in Int /\ input \in Int BY <1>1
    <2> HIDE DEF w, c
    <2> QED BY <2>1, Weights DEF w, c
<1>4. (Unit * A) * c <= input * c
    <2> HIDE DEF A, w, c
    <2> QED BY <1>1, <1>2, MulMono
<1>5. Unit * (w * paid - c * A) = w * (Unit * paid) - (Unit * A) * c /\ input * c = c * input
    <2> HIDE DEF A, w, c
    <2> QED BY <1>1, <1>2
<1>6. w * (Unit * paid) \in Int /\ (Unit * A) * c \in Int /\ c * input \in Int
    <2> HIDE DEF A, w, c
    <2> QED BY <1>1, <1>2
<1>7. rest \in Int
    <2> HIDE DEF w, c
    <2> QED BY <1>1, ArbAssumption
<1>8. Unit * (w * paid - c * A) < rest OBVIOUS
<1> DEFINE e1 == Unit * (w * paid - c * A)
           e2 == w * (Unit * paid)
           e3 == (Unit * A) * c
           e4 == c * input
           e5 == input * c
<1>9. e5 = e4 /\ e1 = e2 - e3 /\ e3 <= e5 /\ e1 < rest BY <1>4, <1>5, <1>8
<1>10. e2 \in Int /\ e3 \in Int /\ e4 \in Int BY <1>6
<1>11. e2 - e4 < rest
    <2> HIDE DEF e1, e2, e3, e4, e5, rest
    <2> QED BY <1>7, <1>9, <1>10
<1> QED BY <1>3, <1>11

(* Nothing is left where no point of the curve earns anything. *)
LEMMA DryWhen ==
    ASSUME NEW a \in NormAmms, Floored(a), NEW side \in Sides, NEW price \in Nat \ {0},
           Told(a), Representable,
           \A input \in MinTradeInput(side, price) .. MaxInput : \A net, paid \in Nat :
              OnCurve(a, side, Nanos(input), net, paid) =>
                 paid = 0 \/ Unit * (Gain(side, price) * paid - Cost(side, price) * Nanos(input))
                    < MinArbProfit + Unit * (Gain(side, price) + 3 * Cost(side, price))
    PROVE  Dry(a, side, price)
<1>1. SUFFICES ASSUME NEW input \in MinTradeInput(side, price) .. MaxInput,
                      NEW q \in Quotes(a, side, input)
               PROVE  q = 0 \/ Profit(side, price, input, q)
                         < MinArbProfit + Unit * (Gain(side, price) + 3 * Cost(side, price))
    BY DEF Dry
<1>2. MinTradeInput(side, price) \in Nat \ {0} /\ MaxInput \in Nat
    BY ArbAssumption DEF MinTradeInput, Larger
<1>3. input \in 1 .. MaxInput /\ input \in Nat BY <1>2
<1>4. PICK net, paid \in Nat : q = Unit * paid /\ OnCurve(a, side, Nanos(input), net, paid)
    BY <1>3, CurveQuote
<1>5. CASE paid = 0
    BY <1>4, <1>5, AmountAssumption
<1>6. CASE paid # 0
    <2>1. Unit * (Gain(side, price) * paid - Cost(side, price) * Nanos(input))
             < MinArbProfit + Unit * (Gain(side, price) + 3 * Cost(side, price))
        BY <1>4, <1>6
    <2> QED BY <1>3, <1>4, <2>1, LeftOver
<1> QED BY <1>5, <1>6

(* The marginal price has come close to the fair one: no trade earns more than truncation hides. *)
LEMMA FlatIsDry ==
    ASSUME NEW a \in NormAmms, Floored(a), NEW side \in Sides, NEW price \in Nat \ {0},
           Told(a), Representable, 9 * BPS <= 10 * Keep(a),
           Nanos(InReserve(a, side)) >= 30, Nanos(InReserve(a, side)) >= Gain(side, price),
           Keep(a) * Gain(side, price) * Nanos(OutReserve(a, side))
              <= BPS * Cost(side, price) * Nanos(InReserve(a, side))
                    + BPS * (7 * Cost(side, price) + Gain(side, price))
    PROVE  Dry(a, side, price)
<1> DEFINE k == Keep(a)
           I == Nanos(InReserve(a, side))
           O == Nanos(OutReserve(a, side))
           w == Gain(side, price)
           c == Cost(side, price)
<1>1. /\ k \in Nat \ {0} /\ BPS \in Nat \ {0} /\ w \in Nat \ {0} /\ c \in Nat \ {0}
      /\ I \in Nat \ {0} /\ O \in Nat \ {0}
    <2>1. a.reserve_x \in Nat /\ a.reserve_y \in Nat /\ a.storage \in 0 .. BPS - 1 BY DEF NormAmms
    <2>2. Nanos(a.reserve_x) \in Nat \ {0} /\ Nanos(a.reserve_y) \in Nat \ {0} BY <2>1, NanoSplit DEF Told
    <2>3. k \in Nat \ {0} /\ BPS \in Nat \ {0} BY <2>1, FeeAssumption DEF Keep, StorageFee
    <2> HIDE DEF k
    <2> QED BY <2>2, <2>3, Weights DEF InReserve, OutReserve
<1>2. ASSUME NEW input \in MinTradeInput(side, price) .. MaxInput, NEW net \in Nat, NEW paid \in Nat,
             OnCurve(a, side, Nanos(input), net, paid)
      PROVE  Unit * (w * paid - c * Nanos(input)) < MinArbProfit + Unit * (w + 3 * c)
    <2> DEFINE A == Nanos(input)
    <2>1. A \in Nat
        <3>1. MinTradeInput(side, price) \in Nat BY ArbAssumption DEF MinTradeInput, Larger
        <3> QED BY <3>1, ArbAssumption, NanoSplit
    <2>2. net * BPS <= A * k /\ (O - paid) * (I + net) >= O * I BY <1>2 DEF OnCurve
    <2>3. w * paid - c * A < w + 3 * c
        <3>1. 9 * BPS <= 10 * k /\ I >= 30 /\ I >= w /\ k * w * O <= BPS * c * I + BPS * (7 * c + w)
            OBVIOUS
        <3> HIDE DEF k, I, O, w, c, A
        <3> QED BY <1>1, <2>1, <2>2, <3>1, LittleLeft
    <2>4. w * paid - c * A \in Int /\ w + 3 * c \in Int
        <3> HIDE DEF w, c, A
        <3> QED BY <1>1, <2>1
    <2> DEFINE e == w * paid - c * A
               f == w + 3 * c
    <2>5. e \in Int /\ f \in Int /\ e < f BY <2>3, <2>4
    <2> HIDE DEF e, f
    <2>6. Unit * e < Unit * f /\ Unit * e \in Int /\ Unit * f \in Int
        BY <2>5, AmountAssumption
    <2>7. Unit * e < MinArbProfit + Unit * f BY <2>6, ArbAssumption
    <2> QED BY <2>7 DEF e, f
<1> HIDE DEF k, I, O
<1> QED BY <1>2, DryWhen

(* The marginal price is past the fair one: every trade loses. *)
LEMMA SpentIsDry ==
    ASSUME NEW a \in NormAmms, Floored(a), NEW side \in Sides, NEW price \in Nat \ {0},
           Told(a), Representable,
           Keep(a) * Gain(side, price) * Nanos(OutReserve(a, side))
              <= BPS * Cost(side, price) * Nanos(InReserve(a, side))
    PROVE  Dry(a, side, price)
<1> DEFINE k == Keep(a)
           I == Nanos(InReserve(a, side))
           O == Nanos(OutReserve(a, side))
           w == Gain(side, price)
           c == Cost(side, price)
<1>1. /\ k \in Nat \ {0} /\ BPS \in Nat \ {0} /\ w \in Nat \ {0} /\ c \in Nat \ {0}
      /\ I \in Nat \ {0} /\ O \in Nat \ {0}
    <2>1. a.reserve_x \in Nat /\ a.reserve_y \in Nat /\ a.storage \in 0 .. BPS - 1 BY DEF NormAmms
    <2>2. Nanos(a.reserve_x) \in Nat \ {0} /\ Nanos(a.reserve_y) \in Nat \ {0} BY <2>1, NanoSplit DEF Told
    <2>3. k \in Nat \ {0} /\ BPS \in Nat \ {0} BY <2>1, FeeAssumption DEF Keep, StorageFee
    <2> HIDE DEF k
    <2> QED BY <2>2, <2>3, Weights DEF InReserve, OutReserve
<1>2. ASSUME NEW input \in MinTradeInput(side, price) .. MaxInput, NEW net \in Nat, NEW paid \in Nat,
             OnCurve(a, side, Nanos(input), net, paid)
      PROVE  Unit * (w * paid - c * Nanos(input)) < MinArbProfit + Unit * (w + 3 * c)
    <2> DEFINE A == Nanos(input)
    <2>1. A \in Nat
        <3>1. MinTradeInput(side, price) \in Nat BY ArbAssumption DEF MinTradeInput, Larger
        <3> QED BY <3>1, ArbAssumption, NanoSplit
    <2>2. net * BPS <= A * k /\ (O - paid) * (I + net) >= O * I BY <1>2 DEF OnCurve
    <2>3. w * paid <= c * A
        <3>1. k * w * O <= BPS * c * I OBVIOUS
        <3> HIDE DEF k, I, O, w, c, A
        <3> QED BY <1>1, <2>1, <2>2, <3>1, NoLoss
    <2>4. w * paid - c * A \in Int /\ w + 3 * c \in Int /\ w * paid - c * A < w + 3 * c
        <3> HIDE DEF w, c, A
        <3>1. w * paid \in Int /\ c * A \in Int BY <1>1, <2>1
        <3> QED BY <1>1, <2>1, <2>3, <3>1
    <2> DEFINE e == w * paid - c * A
               f == w + 3 * c
    <2>5. e \in Int /\ f \in Int /\ e < f BY <2>4
    <2> HIDE DEF e, f
    <2>6. Unit * e < Unit * f /\ Unit * e \in Int /\ Unit * f \in Int
        BY <2>5, AmountAssumption
    <2>7. Unit * e < MinArbProfit + Unit * f BY <2>6, ArbAssumption
    <2> QED BY <2>7 DEF e, f
<1> HIDE DEF k, I, O
<1> QED BY <1>2, DryWhen

(* What a trade of the planned input knows of the target: it reached it. *)
LEMMA PlanReaches ==
    ASSUME NEW a \in NormAmms, NEW side \in Sides, NEW price \in Nat \ {0}, Ample(a, price),
           NEW plan, NEW n \in Nat, NEW t \in Nat, NEW u \in Nat, t > InReserve(a, side),
           ClosedForm(a, side, price, plan, n, t, u),
           NEW input \in Nat, u <= input, NEW net \in Nat, NEW paid \in Nat,
           OnCurve(a, side, Nanos(input), net, paid)
    PROVE  LET k == Keep(a)
               w == Gain(side, price)
               c == Cost(side, price)
               I == Nanos(InReserve(a, side))
               O == Nanos(OutReserve(a, side))
           IN  k * w * (O * I) < BPS * c * ((I + net + 3) * (I + net + 3))
<1> DEFINE k == Keep(a)
           i == InReserve(a, side)
           o == OutReserve(a, side)
           w == Gain(side, price)
           c == Cost(side, price)
           I == Nanos(i)
           O == Nanos(o)
           A == Nanos(input)
<1>1. /\ k \in Nat \ {0} /\ BPS \in Nat \ {0} /\ k <= BPS /\ i \in Nat /\ o \in Nat
      /\ I \in Nat \ {0} /\ O \in Nat
    <2>1. /\ k \in Nat \ {0} /\ BPS \in Nat \ {0} /\ k + 1 <= BPS /\ i \in Nat /\ o \in Nat
          /\ I \in Nat /\ O \in Nat /\ I >= 30
        BY AmpleSide
    <2> HIDE DEF k, i, o, I, O
    <2> QED BY <2>1
<1>2. w \in Nat \ {0} /\ c \in Nat \ {0} /\ Unit \in Nat \ {0} BY Weights, AmountAssumption
<1>3. Unit * I <= i /\ i < Unit * I + Unit /\ Unit * O <= o BY <1>1, NanoSplit
<1>4. A \in Nat /\ input < Unit * A + Unit BY NanoSplit
<1>5. /\ (k * w) * (o * i) < n * (BPS * c) + BPS * c /\ n < (t + 1) * (t + 1)
      /\ (t - i) * BPS < u * k + k
    BY DEF ClosedForm
<1>6. A * k < net * BPS + BPS BY DEF OnCurve
<1>7. (t - i) * BPS < input * k + k
    <2>1. u * k <= input * k
        <3> HIDE DEF k
        <3> QED BY <1>1, MulMono
    <2> DEFINE e1 == (t - i) * BPS
               e2 == u * k
               e3 == input * k
    <2>2. e1 \in Int /\ e2 \in Int /\ e3 \in Int
        <3> HIDE DEF k, i
        <3> QED BY <1>1
    <2>3. e2 <= e3 /\ e1 < e2 + k BY <1>5, <2>1
    <2> HIDE DEF e1, e2, e3, k
    <2>4. e1 < e3 + k BY <1>1, <2>2, <2>3
    <2> QED BY <2>4 DEF e1, e3, k
<1>8. i < t BY <1>1
<1> HIDE DEF k, i, o, w, c, I, O, A
<1>9. k * w * (O * I) < BPS * c * ((I + net + 3) * (I + net + 3))
    BY <1>1, <1>2, <1>3, <1>4, <1>5, <1>6, <1>7, <1>8, Reached
<1> QED BY <1>9 DEF k, i, o, w, c, I, O

(* ... and, unless the input was raised to the least one, did not pass it. *)
LEMMA PlanStops ==
    ASSUME NEW a \in NormAmms, NEW side \in Sides, NEW price \in Nat \ {0}, Ample(a, price),
           NEW plan, NEW n \in Nat, NEW t \in Nat, NEW u \in Nat, t > InReserve(a, side),
           ClosedForm(a, side, price, plan, n, t, u),
           NEW net \in Nat, NEW paid \in Nat, OnCurve(a, side, Nanos(u), net, paid)
    PROVE  LET k == Keep(a)
               w == Gain(side, price)
               c == Cost(side, price)
               I == Nanos(InReserve(a, side))
               O == Nanos(OutReserve(a, side))
           IN  /\ Unit * (I + net) <= t
               /\ (t * t) * (BPS * c) <= (k * w * ((O + 1) * (I + 1))) * (Unit * Unit)
               /\ BPS * c * ((I + net) * (I + net)) <= k * w * ((O + 1) * (I + 1))
<1> DEFINE k == Keep(a)
           i == InReserve(a, side)
           o == OutReserve(a, side)
           w == Gain(side, price)
           c == Cost(side, price)
           I == Nanos(i)
           O == Nanos(o)
           A == Nanos(u)
<1>1. /\ k \in Nat \ {0} /\ BPS \in Nat \ {0} /\ i \in Nat /\ o \in Nat
      /\ I \in Nat \ {0} /\ O \in Nat
    <2>1. /\ k \in Nat \ {0} /\ BPS \in Nat \ {0} /\ i \in Nat /\ o \in Nat
          /\ I \in Nat /\ O \in Nat /\ I >= 30
        BY AmpleSide
    <2> HIDE DEF k, i, o, I, O
    <2> QED BY <2>1
<1>2. w \in Nat \ {0} /\ c \in Nat \ {0} /\ Unit \in Nat \ {0} BY Weights, AmountAssumption
<1>3. Unit * I <= i /\ i < Unit * I + Unit /\ o < Unit * O + Unit BY <1>1, NanoSplit
<1>4. A \in Nat /\ Unit * A <= u BY NanoSplit
<1>5. /\ n * (BPS * c) <= (k * w) * (o * i) /\ t * t <= n /\ u * k <= (t - i) * BPS
    BY DEF ClosedForm
<1>6. net * BPS <= A * k BY DEF OnCurve
<1>8. i < t BY <1>1
<1> HIDE DEF k, i, o, w, c, I, O, A
<1>9. /\ Unit * (I + net) <= t
      /\ (t * t) * (BPS * c) <= (k * w * ((O + 1) * (I + 1))) * (Unit * Unit)
      /\ BPS * c * ((I + net) * (I + net)) <= k * w * ((O + 1) * (I + 1))
    BY <1>1, <1>2, <1>3, <1>4, <1>5, <1>6, <1>8, NotPassed
<1> QED BY <1>9 DEF k, i, o, w, c, I, O

(* The input of a plan can be traded, and is no less than the least one. *)
LEMMA Inputs ==
    ASSUME NEW a \in NormAmms, NEW side \in Sides, NEW price \in Nat \ {0}, Ample(a, price),
           NEW u \in Nat, u <= MaxInput
    PROVE  /\ Larger(MinTradeInput(side, price), u) \in 1 .. MaxInput
           /\ MinTradeInput(side, price) \in Nat \ {0}
           /\ u <= Larger(MinTradeInput(side, price), u)
           /\ MinTradeInput(side, price) <= Larger(MinTradeInput(side, price), u)
<1> DEFINE m == MinTradeInput(side, price)
           i == InReserve(a, side)
<1>1. /\ BPS \in Nat \ {0} /\ i \in Nat /\ i <= Worth(a, price) /\ Worth(a, price) \in Nat
      /\ Worth(a, price) <= MaxInput /\ MaxInput \in Nat /\ BPS * (Unit + m) <= Unit * Nanos(i)
      /\ m \in Nat \ {0}
    BY AmpleSide
<1>2. Unit * Nanos(i) <= i /\ Nanos(i) \in Nat BY <1>1, NanoSplit
<1>3. Unit + m <= BPS * (Unit + m)
    <2>1. 1 * (Unit + m) <= BPS * (Unit + m)
        <3> HIDE DEF m
        <3>1. Unit + m \in Nat BY <1>1, AmountAssumption
        <3> QED BY <1>1, <3>1, MulMono
    <2> HIDE DEF m
    <2> QED BY <1>1, <2>1, AmountAssumption
<1> HIDE DEF m, i
<1>4. m <= MaxInput
    <2> DEFINE e == Unit * Nanos(i)
               f == BPS * (Unit + m)
    <2>1. e \in Int /\ f \in Int BY <1>1, <1>2, AmountAssumption
    <2>2. f <= e /\ e <= i /\ Unit + m <= f BY <1>1, <1>2, <1>3
    <2> HIDE DEF e, f
    <2> QED BY <1>1, <2>1, <2>2, AmountAssumption
<1> QED BY <1>1, <1>4 DEF Larger, m

(* Nothing is left where the arbitrageur does not plan to trade. *)
LEMMA IdleIsDry ==
    ASSUME NEW a \in NormAmms, Floored(a), NEW side \in Sides, NEW price \in Nat \ {0},
           Ample(a, price), Representable, {} \in NormalizerPlans(a, side, price)
    PROVE  Dry(a, side, price)
<1> DEFINE k == Keep(a)
           i == InReserve(a, side)
           o == OutReserve(a, side)
           w == Gain(side, price)
           c == Cost(side, price)
           I == Nanos(i)
           O == Nanos(o)
<1>1. /\ k \in Nat \ {0} /\ BPS \in Nat \ {0} /\ k <= BPS /\ 9 * BPS <= 10 * k /\ i \in Nat /\ o \in Nat
      /\ I \in Nat \ {0} /\ O \in Nat \ {0} /\ I >= 30 /\ O >= 30
      /\ 2 * w <= I /\ 2 * w <= O /\ 2 * w * O <= c * I * I
    <2>1. /\ k \in Nat \ {0} /\ BPS \in Nat \ {0} /\ k + 1 <= BPS /\ i \in Nat /\ o \in Nat
          /\ I \in Nat /\ O \in Nat /\ I >= 30 /\ O >= 30 /\ 9 * BPS <= 10 * k
          /\ 2 * w <= I /\ 2 * w <= O /\ 2 * w * O <= c * I * I
        BY AmpleSide
    <2> HIDE DEF k, i, o, I, O, w, c
    <2> QED BY <2>1
<1>2. w \in Nat \ {0} /\ c \in Nat \ {0} /\ Unit \in Nat \ {0} /\ I >= w
    <2>1. w \in Nat \ {0} /\ c \in Nat \ {0} /\ Unit \in Nat \ {0} BY Weights, AmountAssumption
    <2> HIDE DEF I, w, c
    <2> QED BY <1>1, <2>1
<1>3. Told(a) BY AmpleTold
<1>4. PICK n, t, u \in Nat : ClosedForm(a, side, price, {}, n, t, u)
    BY NormPlan
<1>5. CASE t <= i
    <2>1. Unit * I <= i /\ i < Unit * I + Unit /\ Unit * O <= o BY <1>1, NanoSplit
    <2>2. (k * w) * (o * i) < n * (BPS * c) + BPS * c /\ n < (t + 1) * (t + 1)
        BY <1>4 DEF ClosedForm
    <2>3. k * w * O <= BPS * c * I + BPS * (7 * c + w)
        <3> HIDE DEF k, i, o, w, c, I, O
        <3> QED BY <1>1, <1>2, <1>5, <2>1, <2>2, NoReason
    <2>4. 9 * BPS <= 10 * k /\ I >= 30 /\ I >= w BY <1>1, <1>2
    <2> QED BY <1>3, <2>3, <2>4, FlatIsDry
<1>6. CASE t > i
    <2> DEFINE input == Larger(MinTradeInput(side, price), u)
    <2>1. {} \in Candidates(a, side, price, input) /\ u <= MaxInput BY <1>4, <1>6 DEF ClosedForm
    <2>2. PICK q \in Quotes(a, side, input) : ~(q > 0 /\ Profit(side, price, input, q) >= MinArbProfit)
        BY <2>1 DEF Candidates
    <2>3. /\ input \in 1 .. MaxInput /\ MinTradeInput(side, price) \in Nat \ {0}
          /\ u <= input /\ MinTradeInput(side, price) <= input /\ input \in Nat
          /\ input = u \/ input = MinTradeInput(side, price)
        <3>1. /\ input \in 1 .. MaxInput /\ MinTradeInput(side, price) \in Nat \ {0}
              /\ u <= input /\ MinTradeInput(side, price) <= input
            BY <2>1, Inputs
        <3>2. input = u \/ input = MinTradeInput(side, price) BY DEF Larger
        <3> QED BY <3>1, <3>2
    <2>4. PICK M, p \in Nat : q = Unit * p /\ OnCurve(a, side, Nanos(input), M, p)
        BY <1>3, <2>3, CurveQuote
    <2> HIDE DEF input
    <2>5. Unit * w * p - c * input < MinArbProfit
        <3>1. Profit(side, price, input, q) = w * q - c * input
            <4>1. q \in Int /\ input \in Int BY <1>2, <2>3, <2>4
            <4> QED BY <4>1, Weights
        <3>2. w * (Unit * p) = Unit * w * p
            <4> HIDE DEF w, c
            <4> QED BY <1>2, <2>4
        <3>3. CASE q > 0
            <4>1. Profit(side, price, input, q) \in Int
                <5> HIDE DEF w, c
                <5>1. q \in Int /\ input \in Int BY <1>2, <2>3, <2>4
                <5>2. w * q \in Int /\ c * input \in Int BY <1>2, <5>1
                <5> QED BY <3>1, <5>2
            <4>2. Profit(side, price, input, q) < MinArbProfit
                BY <2>2, <3>3, <4>1, ArbAssumption
            <4> HIDE DEF w, c
            <4> QED BY <2>4, <3>1, <3>2, <4>2
        <3>4. CASE ~(q > 0)
            <4>1. p = 0
                <5>1. SUFFICES ASSUME p # 0 PROVE FALSE OBVIOUS
                <5>2. Unit * p > 0 BY <1>2, <5>1
                <5> QED BY <2>4, <3>4, <5>2
            <4> HIDE DEF w, c
            <4>2. Unit * w * 0 = 0 /\ c * input > 0 /\ c * input \in Int
                <5>1. input \in Nat \ {0} BY <2>3
                <5> QED BY <1>2, <5>1
            <4> QED BY <4>1, <4>2, ArbAssumption
        <3> QED BY <3>3, <3>4
    <2>6. k * w * (O * I) < BPS * c * ((I + M + 3) * (I + M + 3))
        BY <1>4, <1>6, <2>3, <2>4, PlanReaches
    <2>7. input = u => BPS * c * ((I + M) * (I + M)) <= k * w * ((O + 1) * (I + 1))
        BY <1>4, <1>6, <2>4, PlanStops
    <2> DEFINE A == Nanos(input)
    <2>8. A \in Nat /\ input < Unit * A + Unit /\ A * k < M * BPS + BPS
          /\ (O - p) * (I + M) < O * I + I + M
        <3>1. A \in Nat /\ input < Unit * A + Unit BY <2>3, NanoSplit
        <3> QED BY <2>4, <3>1 DEF OnCurve
    <2>9. ASSUME NEW other \in MinTradeInput(side, price) .. MaxInput, NEW N \in Nat, NEW r \in Nat,
                 OnCurve(a, side, Nanos(other), N, r)
          PROVE  Unit * (w * r - c * Nanos(other)) < MinArbProfit + Unit * (w + 3 * c)
        <3> DEFINE D == Nanos(other)
        <3>1. other \in Nat /\ D \in Nat BY <2>3, NanoSplit
        <3>2. N * BPS <= D * k /\ D * k < N * BPS + BPS /\ (O - r) * (I + N) >= O * I BY <2>9 DEF OnCurve
        <3>3. N < M => BPS * c * ((I + M) * (I + M)) <= k * w * ((O + 1) * (I + 1))
            <4>1. CASE input = u BY <2>7, <4>1
            <4>2. CASE input = MinTradeInput(side, price)
                <5>1. input <= other BY <2>3, <4>2
                <5>2. A <= D
                    <6>1. input \div Unit <= other \div Unit
                        <7>1. /\ A * Unit <= input /\ other < D * Unit + Unit
                            <8>1. /\ Unit * A <= input /\ other < Unit * D + Unit /\ Unit * A = A * Unit
                                  /\ Unit * D = D * Unit
                                <9>1. Unit * A <= input /\ other < Unit * D + Unit BY <2>3, <3>1, NanoSplit
                                <9> HIDE DEF A, D
                                <9> QED BY <1>2, <2>8, <3>1, <9>1
                            <8> HIDE DEF A, D
                            <8> QED BY <8>1
                        <7>2. A * Unit < (D + 1) * Unit
                            <8> HIDE DEF A, D
                            <8>1. (D + 1) * Unit = D * Unit + Unit /\ D * Unit \in Int /\ A * Unit \in Int
                                BY <1>2, <2>8, <3>1
                            <8> QED BY <1>2, <2>3, <3>1, <5>1, <7>1, <8>1
                        <7>3. A <= D
                            <8> HIDE DEF A, D
                            <8>1. SUFFICES ASSUME D + 1 <= A PROVE FALSE BY <2>8, <3>1
                            <8>2. (D + 1) * Unit <= A * Unit BY <1>2, <2>8, <3>1, <8>1, MulMono
                            <8>3. (D + 1) * Unit \in Int /\ A * Unit \in Int BY <1>2, <2>8, <3>1
                            <8> QED BY <7>2, <8>2, <8>3
                        <7> QED BY <7>3 DEF Nanos
                    <6> QED BY <6>1 DEF Nanos
                <5> HIDE DEF A, D, k, I, O
                <5>3. A * k <= D * k BY <1>1, <2>8, <3>1, <5>2, MulMono
                <5>4. M * BPS < (N + 1) * BPS
                    <6>1. M * BPS <= A * k BY <2>4 DEF OnCurve, A, k
                    <6>2. (N + 1) * BPS = N * BPS + BPS /\ N * BPS \in Int /\ M * BPS \in Int
                          /\ A * k \in Int /\ D * k \in Int
                        BY <1>1, <2>8, <3>1
                    <6> QED BY <1>1, <3>2, <5>3, <6>1, <6>2
                <5>5. ~(N < M)
                    <6>1. SUFFICES ASSUME N + 1 <= M PROVE FALSE OBVIOUS
                    <6>2. (N + 1) * BPS <= M * BPS BY <1>1, <6>1, MulMono
                    <6>3. (N + 1) * BPS \in Int /\ M * BPS \in Int BY <1>1
                    <6> QED BY <5>4, <6>2, <6>3
                <5> QED BY <5>5
            <4> QED BY <2>3, <4>1, <4>2
        <3> HIDE DEF k, i, o, w, c, I, O, A, D
        <3>4. Unit * (w * r - c * D) < MinArbProfit + Unit * (w + 3 * c)
            BY <1>1, <1>2, <2>3, <2>5, <2>6, <2>8, <3>1, <3>2, <3>3, NoBetter, ArbAssumption
        <3> QED BY <3>4 DEF D
    <2> HIDE DEF k, i, o, I, O
    <2> QED BY <1>3, <2>9, DryWhen
<1> QED BY <1>1, <1>5, <1>6

(* A number of nanos is what it is a nano away from. *)
LEMMA NanoOf ==
    ASSUME NEW v \in Nat, NEW m \in Int, Unit * m <= v
    PROVE  m <= Nanos(v) /\ (v < Unit * m + Unit => Nanos(v) = m)
<1> DEFINE d == Nanos(v)
<1>1. d \in Nat /\ Unit * d <= v /\ v < Unit * d + Unit BY NanoSplit
<1>2. Unit \in Nat \ {0} BY AmountAssumption
<1> HIDE DEF d
<1>3. ASSUME NEW x \in Int, NEW y \in Int, Unit * x <= v, v < Unit * y + Unit
      PROVE  x <= y
    <2>1. SUFFICES ASSUME y + 1 <= x PROVE FALSE OBVIOUS
    <2>2. (y + 1) * Unit <= x * Unit BY <1>2, <2>1, MulMono
    <2>3. /\ (y + 1) * Unit = Unit * y + Unit /\ x * Unit = Unit * x
          /\ Unit * y \in Int /\ Unit * x \in Int
        BY <1>2
    <2> QED BY <1>2, <1>3, <2>2, <2>3
<1>4. m <= d BY <1>1, <1>3
<1>5. v < Unit * m + Unit => d <= m BY <1>1, <1>3
<1> QED BY <1>1, <1>4, <1>5 DEF d

(* The normalizer gives one answer. *)
LEMMA OneQuote ==
    ASSUME NEW a \in NormAmms, NEW side, NEW input,
           NEW p \in Quotes(a, side, input), NEW q \in Quotes(a, side, input)
    PROVE  p = q
<1>1. a.name = "normalizer" BY DEF NormAmms
<1> QED BY <1>1 DEF Quotes, Call

(* The trade the arbitrageur planned is carried out. *)
LEMMA NormTrade ==
    ASSUME NEW a \in NormAmms, Floored(a), NEW side \in Sides, NEW input \in Nat \ {0},
           NEW q \in Quotes(a, side, input), q \in Nat \ {0},
           q < OutReserve(a, side), OutReserve(a, side) - q > MinReserve,
           NEW r \in Executions(a, side, input)
    PROVE  /\ r.amm \in NormAmms /\ Floored(r.amm) /\ r.amm.storage = a.storage
           /\ InReserve(r.amm, side) = InReserve(a, side) + input
           /\ OutReserve(r.amm, side) = OutReserve(a, side) - q
<1>1. /\ a.name = "normalizer" /\ a.reserve_x \in Nat /\ a.reserve_y \in Nat
      /\ a.storage \in 0 .. BPS - 1 /\ a.current_step \in Nat
      /\ a = [name |-> a.name, reserve_x |-> a.reserve_x, reserve_y |-> a.reserve_y,
              storage |-> a.storage, current_step |-> a.current_step]
    BY DEF NormAmms
<1>2. a.reserve_x > MinReserve /\ a.reserve_y > MinReserve /\ MinReserve \in Nat
    BY ReserveAssumption, AmountAssumption DEF Floored
<1> DEFINE b == Moved(a, side, input, q)
<1>3. /\ b = [name |-> "normalizer", storage |-> a.storage, current_step |-> a.current_step,
              reserve_x |-> IF side = BUY_X THEN a.reserve_x - q ELSE a.reserve_x + input,
              reserve_y |-> IF side = BUY_X THEN a.reserve_y + input ELSE a.reserve_y - q]
    BY <1>1 DEF Moved
<1>4. b \in NormAmms /\ Floored(b)
    <2>1. CASE side = BUY_X
        BY <1>1, <1>2, <1>3, <2>1 DEF NormAmms, Floored, OutReserve
    <2>2. CASE side # BUY_X
        BY <1>1, <1>2, <1>3, <2>2 DEF NormAmms, Floored, OutReserve
    <2> QED BY <2>1, <2>2
<1>5. /\ InReserve(b, side) = InReserve(a, side) + input
      /\ OutReserve(b, side) = OutReserve(a, side) - q
    BY <1>3 DEF InReserve, OutReserve
<1>6. b.name = "normalizer" /\ b.storage = a.storage /\ [b EXCEPT !.storage = b.storage] = b
    <2> HIDE DEF b
    <2>1. b.name = "normalizer" /\ b.storage = a.storage BY <1>3
    <2> QED BY <1>3, <2>1
<1> HIDE DEF b
<1>7. AfterSwap(b, side, input, q) = {b}
    BY <1>6 DEF AfterSwap, CallAfterSwap
<1>8. Accepts(a, side, input, q)
    BY <1>4 DEF Accepts, b
<1>9. \A p \in Quotes(a, side, input) : p = q BY OneQuote
<1>10. r \in {[amm |-> m, out |-> q] : m \in AfterSwap(b, side, input, q)}
    BY <1>8, <1>9 DEF Executions, b
<1>11. r.amm = b BY <1>7, <1>10
<1> QED BY <1>4, <1>5, <1>6, <1>11

Other(side) == IF side = BUY_X THEN SELL_X ELSE BUY_X

(* What one side is paid in, the other pays out. *)
LEMMA OtherSide ==
    ASSUME NEW side \in Sides, NEW price
    PROVE  /\ Other(side) \in Sides /\ \A s \in Sides : s = side \/ s = Other(side)
           /\ Gain(Other(side), price) = Cost(side, price) /\ Cost(Other(side), price) = Gain(side, price)
           /\ \A a : InReserve(a, Other(side)) = OutReserve(a, side)
                     /\ OutReserve(a, Other(side)) = InReserve(a, side)
BY DEF Other, Sides, BUY_X, SELL_X, Gain, Cost, InReserve, OutReserve

(* A planned trade, in nanos: what it reached, where it stopped, and the pool after it. *)
LEMMA Traded ==
    ASSUME NEW a \in NormAmms, Floored(a), NEW side \in Sides, NEW price \in Nat \ {0},
           Ample(a, price), Representable, NEW plan \in NormalizerPlans(a, side, price),
           NEW x \in plan, NEW r \in Executions(a, x.side, x.input)
    PROVE  \E n, t, u, net, paid \in Nat :
              /\ x.side = side /\ x.input \in Nat \ {0}
              /\ ClosedForm(a, side, price, plan, n, t, u)
              /\ t > InReserve(a, side) /\ u <= MaxInput
              /\ u <= x.input /\ (x.input = u \/ x.input = MinTradeInput(side, price))
              /\ OnCurve(a, side, Nanos(x.input), net, paid)
              /\ paid # 0 /\ Cost(side, price) * x.input <= Unit * Gain(side, price) * paid
              /\ r.amm \in NormAmms /\ Floored(r.amm) /\ r.amm.storage = a.storage
              /\ InReserve(r.amm, side) = InReserve(a, side) + x.input
              /\ OutReserve(r.amm, side) = OutReserve(a, side) - Unit * paid
<1> DEFINE w == Gain(side, price)
           c == Cost(side, price)
           i == InReserve(a, side)
           o == OutReserve(a, side)
<1>1. PICK n, t, u \in Nat : ClosedForm(a, side, price, plan, n, t, u) BY NormPlan
<1>2. i \in Nat /\ o \in Nat BY AmpleSide
<1>3. /\ t > i /\ u <= MaxInput
      /\ plan \in Candidates(a, side, price, Larger(MinTradeInput(side, price), u))
    <2>1. ~(t <= i) BY <1>1 DEF ClosedForm
    <2>2. t > i
        <3> HIDE DEF i
        <3> QED BY <1>2, <2>1
    <2> QED BY <1>1, <2>2 DEF ClosedForm
<1> DEFINE input == Larger(MinTradeInput(side, price), u)
<1>4. /\ input \in 1 .. MaxInput /\ input \in Nat \ {0} /\ u <= input
      /\ input = u \/ input = MinTradeInput(side, price)
    <2>1. input \in 1 .. MaxInput /\ u <= input BY <1>3, Inputs
    <2>2. input = u \/ input = MinTradeInput(side, price) BY DEF Larger
    <2> HIDE DEF input
    <2> QED BY <2>1, <2>2, ArbAssumption
<1> HIDE DEF input
<1>5. /\ x.side = side /\ x.input = input
      /\ \E q \in Quotes(a, side, input) : q > 0 /\ Profit(side, price, input, q) >= MinArbProfit
    BY <1>3, <1>4, CandidateQuote DEF input
<1>6. PICK q \in Quotes(a, side, input) : q > 0 /\ Profit(side, price, input, q) >= MinArbProfit
    BY <1>5
<1>7. PICK net, paid \in Nat : q = Unit * paid /\ OnCurve(a, side, Nanos(input), net, paid)
    BY <1>4, AmpleTold, CurveQuote
<1>8. Unit \in Nat \ {0} /\ w \in Nat \ {0} /\ c \in Nat \ {0} BY AmountAssumption, Weights
<1>9. paid # 0 /\ q \in Nat \ {0} BY <1>6, <1>7, <1>8
<1>10. c * input <= Unit * w * paid
    <2>1. Profit(side, price, input, q) = w * q - c * input
        <3>1. q \in Int /\ input \in Int BY <1>4, <1>9
        <3> QED BY <3>1, Weights
    <2> HIDE DEF w, c
    <2>2. w * q = Unit * w * paid /\ w * q \in Int /\ c * input \in Int BY <1>4, <1>7, <1>8
    <2> QED BY <1>6, <2>1, <2>2, ArbAssumption
<1>11. q < o /\ o - q > MinReserve
    <2> DEFINE O == Nanos(o)
    <2>1. O \in Nat /\ Unit * O <= o BY <1>2, NanoSplit
    <2>2. paid + 1 <= O BY <1>7, <2>1 DEF OnCurve
    <2> HIDE DEF O, o
    <2>3. (paid + 1) * Unit <= O * Unit BY <1>8, <2>1, <2>2, MulMono
    <2>4. (paid + 1) * Unit = q + Unit /\ O * Unit = Unit * O /\ Unit * O \in Int BY <1>7, <1>8, <2>1
    <2> DEFINE e == Unit * O
    <2>5. e \in Int /\ q + Unit <= e /\ e <= o BY <2>1, <2>3, <2>4
    <2> HIDE DEF e
    <2>6. q + Unit <= o BY <1>2, <1>8, <1>9, <2>5
    <2> QED BY <1>2, <1>8, <1>9, <2>6, ReserveAssumption
<1>12. r \in Executions(a, side, input) BY <1>5
<1>13. /\ r.amm \in NormAmms /\ Floored(r.amm) /\ r.amm.storage = a.storage
       /\ InReserve(r.amm, side) = i + input /\ OutReserve(r.amm, side) = o - q
    <2>1. input \in Nat \ {0} /\ q < OutReserve(a, side) /\ OutReserve(a, side) - q > MinReserve
        BY <1>4, <1>11
    <2>2. /\ r.amm \in NormAmms /\ Floored(r.amm) /\ r.amm.storage = a.storage
          /\ InReserve(r.amm, side) = InReserve(a, side) + input
          /\ OutReserve(r.amm, side) = OutReserve(a, side) - q
        BY <1>9, <1>12, <2>1, NormTrade
    <2> QED BY <2>2
<1> HIDE DEF i, o, w, c
<1>14. /\ x.side = side /\ x.input \in Nat \ {0}
       /\ ClosedForm(a, side, price, plan, n, t, u)
       /\ t > InReserve(a, side) /\ u <= MaxInput
       /\ u <= x.input /\ (x.input = u \/ x.input = MinTradeInput(side, price))
       /\ OnCurve(a, side, Nanos(x.input), net, paid)
       /\ paid # 0 /\ Cost(side, price) * x.input <= Unit * Gain(side, price) * paid
       /\ r.amm \in NormAmms /\ Floored(r.amm) /\ r.amm.storage = a.storage
       /\ InReserve(r.amm, side) = InReserve(a, side) + x.input
       /\ OutReserve(r.amm, side) = OutReserve(a, side) - Unit * paid
    BY <1>1, <1>3, <1>4, <1>5, <1>7, <1>9, <1>10, <1>13, Zenon DEF i, o, w, c
<1> QED BY <1>14, Zenon

(* The planned input takes the reserve no further than the target, whatever its fee. *)
LEMMA NotBeyond ==
    ASSUME NEW k \in Nat, NEW B \in Nat, k <= B, NEW i \in Nat, NEW t \in Nat, NEW u \in Nat,
           u * k <= (t - i) * B
    PROVE  k * (i + u) <= t * B
<1>1. k * i <= B * i BY MulMono
<1>2. k * (i + u) = k * i + u * k /\ (t - i) * B = t * B - B * i OBVIOUS
<1> DEFINE e1 == k * i
           e2 == B * i
           e3 == u * k
           e4 == t * B
           e5 == (t - i) * B
           e6 == k * (i + u)
<1>3. e1 \in Int /\ e2 \in Int /\ e3 \in Int /\ e4 \in Int OBVIOUS
<1>4. e1 <= e2 /\ e6 = e1 + e3 /\ e5 = e4 - e2 /\ e3 <= e5 BY <1>1, <1>2
<1> HIDE DEF e1, e2, e3, e4, e5, e6
<1>5. e6 <= e4 BY <1>3, <1>4
<1> QED BY <1>5 DEF e4, e6

(* After a planned trade nothing is left on either side. *)
LEMMA TradedIsDry ==
    ASSUME NEW a \in NormAmms, Floored(a), NEW side \in Sides, NEW price \in Nat \ {0},
           Ample(a, price), Representable, NEW plan \in NormalizerPlans(a, side, price),
           NEW x \in plan, NEW r \in Executions(a, x.side, x.input)
    PROVE  \A s \in Sides : Dry(r.amm, s, price)
<1> DEFINE k == Keep(a)
           i == InReserve(a, side)
           o == OutReserve(a, side)
           w == Gain(side, price)
           c == Cost(side, price)
           I == Nanos(i)
           O == Nanos(o)
           m == MinTradeInput(side, price)
           W == Worth(a, price)
<1>1. /\ k \in Nat \ {0} /\ BPS \in Nat \ {0} /\ k + 1 <= BPS /\ k <= BPS /\ 9 * BPS <= 10 * k
      /\ i \in Nat /\ o \in Nat
      /\ I \in Nat \ {0} /\ O \in Nat \ {0} /\ I >= 30 /\ I >= 3 * BPS /\ O >= 3 * BPS
      /\ i <= MaxInput /\ o <= MaxInput /\ MaxInput \in Nat
      /\ 2 * w <= I /\ m \in Nat \ {0} /\ BPS * (Unit + m) <= Unit * I
      /\ W \in Nat /\ BPS * W <= k * MaxInput /\ i <= W
      /\ NormalizerFee(a.storage) = StorageFee(a.storage)
    <2>1. /\ k \in Nat \ {0} /\ BPS \in Nat \ {0} /\ k + 1 <= BPS /\ 9 * BPS <= 10 * k
          /\ NormalizerFee(a.storage) = StorageFee(a.storage)
          /\ i \in Nat /\ o \in Nat /\ i <= W /\ o <= W
          /\ W \in Nat /\ BPS * W <= k * MaxInput
          /\ W <= MaxInput /\ MaxInput \in Nat
          /\ I \in Nat /\ O \in Nat /\ I >= 3 * BPS /\ O >= 3 * BPS /\ I >= 30 /\ O >= 30
          /\ 2 * w <= I
          /\ BPS * (Unit + m) <= Unit * I
          /\ m \in Nat \ {0}
        BY AmpleSide
    <2> HIDE DEF k, i, o, w, c, I, O, m, W
    <2> QED BY <2>1
<1>2. w \in Nat \ {0} /\ c \in Nat \ {0} /\ Unit \in Nat \ {0} /\ I >= w
    <2>1. w \in Nat \ {0} /\ c \in Nat \ {0} /\ Unit \in Nat \ {0} BY Weights, AmountAssumption
    <2> HIDE DEF I, w, c
    <2> QED BY <1>1, <2>1
<1>3. PICK n, t, u, N, q \in Nat :
         /\ x.side = side /\ x.input \in Nat \ {0}
         /\ ClosedForm(a, side, price, plan, n, t, u)
         /\ t > InReserve(a, side) /\ u <= MaxInput
         /\ u <= x.input /\ (x.input = u \/ x.input = MinTradeInput(side, price))
         /\ OnCurve(a, side, Nanos(x.input), N, q)
         /\ q # 0 /\ Cost(side, price) * x.input <= Unit * Gain(side, price) * q
         /\ r.amm \in NormAmms /\ Floored(r.amm) /\ r.amm.storage = a.storage
         /\ InReserve(r.amm, side) = InReserve(a, side) + x.input
         /\ OutReserve(r.amm, side) = OutReserve(a, side) - Unit * q
    BY Traded
<1> DEFINE in == x.input
           A == Nanos(in)
           i2 == InReserve(r.amm, side)
           o2 == OutReserve(r.amm, side)
           J == Nanos(i2)
           R == Nanos(o2)
           v == I + N
<1>4. in \in Nat \ {0} /\ i2 = i + in /\ o2 = o - Unit * q /\ c * in <= Unit * w * q /\ q \in Nat \ {0}
    BY <1>3
<1>5. /\ A \in Nat /\ Unit * A <= in
      /\ Unit * I <= i /\ i < Unit * I + Unit /\ Unit * O <= o /\ o < Unit * O + Unit
    BY <1>1, <1>4, NanoSplit
<1>6. /\ N * BPS <= A * k /\ q < O
      /\ (O - q) * v >= O * I /\ (O - q) * v < O * I + v
    <2>1. OnCurve(a, side, A, N, q) BY <1>3
    <2>2. /\ N * BPS <= A * k /\ q < O
          /\ (O - q) * v >= O * I /\ (O - q) * v < O * I + I + N
        BY <2>1 DEF OnCurve
    <2>3. O * I \in Int /\ (O - q) * v \in Int
        <3> HIDE DEF O, I
        <3> QED BY <1>1, <1>4
    <2> DEFINE e == O * I
               f == (O - q) * v
    <2>4. e \in Int /\ f \in Int /\ f < e + I + N BY <2>2, <2>3
    <2> HIDE DEF e, f, I
    <2>5. f < e + v BY <1>1, <2>4
    <2> QED BY <2>2, <2>5 DEF e, f
<1>7. o2 \in Nat /\ R = O - q
    <2>1. Unit * (O - q) = Unit * O - Unit * q /\ Unit * (O - q) \in Nat /\ O - q \in Int
        <3>1. O - q \in Nat /\ q \in Nat
            <4> HIDE DEF O
            <4> QED BY <1>1, <1>4, <1>6
        <3> HIDE DEF O
        <3> QED BY <1>1, <1>2, <3>1
    <2> DEFINE e == Unit * (O - q)
               f == Unit * q
               g == Unit * O
    <2>2. e \in Nat /\ f \in Int /\ g \in Int /\ e = g - f /\ g <= o /\ o < g + Unit /\ o2 = o - f
        <3>1. g \in Int /\ f \in Int
            <4> HIDE DEF O
            <4> QED BY <1>1, <1>2, <1>4
        <3> QED BY <1>4, <1>5, <2>1, <3>1
    <2> HIDE DEF e, f, g, o, o2
    <2>3. o2 \in Nat /\ e <= o2 /\ o2 < e + Unit BY <1>1, <1>2, <2>2
    <2>4. Unit * (O - q) <= o2 /\ o2 < Unit * (O - q) + Unit BY <2>3 DEF e
    <2> HIDE DEF O
    <2>5. Nanos(o2) = O - q BY <2>1, <2>3, <2>4, NanoOf
    <2> QED BY <2>3, <2>5 DEF o2
<1>8. i2 \in Nat /\ v <= J /\ J \in Nat /\ Unit * J <= i2
    <2>1. i2 \in Nat BY <1>1, <1>4
    <2>2. J \in Nat /\ Unit * J <= i2 BY <2>1, NanoSplit
    <2>3. I + A <= J
        <3>1. Unit * (I + A) = Unit * I + Unit * A /\ Unit * I \in Int /\ Unit * A \in Int /\ I + A \in Int
            <4> HIDE DEF I, A
            <4> QED BY <1>1, <1>2, <1>5
        <3> DEFINE e == Unit * I
                   f == Unit * A
                   g == Unit * (I + A)
        <3>2. e \in Int /\ f \in Int /\ g = e + f /\ e <= i /\ f <= in /\ i2 = i + in
            BY <1>4, <1>5, <3>1
        <3>3. g <= i2
            <4> HIDE DEF e, f, g, i, in, i2
            <4> QED BY <1>1, <1>4, <3>2
        <3> HIDE DEF I, A, i2
        <3> QED BY <2>1, <3>1, <3>3, NanoOf DEF J
    <2>4. N <= A
        <3> HIDE DEF A, k
        <3>1. k * A <= BPS * A BY <1>1, <1>5, MulMono
        <3>2. N * BPS <= A * BPS
            <4>1. /\ k * A = A * k /\ BPS * A = A * BPS /\ A * k \in Int /\ A * BPS \in Int /\ N * BPS \in Int
                BY <1>1, <1>5
            <4> QED BY <1>6, <3>1, <4>1
        <3> QED BY <1>1, <1>5, <3>2, Cancel
    <2> HIDE DEF I, A, J, i2
    <2> QED BY <1>1, <1>5, <2>1, <2>2, <2>3, <2>4
<1>9. in = u => k * (i + in) <= t * BPS
    <2>1. u * k <= (t - i) * BPS BY <1>3 DEF ClosedForm
    <2> HIDE DEF k, i, in
    <2> QED BY <1>1, <2>1, NotBeyond
<1>10. t * BPS <= k * MaxInput BY <1>3 DEF ClosedForm
<1>11. in = u \/ in = m BY <1>3
<1>12. in = m => BPS * (Unit + in) <= Unit * I BY <1>1
<1>13. i2 <= MaxInput
    <2>1. CASE in = u
        <3> DEFINE e == t * BPS
        <3>1. e \in Int BY <1>1
        <3>2. k * (i + in) <= e /\ e <= k * MaxInput BY <1>9, <1>10, <2>1
        <3> HIDE DEF e, k, i, in, i2
        <3>3. (i + in) * k <= MaxInput * k
            <4>1. /\ (i + in) * k = k * (i + in) /\ MaxInput * k = k * MaxInput
                  /\ k * (i + in) \in Int /\ k * MaxInput \in Int
                BY <1>1, <1>4
            <4> QED BY <3>1, <3>2, <4>1
        <3> QED BY <1>1, <1>4, <3>3, Cancel
    <2>2. CASE in = m
        <3> HIDE DEF k, i, in, i2, I, W, m
        <3>1. BPS * in <= i
            <4>1. BPS * (Unit + in) = BPS * Unit + BPS * in /\ BPS * Unit \in Nat /\ BPS * in \in Int
                  /\ Unit * I \in Int
                BY <1>1, <1>2, <1>4
            <4> QED BY <1>1, <1>5, <1>12, <2>2, <4>1
        <3>2. (k + 1) * MaxInput <= BPS * MaxInput BY <1>1, MulMono
        <3>3. i * BPS <= W * BPS BY <1>1, MulMono
        <3>4. /\ (k + 1) * MaxInput = k * MaxInput + MaxInput /\ W * BPS = BPS * W
              /\ (i + in) * BPS = i * BPS + BPS * in /\ MaxInput * BPS = BPS * MaxInput
              /\ k * MaxInput \in Int /\ BPS * W \in Int /\ i * BPS \in Int /\ BPS * in \in Int
              /\ BPS * MaxInput \in Int
            BY <1>1, <1>4
        <3>5. (i + in) * BPS <= MaxInput * BPS BY <1>1, <3>1, <3>2, <3>3, <3>4
        <3> QED BY <1>1, <1>4, <3>5, Cancel
    <2> QED BY <1>11, <2>1, <2>2
<1>14. o2 <= MaxInput
    <2> DEFINE f == Unit * q
    <2>1. f \in Nat /\ o2 = o - f BY <1>2, <1>4
    <2> HIDE DEF f, o, o2
    <2> QED BY <1>1, <2>1
<1>15. R \in Nat \ {0} /\ J \in Nat \ {0}
    <2> HIDE DEF R, O, J, I
    <2> QED BY <1>1, <1>4, <1>6, <1>7, <1>8
<1>16. Told(r.amm)
    <2>1. /\ i2 <= MaxInput /\ o2 <= MaxInput /\ Nanos(i2) > 0 /\ Nanos(o2) > 0
        BY <1>13, <1>14, <1>15
    <2>2. NormalizerFee(r.amm.storage) = StorageFee(r.amm.storage) BY <1>1, <1>3
    <2> QED BY <2>1, <2>2 DEF Told, InReserve, OutReserve
<1>17. Keep(r.amm) = k BY <1>3 DEF Keep
<1>18. Dry(r.amm, side, price)
    <2>1. k * w * (O * I) < BPS * c * ((v + 3) * (v + 3))
        <3>1. in \in Nat BY <1>4
        <3> QED BY <1>3, <3>1, PlanReaches
    <2>2. k * w * R <= BPS * c * J + BPS * (7 * c + w)
        <3>1. R * v < O * I + v BY <1>6, <1>7
        <3>2. v \in Nat /\ v >= 30 BY <1>1
        <3> HIDE DEF k, w, c, O, I, R, J, v
        <3> QED BY <1>1, <1>2, <1>8, <1>15, <2>1, <3>1, <3>2, SameSide
    <2>3. J >= 30 /\ J >= w /\ 9 * BPS <= 10 * k
        <3> HIDE DEF J, I
        <3> QED BY <1>1, <1>2, <1>8
    <2>4. /\ 9 * BPS <= 10 * Keep(r.amm)
          /\ Nanos(InReserve(r.amm, side)) >= 30 /\ Nanos(InReserve(r.amm, side)) >= Gain(side, price)
          /\ Keep(r.amm) * Gain(side, price) * Nanos(OutReserve(r.amm, side))
                <= BPS * Cost(side, price) * Nanos(InReserve(r.amm, side))
                      + BPS * (7 * Cost(side, price) + Gain(side, price))
        BY <1>17, <2>2, <2>3
    <2> QED BY <1>3, <1>16, <2>4, FlatIsDry
<1>19. k * c * J <= BPS * w * R
    <2>1. CASE in = u
        <3>1. /\ Unit * v <= t
              /\ (t * t) * (BPS * c) <= (k * w * ((O + 1) * (I + 1))) * (Unit * Unit)
            BY <1>3, <2>1, PlanStops
        <3>2. k * (Unit * J) <= t * BPS
            <4>1. (Unit * J) * k <= i2 * k
                <5> HIDE DEF J, i2, k
                <5> QED BY <1>1, <1>2, <1>8, MulMono
            <4>2. /\ (Unit * J) * k = k * (Unit * J) /\ i2 * k = k * (i + in)
                  /\ k * (Unit * J) \in Int /\ k * (i + in) \in Int
                <5>1. i2 = i + in BY <1>4
                <5> HIDE DEF J, i2, k, i, in
                <5> QED BY <1>1, <1>2, <1>4, <1>8, <5>1
            <4>3. k * (i + in) <= t * BPS BY <1>9, <2>1
            <4> DEFINE e == t * BPS
            <4>4. e \in Int BY <1>1
            <4> HIDE DEF J, i2, k, i, in
            <4> QED BY <4>1, <4>2, <4>3, <4>4 DEF e
        <3>3. R * v >= O * I /\ v \in Nat /\ t \in Nat \ {0}
            <4>1. t > i BY <1>3
            <4>2. t \in Nat \ {0} BY <1>1, <4>1
            <4> QED BY <1>1, <1>6, <1>7, <4>2
        <3> HIDE DEF k, w, c, O, I, R, J, v, in
        <3> QED BY <1>1, <1>2, <1>15, <3>1, <3>2, <3>3, NotPastTheOther
    <2>2. CASE in = m
        <3>1. Unit * J <= Unit * I + Unit + in
            <4> DEFINE e == Unit * J
                       f == Unit * I
            <4>1. e \in Int /\ f \in Int
                <5> HIDE DEF J, I
                <5> QED BY <1>1, <1>2, <1>8
            <4>2. e <= i2 /\ i < f + Unit /\ i2 = i + in BY <1>4, <1>5, <1>8
            <4> HIDE DEF e, f, i, i2, in
            <4>3. e <= f + Unit + in BY <1>1, <1>2, <1>4, <4>1, <4>2
            <4> QED BY <4>3 DEF e, f
        <3>2. BPS * (Unit + in) <= Unit * I BY <1>12, <2>2
        <3>3. (O - q) * (I + N) >= O * I BY <1>6
        <3> HIDE DEF k, w, c, O, I, R, J, v, in, A
        <3> QED BY <1>1, <1>2, <1>4, <1>5, <1>6, <1>7, <1>8, <1>15, <3>1, <3>2, <3>3, NotPastTheFloor
    <2> QED BY <1>11, <2>1, <2>2
<1>20. Dry(r.amm, Other(side), price)
    <2>1. /\ Other(side) \in Sides
          /\ Gain(Other(side), price) = c /\ Cost(Other(side), price) = w
          /\ InReserve(r.amm, Other(side)) = o2 /\ OutReserve(r.amm, Other(side)) = i2
        BY OtherSide
    <2>2. Keep(r.amm) * Gain(Other(side), price) * Nanos(OutReserve(r.amm, Other(side)))
             <= BPS * Cost(Other(side), price) * Nanos(InReserve(r.amm, Other(side)))
        BY <1>17, <1>19, <2>1
    <2> HIDE DEF o2, i2
    <2> QED BY <1>3, <1>16, <2>1, <2>2, SpentIsDry
<1> QED BY <1>18, <1>20, OtherSide

(* Whatever the arbitrageur does at an ample pool of the normalizer, it leaves nothing. *)
LEMMA ArbLeavesNothing ==
    ASSUME NEW a \in NormAmms, Floored(a), NEW price \in Nat \ {0}, Ample(a, price), Representable,
           NEW r \in ExecuteArb(a, price)
    PROVE  \A s \in Sides : Dry(r.amm, s, price)
<1>0. a.name = "normalizer" BY DEF NormAmms
<1>1. PICK buy \in Plans(a, BUY_X, price), sell \in Plans(a, SELL_X, price) :
         LET chosen == BestCandidate(buy, sell)
         IN  r \in IF chosen = {} THEN {[amm |-> a, edge |-> 0]}
                   ELSE UNION {ExecuteCandidate(a, price, c) : c \in chosen}
    BY DEF ExecuteArb
<1> DEFINE chosen == BestCandidate(buy, sell)
<1>2. buy \in NormalizerPlans(a, BUY_X, price) /\ sell \in NormalizerPlans(a, SELL_X, price)
    BY <1>0, <1>1 DEF Plans
<1>3. BUY_X \in Sides /\ SELL_X \in Sides /\ \A s \in Sides : s = BUY_X \/ s = SELL_X BY DEF Sides
<1>4. CASE chosen = {}
    <2>1. buy = {} /\ sell = {}
        <3>1. SUFFICES ASSUME buy # {} PROVE FALSE BY <1>4 DEF BestCandidate
        <3> QED BY <1>4, <3>1 DEF BestCandidate
    <2>2. r.amm = a BY <1>1, <1>4
    <2> QED BY <1>2, <1>3, <2>1, <2>2, IdleIsDry
<1>5. CASE chosen # {}
    <2>1. PICK c \in chosen : r \in ExecuteCandidate(a, price, c) BY <1>1, <1>5
    <2>2. c \in buy \/ c \in sell BY DEF BestCandidate
    <2>3. PICK e \in Executions(a, c.side, c.input) : r.amm = e.amm BY <2>1 DEF ExecuteCandidate
    <2>4. CASE c \in buy BY <1>2, <1>3, <2>3, <2>4, TradedIsDry
    <2>5. CASE c \in sell BY <1>2, <1>3, <2>3, <2>5, TradedIsDry
    <2> QED BY <2>2, <2>4, <2>5
<1> QED BY <1>4, <1>5

(* The arbitrageur's step of the loop leaves nothing at an ample pool. *)
LEMMA VisitLeavesNothing ==
    ASSUME Representable, IInv, ArbNorm, Ample(norm, fair)
    PROVE  NormArbExhausts'
<1>1. PICK r \in ExecuteArb(norm, fair) : norm' = r.amm BY DEF ArbNorm
<1>2. norm \in NormAmms /\ Floored(norm) /\ fair \in Nat \ {0} /\ fair' = fair
    BY StateFacts DEF IInv, TypeOK, ArbNorm
<1>3. \A s \in Sides : Dry(norm', s, fair) BY <1>1, <1>2, ArbLeavesNothing
<1>4. \A s \in Sides : Hidden(s) = Unit * (Gain(s, fair) + 3 * Cost(s, fair))
    <2> SUFFICES ASSUME NEW s \in Sides PROVE Hidden(s) = Unit * (Gain(s, fair) + 3 * Cost(s, fair))
        OBVIOUS
    <2>1. CASE s = BUY_X BY <2>1 DEF Hidden, Gain, Cost
    <2>2. CASE s # BUY_X BY <2>2 DEF Hidden, Gain, Cost
    <2> QED BY <2>1, <2>2
<1>5. ASSUME NEW s \in Sides, NEW input \in MinTradeInput(s, fair) .. MaxInput,
             NEW q \in Quotes(norm', s, input)
      PROVE  q = 0 \/ Profit(s, fair, input, q) < MinArbProfit + Hidden(s)
    BY <1>3, <1>4, <1>5 DEF Dry
<1>6. \A s \in Sides : Hidden(s)' = Hidden(s) BY <1>2 DEF Hidden
<1> QED BY <1>2, <1>5, <1>6 DEF NormArbExhausts

(* One visit at a time: if the reserves are ample when the arbitrageur comes to the   *)
(* normalizer, it leaves nothing there.                                            *)
THEOREM NormVisitExhausts ==
    Representable => (Spec => [][Ample(norm, fair) => NormArbExhausts']_vars)
<1> SUFFICES ASSUME Representable
             PROVE  Spec => [][Ample(norm, fair) => NormArbExhausts']_vars
    OBVIOUS
<1>1. IInv /\ [Next]_vars => [Ample(norm, fair) => NormArbExhausts']_vars
    <2> SUFFICES ASSUME IInv, Next, Ample(norm, fair), ~UNCHANGED vars PROVE NormArbExhausts'
        OBVIOUS
    <2>1. CASE ArbNorm BY <2>1, VisitLeavesNothing
    <2>2. CASE ~ArbNorm
        <3>1. pc' # "retail"
            BY <2>2 DEF Next, BeginStep, ArbSub, GenerateOrders, Split, LegSub, LegNorm, Account,
                    NextOrder, EndStep, ShapePanic, Finished
        <3> QED BY <3>1 DEF NormArbExhausts
    <2> QED BY <2>1, <2>2
<1> QED BY <1>1, AlwaysInv, PTL DEF Spec

(* The whole run: if they are at each of its visits, the property always holds. *)
THEOREM NormArbAlwaysExhausts ==
    Representable =>
        (Spec /\ [](pc = "arb_norm" => Ample(norm, fair)) => []NormArbExhausts)
<1> SUFFICES ASSUME Representable
             PROVE  Spec /\ [](pc = "arb_norm" => Ample(norm, fair)) => []NormArbExhausts
    OBVIOUS
<1> DEFINE Visited == pc = "arb_norm" => Ample(norm, fair)
<1>1. Init => NormArbExhausts BY DEF Init, NormArbExhausts
<1>2. NormArbExhausts /\ Visited /\ [Next]_vars /\ IInv => NormArbExhausts'
    <2> SUFFICES ASSUME NormArbExhausts, Visited, [Next]_vars, IInv PROVE NormArbExhausts'
        OBVIOUS
    <2>1. CASE ArbNorm BY <2>1, VisitLeavesNothing DEF ArbNorm
    <2>2. CASE Next /\ ~ArbNorm /\ ~UNCHANGED vars
        <3>1. pc' # "retail"
            BY <2>2 DEF Next, BeginStep, ArbSub, GenerateOrders, Split, LegSub, LegNorm, Account,
                    NextOrder, EndStep, ShapePanic, Finished
        <3> QED BY <3>1 DEF NormArbExhausts
    <2>3. CASE UNCHANGED vars
        BY <2>3 DEF NormArbExhausts, Hidden, vars
    <2> QED BY <2>1, <2>2, <2>3
<1> QED BY <1>1, <1>2, AlwaysInv, PTL DEF Spec

(* Amounts between whole numbers of nanos. *)
LEMMA NanoRange ==
    ASSUME NEW v \in Nat, NEW low \in Nat, NEW high \in Nat, Unit * low <= v, v <= Unit * high
    PROVE  low <= Nanos(v) /\ Nanos(v) <= high
<1> DEFINE d == Nanos(v)
<1>1. d \in Nat /\ Unit * d <= v BY NanoSplit
<1>2. Unit \in Nat \ {0} BY AmountAssumption
<1>3. low <= d BY <1>2, NanoOf
<1> HIDE DEF d
<1>4. d * Unit <= high * Unit
    <2>1. d * Unit = Unit * d /\ high * Unit = Unit * high /\ Unit * d \in Int /\ Unit * high \in Int
        BY <1>1, <1>2
    <2> QED BY <1>1, <1>2, <2>1
<1>5. d <= high BY <1>1, <1>2, <1>4, Cancel
<1> QED BY <1>1, <1>3, <1>5 DEF d

(* The pools the batches start with are ample: 0.4 to 2 times 100 X and 10000 Y, and a  *)
(* fee of 30 to 80 basis points, at prices from 10 to 10000; m is what a thousandth of   *)
(* a token has of nanos.                                                             *)
LEMMA OpeningPoolsAmple ==
    ASSUME BPS = 10000, NormBackend = "native", NEW m \in Nat \ {0},
           MinInput = Unit * m, MinArbNotionalY = Unit * (10 * m),
           MaxInput >= Unit * (4000000000 * m),
           NEW price \in 10 .. 10000, NEW a \in NormAmms, a.storage \in 30 .. 80,
           Unit * (40000 * m) <= a.reserve_x, a.reserve_x <= Unit * (200000 * m),
           Unit * (4000000 * m) <= a.reserve_y, a.reserve_y <= Unit * (20000000 * m)
    PROVE  Ample(a, price)
<1> DEFINE x == Nanos(a.reserve_x)
           y == Nanos(a.reserve_y)
           h == Unit * m
<1>1. /\ Unit \in Nat \ {0} /\ a.reserve_x \in Nat /\ a.reserve_y \in Nat
      /\ MinInput \in Nat /\ MinArbNotionalY \in Nat /\ MaxInput \in Nat
    BY AmountAssumption, ArbAssumption DEF NormAmms
<1>2. h \in Nat \ {0} /\ Unit <= h BY <1>1
<1>3. /\ MinInput = h /\ MinArbNotionalY = 10 * h /\ 4000000000 * h <= MaxInput
      /\ a.reserve_x <= 200000 * h /\ a.reserve_y <= 20000000 * h
    <2>1. /\ Unit * (10 * m) = 10 * h /\ Unit * (4000000000 * m) = 4000000000 * h
          /\ Unit * (200000 * m) = 200000 * h /\ Unit * (20000000 * m) = 20000000 * h
        BY <1>1, SMT
    <2> HIDE DEF h
    <2> QED BY <1>1, <1>2, <2>1, SMT DEF h
<1>4. 40000 * m <= x /\ x <= 200000 * m
    <2> DEFINE l == 40000 * m
               u == 200000 * m
    <2>1. l \in Nat /\ u \in Nat /\ Unit * l <= a.reserve_x /\ a.reserve_x <= Unit * u OBVIOUS
    <2> HIDE DEF l, u
    <2>2. l <= Nanos(a.reserve_x) /\ Nanos(a.reserve_x) <= u BY <1>1, <2>1, NanoRange
    <2> QED BY <2>2 DEF l, u
<1>5. 4000000 * m <= y /\ y <= 20000000 * m
    <2> DEFINE l == 4000000 * m
               u == 20000000 * m
    <2>1. l \in Nat /\ u \in Nat /\ Unit * l <= a.reserve_y /\ a.reserve_y <= Unit * u OBVIOUS
    <2> HIDE DEF l, u
    <2>2. l <= Nanos(a.reserve_y) /\ Nanos(a.reserve_y) <= u BY <1>1, <2>1, NanoRange
    <2> QED BY <2>2 DEF l, u
<1>6. x \in Nat /\ y \in Nat BY <1>1, NanoSplit
<1>7. NormalizerFee(a.storage) = StorageFee(a.storage) /\ Keep(a) \in 9920 .. 9970
    <2>1. a.storage # 0 OBVIOUS
    <2> QED BY <2>1, SMT DEF NormalizerFee, StorageFee, Keep
<1> HIDE DEF x, y, h
<1> DEFINE A == 2 * price * x <= y * y
           B == 2 * y <= price * x * x
<1> HIDE DEF A, B
<1>8. x >= 40000 /\ y >= 40000 /\ x >= 2 * price /\ y >= 2 * price /\ A /\ B
    <2>1. /\ 40000 * m <= x /\ x <= 200000 * m /\ 4000000 * m <= y /\ y <= 20000000 * m
          /\ x \in Nat /\ y \in Nat
        BY <1>4, <1>5, <1>6 DEF x, y
    <2>2. m \in Nat \ {0} /\ price \in 10 .. 10000 OBVIOUS
    <2>3. x >= 40000 /\ y >= 40000 /\ x >= 2 * price /\ y >= 2 * price /\ x <= y /\ y <= 500 * x
        BY ONLY <2>1, <2>2, SMT
    <2>4. A /\ B
        <3>1. x * x \in Nat /\ 2 * price \in Nat /\ 2 * price <= 20000 /\ price \in Nat /\ 10 <= price
            BY <2>2, <2>1
        <3>2. (2 * price) * x <= 20000 * x BY ONLY <2>1, <3>1, MulMono, SMT
        <3>3. 40000 * y <= y * y BY ONLY <2>1, <2>3, MulMono, SMT
        <3>4. 40000 * x <= x * x BY ONLY <2>1, <2>3, MulMono, SMT
        <3>5. ASSUME NEW g \in Nat PROVE 10 * g <= price * g BY <3>1, MulMono
        <3>6. price * x * x = price * (x * x) /\ (2 * price) * x = 2 * price * x
            BY ONLY <2>1, <3>1, SMT
        <3> DEFINE e == 2 * price * x
                   f == y * y
                   g == x * x
                   l == price * x * x
        <3>7. e \in Int /\ f \in Int /\ g \in Int /\ l \in Int BY ONLY <2>1, <3>1, SMT
        <3>8. e <= 20000 * x /\ 40000 * y <= f /\ 40000 * x <= g
            BY <3>2, <3>3, <3>4, <3>6
        <3>9. l = price * g BY <3>6
        <3> HIDE DEF e, f, g, l
        <3>10. 10 * g <= l
            <4>1. g \in Nat BY <3>1 DEF g
            <4> QED BY <3>5, <3>9, <4>1
        <3>11. e <= f /\ 2 * y <= l BY ONLY <2>1, <2>3, <3>7, <3>8, <3>10, SMT
        <3> QED BY <3>11 DEF A, B, e, f, l
    <2> QED BY <2>3, <2>4
<1>9. ASSUME NEW side \in Sides
      PROVE  BPS * (Unit + MinTradeInput(side, price)) <= Unit * Nanos(InReserve(a, side))
    <2>1. CASE side = BUY_X
        <3>1. MinTradeInput(side, price) = 10 * h
            BY <1>2, <1>3, <2>1, SMT DEF MinTradeInput, Larger
        <3>2. Nanos(InReserve(a, side)) = y BY <2>1 DEF InReserve, y
        <3>3. (4000000 * m) * Unit <= y * Unit BY <1>1, <1>5, <1>6, MulMono
        <3>4. y * Unit = Unit * y /\ y * Unit \in Int /\ (4000000 * m) * Unit = 4000000 * h
            BY <1>1, <1>6, SMT DEF h
        <3> DEFINE e == Unit * y
        <3>5. e \in Int /\ 4000000 * h <= e BY <3>3, <3>4
        <3> HIDE DEF e
        <3>6. 10000 * (Unit + 10 * h) <= e BY ONLY <1>1, <1>2, <3>5, SMT
        <3> QED BY <3>1, <3>2, <3>6 DEF e
    <2>2. CASE side # BUY_X
        <3>1. MinTradeInput(side, price) = h
            <4> DEFINE d == (10 * h) \div price
            <4>1. 10 * h \in Nat /\ price \in Nat \ {0} BY <1>2
            <4>2. d \in Nat /\ d * price <= 10 * h BY <4>1, Quotient
            <4>3. MinTradeInput(side, price) = Larger(h, d)
                BY <1>3, <2>2 DEF MinTradeInput
            <4> HIDE DEF d
            <4>4. 10 * d <= price * d BY <4>2, MulMono
            <4>5. price * d = d * price /\ d * price \in Int BY <4>1, <4>2
            <4> DEFINE e == price * d
            <4>6. e \in Int /\ 10 * d <= e /\ e <= 10 * h BY <4>2, <4>4, <4>5
            <4> HIDE DEF e
            <4>7. d <= h BY ONLY <1>2, <4>2, <4>6, SMT
            <4> QED BY <1>2, <4>2, <4>3, <4>7 DEF Larger
        <3>2. Nanos(InReserve(a, side)) = x BY <2>2 DEF InReserve, x
        <3>3. (40000 * m) * Unit <= x * Unit BY <1>1, <1>4, <1>6, MulMono
        <3>4. x * Unit = Unit * x /\ x * Unit \in Int /\ (40000 * m) * Unit = 40000 * h
            BY <1>1, <1>6, SMT DEF h
        <3> DEFINE e == Unit * x
        <3>5. e \in Int /\ 40000 * h <= e BY <3>3, <3>4
        <3> HIDE DEF e
        <3>6. 10000 * (Unit + h) <= e BY ONLY <1>1, <1>2, <3>5, SMT
        <3> QED BY <3>1, <3>2, <3>6 DEF e
    <2> QED BY <2>1, <2>2
<1>10. BPS * Worth(a, price) <= Keep(a) * MaxInput
    <2>1. price \in Nat /\ price <= 10000 OBVIOUS
    <2>2. price * a.reserve_x <= 10000 * a.reserve_x BY <1>1, <2>1, MulMono, SMT
    <2>3. a.reserve_x * price = price * a.reserve_x /\ price * a.reserve_x \in Int BY ONLY <1>1, <2>1, SMT
    <2>4. Worth(a, price) \in Int /\ Worth(a, price) <= 2020000000 * h
        <3> DEFINE e == a.reserve_x * price
        <3>1. e \in Int /\ e <= 10000 * a.reserve_x BY <2>2, <2>3
        <3> HIDE DEF e
        <3>2. e + a.reserve_y \in Int /\ e + a.reserve_y <= 2020000000 * h BY ONLY <1>1, <1>2, <1>3, <3>1, SMT
        <3> QED BY <3>2 DEF Worth, e
    <2>5. 9920 * MaxInput <= Keep(a) * MaxInput BY <1>1, <1>7, MulMono
    <2> DEFINE e == Keep(a) * MaxInput
               f == Worth(a, price)
    <2>6. e \in Int BY <1>1, <1>7
    <2>7. f \in Int /\ f <= 2020000000 * h /\ 9920 * MaxInput <= e BY <2>4, <2>5
    <2> HIDE DEF e, f
    <2>8. 10000 * f <= e BY ONLY <1>1, <1>2, <1>3, <2>6, <2>7, SMT
    <2> QED BY <2>8 DEF e, f
<1>11. \A r \in {x, y} : r >= 3 * BPS /\ r >= 2 * price BY <1>6, <1>8, SMT
<1>12. 9 * BPS <= 10 * Keep(a) BY <1>7
<1> QED BY <1>7, <1>8, <1>9, <1>10, <1>11, <1>12 DEF Ample, A, B, x, y

-----------------------------------------------------------------------------
(* A set of naturals has a least element. *)
LEMMA LeastOne ==
    ASSUME NEW T \in SUBSET Nat, T # {}
    PROVE  \E n \in T : \A m \in T : n <= m
<1> DEFINE R == {ss \in Nat \X Nat : ss[1] < ss[2]}
<1>1. IsWellFoundedOn(R, Nat) BY NatLessThanWellFounded DEF OpToRel
<1>2. PICK x \in T : \A y \in T : <<y, x>> \notin R BY <1>1, WFMin
<1>3. \A y \in T : ~(y < x) BY <1>2
<1> QED BY <1>3

(* The root the closed form takes exists below any bound that is large enough. *)
LEMMA RootExists ==
    ASSUME NEW n \in Nat, NEW top \in Nat, n <= top * top
    PROVE  Roots(n, top) # {}
<1> DEFINE T == {s \in Nat : n < s * s}
<1>1. top + 1 \in T
    <2>1. (top + 1) * (top + 1) = top * top + (top + top + 1) /\ top * top \in Nat OBVIOUS
    <2> QED BY <2>1
<1>2. PICK s \in T : \A r \in T : s <= r BY <1>1, LeastOne
<1>3. s \in Nat \ {0} /\ n < s * s BY <1>2
<1>4. s - 1 \in Nat /\ s - 1 <= top BY <1>1, <1>2, <1>3
<1>5. (s - 1) * (s - 1) <= n
    <2>1. s - 1 \notin T BY <1>2, <1>3
    <2> DEFINE e == (s - 1) * (s - 1)
    <2>2. e \in Int BY <1>4
    <2>3. ~(n < e) BY <1>4, <2>1
    <2> HIDE DEF e
    <2>4. e <= n BY <2>2, <2>3
    <2> QED BY <2>4 DEF e
<1>6. (s - 1) + 1 = s BY <1>3
<1>7. s - 1 \in Roots(n, top) BY <1>3, <1>4, <1>5, <1>6 DEF Roots
<1> QED BY <1>7

(* The normalizer always answers: a call has a quote, an execution and a candidate. *)
LEMMA CandidatesExist ==
    ASSUME NEW a \in NormAmms, NEW side, NEW price, NEW input
    PROVE  /\ Candidates(a, side, price, input) # {} /\ Quotes(a, side, input) # {}
           /\ Executions(a, side, input) # {}
<1>1. a.name = "normalizer" BY DEF NormAmms
<1>2. \A x, y, z : Call(a, side, x, y, z) # {} BY <1>1 DEF Call
<1>3. Quotes(a, side, input) # {} BY <1>2 DEF Quotes
<1>4. PICK q \in Quotes(a, side, input) : TRUE BY <1>3
<1>5. Candidates(a, side, price, input) # {}
    <2> DEFINE Plan(p) == IF p > 0 /\ Profit(side, price, input, p) >= MinArbProfit
                          THEN {[side |-> side, input |-> input, profit |-> Profit(side, price, input, p)]}
                          ELSE {}
    <2>1. Candidates(a, side, price, input) = {Plan(p) : p \in Quotes(a, side, input)}
        BY Zenon DEF Candidates
    <2> HIDE DEF Plan
    <2> QED BY <1>4, <2>1
<1>6. AfterSwap(Moved(a, side, input, q), side, input, q) # {}
    <2> DEFINE b == Moved(a, side, input, q)
    <2>1. b.name = "normalizer" BY <1>1 DEF Moved, NormAmms
    <2> HIDE DEF b
    <2>2. \A x, y, n, m : CallAfterSwap(b, side, n, m, x, y) = {b.storage} BY <2>1 DEF CallAfterSwap
    <2>3. AfterSwap(b, side, input, q) = {[b EXCEPT !.storage = s] : s \in {b.storage}}
        BY <2>2 DEF AfterSwap
    <2>4. AfterSwap(b, side, input, q) # {} BY <2>3
    <2> QED BY <2>4 DEF b
<1>7. Executions(a, side, input) # {}
    <2> DEFINE Done(p) == IF Accepts(a, side, input, p)
                          THEN {[amm |-> m, out |-> p] :
                                  m \in AfterSwap(Moved(a, side, input, p), side, input, p)}
                          ELSE {[amm |-> a, out |-> 0]}
    <2>1. Executions(a, side, input) = UNION {Done(p) : p \in Quotes(a, side, input)}
        BY Zenon DEF Executions
    <2>2. Done(q) # {} BY <1>6
    <2> HIDE DEF Done
    <2>3. Done(q) \subseteq Executions(a, side, input) BY <1>4, <2>1
    <2> QED BY <2>2, <2>3
<1> QED BY <1>3, <1>5, <1>7

(* The closed form of find_arb always ends with a plan: the root it takes is within the  *)
(* bound Optimum gives, so it exists whatever the reserves, the fee and the price.        *)
LEMMA NormPlansExist ==
    ASSUME NEW a \in NormAmms, NEW side \in Sides, NEW price \in Nat \ {0}
    PROVE  NormalizerPlans(a, side, price) # {}
<1> DEFINE k == BPS - StorageFee(a.storage)
           x == a.reserve_x
           y == a.reserve_y
           i == IF side = BUY_X THEN y ELSE x
           n == IF side = BUY_X THEN (price * x * y * k) \div BPS
                ELSE (y * x * k) \div (BPS * price)
           top == IF side = BUY_X THEN price * x + y ELSE x + y
           Input(t) == Larger(MinTradeInput(side, price), Smaller(((t - i) * BPS) \div k, MaxInput))
           S == IF side = BUY_X THEN Roots((price * x * y * k) \div BPS, price * x + y)
                ELSE Roots((y * x * k) \div (BPS * price), x + y)
<1>1. x \in Nat /\ y \in Nat /\ BPS \in Nat \ {0} /\ k \in Nat \ {0} /\ k <= BPS
    BY FeeAssumption DEF NormAmms, StorageFee
<1>2. CASE k <= 0 \/ x <= 0 \/ y <= 0 BY <1>2 DEF NormalizerPlans
<1>3. CASE ~(k <= 0 \/ x <= 0 \/ y <= 0)
    <2>1. NormalizerPlans(a, side, price) =
             UNION {IF t <= i THEN {{}} ELSE Candidates(a, side, price, Input(t)) : t \in S}
        BY <1>3, Zenon DEF NormalizerPlans
    <2>2. S = Roots(n, top) BY Zenon
    <2>3. n \in Nat /\ top \in Nat /\ n <= top * top
        <3> DEFINE w == Gain(side, price)
                   c == Cost(side, price)
                   o == OutReserve(a, side)
        <3>1. /\ n \in Nat /\ n * (BPS * c) <= (k * w) * (o * i)
            <4>1. i = InReserve(a, side) BY DEF InReserve
            <4> HIDE DEF k, i
            <4> QED BY <1>1, <4>1, Optimum
        <3>2. w \in Nat \ {0} /\ c \in Nat \ {0} /\ o \in Nat /\ i \in Nat
            BY <1>1, Weights DEF OutReserve
        <3>3. top \in Nat /\ w * o + i <= top /\ w * o \in Nat
            BY <1>1 DEF Gain, OutReserve
        <3> HIDE DEF n, k, w, c, o, i, top
        <3>4. n * BPS <= (w * (o * i)) * BPS
            <4>1. 1 * (n * BPS) <= c * (n * BPS)
                <5>1. n * BPS \in Nat BY <1>1, <3>1
                <5> HIDE <1>1
                <5> QED BY <3>2, <5>1, MulMono
            <4>2. k * (w * (o * i)) <= BPS * (w * (o * i))
                <5>1. w * (o * i) \in Nat BY <3>2
                <5> QED BY <1>1, <5>1, MulMono
            <4>3. /\ c * (n * BPS) = n * (BPS * c) /\ k * (w * (o * i)) = (k * w) * (o * i)
                  /\ BPS * (w * (o * i)) = (w * (o * i)) * BPS /\ 1 * (n * BPS) = n * BPS
                BY <1>1, <3>1, <3>2
            <4> DEFINE e1 == n * BPS
                       e2 == c * (n * BPS)
                       e3 == k * (w * (o * i))
                       e4 == (w * (o * i)) * BPS
            <4>4. e1 \in Int /\ e2 \in Int /\ e3 \in Int /\ e4 \in Int BY <1>1, <3>1, <3>2
            <4>5. e1 <= e2 /\ e2 <= e3 /\ e3 <= e4 BY <3>1, <4>1, <4>2, <4>3
            <4> HIDE DEF e1, e2, e3, e4
            <4>6. e1 <= e4 BY <4>4, <4>5
            <4> QED BY <4>6 DEF e1, e4
        <3>5. n <= w * (o * i) /\ w * (o * i) \in Nat
            <4>1. w * (o * i) \in Nat BY <3>2
            <4> QED BY <1>1, <3>1, <3>4, <4>1, Cancel
        <3>6. w * (o * i) <= top * top
            <4> DEFINE p == w * o
            <4>1. p \in Nat /\ p <= top /\ i <= top BY <3>2, <3>3
            <4>2. w * (o * i) = p * i BY <3>2
            <4> HIDE DEF p
            <4>3. p * i <= top * i BY <3>2, <3>3, <4>1, MulMono
            <4>4. i * top <= top * top BY <3>2, <3>3, <4>1, MulMono
            <4>5. top * i = i * top /\ p * i \in Int /\ i * top \in Int /\ top * top \in Int BY <3>2, <3>3, <4>1
            <4> QED BY <4>2, <4>3, <4>4, <4>5
        <3>7. top * top \in Int BY <3>3
        <3> QED BY <3>1, <3>3, <3>5, <3>6, <3>7
    <2> HIDE DEF S, n, top, Input, i
    <2>4. PICK t \in S : TRUE BY <2>2, <2>3, RootExists
    <2>5. PICK plan : plan \in IF t <= i THEN {{}} ELSE Candidates(a, side, price, Input(t))
        BY CandidatesExist
    <2> QED BY <2>1, <2>4, <2>5
<1> QED BY <1>2, <1>3

(* The arbitrageur's visit of the normalizer always has an outcome. *)
LEMMA ArbOutcome ==
    ASSUME NEW a \in NormAmms, NEW price \in Nat \ {0}
    PROVE  ExecuteArb(a, price) # {}
<1>1. a.name = "normalizer" BY DEF NormAmms
<1>2. PICK buy \in Plans(a, BUY_X, price), sell \in Plans(a, SELL_X, price) : TRUE
    <2>1. BUY_X \in Sides /\ SELL_X \in Sides BY DEF Sides
    <2> QED BY <1>1, <2>1, NormPlansExist DEF Plans
<1> DEFINE chosen == BestCandidate(buy, sell)
<1> DEFINE B == Plans(a, BUY_X, price)
           S == Plans(a, SELL_X, price)
           Done(b, s) == LET leg == BestCandidate(b, s)
                         IN  IF leg = {} THEN {[amm |-> a, edge |-> 0]}
                             ELSE UNION {ExecuteCandidate(a, price, c) : c \in leg}
<1>3. ExecuteArb(a, price) = UNION {Done(b, s) : b \in B, s \in S} BY DEF ExecuteArb
<1>4. Done(buy, sell) \subseteq ExecuteArb(a, price)
    <2>1. buy \in B /\ sell \in S BY <1>2
    <2> HIDE DEF Done, B, S
    <2> QED BY <2>1, <1>3
<1>5. \A r : (r \in IF chosen = {} THEN {[amm |-> a, edge |-> 0]}
                      ELSE UNION {ExecuteCandidate(a, price, c) : c \in chosen})
              => r \in ExecuteArb(a, price)
    <2>1. Done(buy, sell) = IF chosen = {} THEN {[amm |-> a, edge |-> 0]}
                      ELSE UNION {ExecuteCandidate(a, price, c) : c \in chosen} OBVIOUS
    <2> HIDE DEF Done, chosen
    <2> QED BY <1>4, <2>1
<1>6. CASE chosen = {} BY <1>5, <1>6
<1>7. CASE chosen # {}
    <2>1. PICK c \in chosen : TRUE BY <1>7
    <2>2. PICK e \in Executions(a, c.side, c.input) : TRUE BY CandidatesExist, Zenon
    <2> DEFINE r == [amm |-> e.amm,
                     edge |-> IF e.out <= 0 THEN 0 ELSE -Profit(c.side, price, c.input, e.out)]
    <2>3. r \in ExecuteCandidate(a, price, c) BY <2>2 DEF ExecuteCandidate
    <2> HIDE DEF r, chosen
    <2>4. r \in UNION {ExecuteCandidate(a, price, d) : d \in chosen} BY <2>1, <2>3
    <2> QED BY <1>5, <1>7, <2>4
<1> QED BY <1>6, <1>7

(* Whatever the reserves, the fee and the price, the arbitrageur is never stuck at the *)
(* normalizer: the root of its closed form exists, and its visit has an outcome.        *)
THEOREM NormVisitEnds == Spec => [](pc = "arb_norm" => ExecuteArb(norm, fair) # {})
<1>1. IInv => (pc = "arb_norm" => ExecuteArb(norm, fair) # {})
    BY StateFacts, ArbOutcome DEF IInv, TypeOK
<1> QED BY <1>1, AlwaysInv, PTL
=============================================================================
