------------------------------ MODULE MCEngine ------------------------------
(* Two steps of a simulation with up to two orders each.  The submission is a  *)
(* constant-product pool whose fee, kept in its storage, its hook changes after *)
(* every trade, or a program that answers whatever it likes.                   *)
EXTENDS Engine

MCStorages == 1 .. 2

AdaptiveReply(side, amount, rx, ry, storage) ==
    {IF side = BUY_X THEN CpOutput(amount, ry, rx, BPS - storage, BPS)
     ELSE CpOutput(amount, rx, ry, BPS - storage, BPS)}

(* The fee rises when the trade left more X than Y in the pool. *)
AdaptiveHook(side, input, output, rx, ry, st, storage) == {IF rx > ry THEN 2 ELSE 1}

(* A program that forgets: the same call may be answered twice differently, with *)
(* nothing at all, or with the whole reserve.                                    *)
FickleReply(side, amount, rx, ry, storage) == {0, amount \div 2, amount, rx, ry}
FickleHook(side, input, output, rx, ry, st, storage) == {storage, 1}

MCPrices == {1, 2, 3}
Buy(size) == [is_buy |-> TRUE, size |-> size]
Sell(size) == [is_buy |-> FALSE, size |-> size]
MCFlows == {<<>>, <<Buy(11)>>, <<Sell(13), Buy(7)>>, <<Buy(5), Sell(40)>>}
MCSearchInputs == {1, 4, 9, 14, 30}
FewFlows == {<<>>, <<Buy(11)>>, <<Sell(13)>>}
MCAmounts == 0 .. 60
MCSub == {NewAmm("submission", 41, 60, 1)}
MCNorm == {NewAmm("normalizer", 33, 49, f) : f \in {0, 2}}

(* Larger normalizer pools, off the fair price on either side. *)
MCNormOff ==
    {NewAmm("normalizer", 290 + 7 * x, 560 + 11 * y, f) : x \in 0 .. 3, y \in {0, 3}, f \in {0, 3, 40}}
        \cup {NewAmm("normalizer", 202, 1250, 40), NewAmm("normalizer", 273, 378, 40)}
=============================================================================
