-------------------------------- MODULE Amm --------------------------------
(***************************************************************************)
(* One pool as a state machine: what any sequence of calls of BpfAmm's       *)
(* methods can do to it.  Quoting and spot_price leave it alone.             *)
(***************************************************************************)
EXTENDS AmmOps

CONSTANTS
    InitialAmms,   \* pools as run_simulation builds them
    Inputs,        \* amounts a caller may try to trade
    Steps          \* values set_current_step is given

ASSUME AmmAssumption ==
    /\ \A a \in InitialAmms : IsPool(a) /\ Floored(a)
    /\ Inputs \subseteq Nat /\ Steps \subseteq Nat

VARIABLE amm

Init == amm \in InitialAmms

Trade(side, input) == amm' \in {r.amm : r \in Executions(amm, side, input)}

(* Mutant: steps counted from one. *)
SetPreviousStep(step) == amm' = [amm EXCEPT !.current_step = step - 1]

SetCurrentStep(step) == amm' = [amm EXCEPT !.current_step = step]

Reset(rx, ry) ==
    amm' = NewAmm(amm.name, rx, ry, 0)

Next ==
    \/ \E side \in Sides, input \in Inputs : Trade(side, input)
    \/ \E step \in Steps : SetCurrentStep(step)
    \/ \E a \in InitialAmms : Reset(a.reserve_x, a.reserve_y)

Spec == Init /\ [][Next]_amm

-----------------------------------------------------------------------------
TypeOK == IsPool(amm)

(* Whatever a program answers, and in whatever order it is called, a pool    *)
(* never leaves the region where it can be quoted: both reserves stay above   *)
(* MIN_RESERVE, sub-nano remainders included (the checks of execute_buy_x).      *)
ReserveFloor == Floored(amm)

(* The reserves moved by a trade that took "input" in and paid "output". *)
Swapped(side, input, output) ==
    IF side = BUY_X
    THEN amm'.reserve_x = amm.reserve_x - output /\ amm'.reserve_y = amm.reserve_y + input
    ELSE amm'.reserve_x = amm.reserve_x + input /\ amm'.reserve_y = amm.reserve_y - output

(* The storage is what one run of the hook makes of the old one when it is told *)
(* the trade, the reserves that the trade left and the step it happened in.      *)
HookRanOnce(side, input, output) ==
    amm'.storage \in SubHooks(side, F64ToNano(input), F64ToNano(output),
                              F64ToNano(amm'.reserve_x), F64ToNano(amm'.reserve_y),
                              amm.current_step, amm.storage)

(* Whatever a submission's hook is, it runs exactly once for every trade that moved *)
(* the reserves (the last call of execute_buy_x and execute_sell_x), told the amounts, *)
(* the reserves after the trade and the current step; and nothing else but a reset       *)
(* touches the storage, neither a refused trade nor set_current_step.                     *)
HookOncePerTrade ==
    [][amm.name = "submission" =>
         \/ \E a \in InitialAmms : Reset(a.reserve_x, a.reserve_y)
         \/ \E side \in Sides, input \in Inputs : \E output \in 1 .. OutReserve(amm, side) :
               /\ input > 0
               /\ Swapped(side, input, output)
               /\ HookRanOnce(side, input, output)
         \/ /\ amm'.reserve_x = amm.reserve_x /\ amm'.reserve_y = amm.reserve_y
            /\ amm'.storage = amm.storage]_amm

-----------------------------------------------------------------------------
(* The normalizer's curve. *)
K(a) == a.reserve_x * a.reserve_y

(* Both reserves, as the program sees them, are large enough for the fee of    *)
(* one nano to outweigh the part of a nano the program does not see.           *)
Deep(a) ==
    LET fee == NormalizerFee(a.storage)
    IN  /\ F64ToNano(a.reserve_x) * fee >= BPS - fee
        /\ F64ToNano(a.reserve_y) * fee >= BPS - fee
        /\ a.reserve_x < U64Max * Unit /\ a.reserve_y < U64Max * Unit

(* No trade takes value out of the normalizer's pool: the product of the f64   *)
(* reserves never falls, although the curve is evaluated on truncated amounts. *)
KNeverFalls ==
    [][(/\ amm.name = "normalizer" /\ Deep(amm)
        /\ \E side \in Sides, input \in Inputs : Trade(side, input))
       => K(amm') >= K(amm)]_amm
=============================================================================
