------------------------------- MODULE AmmOps -------------------------------
(***************************************************************************)
(* BpfAmm (crates/sim/src/amm.rs) as operators: a pool is a record, a quote *)
(* a set of possible answers, an execution a set of outcomes                *)
(* [amm |-> the pool after it, out |-> the amount paid to the trader].      *)
(*                                                                          *)
(* The normalizer's program is in the repository.  The submission's is not: *)
(* SubReplies gives the amounts it may return for a call, SubHooks the       *)
(* storage it may leave after a trade; a pure strategy has singletons, an    *)
(* error of its run is the reply 0, or the storage unchanged.               *)
(***************************************************************************)
EXTENDS Programs

CONSTANTS
    MinReserve,                       \* MIN_RESERVE, less than a nano
    Storages,                         \* contents of the submission's storage
    ZeroStorage,                      \* the one filled with zeroes
    SubReplies(_, _, _, _, _),        \* side, amount, rx, ry, storage
    SubHooks(_, _, _, _, _, _, _)     \* side, input, output, rx, ry, step, storage

ASSUME ReserveAssumption == MinReserve \in 0 .. Unit - 1

ASSUME StorageAssumption == ZeroStorage \in Storages

(* The pools a simulation holds: the submission's, whose storage is its own *)
(* business, and the normalizer's, whose storage is its fee (0: unset).      *)
SubAmms == [name : {"submission"}, reserve_x : Nat, reserve_y : Nat,
            storage : Storages, current_step : Nat]
NormAmms == [name : {"normalizer"}, reserve_x : Nat, reserve_y : Nat,
             storage : 0 .. BPS - 1, current_step : Nat]

IsPool(a) == a \in (IF a.name = "normalizer" THEN NormAmms ELSE SubAmms)

(* new or new_native, and for the normalizer set_initial_storage. *)
NewAmm(name, rx, ry, fee) ==
    [name |-> name, reserve_x |-> rx, reserve_y |-> ry,
     storage |-> IF name = "normalizer" THEN fee ELSE ZeroStorage, current_step |-> 0]

-----------------------------------------------------------------------------
(* call: the u64 the program returns. *)
Call(amm, side, amount, rx, ry) ==
    IF amm.name = "normalizer"
    THEN {NormalizerSwap(side, amount, rx, ry, amm.storage)}
    ELSE SubReplies(side, amount, rx, ry, amm.storage) \cap U64

(* call_after_swap: the storage after the hook ran; the normalizer's is a no-op. *)
CallAfterSwap(amm, side, input, output, rx, ry) ==
    IF amm.name = "normalizer"
    THEN {amm.storage}
    ELSE SubHooks(side, input, output, rx, ry, amm.current_step, amm.storage)
            \cap Storages

(* The reserve a trade of this side is paid from. *)
OutReserve(amm, side) == IF side = BUY_X THEN amm.reserve_x ELSE amm.reserve_y

Floored(amm) == amm.reserve_x > MinReserve /\ amm.reserve_y > MinReserve

(* quote_buy_x and quote_sell_x. *)
Quotes(amm, side, input) ==
    IF input <= 0 \/ ~Floored(amm) THEN {0}
    ELSE {IF NanoToF64(q) > OutReserve(amm, side) THEN 0 ELSE NanoToF64(q) :
            q \in Call(amm, side, F64ToNano(input),
                       F64ToNano(amm.reserve_x), F64ToNano(amm.reserve_y))}

(* The pool once a trade moved its reserves. *)
Moved(amm, side, input, output) ==
    IF side = BUY_X
    THEN [amm EXCEPT !.reserve_x = @ - output, !.reserve_y = @ + input]
    ELSE [amm EXCEPT !.reserve_x = @ + input, !.reserve_y = @ - output]

(* Mutant: the floor is not checked. *)
AcceptsUnfloored(amm, side, input, output) ==
    input > 0 /\ output > 0 /\ output < OutReserve(amm, side)

(* The checks between the quote and the assignment of the new reserves. *)
Accepts(amm, side, input, output) ==
    /\ input > 0
    /\ output > 0
    /\ output < OutReserve(amm, side)
    /\ Floored(Moved(amm, side, input, output))

(* The hook is told the reserves the trade left, in nanos. *)
AfterSwap(moved, side, input, output) ==
    {[moved EXCEPT !.storage = s] :
        s \in CallAfterSwap(moved, side, F64ToNano(input), F64ToNano(output),
                            F64ToNano(moved.reserve_x), F64ToNano(moved.reserve_y))}

(* Mutant: the hook runs before the reserves move. *)
ExecutionsHookFirst(amm, side, input) ==
    UNION {IF Accepts(amm, side, input, q)
           THEN {[amm |-> Moved(a, side, input, q), out |-> q] :
                    a \in AfterSwap(amm, side, input, q)}
           ELSE {[amm |-> amm, out |-> 0]} : q \in Quotes(amm, side, input)}

(* Mutant: the hook runs for a refused trade as well. *)
ExecutionsHookAnyway(amm, side, input) ==
    UNION {LET a == IF Accepts(amm, side, input, q) THEN Moved(amm, side, input, q) ELSE amm
           IN  {[amm |-> b, out |-> IF a = amm THEN 0 ELSE q] : b \in AfterSwap(a, side, input, q)} :
             q \in Quotes(amm, side, input)}

(* execute_buy_x and execute_sell_x: a new quote, the checks, the trade. *)
Executions(amm, side, input) ==
    UNION {IF Accepts(amm, side, input, q)
           THEN {[amm |-> a, out |-> q] :
                    a \in AfterSwap(Moved(amm, side, input, q), side, input, q)}
           ELSE {[amm |-> amm, out |-> 0]} : q \in Quotes(amm, side, input)}
=============================================================================
