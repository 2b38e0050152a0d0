------------------------------ MODULE Programs ------------------------------
(***************************************************************************)
(* The integer side of the simulator: nano amounts and the constant-product *)
(* pricing programs of the repository.                                      *)
(*                                                                          *)
(* An f64 amount is an integer number of quanta, Unit of them to one nano,  *)
(* so that the truncation of f64_to_nano is visible.  Rounding of f64 sums  *)
(* and products, NaN and infinities are not modelled.                       *)
(***************************************************************************)
EXTENDS Integers

CONSTANTS
    Unit,         \* quanta in a nano
    U64Max,       \* u64::MAX
    BPS,          \* 10000: what a fee is a fraction of
    DefaultFee,   \* 30: the normalizer's fee when its storage says nothing
    NormBackend   \* "native" or "bpf": which build of the normalizer runs

ASSUME AmountAssumption ==
    /\ Unit \in Nat \ {0}
    /\ U64Max \in Nat \ {0}

ASSUME FeeAssumption ==
    /\ BPS \in Nat \ {0}
    /\ DefaultFee \in 1 .. BPS - 1
    /\ NormBackend \in {"native", "bpf"}

BUY_X == 0    \* the trader pays Y and receives X
SELL_X == 1   \* the trader pays X and receives Y
Sides == {BUY_X, SELL_X}

U64 == 0 .. U64Max

F64ToNano(v) ==
    IF v <= 0 THEN 0 ELSE IF v \div Unit >= U64Max THEN U64Max ELSE v \div Unit

NanoToF64(n) == n * Unit

(* Mutant: rounding in the trader's favour. *)
FloorDiv(a, b) == a \div b

CeilDiv(a, b) == (a + b - 1) \div b

SaturatingSub(a, b) == IF b >= a THEN 0 ELSE a - b

-----------------------------------------------------------------------------
(* What a constant-product curve pays out of reserve "out" for "amount" paid *)
(* into reserve "in", the fraction num/den of it counting towards the price. *)
CpOutput(amount, in, out, num, den) ==
    LET net == (amount * num) \div den
    IN  IF in = 0 \/ out = 0 THEN 0
        ELSE SaturatingSub(out, CeilDiv(out * in, in + net))

(* The fee the native normalizer reads from the first two storage bytes. *)
StorageFee(storage) == IF storage = 0 THEN DefaultFee ELSE storage

(* Mutant: the fixed fee in the native build too. *)
FixedFee(storage) == DefaultFee

(* The BPF build charges a fixed 997/1000 whatever the storage holds. *)
NormalizerFee(storage) ==
    IF NormBackend = "bpf" THEN DefaultFee ELSE StorageFee(storage)

NormalizerSwap(side, amount, rx, ry, storage) ==
    LET keep == BPS - NormalizerFee(storage)
    IN  IF side = BUY_X THEN CpOutput(amount, ry, rx, keep, BPS)
        ELSE CpOutput(amount, rx, ry, keep, BPS)
=============================================================================
