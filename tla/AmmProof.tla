------------------------------ MODULE AmmProof ------------------------------
(***************************************************************************)
(* What holds of a pool for every program, every hook and every value of the *)
(* constants.  The lemmas come first: what nanos and the constant-product      *)
(* curve of Programs do, then quotes and executions of AmmOps.                *)
(***************************************************************************)
EXTENDS Amm, TLAPS

(* f64_to_nano yields a u64 that stands for no more than the amount. *)
LEMMA NanoBound ==
    ASSUME NEW v \in Nat
    PROVE  F64ToNano(v) \in Nat /\ F64ToNano(v) \in U64 /\ F64ToNano(v) * Unit <= v
<1>1. v \div Unit \in Nat /\ (v \div Unit) * Unit <= v
    BY AmountAssumption
<1>2. CASE v \div Unit >= U64Max
    <2>1. U64Max * Unit <= (v \div Unit) * Unit
        BY <1>1, <1>2, AmountAssumption
    <2>2. F64ToNano(v) = 0 \/ F64ToNano(v) = U64Max BY <1>2 DEF F64ToNano
    <2>3. U64Max * Unit <= v BY <1>1, <2>1, AmountAssumption
    <2> QED BY <2>2, <2>3, AmountAssumption DEF U64
<1>3. CASE v \div Unit < U64Max
    <2>1. F64ToNano(v) = 0 \/ F64ToNano(v) = v \div Unit BY <1>1, <1>3, AmountAssumption DEF F64ToNano
    <2> QED BY <1>1, <1>3, <2>1, AmountAssumption DEF U64
<1> QED BY <1>1, <1>2, <1>3, AmountAssumption

(* A constant-product curve pays a natural number, less than the reserve. *)
LEMMA CpOutputType ==
    ASSUME NEW amount \in Nat, NEW in \in Nat, NEW out \in Nat,
           NEW num \in Nat, NEW den \in Nat \ {0}
    PROVE  CpOutput(amount, in, out, num, den) \in 0 .. out
<1> DEFINE net == (amount * num) \div den
<1>1. net \in Nat
    <2>1. amount * num \in Nat OBVIOUS
    <2> QED BY <2>1
<1>2. CASE in = 0 \/ out = 0
    BY <1>2 DEF CpOutput
<1>3. CASE in # 0 /\ out # 0
    <2>1. in + net \in Nat \ {0} BY <1>1, <1>3
    <2>2. out * in \in Nat OBVIOUS
    <2>3. CeilDiv(out * in, in + net) \in Nat
        <3> HIDE DEF net
        <3>1. (out * in + (in + net) - 1) \in Nat BY <2>1, <2>2
        <3> QED BY <3>1, <2>1 DEF CeilDiv
    <2> HIDE DEF net
    <2> QED BY <1>3, <2>3 DEF CpOutput, SaturatingSub, net
<1> QED BY <1>2, <1>3

-----------------------------------------------------------------------------
(* Multiplication by a natural number is monotone. *)
LEMMA MulMono ==
    ASSUME NEW a \in Int, NEW b \in Int, NEW c \in Nat, a <= b
    PROVE  a * c <= b * c /\ c * a <= c * b
OBVIOUS

(* What the program keeps: after it pays q out of "out", the remaining reserve  *)
(* times the reserve with the net input is at least what it was, because the    *)
(* division rounds up.                                                          *)
LEMMA CpKeepsProduct ==
    ASSUME NEW amount \in Nat, NEW in \in Nat, NEW out \in Nat,
           NEW num \in Nat, NEW den \in Nat \ {0},
           CpOutput(amount, in, out, num, den) # 0
    PROVE  /\ in > 0 /\ out > 0
           /\ (out - CpOutput(amount, in, out, num, den)) * (in + ((amount * num) \div den))
                 >= out * in
<1> DEFINE net == (amount * num) \div den
<1>1. in # 0 /\ out # 0 BY DEF CpOutput
<1>0. net \in Nat
    <2>1. amount * num \in Nat OBVIOUS
    <2> QED BY <2>1
<1> DEFINE kept == CeilDiv(out * in, in + net)
<1>2. CpOutput(amount, in, out, num, den) = SaturatingSub(out, kept)
    BY <1>1 DEF CpOutput
<1> HIDE DEF net
<1>3. kept \in Nat /\ kept * (in + net) >= out * in
    <2>1. in + net \in Nat \ {0} BY <1>0, <1>1
    <2>2. out * in + (in + net) - 1 \in Nat BY <2>1
    <2>3. \A n \in Nat, d \in Nat \ {0} : n \div d \in Nat /\ (n \div d) * d > n - d
        OBVIOUS
    <2>4. kept \in Nat /\ kept * (in + net) > (out * in + (in + net) - 1) - (in + net)
        BY <2>1, <2>2, <2>3 DEF CeilDiv
    <2>5. kept * (in + net) \in Int /\ out * in \in Int BY <2>1, <2>4
    <2> HIDE DEF kept
    <2> QED BY <2>1, <2>4, <2>5
<1> HIDE DEF kept
<1>4. SaturatingSub(out, kept) = out - kept
    BY <1>2, <1>3 DEF SaturatingSub
<1>5. out - (out - kept) = kept BY <1>3
<1> QED BY <1>1, <1>2, <1>3, <1>4, <1>5 DEF net

(* A fee that outweighs one nano of the reserve: the part of the input that is   *)
(* kept as fee, times the reserve, is at least the part that is priced.          *)
LEMMA FeeOutweighsNano ==
    ASSUME NEW amount \in Nat, NEW in \in Nat, NEW fee \in Nat, NEW den \in Nat \ {0},
           fee < den, in * fee >= den - fee,
           NEW net \in Nat, net = (amount * (den - fee)) \div den
    PROVE  net <= amount /\ in * (amount - net) >= net
<1>1. net * den <= amount * (den - fee)
    <2>1. amount * (den - fee) \in Nat OBVIOUS
    <2> QED BY <2>1
<1>2. amount * (den - fee) = amount * den - amount * fee OBVIOUS
<1>3. (amount - net) * den >= amount * fee
    <2>1. (amount - net) * den = amount * den - net * den OBVIOUS
    <2>2. amount * den \in Int /\ net * den \in Int /\ amount * fee \in Int OBVIOUS
    <2> QED BY <1>1, <1>2, <2>1, <2>2
<1>4. net <= amount
    <2>1. SUFFICES ASSUME amount < net PROVE FALSE OBVIOUS
    <2>2. (amount + 1) * den <= net * den BY <2>1, MulMono
    <2>3. amount * fee \in Nat OBVIOUS
    <2>4. (amount + 1) * den = amount * den + den OBVIOUS
    <2>5. amount * den \in Int /\ net * den \in Int OBVIOUS
    <2> QED BY <1>1, <1>2, <2>2, <2>3, <2>4, <2>5
<1>5. in * ((amount - net) * den) >= in * (amount * fee)
    <2>1. (amount - net) * den \in Int /\ amount * fee \in Int OBVIOUS
    <2> QED BY <1>3, <2>1, MulMono
<1>6. in * (amount * fee) = amount * (in * fee) OBVIOUS
<1>7. amount * (in * fee) >= amount * (den - fee)
    <2>1. in * fee \in Int /\ den - fee \in Int OBVIOUS
    <2> QED BY <2>1, MulMono
<1>8. (in * (amount - net)) * den >= net * den
    <2>1. in * ((amount - net) * den) = (in * (amount - net)) * den OBVIOUS
    <2>2. /\ in * ((amount - net) * den) \in Int /\ in * (amount * fee) \in Int
          /\ amount * (den - fee) \in Int /\ net * den \in Int
        OBVIOUS
    <2> QED BY <1>1, <1>5, <1>6, <1>7, <2>1, <2>2
<1>9. \A x, y \in Int : x * den >= y * den => x >= y
    OBVIOUS
<1> QED BY <1>4, <1>8, <1>9

(* The product of the f64 reserves does not fall although the curve sees only    *)
(* whole nanos: what truncation hides of the reserve is paid for by the fee.     *)
LEMMA ProductSurvivesTruncation ==
    ASSUME NEW U \in Nat \ {0}, NEW nin \in Nat, nin > 0, NEW nout \in Nat,
           NEW din \in 0 .. U - 1, NEW dout \in Nat,
           NEW amount \in Nat, NEW input \in Nat, input >= amount * U,
           NEW q \in 0 .. nout, NEW net \in Nat,
           net <= amount, nin * (amount - net) >= net,
           (nout - q) * (nin + net) >= nout * nin
    PROVE  ((nout * U + dout) - q * U) * ((nin * U + din) + input)
              >= (nout * U + dout) * (nin * U + din)
<1> DEFINE kept == nout - q
<1>1. kept \in Nat OBVIOUS
<1>2. kept * net >= q * nin
    <2>1. (nout - q) * (nin + net) = nout * nin - q * nin + (nout - q) * net OBVIOUS
    <2>2. nout * nin \in Int /\ q * nin \in Int /\ (nout - q) * net \in Int OBVIOUS
    <2>3. nout * nin - q * nin + (nout - q) * net >= nout * nin BY <2>1
    <2> QED BY <2>2, <2>3
<1> HIDE DEF kept
<1>3. kept * (amount - net) >= q
    <2>1. kept * (nin * (amount - net)) >= kept * net
        <3>1. nin * (amount - net) \in Int OBVIOUS
        <3> QED BY <1>1, <3>1, MulMono
    <2>2. kept * (nin * (amount - net)) = (kept * (amount - net)) * nin BY <1>1
    <2>3. /\ kept * (amount - net) \in Int /\ kept * net \in Int /\ q * nin \in Int
          /\ (kept * (amount - net)) * nin \in Int
        BY <1>1
    <2>4. (kept * (amount - net)) * nin >= q * nin BY <1>2, <2>1, <2>2, <2>3
    <2>5. \A x, y \in Int : x * nin >= y * nin => x >= y OBVIOUS
    <2> QED BY <2>3, <2>4, <2>5
<1>4. kept * (nin + amount) - nout * nin >= q
    <2>1. kept * (nin + amount) = kept * (nin + net) + kept * (amount - net) BY <1>1
    <2>2. kept * (nin + net) >= nout * nin BY DEF kept
    <2>3. /\ kept * (nin + net) \in Int /\ kept * (amount - net) \in Int /\ nout * nin \in Int
        BY <1>1
    <2> QED BY <1>3, <2>1, <2>2, <2>3
<1> DEFINE gain == kept * (nin + amount) - nout * nin
           rin == nin * U + din
           left == kept * U + dout
<1>5. (nout * U + dout) - q * U = left
    <2>1. kept * U = nout * U - q * U BY DEF kept
    <2>2. nout * U \in Int /\ q * U \in Int OBVIOUS
    <2> QED BY <2>1, <2>2
<1>6. left * (rin + input) >= left * (rin + amount * U)
    <2>1. left \in Nat BY <1>1
    <2>2. rin + amount * U \in Int /\ rin + input \in Int OBVIOUS
    <2>3. rin + amount * U <= rin + input OBVIOUS
    <2> HIDE DEF left, rin
    <2> QED BY <2>1, <2>2, <2>3, MulMono
<1>7. left * (rin + amount * U) - (nout * U + dout) * rin
        = U * U * gain - U * din * q + dout * (amount * U)
    <2>1. left * (rin + amount * U)
            = (kept * U) * rin + (kept * U) * (amount * U) + dout * rin + dout * (amount * U)
        BY <1>1
    <2>2. (nout * U + dout) * rin = (nout * U) * rin + dout * rin OBVIOUS
    <2>3. (kept * U) * rin - (nout * U) * rin = - ((q * U) * rin)
        BY DEF kept
    <2>4. (q * U) * rin = U * U * (q * nin) + U * din * q OBVIOUS
    <2>5. (kept * U) * (amount * U) - U * U * (q * nin) = U * U * gain
        <3>1. gain = kept * amount - q * nin BY <1>1 DEF kept
        <3>2. (kept * U) * (amount * U) = U * U * (kept * amount) BY <1>1
        <3>3. kept * amount \in Int /\ q * nin \in Int BY <1>1
        <3> HIDE DEF gain
        <3> QED BY <3>1, <3>2, <3>3
    <2>6. /\ (kept * U) * rin \in Int /\ (kept * U) * (amount * U) \in Int /\ dout * rin \in Int
          /\ dout * (amount * U) \in Int /\ (nout * U) * rin \in Int /\ (q * U) * rin \in Int
          /\ U * U * (q * nin) \in Int /\ U * din * q \in Int /\ U * U * gain \in Int
        BY <1>1
    <2> HIDE DEF gain, left, rin
    <2> QED BY <2>1, <2>2, <2>3, <2>4, <2>5, <2>6
<1>8. U * U * gain >= U * din * q
    <2>1. U * U \in Nat /\ U * din \in Nat /\ U * din <= U * U OBVIOUS
    <2>2. gain \in Int /\ gain >= q BY <1>1, <1>4
    <2> HIDE DEF gain
    <2>3. (U * U) * gain >= (U * U) * q BY <2>1, <2>2, MulMono
    <2>4. (U * U) * q >= (U * din) * q BY <2>1, MulMono
    <2>5. (U * U) * gain \in Int /\ (U * U) * q \in Int /\ (U * din) * q \in Int BY <2>1, <2>2
    <2> QED BY <2>3, <2>4, <2>5
<1>9. dout * (amount * U) \in Nat OBVIOUS
<1>10. /\ left * (rin + amount * U) \in Int /\ left * (rin + input) \in Int
       /\ (nout * U + dout) * rin \in Int /\ U * U * gain \in Int /\ U * din * q \in Int
    BY <1>1
<1>11. left * (rin + input) >= (nout * U + dout) * rin
    <2> HIDE DEF gain, left, rin
    <2> QED BY <1>6, <1>7, <1>8, <1>9, <1>10
<1> QED BY <1>5, <1>11

(* Short of saturation a reserve is its nanos and a remainder of less than one. *)
LEMMA NanoSplit ==
    ASSUME NEW v \in Nat, v < U64Max * Unit
    PROVE  \E d \in 0 .. Unit - 1 : v = F64ToNano(v) * Unit + d
<1>1. v \div Unit \in Nat /\ v - (v \div Unit) * Unit \in 0 .. Unit - 1
    BY AmountAssumption
<1>2. v \div Unit < U64Max
    <2>1. SUFFICES ASSUME v \div Unit >= U64Max PROVE FALSE BY <1>1, AmountAssumption
    <2>2. (v \div Unit) * Unit >= U64Max * Unit BY <1>1, <2>1, AmountAssumption, MulMono
    <2>3. (v \div Unit) * Unit \in Int /\ U64Max * Unit \in Int BY <1>1, AmountAssumption
    <2> QED BY <1>1, <2>2, <2>3
<1>3. F64ToNano(v) = v \div Unit BY <1>1, <1>2, AmountAssumption DEF F64ToNano
<1>4. v = (v \div Unit) * Unit + (v - (v \div Unit) * Unit) BY <1>1, AmountAssumption
<1> QED BY <1>1, <1>3, <1>4

(* One trade at the normalizer, its in-reserve and out-reserve named. *)
LEMMA CurveTrade ==
    ASSUME NEW rin \in Nat, NEW rout \in Nat, NEW input \in Nat, NEW fee \in 1 .. BPS - 1,
           rin < U64Max * Unit, rout < U64Max * Unit,
           F64ToNano(rin) * fee >= BPS - fee,
           NEW q \in Nat \ {0},
           q = CpOutput(F64ToNano(input), F64ToNano(rin), F64ToNano(rout), BPS - fee, BPS)
    PROVE  (rout - q * Unit) * (rin + input) >= rout * rin
<1> DEFINE nin == F64ToNano(rin)
           nout == F64ToNano(rout)
           amount == F64ToNano(input)
           net == (amount * (BPS - fee)) \div BPS
<1>1. nin \in Nat /\ nout \in Nat /\ amount \in Nat /\ input >= amount * Unit
    BY NanoBound
<1>2. PICK din \in 0 .. Unit - 1 : rin = nin * Unit + din BY NanoSplit
<1>3. PICK dout \in 0 .. Unit - 1 : rout = nout * Unit + dout BY NanoSplit
<1>4. fee \in Nat /\ fee < BPS /\ BPS - fee \in Nat /\ BPS \in Nat \ {0} BY FeeAssumption
<1>5. nin * fee >= BPS - fee OBVIOUS
<1> HIDE DEF nin, nout, amount
<1>6. net \in Nat
    <2>1. amount * (BPS - fee) \in Nat BY <1>1, <1>4
    <2> QED BY <1>4, <2>1
<1>7. q = CpOutput(amount, nin, nout, BPS - fee, BPS) BY DEF nin, nout, amount
<1>8. /\ nin > 0
      /\ (nout - q) * (nin + net) >= nout * nin
      /\ q \in 0 .. nout
    <2>1. q # 0 OBVIOUS
    <2> HIDE DEF net
    <2>2. net = (amount * (BPS - fee)) \div BPS BY DEF net
    <2>3. CpOutput(amount, nin, nout, BPS - fee, BPS) # 0 BY <1>7, <2>1
    <2>4. /\ nin > 0 /\ nout > 0
          /\ (nout - CpOutput(amount, nin, nout, BPS - fee, BPS)) * (nin + net) >= nout * nin
        <3> DEFINE num == BPS - fee
        <3>1. num \in Nat /\ net = (amount * num) \div BPS BY <1>4, <2>2
        <3>2. CpOutput(amount, nin, nout, num, BPS) # 0 BY <2>3
        <3> HIDE DEF num
        <3>3. /\ nin > 0 /\ nout > 0
              /\ (nout - CpOutput(amount, nin, nout, num, BPS)) * (nin + ((amount * num) \div BPS))
                    >= nout * nin
            BY <1>1, <1>4, <3>1, <3>2, CpKeepsProduct
        <3> QED BY <3>1, <3>3 DEF num
    <2>5. CpOutput(amount, nin, nout, BPS - fee, BPS) \in 0 .. nout
        BY <1>1, <1>4, CpOutputType
    <2> QED BY <1>7, <2>4, <2>5
<1>9. net <= amount /\ nin * (amount - net) >= net
    <2>1. net = (amount * (BPS - fee)) \div BPS OBVIOUS
    <2> HIDE DEF net
    <2> QED BY <1>1, <1>4, <1>5, <1>6, <2>1, FeeOutweighsNano
<1> HIDE DEF net
<1>10. ((nout * Unit + dout) - q * Unit) * ((nin * Unit + din) + input)
          >= (nout * Unit + dout) * (nin * Unit + din)
    BY <1>1, <1>2, <1>3, <1>6, <1>8, <1>9, AmountAssumption, ProductSurvivesTruncation
<1> QED BY <1>2, <1>3, <1>10

-----------------------------------------------------------------------------
(* A program's reply is a natural number, whatever the program. *)
LEMMA CallType ==
    ASSUME NEW a, IsPool(a), NEW side \in Sides,
           NEW amount \in Nat, NEW rx \in Nat, NEW ry \in Nat,
           NEW q \in Call(a, side, amount, rx, ry)
    PROVE  q \in Nat
<1>1. CASE a.name = "normalizer"
    <2>1. a.storage \in 0 .. BPS - 1 BY <1>1 DEF IsPool, NormAmms
    <2>2. NormalizerFee(a.storage) \in 1 .. BPS - 1
        BY <2>1, FeeAssumption DEF NormalizerFee, StorageFee
    <2>3. BPS - NormalizerFee(a.storage) \in Nat /\ BPS \in Nat \ {0}
        BY <2>2, FeeAssumption
    <2>4. NormalizerSwap(side, amount, rx, ry, a.storage) \in Nat
        <3>1. CASE side = BUY_X
            BY <2>3, <3>1, CpOutputType DEF NormalizerSwap
        <3>2. CASE side # BUY_X
            BY <2>3, <3>2, CpOutputType DEF NormalizerSwap
        <3> QED BY <3>1, <3>2
    <2> QED BY <1>1, <2>4 DEF Call
<1>2. CASE a.name # "normalizer"
    BY <1>2, AmountAssumption DEF Call, U64
<1> QED BY <1>1, <1>2

(* A quote is a natural number and never exceeds the reserve it is paid from. *)
LEMMA QuoteType ==
    ASSUME NEW a, IsPool(a), NEW side \in Sides, NEW input \in Nat,
           NEW q \in Quotes(a, side, input)
    PROVE  q \in 0 .. OutReserve(a, side)
<1>1. a.reserve_x \in Nat /\ a.reserve_y \in Nat
    BY DEF IsPool, NormAmms, SubAmms
<1>2. OutReserve(a, side) \in Nat BY <1>1 DEF OutReserve
<1>3. CASE q = 0 BY <1>2, <1>3
<1>4. CASE q # 0
    <2>1. PICK n \in Call(a, side, F64ToNano(input), F64ToNano(a.reserve_x),
                          F64ToNano(a.reserve_y)) :
             q = IF NanoToF64(n) > OutReserve(a, side) THEN 0 ELSE NanoToF64(n)
        BY <1>4 DEF Quotes
    <2>2. n \in Nat BY <1>1, <2>1, CallType, NanoBound
    <2>3. NanoToF64(n) \in Nat BY <2>2, AmountAssumption DEF NanoToF64
    <2> QED BY <1>2, <1>4, <2>1, <2>3
<1> QED BY <1>3, <1>4

(* What an execution does: nothing, or a trade that keeps the pool well formed *)
(* and above the floor, pays at most what it quoted, and keeps name and step.  *)
LEMMA ExecutionEffect ==
    ASSUME NEW a, IsPool(a), Floored(a), NEW side \in Sides, NEW input \in Nat,
           NEW r \in Executions(a, side, input)
    PROVE  \/ r.amm = a /\ r.out = 0
           \/ /\ input > 0 /\ r.out \in Nat \ {0} /\ r.out \in Quotes(a, side, input)
              /\ r.amm.name = a.name /\ r.amm.current_step = a.current_step
              /\ IF side = BUY_X
                 THEN r.amm.reserve_x = a.reserve_x - r.out /\ r.amm.reserve_y = a.reserve_y + input
                 ELSE r.amm.reserve_x = a.reserve_x + input /\ r.amm.reserve_y = a.reserve_y - r.out
              /\ IsPool(r.amm) /\ Floored(r.amm)
<1>1. PICK q \in Quotes(a, side, input) :
         r \in IF Accepts(a, side, input, q)
               THEN {[amm |-> b, out |-> q] : b \in AfterSwap(Moved(a, side, input, q), side, input, q)}
               ELSE {[amm |-> a, out |-> 0]}
    BY DEF Executions
<1>2. CASE ~Accepts(a, side, input, q)
    BY <1>1, <1>2
<1>3. CASE Accepts(a, side, input, q)
    <2> DEFINE mv == Moved(a, side, input, q)
    <2>1. q \in 0 .. OutReserve(a, side) BY QuoteType
    <2>2. /\ a.reserve_x \in Nat /\ a.reserve_y \in Nat /\ OutReserve(a, side) \in Nat
        BY DEF IsPool, NormAmms, SubAmms, OutReserve
    <2>3. input > 0 /\ q > 0 /\ q < OutReserve(a, side) /\ Floored(mv)
        BY <1>3 DEF Accepts
    <2>4. /\ mv.name = a.name /\ mv.current_step = a.current_step /\ mv.storage = a.storage
          /\ IF side = BUY_X
             THEN mv.reserve_x = a.reserve_x - q /\ mv.reserve_y = a.reserve_y + input
             ELSE mv.reserve_x = a.reserve_x + input /\ mv.reserve_y = a.reserve_y - q
        BY DEF IsPool, NormAmms, SubAmms, Moved
    <2>5. IsPool(mv)
        <3>1. side = BUY_X => a.reserve_x - q \in Nat /\ a.reserve_y + input \in Nat
            BY <2>1, <2>2, <2>3 DEF OutReserve
        <3>2. side # BUY_X => a.reserve_x + input \in Nat /\ a.reserve_y - q \in Nat
            BY <2>1, <2>2, <2>3 DEF OutReserve
        <3>3. CASE a \in NormAmms
            <4>1. ASSUME side = BUY_X PROVE mv \in NormAmms
                BY <3>1, <3>3, <4>1 DEF NormAmms, Moved
            <4>2. ASSUME side # BUY_X PROVE mv \in NormAmms
                BY <3>2, <3>3, <4>2 DEF NormAmms, Moved
            <4>3. mv \in NormAmms BY <4>1, <4>2
            <4> QED BY <4>3 DEF IsPool, NormAmms
        <3>4. CASE a \in SubAmms
            <4>1. ASSUME side = BUY_X PROVE mv \in SubAmms
                BY <3>1, <3>4, <4>1 DEF SubAmms, Moved
            <4>2. ASSUME side # BUY_X PROVE mv \in SubAmms
                BY <3>2, <3>4, <4>2 DEF SubAmms, Moved
            <4>3. mv \in SubAmms BY <4>1, <4>2
            <4> QED BY <4>3 DEF IsPool, SubAmms
        <3> QED BY <3>3, <3>4 DEF IsPool
    <2>6. PICK b \in AfterSwap(mv, side, input, q) : r = [amm |-> b, out |-> q]
        BY <1>1, <1>3
    <2>7. PICK s \in CallAfterSwap(mv, side, F64ToNano(input), F64ToNano(q),
                            F64ToNano(mv.reserve_x), F64ToNano(mv.reserve_y)) :
             b = [mv EXCEPT !.storage = s]
        BY <2>6 DEF AfterSwap
    <2>8. IsPool(b) /\ b.name = mv.name /\ b.current_step = mv.current_step
          /\ b.reserve_x = mv.reserve_x /\ b.reserve_y = mv.reserve_y
        <3> HIDE DEF mv
        <3>1. CASE mv.name = "normalizer"
            BY <2>5, <2>7, <3>1 DEF IsPool, NormAmms, CallAfterSwap
        <3>2. CASE mv.name # "normalizer"
            BY <2>5, <2>7, <3>2 DEF IsPool, SubAmms, CallAfterSwap
        <3> QED BY <3>1, <3>2
    <2>9. Floored(b) BY <2>3, <2>8 DEF Floored
    <2> HIDE DEF mv
    <2>10. r.amm = b /\ r.out = q BY <2>6
    <2> QED BY <1>1, <2>1, <2>2, <2>3, <2>4, <2>8, <2>9, <2>10
<1> QED BY <1>2, <1>3

-----------------------------------------------------------------------------

Inv == TypeOK /\ ReserveFloor

(* Whatever the program answers, every reachable pool is well formed and can be *)
(* quoted: type correctness and the reserve floor, which need each other.       *)
THEOREM PoolSafe == Spec => [](TypeOK /\ ReserveFloor)
<1>1. Init => Inv
    BY AmmAssumption DEF Init, Inv, TypeOK, ReserveFloor
<1>2. Inv /\ [Next]_amm => Inv'
    <2> SUFFICES ASSUME Inv, [Next]_amm PROVE Inv'
        OBVIOUS
    <2>1. ASSUME NEW side \in Sides, NEW input \in Inputs, Trade(side, input)
          PROVE  Inv'
        <3>1. PICK r \in Executions(amm, side, input) : amm' = r.amm
            BY <2>1 DEF Trade
        <3>2. input \in Nat BY AmmAssumption
        <3> QED BY <3>1, <3>2, ExecutionEffect DEF Inv, TypeOK, ReserveFloor
    <2>2. ASSUME NEW s \in Steps, SetCurrentStep(s)
          PROVE  Inv'
        <3>1. s \in Nat BY AmmAssumption
        <3> QED BY <2>2, <3>1 DEF Inv, TypeOK, ReserveFloor, Floored, IsPool, NormAmms, SubAmms,
                                  SetCurrentStep
    <2>3. ASSUME NEW a \in InitialAmms, Reset(a.reserve_x, a.reserve_y)
          PROVE  Inv'
        <3>1. IsPool(a) /\ Floored(a) BY AmmAssumption
        <3>2. amm.name \in {"submission", "normalizer"}
            BY DEF Inv, TypeOK, IsPool, NormAmms, SubAmms
        <3>3. 0 \in 0 .. BPS - 1 BY FeeAssumption
        <3>4. a.reserve_x \in Nat /\ a.reserve_y \in Nat
            BY <3>1 DEF IsPool, NormAmms, SubAmms
        <3>5. CASE amm.name = "normalizer"
            BY <2>3, <3>1, <3>3, <3>4, <3>5
            DEF Inv, TypeOK, ReserveFloor, Floored, IsPool, NormAmms, Reset, NewAmm
        <3>6. CASE amm.name = "submission"
            BY <2>3, <3>1, <3>4, <3>6, StorageAssumption
            DEF Inv, TypeOK, ReserveFloor, Floored, IsPool, SubAmms, Reset, NewAmm
        <3> QED BY <3>2, <3>5, <3>6
    <2>4. CASE UNCHANGED amm
        BY <2>4 DEF Inv, TypeOK, ReserveFloor
    <2> QED BY <2>1, <2>2, <2>3, <2>4 DEF Next
<1> QED BY <1>1, <1>2, PTL DEF Spec, Inv

(* Type correctness of a pool, whatever its program answers and its hook writes. *)
THEOREM PoolTyped == Spec => []TypeOK
BY PoolSafe, PTL

-----------------------------------------------------------------------------
(* A trade of the submission that went through left the storage that one run of its  *)
(* hook made, told the amounts, the reserves the trade left and the current step.      *)
LEMMA HookTold ==
    ASSUME NEW a, IsPool(a), Floored(a), a.name = "submission",
           NEW side \in Sides, NEW input \in Nat, NEW r \in Executions(a, side, input)
    PROVE  \/ r.amm = a
           \/ /\ input > 0 /\ r.out \in 1 .. OutReserve(a, side)
              /\ IF side = BUY_X
                 THEN r.amm.reserve_x = a.reserve_x - r.out /\ r.amm.reserve_y = a.reserve_y + input
                 ELSE r.amm.reserve_x = a.reserve_x + input /\ r.amm.reserve_y = a.reserve_y - r.out
              /\ r.amm.storage \in
                   SubHooks(side, F64ToNano(input), F64ToNano(r.out), F64ToNano(r.amm.reserve_x),
                            F64ToNano(r.amm.reserve_y), a.current_step, a.storage)
<1>1. PICK q \in Quotes(a, side, input) :
         r \in IF Accepts(a, side, input, q)
               THEN {[amm |-> b, out |-> q] : b \in AfterSwap(Moved(a, side, input, q), side, input, q)}
               ELSE {[amm |-> a, out |-> 0]}
    BY DEF Executions
<1>2. CASE ~Accepts(a, side, input, q)
    BY <1>1, <1>2
<1>3. CASE Accepts(a, side, input, q)
    <2> DEFINE mv == Moved(a, side, input, q)
               nx == F64ToNano(mv.reserve_x)
               ny == F64ToNano(mv.reserve_y)
    <2>0. input > 0 /\ q \in 1 .. OutReserve(a, side)
        <3>1. q \in 0 .. OutReserve(a, side) BY QuoteType
        <3>2. OutReserve(a, side) \in Nat BY DEF IsPool, NormAmms, SubAmms, OutReserve
        <3> QED BY <1>3, <3>1, <3>2 DEF Accepts
    <2>1. PICK b \in AfterSwap(mv, side, input, q) : r = [amm |-> b, out |-> q]
        BY <1>1, <1>3
    <2>2. PICK s \in CallAfterSwap(mv, side, F64ToNano(input), F64ToNano(q), nx, ny) :
             b = [mv EXCEPT !.storage = s]
        BY <2>1 DEF AfterSwap
    <2>3. /\ mv.name = a.name /\ mv.current_step = a.current_step /\ mv.storage = a.storage
          /\ IF side = BUY_X
             THEN mv.reserve_x = a.reserve_x - q /\ mv.reserve_y = a.reserve_y + input
             ELSE mv.reserve_x = a.reserve_x + input /\ mv.reserve_y = a.reserve_y - q
        BY DEF IsPool, SubAmms, Moved
    <2>4. /\ [mv EXCEPT !.storage = s].storage = s
          /\ [mv EXCEPT !.storage = s].reserve_x = mv.reserve_x
          /\ [mv EXCEPT !.storage = s].reserve_y = mv.reserve_y
        BY DEF IsPool, SubAmms, Moved
    <2> HIDE DEF mv
    <2>5. s \in SubHooks(side, F64ToNano(input), F64ToNano(q), nx, ny, a.current_step, a.storage)
        BY <2>2, <2>3 DEF CallAfterSwap
    <2>6. /\ r.out = q /\ r.amm = b /\ r.amm.storage = s
          /\ r.amm.reserve_x = mv.reserve_x /\ r.amm.reserve_y = mv.reserve_y
        BY <2>1, <2>2, <2>4
    <2>7. nx = F64ToNano(r.amm.reserve_x) /\ ny = F64ToNano(r.amm.reserve_y)
        BY <2>6
    <2> HIDE DEF nx, ny
    <2> QED BY <2>0, <2>3, <2>5, <2>6, <2>7
<1> QED BY <1>2, <1>3

(* Whatever the program answers and whatever its hook does, the hook runs once for every *)
(* trade that moved the reserves, told that trade, what it left and the step; nothing      *)
(* but a reset touches the storage otherwise.                                              *)
THEOREM HookSeesTheTrade == Spec => HookOncePerTrade
<1> DEFINE Told == amm.name = "submission" =>
               \/ \E a \in InitialAmms : Reset(a.reserve_x, a.reserve_y)
               \/ \E side \in Sides, input \in Inputs : \E output \in 1 .. OutReserve(amm, side) :
                     /\ input > 0
                     /\ Swapped(side, input, output)
                     /\ HookRanOnce(side, input, output)
               \/ /\ amm'.reserve_x = amm.reserve_x /\ amm'.reserve_y = amm.reserve_y
                  /\ amm'.storage = amm.storage
<1>1. Inv /\ [Next]_amm => Told
    <2> SUFFICES ASSUME Inv, [Next]_amm, amm.name = "submission" PROVE Told
        OBVIOUS
    <2>0. IsPool(amm) /\ Floored(amm)
        BY DEF Inv, TypeOK, ReserveFloor
    <2>1. ASSUME NEW side \in Sides, NEW input \in Inputs, Trade(side, input)
          PROVE  Told
        <3>1. PICK r \in Executions(amm, side, input) : amm' = r.amm
            BY <2>1 DEF Trade
        <3>2. input \in Nat BY AmmAssumption
        <3>3. CASE r.amm = amm
            BY <3>1, <3>3
        <3>4. CASE r.amm # amm
            <4>1. /\ input > 0 /\ r.out \in 1 .. OutReserve(amm, side)
                  /\ IF side = BUY_X
                     THEN /\ r.amm.reserve_x = amm.reserve_x - r.out
                          /\ r.amm.reserve_y = amm.reserve_y + input
                     ELSE /\ r.amm.reserve_x = amm.reserve_x + input
                          /\ r.amm.reserve_y = amm.reserve_y - r.out
                  /\ r.amm.storage \in
                       SubHooks(side, F64ToNano(input), F64ToNano(r.out),
                                F64ToNano(r.amm.reserve_x), F64ToNano(r.amm.reserve_y),
                                amm.current_step, amm.storage)
                BY <2>0, <3>2, <3>4, HookTold
            <4>2. Swapped(side, input, r.out)
                BY <3>1, <4>1 DEF Swapped
            <4>3. HookRanOnce(side, input, r.out)
                BY <3>1, <4>1 DEF HookRanOnce
            <4> QED BY <4>1, <4>2, <4>3
        <3> QED BY <3>3, <3>4
    <2>2. ASSUME NEW s \in Steps, SetCurrentStep(s)
          PROVE  Told
        <3>1. amm' = [amm EXCEPT !.current_step = s] BY <2>2 DEF SetCurrentStep
        <3>2. /\ amm'.storage = amm.storage
              /\ amm'.reserve_x = amm.reserve_x /\ amm'.reserve_y = amm.reserve_y
            BY <2>0, <3>1 DEF IsPool, NormAmms, SubAmms
        <3> QED BY <3>2
    <2>3. ASSUME NEW a \in InitialAmms, Reset(a.reserve_x, a.reserve_y)
          PROVE  Told
        BY <2>3
    <2>4. CASE UNCHANGED amm
        BY <2>4
    <2> QED BY <2>1, <2>2, <2>3, <2>4 DEF Next
<1>2. Spec => []Inv
    BY PoolSafe DEF Inv
<1> QED BY <1>1, <1>2, PTL DEF Spec, HookOncePerTrade

-----------------------------------------------------------------------------
(* No trade takes value out of the normalizer's pool: for every fee, every scale *)
(* and every trade size, the product of the f64 reserves of a deep pool never      *)
(* falls, whatever the call that executes it.                                      *)
THEOREM NormalizerNeverLoses == Spec => KNeverFalls
<1>1. ASSUME TypeOK, ReserveFloor, amm.name = "normalizer", Deep(amm),
             NEW side \in Sides, NEW input \in Inputs, Trade(side, input)
      PROVE  K(amm') >= K(amm)
    <2>1. PICK r \in Executions(amm, side, input) : amm' = r.amm BY <1>1 DEF Trade
    <2>2. input \in Nat BY AmmAssumption
    <2>3. /\ amm.reserve_x \in Nat /\ amm.reserve_y \in Nat /\ amm.storage \in 0 .. BPS - 1
        BY <1>1 DEF TypeOK, IsPool, NormAmms
    <2>4. CASE r.amm = amm
        BY <2>1, <2>3, <2>4 DEF K
    <2>5. CASE r.amm # amm
        <3> DEFINE fee == NormalizerFee(amm.storage)
        <3>1. /\ r.out \in Nat \ {0} /\ r.out \in Quotes(amm, side, input)
              /\ IF side = BUY_X
                 THEN r.amm.reserve_x = amm.reserve_x - r.out /\ r.amm.reserve_y = amm.reserve_y + input
                 ELSE r.amm.reserve_x = amm.reserve_x + input /\ r.amm.reserve_y = amm.reserve_y - r.out
            BY <1>1, <2>1, <2>2, <2>5, ExecutionEffect DEF TypeOK, ReserveFloor
        <3>2. fee \in 1 .. BPS - 1
            BY <2>3, FeeAssumption DEF NormalizerFee, StorageFee
        <3>3. PICK n \in Call(amm, side, F64ToNano(input), F64ToNano(amm.reserve_x),
                              F64ToNano(amm.reserve_y)) : r.out = NanoToF64(n)
            BY <3>1 DEF Quotes
        <3>4. n \in Nat /\ n # 0 /\ r.out = n * Unit
            <4>1. n \in Nat BY <1>1, <2>2, <2>3, <3>3, CallType, NanoBound DEF TypeOK
            <4> QED BY <3>1, <3>3, <4>1, AmountAssumption DEF NanoToF64
        <3>5. n = NormalizerSwap(side, F64ToNano(input), F64ToNano(amm.reserve_x),
                                 F64ToNano(amm.reserve_y), amm.storage)
            BY <1>1, <3>3 DEF Call
        <3>6. CASE side = BUY_X
            <4>1. n = CpOutput(F64ToNano(input), F64ToNano(amm.reserve_y),
                               F64ToNano(amm.reserve_x), BPS - fee, BPS)
                BY <3>5, <3>6 DEF NormalizerSwap
            <4>2. (amm.reserve_x - n * Unit) * (amm.reserve_y + input)
                     >= amm.reserve_x * amm.reserve_y
                <5> HIDE DEF fee
                <5>1. /\ F64ToNano(amm.reserve_y) * fee >= BPS - fee
                      /\ amm.reserve_x < U64Max * Unit /\ amm.reserve_y < U64Max * Unit
                    BY <1>1 DEF Deep, fee
                <5> QED BY <2>2, <2>3, <3>2, <3>4, <4>1, <5>1, CurveTrade
            <4> QED BY <2>1, <2>3, <3>1, <3>4, <3>6, <4>2 DEF K
        <3>7. CASE side # BUY_X
            <4>1. n = CpOutput(F64ToNano(input), F64ToNano(amm.reserve_x),
                               F64ToNano(amm.reserve_y), BPS - fee, BPS)
                BY <3>5, <3>7 DEF NormalizerSwap
            <4>2. (amm.reserve_y - n * Unit) * (amm.reserve_x + input)
                     >= amm.reserve_y * amm.reserve_x
                <5> HIDE DEF fee
                <5>1. /\ F64ToNano(amm.reserve_x) * fee >= BPS - fee
                      /\ amm.reserve_x < U64Max * Unit /\ amm.reserve_y < U64Max * Unit
                    BY <1>1 DEF Deep, fee
                <5> QED BY <2>2, <2>3, <3>2, <3>4, <4>1, <5>1, CurveTrade
            <4>3. amm.reserve_y * amm.reserve_x = amm.reserve_x * amm.reserve_y BY <2>3
            <4>4. amm'.reserve_y * amm'.reserve_x = amm'.reserve_x * amm'.reserve_y
                BY <2>1, <2>2, <2>3, <3>1, <3>4, <3>7
            <4> QED BY <2>1, <2>3, <3>1, <3>4, <3>7, <4>2, <4>3, <4>4 DEF K
        <3> QED BY <3>6, <3>7
    <2> QED BY <2>4, <2>5
<1>2. Inv /\ [Next]_amm =>
        [(/\ amm.name = "normalizer" /\ Deep(amm)
          /\ \E side \in Sides, input \in Inputs : Trade(side, input)) => K(amm') >= K(amm)]_amm
    BY <1>1 DEF Inv
<1> QED BY <1>2, PoolSafe, PTL DEF Spec, Inv, KNeverFalls
=============================================================================
