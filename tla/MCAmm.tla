------------------------------- MODULE MCAmm -------------------------------
(* One pool of each kind, called in any order. *)
EXTENDS Amm

CONSTANT MaxReserve    \* bound: no trade takes a reserve past it

BoundedNext == Next /\ amm'.reserve_x <= MaxReserve /\ amm'.reserve_y <= MaxReserve
BoundedSpec == Init /\ [][BoundedNext]_amm

(* A strategy that may answer anything at all, and whose hook adds everything that *)
(* it is told to a checksum: a run too many, one too few or one that is told anything *)
(* else leaves another checksum.                                                     *)
ChecksumCap == 5    \* bound
AnyReply(side, amount, rx, ry, storage) == U64
ChecksumHook(side, input, output, rx, ry, step, storage) ==
    {(2 * storage + 1 + side + input + 2 * output + 3 * rx + 4 * ry + 2 * step) % ChecksumCap}
MCChecksums == 0 .. ChecksumCap - 1
MCSteps == 0 .. 1
MCAnyAmms == {NewAmm("submission", 7, 9, 0), NewAmm("submission", 13, 4, 0)}

(* The normalizer between 9 and 14 nanos, with two fees. *)
MCNormAmms == {NewAmm("normalizer", r[1], r[2], f) :
                 r \in {<<37, 34>>, <<30, 40>>}, f \in {0, 3}}
MCAmms == MCAnyAmms \cup MCNormAmms
MCInputs == {0, 1, 4, 6, 10}
MCNormInputs == {1, 2, 3, 5, 8, 13, 20}

NativeBuild == INSTANCE Programs WITH NormBackend <- "native"
BpfBuild == INSTANCE Programs WITH NormBackend <- "bpf"

(* docs/DESIGN.md:63 says of the BPF and the native execution "Both paths must      *)
(* agree": the two builds of the normalizer answer every call the same way.          *)
PathsAgree ==
    \A side \in Sides, input \in MCNormInputs :
        LET n == F64ToNano(input)
            rx == F64ToNano(amm.reserve_x)
            ry == F64ToNano(amm.reserve_y)
        IN  NativeBuild!NormalizerSwap(side, n, rx, ry, amm.storage)
               = BpfBuild!NormalizerSwap(side, n, rx, ry, amm.storage)

NoReply(side, amount, rx, ry, storage) == {0}
NoHook(side, input, output, rx, ry, step, storage) == {storage}
=============================================================================
