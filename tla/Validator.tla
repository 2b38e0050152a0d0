----------------------------- MODULE Validator -----------------------------
(***************************************************************************)
(* prop-amm validate (crates/cli/src/commands/validate.rs): a fixed series of   *)
(* calls of one executor (probes, monotonicity, concavity, random states) and    *)
(* then two batches that compare the native with the BPF build.  pc names the   *)
(* check that is next; the first one that fails ends the command.              *)
(***************************************************************************)
EXTENDS BatchRunner, SequencesExt

CONSTANTS
    Inputs,         \* amounts that are probed
    Sizes,          \* trade_sizes, in nanos
    Delta,          \* CONCAVITY_DELTA_NANO
    StepTol,        \* CONCAVITY_STEP_TOL_NANO
    Uncertainty, MergeEps,  \* of the run-time check, module ShapeCheck
    BuyProbe, SellProbe,
    RandomStates,   \* number of random states
    Parts,          \* parts of a nano in which a curve is known
    ParityTol, ParityStart, ParityStride,
    Edge(_, _, _, _)   \* edge of a simulation: submission, native or not, seed, memory found

BUY == 0
SELL == 1
Builds == {"native", "bpf"}
Faults == {"random", "hook"}

ASSUME ValidatorAssumption ==
    /\ Inputs \subseteq Nat /\ Sizes \in Seq(Inputs) /\ Sizes # <<>>
    /\ Delta \in Nat \ {0} /\ StepTol \in Nat /\ Parts \in Nat /\ Parts >= 2
    /\ Uncertainty \in Nat /\ MergeEps \in Nat
    /\ BuyProbe \in Inputs /\ SellProbe \in Inputs /\ RandomStates \in Nat \ {0}
    /\ \A i \in 1 .. Len(Sizes) : {Sizes[i] + Delta, Sizes[i] + 2 * Delta} \subseteq Inputs
    /\ \A s \in Submissions :
          /\ s.metadata \in BOOLEAN
          /\ s.compiles \subseteq Builds
          /\ s.errs \subseteq Inputs /\ s.fails \subseteq Faults    \* where it ends in an error
          /\ s.wobble \in Nat
          /\ s.curve \in [{BUY, SELL} -> [Inputs -> Nat]]    \* output in parts of a nano

VARIABLES
    pc, side, at,       \* the check, and where its loop is
    prev,               \* prev_output
    asked,              \* calls of the executor so far: what its memory holds
    native_total        \* total edge of the native batch

validatorVars == <<pc, side, at, prev, asked, native_total>>

RunTime == INSTANCE ShapeCheck WITH MinDx <- Delta, MinInput <- 0

-----------------------------------------------------------------------------
(* A quote of the BPF build after n calls: the curve cut to nanos.  A program that *)
(* remembers may wobble: every other time it answers less.                        *)
Quote(s, input, n) ==
    LET q == submission.curve[s][input] \div Parts
    IN  IF submission.remembers /\ n % 2 = 1 /\ q > submission.wobble
        THEN q - submission.wobble ELSE q

Errs(input) == input \in submission.errs
Fails(fault) == fault \in submission.fails

Reject == pc' = "failed" /\ UNCHANGED <<side, at>>

(* The loops over trade_sizes: buy side first, then sell side, then the next check. *)
Advance(next) ==
    \/ at < Len(Sizes) /\ at' = at + 1 /\ UNCHANGED <<side, pc>>
    \/ at = Len(Sizes) /\ side = BUY /\ at' = 1 /\ side' = SELL /\ UNCHANGED pc
    \/ at = Len(Sizes) /\ side = SELL /\ at' = 1 /\ side' = BUY /\ pc' = next

CheckMetadata ==
    /\ pc = "metadata"
    /\ pc' = IF submission.metadata THEN "compile" ELSE "failed"
    /\ UNCHANGED <<side, at, prev, asked, native_total>> /\ UNCHANGED batchVars

CompileBoth ==
    /\ pc = "compile"
    /\ pc' = IF Builds \subseteq submission.compiles THEN "probe" ELSE "failed"
    /\ UNCHANGED <<side, at, prev, asked, native_total>> /\ UNCHANGED batchVars

(* One trade of each side must execute and pay something. *)
Probe ==
    /\ pc = "probe"
    /\ LET input == IF side = BUY THEN BuyProbe ELSE SellProbe
           works == ~Errs(input) /\ Quote(side, input, asked) # 0
       IN  \/ ~works /\ Reject
           \/ works /\ side = BUY /\ side' = SELL /\ UNCHANGED <<at, pc>>
           \/ works /\ side = SELL /\ side' = BUY /\ UNCHANGED at /\ pc' = "monotone"
    /\ asked' = asked + 1
    /\ UNCHANGED <<prev, native_total>> /\ UNCHANGED batchVars

(* Mutant: every output is compared with the first one. *)
MonotoneFromFirst ==
    /\ pc = "monotone"
    /\ LET output == Quote(side, Sizes[at], asked)
           rises == ~Errs(Sizes[at]) /\ (output > prev \/ prev = 0)
       IN  \/ ~rises /\ Reject /\ UNCHANGED prev
           \/ /\ rises /\ Advance("concave")
              /\ prev' = IF at = Len(Sizes) THEN 0 ELSE IF at = 1 THEN output ELSE prev
    /\ asked' = asked + 1
    /\ UNCHANGED native_total /\ UNCHANGED batchVars

(* An output must be more than the one before it, unless that was nothing. *)
Monotone ==
    /\ pc = "monotone"
    /\ LET output == Quote(side, Sizes[at], asked)
           rises == ~Errs(Sizes[at]) /\ (output > prev \/ prev = 0)
       IN  \/ ~rises /\ Reject /\ UNCHANGED prev
           \/ /\ rises /\ Advance("concave")
              /\ prev' = IF at < Len(Sizes) THEN output ELSE 0
    /\ asked' = asked + 1
    /\ UNCHANGED native_total /\ UNCHANGED batchVars

(* Mutant: no tolerance. *)
AcceptsStrictly(out0, out1, out2) == out2 - out1 <= out1 - out0

(* The second of two equal steps in input may gain no more than the first, and a nano. *)
AcceptsSteps(out0, out1, out2) == out2 - out1 <= out1 - out0 + StepTol

(* The sizes are literals far below 2^64: the code's saturating additions and its   *)
(* `continue` for steps that saturated away never apply.                             *)
Concave ==
    /\ pc = "concave"
    /\ LET Input(k) == Sizes[at] + k * Delta
           Out(k) == Quote(side, Input(k), asked + k)
           accepted == /\ \A k \in 0 .. 2 : ~Errs(Input(k))
                       /\ AcceptsSteps(Out(0), Out(1), Out(2))
       IN  (accepted /\ Advance("random")) \/ (~accepted /\ Reject)
    /\ asked' = asked + 3
    /\ UNCHANGED <<prev, native_total>> /\ UNCHANGED batchVars

(* A quote and a call of the hook in some state: only an error counts. *)
RandomState ==
    /\ pc = "random"
    /\ LET works == ~Fails("random") /\ ~Fails("hook")
       IN  \/ ~works /\ Reject
           \/ works /\ at < RandomStates /\ at' = at + 1 /\ UNCHANGED <<side, pc>>
           \/ works /\ at = RandomStates /\ at' = 1 /\ pc' = "parity" /\ UNCHANGED side
    /\ asked' = asked + 2
    /\ UNCHANGED <<prev, native_total>> /\ UNCHANGED batchVars

-----------------------------------------------------------------------------
(* BatchResult::from_results. *)
TotalOf(s, is_native, rs) ==
    FoldLeft(LAMBDA sum, r : sum + Edge(s, is_native, r.seed, r.found), 0, rs)

Total == TotalOf(submission, native, results)

Abs(n) == IF n < 0 THEN -n ELSE n

ParityNative ==
    /\ pc = "parity"
    /\ StartBatch(TRUE, ParityStart, ParityStride)
    /\ pc' = "parity_native"
    /\ UNCHANGED <<side, at, prev, asked, native_total>>

ParityBpf ==
    /\ pc = "parity_native" /\ batch = "done"
    /\ native_total' = Total
    /\ StartBatch(FALSE, ParityStart, ParityStride)
    /\ pc' = "parity_bpf"
    /\ UNCHANGED <<side, at, prev, asked>>

(* The average differs by no more than the total, so its own test decides nothing. *)
Compare ==
    /\ pc = "parity_bpf" /\ batch = "done"
    /\ pc' = IF Abs(native_total - Total) > ParityTol THEN "failed" ELSE "passed"
    /\ UNCHANGED <<side, at, prev, asked, native_total>> /\ UNCHANGED batchVars

ValidatorNext ==
    \/ CheckMetadata \/ CompileBoth \/ Probe \/ Monotone \/ Concave \/ RandomState
    \/ ParityNative \/ ParityBpf \/ Compare
=============================================================================
