-------------------------------- MODULE Cli --------------------------------
(***************************************************************************)
(* The prop-amm binary (crates/cli): a user runs one command several times, each *)
(* in a process of its own, on a submission that does not change in between.    *)
(* The build directory is module BuildCache's; here a build works or does not.   *)
(***************************************************************************)
EXTENDS Validator

CONSTANTS
    Sessions,       \* submissions, and the command line the user runs on each
    MaxRuns         \* bound: times the command is run

CommandLines ==
    [name : {"build", "validate"}]
        \cup [name : {"run"}, bpf : BOOLEAN, prebuilt : BOOLEAN,
              seed_start : 0 .. Word - 1, seed_stride : 0 .. Word - 1]

ASSUME CliAssumption ==
    /\ Sessions \subseteq Submissions \X CommandLines
    /\ MaxRuns \in Nat
    /\ ParityStart \in 0 .. Word - 1 /\ ParityStride \in 0 .. Word - 1 /\ ParityTol \in Nat

VARIABLES
    command,
    total,          \* total edge that was printed
    reports         \* what each process so far ended with

vars == <<pc, side, at, prev, asked, native_total, submission, native, library, seed_start,
          seed_stride, sims, thread, batch, results, command, total, reports>>

Ends == {"passed", "failed", "panicked"}

Init ==
    /\ \E s \in Sessions : submission = s[1] /\ command = s[2]
    /\ pc = "shell" /\ side = BUY /\ at = 1 /\ prev = 0 /\ asked = 0 /\ native_total = 0
    /\ native = FALSE /\ library = 0 /\ seed_start = 0 /\ seed_stride = 0
    /\ sims = NoBatch /\ thread = [w \in Workers |-> 0] /\ batch = "idle" /\ results = <<>>
    /\ total = 0 /\ reports = <<>>

(* A new process: nothing is loaded and nothing has run. *)
Launch ==
    /\ pc = "shell" /\ Len(reports) < MaxRuns
    /\ pc' = CASE command.name = "build" -> "build"
               [] command.name = "validate" -> "metadata"
               [] command.name = "run" -> "run"
    /\ side' = BUY /\ at' = 1 /\ prev' = 0 /\ asked' = 0 /\ native_total' = 0
    /\ native' = FALSE /\ library' = 0 /\ seed_start' = 0 /\ seed_stride' = 0
    /\ sims' = NoBatch /\ thread' = [w \in Workers |-> 0] /\ batch' = "idle" /\ results' = <<>>
    /\ total' = 0
    /\ UNCHANGED <<submission, command, reports>>

Build ==
    /\ pc = "build"
    /\ pc' = IF Builds \subseteq submission.compiles THEN "passed" ELSE "failed"
    /\ UNCHANGED <<side, at, prev, asked, native_total, command, total, reports>>
    /\ UNCHANGED batchVars

(* run_native compiles and loads the library. *)
NativeReady == "native" \in submission.compiles

(* run_bpf compiles, or takes a build that is there (--bpf-so). *)
BpfReady == command.prebuilt \/ "bpf" \in submission.compiles

(* A stride of zero is refused. *)
Run ==
    /\ pc = "run"
    /\ LET ready == IF command.bpf THEN BpfReady ELSE NativeReady
       IN  pc' = IF command.seed_stride # 0 /\ ready THEN "launch" ELSE "failed"
    /\ UNCHANGED <<side, at, prev, asked, native_total, command, total, reports>>
    /\ UNCHANGED batchVars

RunBatch ==
    /\ pc = "launch"
    /\ StartBatch(~command.bpf, command.seed_start, command.seed_stride)
    /\ pc' = "run_batch"
    /\ UNCHANGED <<side, at, prev, asked, native_total, command, total, reports>>

PrintResults ==
    /\ pc = "run_batch" /\ batch = "done"
    /\ total' = Total
    /\ pc' = "passed"
    /\ UNCHANGED <<side, at, prev, asked, native_total, command, reports>>
    /\ UNCHANGED batchVars

(* A panic that the pool rethrows ends the process. *)
Abort ==
    /\ pc \in {"run_batch", "parity_native", "parity_bpf"} /\ batch = "panicked"
    /\ pc' = "panicked"
    /\ UNCHANGED <<side, at, prev, asked, native_total, command, total, reports>>
    /\ UNCHANGED batchVars

Exit ==
    /\ pc \in Ends
    /\ reports' = Append(reports, [outcome |-> pc, total |-> total])
    /\ pc' = "shell"
    /\ UNCHANGED <<side, at, prev, asked, native_total, command, total>>
    /\ UNCHANGED batchVars

Done == pc = "shell" /\ Len(reports) = MaxRuns /\ UNCHANGED vars

Pool == BatchNext /\ UNCHANGED <<pc, side, at, prev, asked, native_total, command, total, reports>>

Main ==
    \/ Launch \/ Build \/ Run \/ RunBatch \/ PrintResults \/ Abort \/ Exit
    \/ ValidatorNext /\ UNCHANGED <<command, total, reports>>

Next == Main \/ Pool \/ Done

(* The main thread runs unless it waits for the pool, and a thread of the pool is awake *)
(* as long as work is queued.                                                          *)
Spec == Init /\ [][Next]_vars /\ WF_vars(Main) /\ WF_vars(Pool)

-----------------------------------------------------------------------------
TypeOK ==
    /\ submission \in Submissions /\ command \in CommandLines
    /\ pc \in Ends \cup {"shell", "build", "run", "launch", "run_batch", "metadata", "compile",
                         "probe", "monotone", "concave", "random", "parity", "parity_native",
                         "parity_bpf"}
    /\ side \in {BUY, SELL} /\ at \in Nat \ {0} /\ prev \in Nat /\ asked \in Nat
    /\ native \in BOOLEAN /\ library \in Nat
    /\ seed_start \in 0 .. Word - 1 /\ seed_stride \in 0 .. Word - 1
    /\ sims \in [Sims -> [status : Statuses, found : Seq(Nat)]]
    /\ thread \in [Workers -> 0 .. NSims]
    /\ batch \in {"idle", "running", "done", "panicked"}
    /\ results \in Seq([seed : 0 .. Word - 1, found : Seq(Nat)])
    /\ native_total \in Int /\ total \in Int
    /\ reports \in Seq([outcome : Ends, total : Int])

-----------------------------------------------------------------------------
(* A curve that has the shape which the rules ask for: defined everywhere, concave,  *)
(* paying something, and rising by a nano and more from one trade size to the next.    *)
ConcaveCurve(c) ==
    \A x, y, z \in Inputs : x < y /\ y < z => (c[z] - c[y]) * (y - x) <= (c[y] - c[x]) * (z - y)
Nondecreasing(c) == \A x, y \in Inputs : x < y => c[x] <= c[y]
Rising(c) ==
    Nondecreasing(c) /\ \A i \in 1 .. Len(Sizes) - 1 : c[Sizes[i + 1]] >= c[Sizes[i]] + Parts

Good(s) ==
    /\ s.metadata /\ s.compiles = Builds /\ s.errs = {} /\ s.fails = {}
    /\ ~s.remembers /\ s.misshapen = {}
    /\ \A d \in {BUY, SELL} : ConcaveCurve(s.curve[d]) /\ Rising(s.curve[d])
    /\ s.curve[BUY][BuyProbe] >= Parts /\ s.curve[SELL][SellProbe] >= Parts

SameScore ==
    LET TotalAlone(is_native) == TotalOf(submission, is_native, ResultsAlone)
    IN  ~(Abs(TotalAlone(TRUE) - TotalAlone(FALSE)) > ParityTol)

(* validate has no false alarm: a submission that keeps the rules, and both builds of  *)
(* which score the same, passes whatever the threads of the parity batches do.          *)
(* The truncation of a concave curve to nanos must not look like a steepening.          *)
GoodPasses ==
    command.name = "validate" /\ Good(submission) =>
        /\ pc # "panicked"
        /\ pc = "failed" => ~SameScore

(* The three samples of a curve that the concavity check takes at a trade size. *)
Triple(c, i) == {<<x, c[x] \div Parts>> : x \in {Sizes[i] + k * Delta : k \in 0 .. 2}}

(* What a pass is worth, for a submission without memory: outputs rise strictly over   *)
(* all trade sizes once they are not zero, no simulation of the parity batches panicked, *)
(* the builds score the same, and what the concavity check saw, where it rises, is not     *)
(* refused by the check of the simulations either.                                       *)
PassIsEarned ==
    pc = "passed" /\ command.name = "validate" /\ ~submission.remembers =>
        /\ submission.misshapen = {} /\ submission.errs \cap {Sizes[i] : i \in DOMAIN Sizes} = {}
        /\ \A d \in {BUY, SELL} : \A i, j \in DOMAIN Sizes :
              LET q(k) == submission.curve[d][Sizes[k]] \div Parts
              IN  /\ i < j => q(i) = 0 \/ q(i) < q(j)
                  /\ Nondecreasing(submission.curve[d]) =>
                        ~RunTime!ShapeViolation(Triple(submission.curve[d], i))
        /\ SameScore

(* The same command on the same submission ends the same, run after run, with the same *)
(* total edge, whatever the threads do: always for a submission without memory, and in  *)
(* a BPF run even for one with memory.                                                 *)
Reproducible ==
    ~submission.remembers \/ (command.name = "run" /\ command.bpf) =>
        \A i, j \in DOMAIN reports : reports[i] = reports[j]

(* README: "Local CLI runs are deterministic for a given config." *)
LocalRunsAreDeterministic ==
    command.name = "run" => \A i, j \in DOMAIN reports : reports[i] = reports[j]

(* Every command ends: no check and no batch waits for ever, whichever simulations    *)
(* panic and whichever pieces of work are dropped with them.                           *)
CommandsEnd == pc # "shell" ~> pc = "shell"
=============================================================================
