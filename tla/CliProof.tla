------------------------------ MODULE CliProof ------------------------------
(* The batch runner and the commands, for any number of threads, simulations and   *)
(* calls: a batch is a map over its configurations, panics included, and a command   *)
(* ends the same every time it is run.                                              *)
EXTENDS Cli, TLAPS

(* What is proved of the shape check, for the samples that validate takes of a curve. *)
Shape ==
    INSTANCE ShapeProof WITH MinDx <- Delta, MinInput <- 0, Curves <- {}, Outputs <- {},
                             MaxSamples <- 0, curve <- {}, samples <- {}

-----------------------------------------------------------------------------
(* The batch: what holds whatever the threads do. *)

BatchTyped ==
    /\ submission \in Submissions /\ native \in BOOLEAN /\ library \in Nat
    /\ sims \in [Sims -> [status : Statuses, found : Seq(Nat)]]
    /\ thread \in [Workers -> 0 .. NSims]
    /\ batch \in {"idle", "running", "done", "panicked"}

(* A simulation that is taken is running, and one thread has it. *)
Taken ==
    /\ \A w \in Workers : thread[w] # 0 => sims[thread[w]].status = "running"
    /\ \A v, w \in Workers : thread[v] # 0 /\ thread[v] = thread[w] => v = w
    /\ batch # "running" => \A w \in Workers : thread[w] = 0

(* What the calls so far found is what they find when the simulation is alone. *)
FoundAlone ==
    \A i \in Sims :
        /\ Len(sims[i].found) <= NCalls
        /\ Isolated => \A k \in 1 .. Len(sims[i].found) : sims[i].found[k] = Alone[k]

(* How a simulation ended is the submission's doing. *)
Deserved ==
    \A i \in Sims :
        /\ sims[i].status = "done" =>
              Len(sims[i].found) = NCalls /\ i \notin submission.misshapen
        /\ sims[i].status \in {"panicked", "skipped"} => submission.misshapen # {}

Ended ==
    /\ batch = "done" => /\ \A i \in Sims : sims[i].status = "done"
                         /\ results = [i \in Sims |-> Result(i)]
    /\ batch = "panicked" => submission.misshapen # {}

BatchInv == BatchTyped /\ Taken /\ FoundAlone /\ Deserved /\ Ended

-----------------------------------------------------------------------------
LEMMA FinishedAlone ==
  ASSUME BatchInv, NEW i \in Sims, Isolated, sims[i].status = "done"
  PROVE  sims[i].found = Alone
<1>1. sims[i].found \in Seq(Nat) /\ Len(sims[i].found) = NCalls
  BY DEF BatchInv, BatchTyped, Deserved
<1>2. \A k \in 1 .. NCalls : sims[i].found[k] = Alone[k]
  BY <1>1 DEF BatchInv, FoundAlone
<1>3. Alone \in Seq(Nat) /\ Len(Alone) = NCalls
  BY BatchAssumption DEF Alone
<1> QED  BY <1>1, <1>2, <1>3

LEMMA BatchResult == ASSUME BatchInv, batch = "done", Isolated PROVE results = ResultsAlone
<1>1. \A i \in Sims : Result(i) = ResultAlone(i)
  BY FinishedAlone DEF BatchInv, Ended, Result, ResultAlone
<1> QED  BY <1>1 DEF BatchInv, Ended, ResultsAlone

LEMMA BatchPanic ==
  ASSUME BatchInv
  PROVE  (batch = "done" => submission.misshapen = {}) /\ (batch = "panicked" => submission.misshapen # {})
<1>1. submission.misshapen \subseteq Sims
  BY BatchAssumption DEF BatchInv, BatchTyped
<1> QED  BY <1>1 DEF BatchInv, Ended, Deserved

LEMMA TakeBatch == ASSUME BatchInv, NEW w \in Workers, NEW i \in Sims, Take(w, i) PROVE BatchInv'
<1>t. sims \in [Sims -> [status : Statuses, found : Seq(Nat)]]
  BY DEF BatchInv, BatchTyped
<1>s. /\ sims' \in [Sims -> [status : Statuses, found : Seq(Nat)]]
      /\ \A j \in Sims \ {i} : sims'[j] = sims[j]
      /\ sims'[i].status = "running" /\ sims'[i].found = sims[i].found
  BY <1>t DEF Take, Statuses
<1>c. Isolated' = Isolated /\ Alone' = Alone
  BY DEF Take, Isolated, Alone
<1>1. BatchTyped'
  BY <1>s, <1>c, BatchAssumption DEF BatchInv, BatchTyped, Take, Sims
<1>2. Taken'
  BY <1>s, <1>c, BatchAssumption DEF BatchInv, BatchTyped, Taken, Sims, Take
<1>3. FoundAlone'
  BY <1>s, <1>c, <1>t, BatchAssumption DEF BatchInv, FoundAlone, Take
<1>4. Deserved'
  BY <1>s, <1>c, <1>t, BatchAssumption DEF BatchInv, Taken, Deserved, Take
<1>5. Ended'
  BY <1>s, <1>c, <1>t, BatchAssumption DEF BatchInv, BatchTyped, Taken, Deserved, Ended, Result, ConfigSeed, Take
<1> QED  BY <1>1, <1>2, <1>3, <1>4, <1>5 DEF BatchInv

LEMMA CallSubmissionBatch == ASSUME BatchInv, NEW w \in Workers, CallSubmission(w) PROVE BatchInv'
<1>0. thread[w] \in Sims
  BY BatchAssumption DEF BatchInv, BatchTyped, CallSubmission, Sims
<1>t. sims \in [Sims -> [status : Statuses, found : Seq(Nat)]]
  BY DEF BatchInv, BatchTyped
<1>m. Memory(thread[w]) \in Nat /\ (Isolated /\ Len(sims[thread[w]].found) < NCalls =>
           Memory(thread[w]) = Alone[Len(sims[thread[w]].found) + 1])
  <2>1. Len(sims[thread[w]].found) \in Nat
    BY <1>0, <1>t
  <2> QED  BY <2>1, BatchAssumption DEF BatchInv, BatchTyped, Memory, Isolated, Alone
<1>s. /\ sims' \in [Sims -> [status : Statuses, found : Seq(Nat)]]
      /\ \A j \in Sims \ {thread[w]} : sims'[j] = sims[j]
      /\ sims'[thread[w]].status = sims[thread[w]].status /\ sims'[thread[w]].found = Append(sims[thread[w]].found, Memory(thread[w]))
  <2> DEFINE i == thread[w]
             more == Append(sims[i].found, Memory(i))
  <2>1. sims[i] \in [status : Statuses, found : Seq(Nat)] /\ more \in Seq(Nat)
    BY <1>0, <1>t, <1>m
  <2>2. sims' = [sims EXCEPT ![i].found = more]
    BY DEF CallSubmission
  <2>3. more = Append(sims[thread[w]].found, Memory(thread[w]))
    OBVIOUS
  <2> HIDE DEF more
  <2> QED  BY <1>0, <1>t, <2>1, <2>2, <2>3
<1>c. Isolated' = Isolated /\ Alone' = Alone
  BY DEF CallSubmission, Isolated, Alone
<1>1. BatchTyped'
  BY SMTT(40), <1>0, <1>s, <1>c, <1>m, BatchAssumption DEF BatchInv, BatchTyped, CallSubmission
<1>2. Taken'
  BY SMTT(40), <1>0, <1>s, <1>c, <1>m, BatchAssumption DEF BatchInv, BatchTyped, Taken, Sims, CallSubmission
<1>3. FoundAlone'
  BY SMTT(40), <1>0, <1>s, <1>c, <1>m, <1>t, BatchAssumption DEF BatchInv, FoundAlone, CallSubmission
<1>4. Deserved'
  BY <1>0, <1>s, <1>c, <1>m, <1>t, BatchAssumption DEF BatchInv, Taken, Deserved, CallSubmission
<1>5. Ended'
  BY <1>0, <1>s, <1>c, <1>m, <1>t, BatchAssumption DEF BatchInv, BatchTyped, Taken, Deserved, Ended, Result, ConfigSeed, CallSubmission
<1> QED  BY <1>1, <1>2, <1>3, <1>4, <1>5 DEF BatchInv

LEMMA FinishBatch == ASSUME BatchInv, NEW w \in Workers, Finish(w) PROVE BatchInv'
<1>0. thread[w] \in Sims
  BY BatchAssumption DEF BatchInv, BatchTyped, Finish, Sims
<1>t. sims \in [Sims -> [status : Statuses, found : Seq(Nat)]]
  BY DEF BatchInv, BatchTyped
<1>s. /\ sims' \in [Sims -> [status : Statuses, found : Seq(Nat)]]
      /\ \A j \in Sims \ {thread[w]} : sims'[j] = sims[j]
      /\ sims'[thread[w]].status = "done" /\ sims'[thread[w]].found = sims[thread[w]].found
  BY <1>0, <1>t DEF Finish, Statuses
<1>c. Isolated' = Isolated /\ Alone' = Alone
  BY DEF Finish, Isolated, Alone
<1>1. BatchTyped'
  BY <1>0, <1>s, <1>c, BatchAssumption DEF BatchInv, BatchTyped, Finish
<1>2. Taken'
  BY <1>0, <1>s, <1>c, BatchAssumption DEF BatchInv, BatchTyped, Taken, Sims, Finish
<1>3. FoundAlone'
  BY <1>0, <1>s, <1>c, <1>t, BatchAssumption DEF BatchInv, FoundAlone, Finish
<1>4. Deserved'
  BY <1>0, <1>s, <1>c, <1>t, BatchAssumption DEF BatchInv, Taken, Deserved, Finish
<1>5. Ended'
  BY <1>0, <1>s, <1>c, <1>t, BatchAssumption DEF BatchInv, BatchTyped, Taken, Deserved, Ended, Result, ConfigSeed, Finish
<1> QED  BY <1>1, <1>2, <1>3, <1>4, <1>5 DEF BatchInv

LEMMA ShapePanicBatch == ASSUME BatchInv, NEW w \in Workers, ShapePanic(w) PROVE BatchInv'
<1>0. thread[w] \in Sims
  BY BatchAssumption DEF BatchInv, BatchTyped, ShapePanic, Sims
<1>t. sims \in [Sims -> [status : Statuses, found : Seq(Nat)]]
  BY DEF BatchInv, BatchTyped
<1>s. /\ sims' \in [Sims -> [status : Statuses, found : Seq(Nat)]]
      /\ \A j \in Sims \ {thread[w]} : sims'[j] = sims[j]
      /\ sims'[thread[w]].status = "panicked" /\ sims'[thread[w]].found = sims[thread[w]].found
  BY <1>0, <1>t DEF ShapePanic, Statuses
<1>c. Isolated' = Isolated /\ Alone' = Alone
  BY DEF ShapePanic, Isolated, Alone
<1>1. BatchTyped'
  BY <1>0, <1>s, <1>c, BatchAssumption DEF BatchInv, BatchTyped, ShapePanic
<1>2. Taken'
  BY <1>0, <1>s, <1>c, BatchAssumption DEF BatchInv, BatchTyped, Taken, Sims, ShapePanic
<1>3. FoundAlone'
  BY <1>0, <1>s, <1>c, <1>t, BatchAssumption DEF BatchInv, FoundAlone, ShapePanic
<1>4. Deserved'
  BY <1>0, <1>s, <1>c, <1>t, BatchAssumption DEF BatchInv, Taken, Deserved, ShapePanic
<1>5. Ended'
  BY <1>0, <1>s, <1>c, <1>t, BatchAssumption DEF BatchInv, BatchTyped, Taken, Deserved, Ended, Result, ConfigSeed, ShapePanic
<1> QED  BY <1>1, <1>2, <1>3, <1>4, <1>5 DEF BatchInv

LEMMA SkipBatch == ASSUME BatchInv, NEW i \in Sims, Skip(i) PROVE BatchInv'
<1>t. sims \in [Sims -> [status : Statuses, found : Seq(Nat)]]
  BY DEF BatchInv, BatchTyped
<1>s. /\ sims' \in [Sims -> [status : Statuses, found : Seq(Nat)]]
      /\ \A j \in Sims \ {i} : sims'[j] = sims[j]
      /\ sims'[i].status = "skipped" /\ sims'[i].found = sims[i].found
  BY <1>t DEF Skip, Statuses
<1>c. Isolated' = Isolated /\ Alone' = Alone
  BY DEF Skip, Isolated, Alone
<1>1. BatchTyped'
  BY <1>s, <1>c, BatchAssumption DEF BatchInv, BatchTyped, Skip
<1>2. Taken'
  BY <1>s, <1>c, BatchAssumption DEF BatchInv, BatchTyped, Taken, Sims, Skip
<1>3. FoundAlone'
  BY <1>s, <1>c, <1>t, BatchAssumption DEF BatchInv, FoundAlone, Skip
<1>4. Deserved'
  BY <1>s, <1>c, <1>t, BatchAssumption DEF BatchInv, Taken, Deserved, Skip, Sims
<1>5. Ended'
  BY <1>s, <1>c, <1>t, BatchAssumption DEF BatchInv, BatchTyped, Taken, Deserved, Ended, Result, ConfigSeed, Skip
<1> QED  BY <1>1, <1>2, <1>3, <1>4, <1>5 DEF BatchInv

LEMMA CollectBatch == ASSUME BatchInv, Collect PROVE BatchInv'
<1>s. sims' = sims
  BY DEF Collect
<1>c. Isolated' = Isolated /\ Alone' = Alone
  BY DEF Collect, Isolated, Alone
<1>1. BatchTyped'
  BY SMTT(40), <1>s, <1>c, BatchAssumption DEF BatchInv, BatchTyped, Collect
<1>2. Taken'
  BY <1>s, <1>c, BatchAssumption DEF BatchInv, BatchTyped, Taken, Sims, Collect, Settled
<1>3. FoundAlone'
  BY <1>s, <1>c, BatchAssumption DEF BatchInv, FoundAlone, Collect
<1>4. Deserved'
  BY <1>s, <1>c, BatchAssumption DEF BatchInv, Taken, Deserved, Collect
<1>5. Ended'
  BY <1>s, <1>c, BatchAssumption DEF BatchInv, BatchTyped, Taken, Deserved, Ended, Result, ConfigSeed, Collect
<1> QED  BY <1>1, <1>2, <1>3, <1>4, <1>5 DEF BatchInv

LEMMA PropagateBatch == ASSUME BatchInv, Propagate PROVE BatchInv'
<1>s. sims' = sims
  BY DEF Propagate
<1>c. Isolated' = Isolated /\ Alone' = Alone
  BY DEF Propagate, Isolated, Alone
<1>1. BatchTyped'
  BY <1>s, <1>c, BatchAssumption DEF BatchInv, BatchTyped, Propagate
<1>2. Taken'
  <2> SUFFICES ASSUME NEW w \in Workers, thread[w] # 0 PROVE FALSE
    BY DEF BatchInv, Taken, Propagate
  <2>1. thread[w] \in Sims
    BY BatchAssumption DEF BatchInv, BatchTyped, Sims
  <2> QED  BY <2>1 DEF BatchInv, Taken, Propagate, Settled
<1>3. FoundAlone'
  BY <1>s, <1>c, BatchAssumption DEF BatchInv, FoundAlone, Propagate
<1>4. Deserved'
  BY <1>s, <1>c, BatchAssumption DEF BatchInv, Taken, Deserved, Propagate
<1>5. Ended'
  BY <1>s, <1>c, BatchAssumption DEF BatchInv, BatchTyped, Taken, Deserved, Ended, Result, ConfigSeed, Propagate
<1> QED  BY <1>1, <1>2, <1>3, <1>4, <1>5 DEF BatchInv

LEMMA BatchUnchanged == ASSUME BatchInv, UNCHANGED batchVars PROVE BatchInv'
<1>1. UNCHANGED <<submission, native, library, seed_start, seed_stride, sims, thread, batch, results>>
  BY DEF batchVars
<1>2. Isolated' = Isolated /\ Alone' = Alone /\ \A i \in Sims : Result(i)' = Result(i)
  BY <1>1 DEF Isolated, Alone, Result, ConfigSeed
<1>3. BatchTyped' /\ Taken' /\ Deserved'
  BY <1>1 DEF BatchInv, BatchTyped, Taken, Deserved
<1>4. FoundAlone'
  BY <1>1, <1>2 DEF BatchInv, FoundAlone
<1>5. Ended'
  BY <1>1, <1>2 DEF BatchInv, Ended
<1> QED  BY <1>3, <1>4, <1>5 DEF BatchInv

LEMMA FreshBatch ==
  ASSUME BatchTyped, \A w \in Workers : thread'[w] = 0, thread' \in [Workers -> 0 .. NSims],
         sims' = NoBatch, batch' \in {"idle", "running"}, native' \in BOOLEAN, library' \in Nat,
         submission' = submission
  PROVE  BatchInv'
<1>1. \A i \in Sims : sims'[i] = Queued
  BY DEF NoBatch
<1>2. BatchTyped'
  BY DEF BatchTyped, NoBatch, Queued, Statuses
<1>3. Taken' /\ Deserved' /\ Ended'
  BY <1>1 DEF Taken, Deserved, Ended, Queued
<1>4. FoundAlone'
  BY <1>1, BatchAssumption DEF FoundAlone, Queued
<1> QED  BY <1>2, <1>3, <1>4 DEF BatchInv

LEMMA StartBatchInv ==
  ASSUME BatchInv, batch # "running", NEW b \in BOOLEAN, NEW start, NEW stride, StartBatch(b, start, stride)
  PROVE  BatchInv'
<1>1. thread' = thread /\ \A w \in Workers : thread[w] = 0
  BY DEF StartBatch, BatchInv, Taken
<1> QED  BY <1>1, FreshBatch DEF StartBatch, BatchInv, BatchTyped

LEMMA PoolBatch == ASSUME BatchInv, BatchNext PROVE BatchInv'
<1>1. CASE \E w \in Workers : Work(w)
  BY <1>1, TakeBatch, CallSubmissionBatch, FinishBatch, ShapePanicBatch DEF Work
<1> QED  BY <1>1, SkipBatch, CollectBatch, PropagateBatch DEF BatchNext

-----------------------------------------------------------------------------
(* The commands: where a process is, and what it can have done so far. *)

Waiting == {"run_batch", "parity_native", "parity_bpf"}
RunLabels == {"run", "launch", "run_batch"}
AfterRandom == {"parity", "parity_native", "parity_bpf"}
AfterConcave == AfterRandom \cup {"random"}
AfterMonotone == AfterConcave \cup {"concave"}
AfterProbe == AfterMonotone \cup {"monotone"}
AfterCompile == AfterProbe \cup {"probe"}
AfterMetadata == AfterCompile \cup {"compile"}
ValidateLabels == AfterMetadata \cup {"metadata"}

Control ==
    /\ command \in CommandLines /\ side \in {BUY, SELL}
    /\ pc \in Ends \cup RunLabels \cup ValidateLabels \cup {"shell", "build"}
    /\ batch = "running" => pc \in Waiting
    /\ pc \in RunLabels => command.name = "run"
    /\ pc \in ValidateLabels => command.name = "validate"
    /\ pc = "build" => command.name = "build"
    /\ pc \in {"metadata", "compile"} => side = BUY
    /\ pc \in {"metadata", "compile", "probe"} => at = 1 /\ prev = 0
    /\ pc \in {"monotone", "concave"} => at \in 1 .. Len(Sizes)
    /\ pc \in {"random", "parity"} => at \in Nat
    /\ pc \notin Ends => total = 0 \/ pc = "shell"

(* What the checks of validate ask of a submission without memory. *)
Q(d, x) == submission.curve[d][x] \div Parts

ProbePays(d) ==
    LET input == IF d = BUY THEN BuyProbe ELSE SellProbe
    IN  ~Errs(input) /\ Q(d, input) # 0

RisesAt(d, i) ==
    /\ ~Errs(Sizes[i])
    /\ i = 1 \/ Q(d, Sizes[i]) > Q(d, Sizes[i - 1]) \/ Q(d, Sizes[i - 1]) = 0

FlattensAt(d, i) ==
    /\ \A k \in 0 .. 2 : ~Errs(Sizes[i] + k * Delta)
    /\ AcceptsSteps(Q(d, Sizes[i] + 0 * Delta), Q(d, Sizes[i] + 1 * Delta), Q(d, Sizes[i] + 2 * Delta))

Rises(d) == \A i \in 1 .. Len(Sizes) : RisesAt(d, i)
Flattens(d) == \A i \in 1 .. Len(Sizes) : FlattensAt(d, i)
Compiled == Builds \subseteq submission.compiles
NoFaults == ~Fails("random") /\ ~Fails("hook")

Checked ==
    /\ submission.metadata = TRUE /\ Compiled
    /\ ProbePays(BUY) /\ ProbePays(SELL)
    /\ Rises(BUY) /\ Rises(SELL) /\ Flattens(BUY) /\ Flattens(SELL)
    /\ NoFaults

(* The total edge of a batch whose simulations are alone. *)
SeedAt(start, stride, i) == (start + (((i - 1) * stride) % Word)) % Word
ScoreAlone(b, start, stride) ==
    TotalOf(submission, b, [i \in Sims |-> [seed |-> SeedAt(start, stride, i), found |-> Alone]])

ParityAlone ==
    ~(Abs(ScoreAlone(TRUE, ParityStart, ParityStride) - ScoreAlone(FALSE, ParityStart, ParityStride))
        > ParityTol)

Ready ==
    /\ command.seed_stride # 0
    /\ IF command.bpf THEN BpfReady ELSE NativeReady

(* How a command ends, as a function of the submission and the command line. *)
ValidateVerdict ==
    IF ~Checked THEN "failed"
    ELSE IF submission.misshapen # {} THEN "panicked"
    ELSE IF ParityAlone THEN "passed" ELSE "failed"

RunVerdict ==
    IF ~Ready THEN "failed" ELSE IF submission.misshapen # {} THEN "panicked" ELSE "passed"

Verdict ==
    CASE command.name = "build" -> IF Compiled THEN "passed" ELSE "failed"
      [] command.name = "validate" -> ValidateVerdict
      [] command.name = "run" -> RunVerdict

Printed ==
    IF command.name = "run" /\ Verdict = "passed"
    THEN ScoreAlone(~command.bpf, command.seed_start, command.seed_stride) ELSE 0

Predictable == ~submission.remembers \/ (command.name = "run" /\ command.bpf)

(* How far the checks have come. *)
Progress ==
    /\ pc \in AfterMetadata => submission.metadata = TRUE
    /\ pc \in AfterCompile => Compiled
    /\ pc = "probe" /\ side = SELL => ProbePays(BUY)
    /\ pc \in AfterProbe => ProbePays(BUY) /\ ProbePays(SELL)
    /\ pc = "monotone" =>
          /\ side = SELL => Rises(BUY)
          /\ \A i \in 1 .. at - 1 : RisesAt(side, i)
          /\ prev = IF at = 1 THEN 0 ELSE Q(side, Sizes[at - 1])
    /\ pc \in AfterMonotone => Rises(BUY) /\ Rises(SELL)
    /\ pc = "concave" =>
          /\ side = SELL => Flattens(BUY)
          /\ \A i \in 1 .. at - 1 : FlattensAt(side, i)
    /\ pc \in AfterConcave => Flattens(BUY) /\ Flattens(SELL)
    /\ pc \in AfterRandom => NoFaults

Batches ==
    /\ pc \in {"parity_native", "parity_bpf"} =>
          seed_start = ParityStart /\ seed_stride = ParityStride /\ (native <=> pc = "parity_native")
    /\ pc = "parity_bpf" =>
          native_total = ScoreAlone(TRUE, ParityStart, ParityStride) /\ submission.misshapen = {}
    /\ pc \in {"launch", "run_batch"} => Ready
    /\ pc = "run_batch" =>
          /\ seed_start = command.seed_start /\ seed_stride = command.seed_stride
          /\ native <=> ~command.bpf

Verdicts ==
    /\ pc \in Ends => pc = Verdict /\ total = Printed
    /\ reports \in Seq({[outcome |-> Verdict, total |-> Printed]})
    /\ pc \in Ends /\ command.name = "validate" /\ Checked /\ submission.misshapen = {} =>
          seed_start = ParityStart /\ seed_stride = ParityStride

IInv == BatchInv /\ Control /\ (Predictable => Progress /\ Batches /\ Verdicts)

-----------------------------------------------------------------------------
LEMMA Submitted ==
  ASSUME BatchInv
  PROVE  /\ submission.remembers \in BOOLEAN /\ submission.metadata \in BOOLEAN
         /\ \A d \in {BUY, SELL}, x \in Inputs : submission.curve[d][x] \in Nat
BY BatchAssumption, ValidatorAssumption DEF BatchInv, BatchTyped

LEMMA PlainQuote ==
  ASSUME BatchInv, ~submission.remembers, NEW d \in {BUY, SELL}, NEW x, NEW n
  PROVE  Quote(d, x, n) = Q(d, x)
BY Submitted DEF Quote, Q

LEMMA ScoredAlone ==
  ASSUME BatchInv, batch = "done", Isolated
  PROVE  Total = ScoreAlone(native, seed_start, seed_stride)
<1>1. ResultsAlone = [i \in Sims |-> [seed |-> SeedAt(seed_start, seed_stride, i), found |-> Alone]]
  BY DEF ResultsAlone, ResultAlone, ConfigSeed, SeedAt
<1> QED  BY <1>1, BatchResult DEF Total, ScoreAlone

(* What is a function of the submission and the command line stays what it is. *)
LEMMA FixedStays ==
  ASSUME submission' = submission, command' = command
  PROVE  /\ Checked' = Checked /\ Compiled' = Compiled /\ NoFaults' = NoFaults /\ Ready' = Ready
         /\ Predictable' = Predictable /\ Verdict' = Verdict /\ Printed' = Printed
         /\ \A d : ProbePays(d)' = ProbePays(d) /\ Rises(d)' = Rises(d) /\ Flattens(d)' = Flattens(d)
         /\ \A d, i : RisesAt(d, i)' = RisesAt(d, i) /\ FlattensAt(d, i)' = FlattensAt(d, i)
         /\ \A d, x : Q(d, x)' = Q(d, x)
         /\ \A b, start, stride : ScoreAlone(b, start, stride)' = ScoreAlone(b, start, stride)
<1>1. \A d, x : Q(d, x)' = Q(d, x)
  BY DEF Q
<1>2. \A d, i : RisesAt(d, i)' = RisesAt(d, i) /\ FlattensAt(d, i)' = FlattensAt(d, i)
  BY <1>1 DEF RisesAt, FlattensAt, Errs
<1>3. \A d : ProbePays(d)' = ProbePays(d) /\ Rises(d)' = Rises(d) /\ Flattens(d)' = Flattens(d)
  BY <1>1, <1>2 DEF ProbePays, Rises, Flattens, Errs
<1>4. \A b, start, stride : ScoreAlone(b, start, stride)' = ScoreAlone(b, start, stride)
  BY DEF ScoreAlone, Alone
<1>5. Compiled' = Compiled /\ NoFaults' = NoFaults /\ Ready' = Ready /\ Predictable' = Predictable
  BY DEF Compiled, NoFaults, Fails, Ready, NativeReady, BpfReady, Predictable
<1>6. Checked' = Checked
  BY <1>3, <1>5 DEF Checked
<1>7. ParityAlone' = ParityAlone
  BY <1>4 DEF ParityAlone
<1>8. Verdict' = Verdict
  BY <1>5, <1>6, <1>7 DEF Verdict, ValidateVerdict, RunVerdict
<1>9. Printed' = Printed
  BY <1>4, <1>8 DEF Printed
<1> QED  BY <1>1, <1>2, <1>3, <1>4, <1>5, <1>6, <1>7, <1>8, <1>9

LEMMA VerdictOf ==
  /\ command.name = "build" => Verdict = (IF Compiled THEN "passed" ELSE "failed") /\ Printed = 0
  /\ command.name = "validate" => Verdict = ValidateVerdict /\ Printed = 0
  /\ command.name = "run" =>
        /\ Verdict = RunVerdict
        /\ Printed = IF RunVerdict = "passed"
                     THEN ScoreAlone(~command.bpf, command.seed_start, command.seed_stride) ELSE 0
BY DEF Verdict, Printed

LEMMA Rejected == ASSUME command.name = "validate", ~Checked PROVE Verdict = "failed" /\ Printed = 0
BY VerdictOf DEF ValidateVerdict

(* A step of the checks of validate that leaves the verdict open, or rejects rightly. *)
LEMMA CheckStep ==
  ASSUME IInv, Predictable, pc \notin Ends, pc # "shell", command.name = "validate",
         submission' = submission, command' = command, total' = total, reports' = reports,
         pc' = "failed" \/ pc' \notin Ends, pc' = "failed" => ~Checked
  PROVE  Verdicts'
<1>1. Verdict' = Verdict /\ Printed' = Printed /\ (Checked' <=> Checked)
  BY FixedStays
<1>2. total = 0
  BY DEF IInv, Control
<1>3. pc' \in Ends => pc' = "failed" /\ ~Checked
  BY DEF Ends
<1> QED  BY <1>1, <1>2, <1>3, Rejected DEF IInv, Verdicts

LEMMA LaunchInv == ASSUME IInv, Launch PROVE IInv'
<1>same. submission' = submission /\ command' = command
  BY DEF Launch, batchVars
<1>1. BatchInv'
  <2>1. /\ sims' = NoBatch /\ native' = FALSE /\ library' = 0 /\ batch' = "idle"
        /\ submission' = submission /\ thread' = [w \in Workers |-> 0]
    BY DEF Launch
  <2>2. thread' \in [Workers -> 0 .. NSims] /\ \A w \in Workers : thread'[w] = 0
    BY <2>1, BatchAssumption
  <2> QED  BY <2>1, <2>2, FreshBatch DEF IInv, BatchInv
<1>2. Control'
  BY ValidatorAssumption, CliAssumption DEF IInv, Control, CommandLines, Ends, Waiting, RunLabels, ValidateLabels, AfterMetadata, AfterCompile, AfterProbe, AfterMonotone, AfterConcave, AfterRandom, BUY, SELL, Launch, batchVars
<1> SUFFICES ASSUME Predictable PROVE Progress' /\ Batches' /\ Verdicts'
  BY <1>same, <1>1, <1>2, FixedStays DEF IInv
<1>pc. pc' \in {"build", "metadata", "run"} /\ at' = 1 /\ prev' = 0 /\ side' = BUY /\ total' = 0 /\ reports' = reports
  BY DEF Launch, IInv, Control, CommandLines
<1>3. Progress'
  BY <1>pc DEF Progress, AfterMetadata, AfterCompile, AfterProbe, AfterMonotone, AfterConcave, AfterRandom
<1>4. Batches'
  BY <1>pc DEF Batches
<1>5. Verdicts'
  BY <1>pc, <1>same, FixedStays DEF Verdicts, Ends, IInv
<1> QED  BY <1>3, <1>4, <1>5

LEMMA BuildInv == ASSUME IInv, Build PROVE IInv'
<1>same. submission' = submission /\ command' = command
  BY DEF Build, batchVars
<1>1. BatchInv'
  BY BatchUnchanged DEF Build, IInv
<1>2. Control'
  BY ValidatorAssumption, CliAssumption DEF IInv, Control, CommandLines, Ends, Waiting, RunLabels, ValidateLabels, AfterMetadata, AfterCompile, AfterProbe, AfterMonotone, AfterConcave, AfterRandom, BUY, SELL, Build, batchVars
<1> SUFFICES ASSUME Predictable PROVE Progress' /\ Batches' /\ Verdicts'
  BY <1>same, <1>1, <1>2, FixedStays DEF IInv
<1>3. Progress'
  BY <1>same, FixedStays, ValidatorAssumption DEF IInv, Control, Progress, Ends, Waiting, RunLabels, ValidateLabels, AfterMetadata, AfterCompile, AfterProbe, AfterMonotone, AfterConcave, AfterRandom, BUY, SELL, Build, batchVars
<1>4. Batches'
  BY <1>same, FixedStays DEF IInv, Control, Batches, Ends, Waiting, RunLabels, ValidateLabels, AfterMetadata, AfterCompile, AfterProbe, AfterMonotone, AfterConcave, AfterRandom, Build, batchVars
<1>5. Verdicts'
  <2>1. pc' = Verdict /\ total' = Printed /\ reports' = reports /\ command.name = "build"
    BY VerdictOf DEF Build, Compiled, IInv, Control, Ends
  <2> QED  BY <2>1, <1>same, FixedStays DEF IInv, Verdicts
<1> QED  BY <1>3, <1>4, <1>5

LEMMA RunInv == ASSUME IInv, Run PROVE IInv'
<1>same. submission' = submission /\ command' = command
  BY DEF Run, batchVars
<1>1. BatchInv'
  BY BatchUnchanged DEF Run, IInv
<1>2. Control'
  BY ValidatorAssumption, CliAssumption DEF IInv, Control, CommandLines, Ends, Waiting, RunLabels, ValidateLabels, AfterMetadata, AfterCompile, AfterProbe, AfterMonotone, AfterConcave, AfterRandom, BUY, SELL, Run, batchVars
<1> SUFFICES ASSUME Predictable PROVE Progress' /\ Batches' /\ Verdicts'
  BY <1>same, <1>1, <1>2, FixedStays DEF IInv
<1>3. Progress'
  BY <1>same, FixedStays, ValidatorAssumption DEF IInv, Control, Progress, Ends, Waiting, RunLabels, ValidateLabels, AfterMetadata, AfterCompile, AfterProbe, AfterMonotone, AfterConcave, AfterRandom, BUY, SELL, Run, batchVars
<1>ready. /\ command.name = "run" /\ total = 0 /\ total' = total /\ reports' = reports
          /\ pc' = IF Ready THEN "launch" ELSE "failed"
  BY DEF Run, Ready, NativeReady, BpfReady, IInv, Control, RunLabels, Ends
<1>4. Batches'
  BY <1>same, <1>ready, FixedStays DEF Batches
<1>5. Verdicts'
  <2>1. pc' \in Ends => pc' = Verdict /\ total' = Printed
    BY <1>ready, VerdictOf DEF RunVerdict, Ends
  <2> QED  BY <2>1, <1>ready, <1>same, FixedStays DEF IInv, Verdicts
<1> QED  BY <1>3, <1>4, <1>5

LEMMA RunBatchInv == ASSUME IInv, RunBatch PROVE IInv'
<1>same. submission' = submission /\ command' = command
  BY DEF RunBatch, StartBatch
<1>1. BatchInv'
  BY StartBatchInv DEF RunBatch, IInv, Control, CommandLines, Ends, Waiting, RunLabels, ValidateLabels, AfterMetadata, AfterCompile, AfterProbe, AfterMonotone, AfterConcave, AfterRandom
<1>2. Control'
  BY ValidatorAssumption, CliAssumption DEF IInv, Control, CommandLines, Ends, Waiting, RunLabels, ValidateLabels, AfterMetadata, AfterCompile, AfterProbe, AfterMonotone, AfterConcave, AfterRandom, BUY, SELL, RunBatch, StartBatch
<1> SUFFICES ASSUME Predictable PROVE Progress' /\ Batches' /\ Verdicts'
  BY <1>same, <1>1, <1>2, FixedStays DEF IInv
<1>3. Progress'
  BY <1>same, FixedStays, ValidatorAssumption DEF IInv, Control, Progress, Ends, Waiting, RunLabels, ValidateLabels, AfterMetadata, AfterCompile, AfterProbe, AfterMonotone, AfterConcave, AfterRandom, BUY, SELL, RunBatch, StartBatch
<1>4. Batches'
  BY <1>same, FixedStays DEF IInv, Control, Batches, Ends, Waiting, RunLabels, ValidateLabels, AfterMetadata, AfterCompile, AfterProbe, AfterMonotone, AfterConcave, AfterRandom, RunBatch, StartBatch
<1>5. Verdicts'
  BY <1>same, FixedStays DEF IInv, Control, Verdicts, Ends, Waiting, RunLabels, ValidateLabels, AfterMetadata, AfterCompile, AfterProbe, AfterMonotone, AfterConcave, AfterRandom, RunBatch, StartBatch
<1> QED  BY <1>3, <1>4, <1>5

LEMMA PrintResultsInv == ASSUME IInv, PrintResults PROVE IInv'
<1>same. submission' = submission /\ command' = command
  BY DEF PrintResults, batchVars
<1>1. BatchInv'
  BY BatchUnchanged DEF PrintResults, IInv
<1>2. Control'
  BY ValidatorAssumption, CliAssumption DEF IInv, Control, CommandLines, Ends, Waiting, RunLabels, ValidateLabels, AfterMetadata, AfterCompile, AfterProbe, AfterMonotone, AfterConcave, AfterRandom, BUY, SELL, PrintResults, batchVars
<1> SUFFICES ASSUME Predictable PROVE Progress' /\ Batches' /\ Verdicts'
  BY <1>same, <1>1, <1>2, FixedStays DEF IInv
<1>3. Progress'
  BY <1>same, FixedStays, ValidatorAssumption DEF IInv, Control, Progress, Ends, Waiting, RunLabels, ValidateLabels, AfterMetadata, AfterCompile, AfterProbe, AfterMonotone, AfterConcave, AfterRandom, BUY, SELL, PrintResults, batchVars
<1>4. Batches'
  BY <1>same, FixedStays DEF IInv, Control, Batches, Ends, Waiting, RunLabels, ValidateLabels, AfterMetadata, AfterCompile, AfterProbe, AfterMonotone, AfterConcave, AfterRandom, PrintResults, batchVars
<1>5. Verdicts'
  <2>1. /\ command.name = "run" /\ Ready /\ native = ~command.bpf /\ batch = "done"
        /\ seed_start = command.seed_start /\ seed_stride = command.seed_stride
    BY DEF PrintResults, IInv, Control, Batches, RunLabels, BatchInv, BatchTyped
  <2>2. Isolated /\ submission.misshapen = {}
    BY <2>1, BatchPanic, Submitted DEF Isolated, Predictable, IInv
  <2>3. Total = ScoreAlone(~command.bpf, command.seed_start, command.seed_stride)
    BY <2>1, <2>2, ScoredAlone DEF IInv
  <2>4. pc' = Verdict /\ total' = Printed /\ reports' = reports
    BY <2>1, <2>2, <2>3, VerdictOf DEF RunVerdict, PrintResults
  <2> QED  BY <2>1, <2>4, <1>same, FixedStays DEF IInv, Verdicts
<1> QED  BY <1>3, <1>4, <1>5

LEMMA AbortInv == ASSUME IInv, Abort PROVE IInv'
<1>same. submission' = submission /\ command' = command
  BY DEF Abort, batchVars
<1>1. BatchInv'
  BY BatchUnchanged DEF Abort, IInv
<1>2. Control'
  BY ValidatorAssumption, CliAssumption DEF IInv, Control, CommandLines, Ends, Waiting, RunLabels, ValidateLabels, AfterMetadata, AfterCompile, AfterProbe, AfterMonotone, AfterConcave, AfterRandom, BUY, SELL, Abort, batchVars
<1> SUFFICES ASSUME Predictable PROVE Progress' /\ Batches' /\ Verdicts'
  BY <1>same, <1>1, <1>2, FixedStays DEF IInv
<1>3. Progress'
  BY <1>same, FixedStays, ValidatorAssumption DEF IInv, Control, Progress, Ends, Waiting, RunLabels, ValidateLabels, AfterMetadata, AfterCompile, AfterProbe, AfterMonotone, AfterConcave, AfterRandom, BUY, SELL, Abort, batchVars
<1>4. Batches'
  BY <1>same, FixedStays DEF IInv, Control, Batches, Ends, Waiting, RunLabels, ValidateLabels, AfterMetadata, AfterCompile, AfterProbe, AfterMonotone, AfterConcave, AfterRandom, Abort, batchVars
<1>5. Verdicts'
  <2>1. submission.misshapen # {} /\ total' = 0 /\ pc' = "panicked" /\ reports' = reports
    BY BatchPanic DEF Abort, IInv, Control, Ends
  <2>2. CASE pc = "run_batch"
    <3>1. command.name = "run" /\ Ready
      BY <2>2 DEF IInv, Control, Batches, RunLabels
    <3>2. pc' = Verdict /\ total' = Printed
      BY <2>1, <3>1, VerdictOf DEF RunVerdict
    <3> QED  BY <2>1, <3>1, <3>2, <1>same, FixedStays DEF IInv, Verdicts
  <2>3. CASE pc \in {"parity_native", "parity_bpf"}
    <3>1. command.name = "validate"
      BY <2>3 DEF IInv, Control, ValidateLabels, AfterMetadata, AfterCompile, AfterProbe, AfterMonotone, AfterConcave, AfterRandom
    <3>2. Checked
      BY <2>3 DEF IInv, Progress, Checked, AfterMetadata, AfterCompile, AfterProbe, AfterMonotone, AfterConcave, AfterRandom
    <3>3. pc' = Verdict /\ total' = Printed
      BY <2>1, <3>1, <3>2, VerdictOf DEF ValidateVerdict
    <3> QED  BY <2>1, <3>1, <3>3, <1>same, FixedStays DEF IInv, Verdicts
  <2> QED  BY <2>2, <2>3 DEF Abort
<1> QED  BY <1>3, <1>4, <1>5

LEMMA ExitInv == ASSUME IInv, Exit PROVE IInv'
<1>same. submission' = submission /\ command' = command
  BY DEF Exit, batchVars
<1>1. BatchInv'
  BY BatchUnchanged DEF Exit, IInv
<1>2. Control'
  BY ValidatorAssumption, CliAssumption DEF IInv, Control, CommandLines, Ends, Waiting, RunLabels, ValidateLabels, AfterMetadata, AfterCompile, AfterProbe, AfterMonotone, AfterConcave, AfterRandom, BUY, SELL, Exit, batchVars
<1> SUFFICES ASSUME Predictable PROVE Progress' /\ Batches' /\ Verdicts'
  BY <1>same, <1>1, <1>2, FixedStays DEF IInv
<1>3. Progress'
  BY <1>same, FixedStays, ValidatorAssumption DEF IInv, Control, Progress, Ends, Waiting, RunLabels, ValidateLabels, AfterMetadata, AfterCompile, AfterProbe, AfterMonotone, AfterConcave, AfterRandom, BUY, SELL, Exit, batchVars
<1>4. Batches'
  BY <1>same, FixedStays DEF IInv, Control, Batches, Ends, Waiting, RunLabels, ValidateLabels, AfterMetadata, AfterCompile, AfterProbe, AfterMonotone, AfterConcave, AfterRandom, Exit, batchVars
<1>5. Verdicts'
  BY <1>same, FixedStays DEF IInv, Control, Verdicts, Ends, Waiting, RunLabels, ValidateLabels, AfterMetadata, AfterCompile, AfterProbe, AfterMonotone, AfterConcave, AfterRandom, Exit, batchVars
<1> QED  BY <1>3, <1>4, <1>5

LEMMA CheckMetadataInv == ASSUME IInv, CheckMetadata, UNCHANGED <<command, total, reports>> PROVE IInv'
<1>same. submission' = submission /\ command' = command
  BY DEF CheckMetadata, batchVars
<1>1. BatchInv'
  BY BatchUnchanged DEF CheckMetadata, IInv
<1>2. Control'
  BY ValidatorAssumption, CliAssumption DEF IInv, Control, CommandLines, Ends, Waiting, RunLabels, ValidateLabels, AfterMetadata, AfterCompile, AfterProbe, AfterMonotone, AfterConcave, AfterRandom, BUY, SELL, CheckMetadata, batchVars
<1> SUFFICES ASSUME Predictable PROVE Progress' /\ Batches' /\ Verdicts'
  BY <1>same, <1>1, <1>2, FixedStays DEF IInv
<1>3. Progress'
  BY <1>same, FixedStays, ValidatorAssumption DEF IInv, Control, Progress, Ends, Waiting, RunLabels, ValidateLabels, AfterMetadata, AfterCompile, AfterProbe, AfterMonotone, AfterConcave, AfterRandom, BUY, SELL, CheckMetadata, batchVars
<1>4. Batches'
  BY <1>same, FixedStays DEF IInv, Control, Batches, Ends, Waiting, RunLabels, ValidateLabels, AfterMetadata, AfterCompile, AfterProbe, AfterMonotone, AfterConcave, AfterRandom, CheckMetadata, batchVars
<1>5. Verdicts'
  <2>1. pc' = "failed" => ~Checked
    BY Submitted DEF IInv, CheckMetadata, Checked
  <2>2. /\ pc' = "failed" \/ pc' \notin Ends
        /\ pc \notin Ends /\ pc # "shell" /\ command.name = "validate"
    BY DEF IInv, Control, ValidateLabels, AfterMetadata, AfterCompile, AfterProbe, AfterMonotone, AfterConcave, AfterRandom, Ends, CheckMetadata
  <2> QED  BY <1>same, <2>1, <2>2, CheckStep
<1> QED  BY <1>3, <1>4, <1>5

LEMMA CompileBothInv == ASSUME IInv, CompileBoth, UNCHANGED <<command, total, reports>> PROVE IInv'
<1>same. submission' = submission /\ command' = command
  BY DEF CompileBoth, batchVars
<1>1. BatchInv'
  BY BatchUnchanged DEF CompileBoth, IInv
<1>2. Control'
  BY ValidatorAssumption, CliAssumption DEF IInv, Control, CommandLines, Ends, Waiting, RunLabels, ValidateLabels, AfterMetadata, AfterCompile, AfterProbe, AfterMonotone, AfterConcave, AfterRandom, BUY, SELL, CompileBoth, batchVars
<1> SUFFICES ASSUME Predictable PROVE Progress' /\ Batches' /\ Verdicts'
  BY <1>same, <1>1, <1>2, FixedStays DEF IInv
<1>3. Progress'
  BY <1>same, FixedStays DEF IInv, Control, Progress, Compiled, AfterMetadata, AfterCompile, AfterProbe, AfterMonotone, AfterConcave, AfterRandom, BUY, SELL, CompileBoth
<1>4. Batches'
  BY <1>same, FixedStays DEF IInv, Control, Batches, Ends, Waiting, RunLabels, ValidateLabels, AfterMetadata, AfterCompile, AfterProbe, AfterMonotone, AfterConcave, AfterRandom, CompileBoth, batchVars
<1>5. Verdicts'
  <2>1. pc' = "failed" => ~Checked
    BY DEF CompileBoth, Checked, Compiled
  <2>2. /\ pc' = "failed" \/ pc' \notin Ends
        /\ pc \notin Ends /\ pc # "shell" /\ command.name = "validate"
    BY DEF IInv, Control, ValidateLabels, AfterMetadata, AfterCompile, AfterProbe, AfterMonotone, AfterConcave, AfterRandom, Ends, CompileBoth
  <2> QED  BY <1>same, <2>1, <2>2, CheckStep
<1> QED  BY <1>3, <1>4, <1>5

LEMMA ProbeInv == ASSUME IInv, Probe, UNCHANGED <<command, total, reports>> PROVE IInv'
<1>same. submission' = submission /\ command' = command
  BY DEF Probe, Reject, batchVars
<1>1. BatchInv'
  BY BatchUnchanged DEF Probe, IInv
<1>2. Control'
  BY ValidatorAssumption, CliAssumption DEF IInv, Control, CommandLines, Ends, Waiting, RunLabels, ValidateLabels, AfterMetadata, AfterCompile, AfterProbe, AfterMonotone, AfterConcave, AfterRandom, BUY, SELL, Probe, Reject, batchVars
<1> SUFFICES ASSUME Predictable PROVE Progress' /\ Batches' /\ Verdicts'
  BY <1>same, <1>1, <1>2, FixedStays DEF IInv
<1>out. (~Errs(IF side = BUY THEN BuyProbe ELSE SellProbe)
          /\ Quote(side, IF side = BUY THEN BuyProbe ELSE SellProbe, asked) # 0) <=> ProbePays(side)
  BY PlainQuote DEF IInv, Control, Predictable, ProbePays, Probe, ValidateLabels, AfterMetadata, AfterCompile
<1>move. /\ pc = "probe" /\ at = 1 /\ at' = at /\ prev = 0 /\ prev' = prev /\ side \in {BUY, SELL}
         /\ \/ ~ProbePays(side) /\ pc' = "failed"
            \/ ProbePays(side) /\ side = BUY /\ side' = SELL /\ pc' = pc
            \/ ProbePays(side) /\ side = SELL /\ side' = BUY /\ pc' = "monotone"
  BY <1>out DEF Probe, Reject, IInv, Control
<1>3. Progress'
  BY <1>same, <1>move, FixedStays DEF IInv, Progress, AfterMetadata, AfterCompile, AfterProbe, AfterMonotone, AfterConcave, AfterRandom, BUY, SELL
<1>4. Batches'
  BY <1>same, FixedStays DEF IInv, Control, Batches, Ends, Waiting, RunLabels, ValidateLabels, AfterMetadata, AfterCompile, AfterProbe, AfterMonotone, AfterConcave, AfterRandom, Probe, Reject, batchVars
<1>5. Verdicts'
  <2>1. pc' = "failed" => ~Checked
    BY <1>move DEF Checked
  <2>2. /\ pc' = "failed" \/ pc' \notin Ends
        /\ pc \notin Ends /\ pc # "shell" /\ command.name = "validate"
    BY DEF IInv, Control, ValidateLabels, AfterMetadata, AfterCompile, AfterProbe, AfterMonotone, AfterConcave, AfterRandom, Ends, Probe, Reject
  <2> QED  BY <1>same, <2>1, <2>2, CheckStep
<1> QED  BY <1>3, <1>4, <1>5

LEMMA MonotoneInv == ASSUME IInv, Monotone, UNCHANGED <<command, total, reports>> PROVE IInv'
<1>same. submission' = submission /\ command' = command
  BY DEF Monotone, Reject, Advance, batchVars
<1>1. BatchInv'
  BY BatchUnchanged DEF Monotone, IInv
<1>2. Control'
  BY SMTT(40), ValidatorAssumption, CliAssumption DEF IInv, Control, CommandLines, Ends, Waiting, RunLabels, ValidateLabels, AfterMetadata, AfterCompile, AfterProbe, AfterMonotone, AfterConcave, AfterRandom, BUY, SELL, Monotone, Reject, Advance, batchVars
<1> SUFFICES ASSUME Predictable PROVE Progress' /\ Batches' /\ Verdicts'
  BY <1>same, <1>1, <1>2, FixedStays DEF IInv
<1>at. pc = "monotone" /\ side \in {BUY, SELL} /\ at \in 1 .. Len(Sizes) /\ Len(Sizes) \in Nat /\ Sizes[at] \in Inputs
       /\ prev = (IF at = 1 THEN 0 ELSE Q(side, Sizes[at - 1]))
  BY ValidatorAssumption DEF Monotone, IInv, Control, Progress
<1>out. Quote(side, Sizes[at], asked) = Q(side, Sizes[at])
  BY <1>at, PlainQuote DEF IInv, Control, Predictable, ValidateLabels, AfterMetadata, AfterCompile, AfterProbe
<1>rises. (~Errs(Sizes[at]) /\ (Q(side, Sizes[at]) > prev \/ prev = 0)) <=> RisesAt(side, at)
  BY <1>at DEF RisesAt
<1>move. \/ ~RisesAt(side, at) /\ pc' = "failed"
         \/ /\ RisesAt(side, at) /\ Advance("concave")
            /\ prev' = IF at < Len(Sizes) THEN Q(side, Sizes[at]) ELSE 0
  BY <1>out, <1>rises DEF Monotone, Reject
<1>3. Progress'
  <2>1. CASE pc' = "failed"
    BY <2>1 DEF Progress, AfterMetadata, AfterCompile, AfterProbe, AfterMonotone, AfterConcave, AfterRandom
  <2> SUFFICES ASSUME RisesAt(side, at), Advance("concave"),
                      prev' = (IF at < Len(Sizes) THEN Q(side, Sizes[at]) ELSE 0)
               PROVE  Progress'
    BY <1>move, <2>1
  <2>all. at = Len(Sizes) => Rises(side)
    BY <1>at DEF Rises, IInv, Progress
  <2>2. CASE at < Len(Sizes)
    <3>1. at' = at + 1 /\ side' = side /\ pc' = "monotone" /\ at' # 1 /\ at' - 1 = at /\ prev' = Q(side, Sizes[at])
      BY <1>at, <2>2 DEF Advance
    <3>2. \A i \in 1 .. at : RisesAt(side, i)
      BY <1>at DEF IInv, Progress
    <3> QED  BY <1>same, <1>at, <3>1, <3>2, FixedStays DEF IInv, Progress, AfterMetadata, AfterCompile, AfterProbe, AfterMonotone, AfterConcave, AfterRandom
  <2>3. CASE at = Len(Sizes) /\ side = BUY
    <3>1. at' = 1 /\ side' = SELL /\ pc' = "monotone" /\ prev' = 0
      BY <1>at, <2>3 DEF Advance, BUY, SELL
    <3> QED  BY <1>same, <1>at, <2>all, <2>3, <3>1, FixedStays DEF IInv, Progress, AfterMetadata, AfterCompile, AfterProbe, AfterMonotone, AfterConcave, AfterRandom
  <2>4. CASE at = Len(Sizes) /\ side = SELL
    <3>1. at' = 1 /\ side' = BUY /\ pc' = "concave" /\ prev' = 0
      BY <1>at, <2>4 DEF Advance, BUY, SELL
    <3>2. Rises(BUY) /\ Rises(SELL)
      BY <1>at, <2>all, <2>4 DEF IInv, Progress
    <3> QED  BY <1>same, <1>at, <3>1, <3>2, FixedStays DEF IInv, Progress, AfterMetadata, AfterCompile, AfterProbe, AfterMonotone, AfterConcave, AfterRandom, BUY, SELL
  <2> QED  BY <1>at, <2>2, <2>3, <2>4
<1>4. Batches'
  BY <1>same, FixedStays DEF IInv, Control, Batches, Ends, Waiting, RunLabels, ValidateLabels, AfterMetadata, AfterCompile, AfterProbe, AfterMonotone, AfterConcave, AfterRandom, Monotone, Reject, Advance, batchVars
<1>5. Verdicts'
  <2>1. pc' = "failed" => ~Checked
    BY <1>at, <1>move DEF Advance, Checked, Rises
  <2>2. /\ pc' = "failed" \/ pc' \notin Ends
        /\ pc \notin Ends /\ pc # "shell" /\ command.name = "validate"
    BY DEF IInv, Control, ValidateLabels, AfterMetadata, AfterCompile, AfterProbe, AfterMonotone, AfterConcave, AfterRandom, Ends, Monotone, Reject, Advance
  <2> QED  BY <1>same, <2>1, <2>2, CheckStep
<1> QED  BY <1>3, <1>4, <1>5

LEMMA ConcaveInv == ASSUME IInv, Concave, UNCHANGED <<command, total, reports>> PROVE IInv'
<1>same. submission' = submission /\ command' = command
  BY DEF Concave, Reject, Advance, batchVars
<1>1. BatchInv'
  BY BatchUnchanged DEF Concave, IInv
<1>2. Control'
  BY SMTT(40), ValidatorAssumption, CliAssumption DEF IInv, Control, CommandLines, Ends, Waiting, RunLabels, ValidateLabels, AfterMetadata, AfterCompile, AfterProbe, AfterMonotone, AfterConcave, AfterRandom, BUY, SELL, Concave, Reject, Advance, batchVars
<1> SUFFICES ASSUME Predictable PROVE Progress' /\ Batches' /\ Verdicts'
  BY <1>same, <1>1, <1>2, FixedStays DEF IInv
<1>at. pc = "concave" /\ side \in {BUY, SELL} /\ at \in 1 .. Len(Sizes) /\ Len(Sizes) \in Nat
       /\ \A k \in 0 .. 2 : Sizes[at] + k * Delta \in Inputs
  <2>1. pc = "concave" /\ side \in {BUY, SELL} /\ at \in 1 .. Len(Sizes) /\ Len(Sizes) \in Nat
    BY ValidatorAssumption DEF Concave, IInv, Control
  <2>2. Sizes[at] \in Inputs /\ Sizes[at] + Delta \in Inputs /\ Sizes[at] + 2 * Delta \in Inputs
    BY <2>1, ValidatorAssumption
  <2> DEFINE x == Sizes[at]
  <2>n. x \in Nat /\ Delta \in Nat
    BY <2>2, ValidatorAssumption
  <2> HIDE DEF x
  <2>3. x + 0 * Delta = x /\ x + 1 * Delta = x + Delta
    BY <2>n
  <2> USE DEF x
  <2> QED  BY <2>1, <2>2, <2>3
<1>out. \A k \in 0 .. 2 : Quote(side, Sizes[at] + k * Delta, asked + k) = Q(side, Sizes[at] + k * Delta)
  BY <1>at, PlainQuote DEF IInv, Control, Predictable, ValidateLabels, AfterMetadata, AfterCompile, AfterProbe, AfterMonotone
<1>move. (FlattensAt(side, at) /\ Advance("random")) \/ (~FlattensAt(side, at) /\ pc' = "failed")
  BY <1>out DEF Concave, Reject, FlattensAt
<1>3. Progress'
  <2>1. CASE pc' = "failed"
    BY <2>1 DEF Progress, AfterMetadata, AfterCompile, AfterProbe, AfterMonotone, AfterConcave, AfterRandom
  <2> SUFFICES ASSUME FlattensAt(side, at), Advance("random") PROVE Progress'
    BY <1>move, <2>1
  <2>all. at = Len(Sizes) => Flattens(side)
    BY <1>at DEF Flattens, IInv, Progress
  <2>2. CASE at < Len(Sizes)
    <3>1. at' = at + 1 /\ side' = side /\ pc' = "concave" /\ at' - 1 = at
      BY <1>at, <2>2 DEF Advance
    <3>2. \A i \in 1 .. at : FlattensAt(side, i)
      BY <1>at DEF IInv, Progress
    <3> QED  BY <1>same, <1>at, <3>1, <3>2, FixedStays DEF IInv, Progress, AfterMetadata, AfterCompile, AfterProbe, AfterMonotone, AfterConcave, AfterRandom
  <2>3. CASE at = Len(Sizes) /\ side = BUY
    <3>1. at' = 1 /\ side' = SELL /\ pc' = "concave"
      BY <1>at, <2>3 DEF Advance, BUY, SELL
    <3> QED  BY <1>same, <1>at, <2>all, <2>3, <3>1, FixedStays DEF IInv, Progress, AfterMetadata, AfterCompile, AfterProbe, AfterMonotone, AfterConcave, AfterRandom
  <2>4. CASE at = Len(Sizes) /\ side = SELL
    <3>1. at' = 1 /\ side' = BUY /\ pc' = "random"
      BY <1>at, <2>4 DEF Advance, BUY, SELL
    <3>2. Flattens(BUY) /\ Flattens(SELL)
      BY <1>at, <2>all, <2>4 DEF IInv, Progress
    <3> QED  BY <1>same, <1>at, <3>1, <3>2, FixedStays DEF IInv, Progress, AfterMetadata, AfterCompile, AfterProbe, AfterMonotone, AfterConcave, AfterRandom, BUY, SELL
  <2> QED  BY <1>at, <2>2, <2>3, <2>4
<1>4. Batches'
  BY <1>same, FixedStays DEF IInv, Control, Batches, Ends, Waiting, RunLabels, ValidateLabels, AfterMetadata, AfterCompile, AfterProbe, AfterMonotone, AfterConcave, AfterRandom, Concave, Reject, Advance, batchVars
<1>5. Verdicts'
  <2>1. pc' = "failed" => ~Checked
    BY <1>at, <1>move DEF Advance, Checked, Flattens
  <2>2. /\ pc' = "failed" \/ pc' \notin Ends
        /\ pc \notin Ends /\ pc # "shell" /\ command.name = "validate"
    BY DEF IInv, Control, ValidateLabels, AfterMetadata, AfterCompile, AfterProbe, AfterMonotone, AfterConcave, AfterRandom, Ends, Concave, Reject, Advance
  <2> QED  BY <1>same, <2>1, <2>2, CheckStep
<1> QED  BY <1>3, <1>4, <1>5

LEMMA RandomStateInv == ASSUME IInv, RandomState, UNCHANGED <<command, total, reports>> PROVE IInv'
<1>same. submission' = submission /\ command' = command
  BY DEF RandomState, Reject, batchVars
<1>1. BatchInv'
  BY BatchUnchanged DEF RandomState, IInv
<1>2. Control'
  BY SMTT(40), ValidatorAssumption, CliAssumption DEF IInv, Control, CommandLines, Ends, Waiting, RunLabels, ValidateLabels, AfterMetadata, AfterCompile, AfterProbe, AfterMonotone, AfterConcave, AfterRandom, BUY, SELL, RandomState, Reject, batchVars
<1> SUFFICES ASSUME Predictable PROVE Progress' /\ Batches' /\ Verdicts'
  BY <1>same, <1>1, <1>2, FixedStays DEF IInv
<1>move. /\ pc = "random"
         /\ \/ ~NoFaults /\ pc' = "failed"
            \/ NoFaults /\ pc' = pc /\ side' = side
            \/ NoFaults /\ pc' = "parity"
  BY DEF RandomState, Reject, NoFaults
<1>3. Progress'
  BY <1>same, <1>move, FixedStays DEF IInv, Progress, AfterMetadata, AfterCompile, AfterProbe, AfterMonotone, AfterConcave, AfterRandom
<1>4. Batches'
  BY <1>same, FixedStays DEF IInv, Control, Batches, Ends, Waiting, RunLabels, ValidateLabels, AfterMetadata, AfterCompile, AfterProbe, AfterMonotone, AfterConcave, AfterRandom, RandomState, Reject, batchVars
<1>5. Verdicts'
  <2>1. pc' = "failed" => ~Checked
    BY <1>move DEF Checked
  <2>2. /\ pc' = "failed" \/ pc' \notin Ends
        /\ pc \notin Ends /\ pc # "shell" /\ command.name = "validate"
    BY DEF IInv, Control, ValidateLabels, AfterMetadata, AfterCompile, AfterProbe, AfterMonotone, AfterConcave, AfterRandom, Ends, RandomState, Reject
  <2> QED  BY <1>same, <2>1, <2>2, CheckStep
<1> QED  BY <1>3, <1>4, <1>5

LEMMA ParityNativeInv == ASSUME IInv, ParityNative, UNCHANGED <<command, total, reports>> PROVE IInv'
<1>same. submission' = submission /\ command' = command
  BY DEF ParityNative, StartBatch
<1>1. BatchInv'
  BY StartBatchInv DEF ParityNative, IInv, Control, CommandLines, Ends, Waiting, RunLabels, ValidateLabels, AfterMetadata, AfterCompile, AfterProbe, AfterMonotone, AfterConcave, AfterRandom
<1>2. Control'
  BY ValidatorAssumption, CliAssumption DEF IInv, Control, CommandLines, Ends, Waiting, RunLabels, ValidateLabels, AfterMetadata, AfterCompile, AfterProbe, AfterMonotone, AfterConcave, AfterRandom, BUY, SELL, ParityNative, StartBatch
<1> SUFFICES ASSUME Predictable PROVE Progress' /\ Batches' /\ Verdicts'
  BY <1>same, <1>1, <1>2, FixedStays DEF IInv
<1>3. Progress'
  BY <1>same, FixedStays, ValidatorAssumption DEF IInv, Control, Progress, Ends, Waiting, RunLabels, ValidateLabels, AfterMetadata, AfterCompile, AfterProbe, AfterMonotone, AfterConcave, AfterRandom, BUY, SELL, ParityNative, StartBatch
<1>4. Batches'
  BY <1>same, FixedStays DEF IInv, Control, Batches, Ends, Waiting, RunLabels, ValidateLabels, AfterMetadata, AfterCompile, AfterProbe, AfterMonotone, AfterConcave, AfterRandom, ParityNative, StartBatch
<1>5. Verdicts'
  BY <1>same, FixedStays DEF IInv, Control, Verdicts, Ends, Waiting, RunLabels, ValidateLabels, AfterMetadata, AfterCompile, AfterProbe, AfterMonotone, AfterConcave, AfterRandom, ParityNative, StartBatch
<1> QED  BY <1>3, <1>4, <1>5

LEMMA ParityBpfInv == ASSUME IInv, ParityBpf, UNCHANGED <<command, total, reports>> PROVE IInv'
<1>same. submission' = submission /\ command' = command
  BY DEF ParityBpf, StartBatch
<1>1. BatchInv'
  BY StartBatchInv DEF ParityBpf, IInv, Control, CommandLines, Ends, Waiting, RunLabels, ValidateLabels, AfterMetadata, AfterCompile, AfterProbe, AfterMonotone, AfterConcave, AfterRandom
<1>2. Control'
  BY ValidatorAssumption, CliAssumption DEF IInv, Control, CommandLines, Ends, Waiting, RunLabels, ValidateLabels, AfterMetadata, AfterCompile, AfterProbe, AfterMonotone, AfterConcave, AfterRandom, BUY, SELL, ParityBpf, StartBatch
<1> SUFFICES ASSUME Predictable PROVE Progress' /\ Batches' /\ Verdicts'
  BY <1>same, <1>1, <1>2, FixedStays DEF IInv
<1>3. Progress'
  BY <1>same, FixedStays, ValidatorAssumption DEF IInv, Control, Progress, Ends, Waiting, RunLabels, ValidateLabels, AfterMetadata, AfterCompile, AfterProbe, AfterMonotone, AfterConcave, AfterRandom, BUY, SELL, ParityBpf, StartBatch
<1>4. Batches'
  <2>1. /\ pc = "parity_native" /\ batch = "done" /\ seed_start = ParityStart /\ seed_stride = ParityStride
        /\ native = TRUE
    BY DEF ParityBpf, IInv, Batches, BatchInv, BatchTyped
  <2>2. Isolated /\ submission.misshapen = {}
    BY <2>1, BatchPanic DEF Isolated, Predictable, IInv, Control, ValidateLabels, AfterMetadata, AfterCompile, AfterProbe, AfterMonotone, AfterConcave, AfterRandom
  <2>3. Total = ScoreAlone(TRUE, ParityStart, ParityStride)
    BY <2>1, <2>2, ScoredAlone DEF IInv
  <2>4. /\ pc' = "parity_bpf" /\ native_total' = Total /\ native' = FALSE
        /\ seed_start' = ParityStart /\ seed_stride' = ParityStride
    BY DEF ParityBpf, StartBatch
  <2> QED  BY <1>same, <2>2, <2>3, <2>4, FixedStays DEF Batches
<1>5. Verdicts'
  BY <1>same, FixedStays DEF IInv, Control, Verdicts, Ends, Waiting, RunLabels, ValidateLabels, AfterMetadata, AfterCompile, AfterProbe, AfterMonotone, AfterConcave, AfterRandom, ParityBpf, StartBatch
<1> QED  BY <1>3, <1>4, <1>5

LEMMA CompareInv == ASSUME IInv, Compare, UNCHANGED <<command, total, reports>> PROVE IInv'
<1>same. submission' = submission /\ command' = command
  BY DEF Compare, batchVars
<1>1. BatchInv'
  BY BatchUnchanged DEF Compare, IInv
<1>2. Control'
  BY ValidatorAssumption, CliAssumption DEF IInv, Control, CommandLines, Ends, Waiting, RunLabels, ValidateLabels, AfterMetadata, AfterCompile, AfterProbe, AfterMonotone, AfterConcave, AfterRandom, BUY, SELL, Compare, batchVars
<1> SUFFICES ASSUME Predictable PROVE Progress' /\ Batches' /\ Verdicts'
  BY <1>same, <1>1, <1>2, FixedStays DEF IInv
<1>3. Progress'
  BY <1>same, FixedStays, ValidatorAssumption DEF IInv, Control, Progress, Ends, Waiting, RunLabels, ValidateLabels, AfterMetadata, AfterCompile, AfterProbe, AfterMonotone, AfterConcave, AfterRandom, BUY, SELL, Compare, batchVars
<1>4. Batches'
  BY <1>same, FixedStays DEF IInv, Control, Batches, Ends, Waiting, RunLabels, ValidateLabels, AfterMetadata, AfterCompile, AfterProbe, AfterMonotone, AfterConcave, AfterRandom, Compare, batchVars
<1>5. Verdicts'
  <2>1. /\ pc = "parity_bpf" /\ batch = "done" /\ seed_start = ParityStart /\ seed_stride = ParityStride
        /\ native = FALSE /\ native_total = ScoreAlone(TRUE, ParityStart, ParityStride)
        /\ submission.misshapen = {} /\ command.name = "validate" /\ total = 0
    BY DEF Compare, IInv, Batches, BatchInv, BatchTyped, Control, ValidateLabels, AfterMetadata, AfterCompile, AfterProbe, AfterMonotone, AfterConcave, AfterRandom, Ends
  <2>2. Total = ScoreAlone(FALSE, ParityStart, ParityStride)
    BY <2>1, ScoredAlone DEF IInv, Isolated
  <2>3. Checked
    BY <2>1 DEF IInv, Progress, Checked, AfterMetadata, AfterCompile, AfterProbe, AfterMonotone, AfterConcave, AfterRandom
  <2>4. pc' = IF Abs(native_total - Total) > ParityTol THEN "failed" ELSE "passed"
    BY DEF Compare
  <2>5. pc' = Verdict /\ total' = Printed /\ reports' = reports
    BY <2>1, <2>2, <2>3, <2>4, VerdictOf DEF ValidateVerdict, ParityAlone
  <2>6. seed_start' = seed_start /\ seed_stride' = seed_stride
    BY DEF Compare, batchVars
  <2> QED  BY <2>1, <2>5, <2>6, <1>same, FixedStays DEF IInv, Verdicts
<1> QED  BY <1>3, <1>4, <1>5

LEMMA InitInv == Init => IInv
<1> SUFFICES ASSUME Init PROVE IInv
  OBVIOUS
<1>1. submission \in Submissions /\ command \in CommandLines
  BY CliAssumption DEF Init
<1>2. BatchInv
  <2>1. /\ sims = NoBatch /\ native = FALSE /\ library = 0 /\ batch = "idle"
        /\ thread = [w \in Workers |-> 0]
    BY DEF Init
  <2>2. thread \in [Workers -> 0 .. NSims] /\ \A w \in Workers : thread[w] = 0
    BY <2>1, BatchAssumption
  <2>3. \A i \in Sims : sims[i] = Queued
    BY <2>1 DEF NoBatch
  <2>4. BatchTyped
    <3>1. sims \in [Sims -> [status : Statuses, found : Seq(Nat)]]
      BY <2>1 DEF NoBatch, Queued, Statuses
    <3>2. native \in BOOLEAN
      BY <2>1
    <3> QED  BY <1>1, <2>1, <2>2, <3>1, <3>2 DEF BatchTyped
  <2>5. Taken /\ Deserved /\ Ended
    BY <2>1, <2>2, <2>3 DEF Taken, Deserved, Ended, Queued
  <2>6. FoundAlone
    BY <2>3, BatchAssumption DEF FoundAlone, Queued
  <2> QED  BY <2>4, <2>5, <2>6 DEF BatchInv
<1>3. pc = "shell" /\ side = BUY /\ total = 0 /\ reports = <<>> /\ batch = "idle"
  BY DEF Init
<1>4. Control
  BY <1>1, <1>3 DEF Control, Ends, RunLabels, ValidateLabels, AfterMetadata, AfterCompile, AfterProbe, AfterMonotone, AfterConcave, AfterRandom
<1>5. Progress /\ Batches /\ Verdicts
  BY <1>3 DEF Progress, Batches, Verdicts, Ends, AfterMetadata, AfterCompile, AfterProbe, AfterMonotone, AfterConcave, AfterRandom
<1> QED  BY <1>2, <1>4, <1>5 DEF IInv

LEMMA PoolInv == ASSUME IInv, Pool PROVE IInv'
<1>1. BatchInv'
  BY PoolBatch DEF IInv, Pool
<1>2. /\ UNCHANGED <<pc, side, at, prev, native_total, command, total, reports>>
      /\ UNCHANGED <<submission, native, seed_start, seed_stride>>
      /\ batch = "running"
  <2>1. batch = "running" /\ UNCHANGED <<submission, native, seed_start, seed_stride>>
    <3>1. ASSUME NEW w \in Workers, Work(w)
          PROVE  batch = "running" /\ UNCHANGED <<submission, native, seed_start, seed_stride>>
      <4>1. batch = "running"
        BY <3>1 DEF Work, Take, CallSubmission, Finish, ShapePanic, IInv, BatchInv, Taken
      <4> QED  BY <3>1, <4>1 DEF Work, Take, CallSubmission, Finish, ShapePanic
    <3>2. ASSUME (\E i \in Sims : Skip(i)) \/ Collect \/ Propagate
          PROVE  batch = "running" /\ UNCHANGED <<submission, native, seed_start, seed_stride>>
      BY <3>2 DEF Skip, Collect, Propagate
    <3> QED  BY <3>1, <3>2 DEF Pool, BatchNext
  <2> QED  BY <2>1 DEF Pool
<1>3. pc \in Waiting
  BY <1>2 DEF IInv, Control
<1>4. Control'
  BY <1>2, <1>3 DEF IInv, Control
<1>5. ASSUME Predictable PROVE Progress' /\ Batches' /\ Verdicts'
  <2>1. Progress'
    BY ZenonT(40), <1>2, <1>5, FixedStays DEF IInv, Progress
  <2>3. Batches'
    BY <1>2, <1>5, FixedStays DEF IInv, Batches
  <2>2. Verdicts'
    BY <1>2, <1>5, FixedStays DEF IInv, Verdicts
  <2> QED  BY <2>1, <2>2, <2>3
<1> QED  BY <1>1, <1>2, <1>4, <1>5, FixedStays DEF IInv

LEMMA StutterInv == ASSUME IInv, UNCHANGED vars PROVE IInv'
<1>1. UNCHANGED batchVars
  BY DEF vars, batchVars
<1>2. UNCHANGED <<pc, side, at, prev, native_total, command, total, reports, submission, native,
                  seed_start, seed_stride, batch>>
  BY DEF vars
<1>3. BatchInv' /\ Control'
  BY <1>1, <1>2, BatchUnchanged DEF IInv, Control
<1>4. ASSUME Predictable PROVE Progress' /\ Batches' /\ Verdicts'
  <2>1. Progress'
    BY ZenonT(40), <1>2, <1>4, FixedStays DEF IInv, Progress
  <2>3. Batches'
    BY <1>2, <1>4, FixedStays DEF IInv, Batches
  <2>2. Verdicts'
    BY <1>2, <1>4, FixedStays DEF IInv, Verdicts
  <2> QED  BY <2>1, <2>2, <2>3
<1> QED  BY <1>2, <1>3, <1>4, FixedStays DEF IInv

LEMMA StepInv == IInv /\ [Next]_vars => IInv'
<1> SUFFICES ASSUME IInv, [Next]_vars PROVE IInv'
  OBVIOUS
<1>1. CASE ValidatorNext /\ UNCHANGED <<command, total, reports>>
  BY <1>1, CheckMetadataInv, CompileBothInv, ProbeInv, MonotoneInv, ConcaveInv, RandomStateInv,
     ParityNativeInv, ParityBpfInv, CompareInv DEF ValidatorNext
<1>2. CASE Main
  BY <1>1, <1>2, LaunchInv, BuildInv, RunInv, RunBatchInv, PrintResultsInv, AbortInv, ExitInv DEF Main
<1>3. CASE Pool
  BY <1>3, PoolInv
<1>4. CASE Done \/ UNCHANGED vars
  BY <1>4, StutterInv DEF Done
<1> QED  BY <1>2, <1>3, <1>4 DEF Next

LEMMA AlwaysIInv == Spec => []IInv
<1>1. Init /\ [][Next]_vars => []IInv
  BY InitInv, StepInv, PTL
<1> QED  BY <1>1, PTL DEF Spec

-----------------------------------------------------------------------------
(* A batch is the sequential map over its configurations, for any number of threads   *)
(* and simulations, unless the submission is native and has statics.                    *)
THEOREM BatchesAreMaps == Spec => []BatchIsMap
<1>1. IInv => BatchIsMap
  BY BatchResult DEF IInv, BatchIsMap
<1> QED  BY <1>1, AlwaysIInv, PTL

(* No schedule turns a panic of the shape check into a result, or loses one: a batch    *)
(* is collected only if no simulation panics, and is ended by a panic only if one does.  *)
THEOREM PanicsAreNotResults == Spec => []PanicIsNeverAResult
<1>1. IInv => PanicIsNeverAResult
  BY BatchPanic DEF IInv, PanicIsNeverAResult
<1> QED  BY <1>1, AlwaysIInv, PTL

(* How a command ends and what it prints is a function of the submission and of the      *)
(* command line, run after run: of no schedule, and of nothing that an earlier run left.   *)
THEOREM CommandsAreReproducible == Spec => []Reproducible
<1>1. IInv => Reproducible
  <2> SUFFICES ASSUME IInv, ~submission.remembers \/ (command.name = "run" /\ command.bpf),
                      NEW i \in DOMAIN reports, NEW j \in DOMAIN reports
               PROVE  reports[i] = reports[j]
    BY DEF Reproducible
  <2>1. reports \in Seq({[outcome |-> Verdict, total |-> Printed]})
    BY DEF IInv, Verdicts, Predictable
  <2> QED  BY <2>1
<1> QED  BY <1>1, AlwaysIInv, PTL

-----------------------------------------------------------------------------
(* What cutting a curve to nanos does to its shape. *)

LEMMA Cut == ASSUME NEW a \in Nat
             PROVE  a \div Parts \in Nat /\ Parts * (a \div Parts) <= a /\ a < Parts * (a \div Parts) + Parts
<1>1. Parts \in Nat /\ Parts > 0
  BY ValidatorAssumption
<1>2. \A n \in Nat, k \in Nat : k > 0 =>
         n \div k \in Nat /\ k * (n \div k) <= n /\ n < k * (n \div k) + k
  OBVIOUS
<1> QED  BY <1>1, <1>2

LEMMA CutRises == ASSUME NEW a \in Nat, NEW b \in Nat, b >= a + Parts PROVE b \div Parts > a \div Parts
<1> DEFINE p == a \div Parts
           q == b \div Parts
<1>1. /\ p \in Nat /\ Parts * p <= a /\ a < Parts * p + Parts
      /\ q \in Nat /\ Parts * q <= b /\ b < Parts * q + Parts
  BY Cut
<1> HIDE DEF p, q
<1>2. SUFFICES ASSUME q <= p PROVE FALSE
  BY <1>1 DEF p, q
<1>3. Parts \in Nat
  BY ValidatorAssumption
<1>4. \A k \in Nat, m \in Nat, n \in Nat : m <= n => k * m <= k * n
  OBVIOUS
<1>5. Parts * q <= Parts * p
  BY <1>1, <1>2, <1>3, <1>4
<1>6. Parts * p \in Nat /\ Parts * q \in Nat
  BY <1>1, <1>3
<1> QED  BY <1>1, <1>3, <1>5, <1>6

(* A curve that does not steepen looks, cut to nanos, as if it did by one nano at most. *)
LEMMA CutFlattens ==
  ASSUME NEW a \in Nat, NEW b \in Nat, NEW c \in Nat, c - b <= b - a, StepTol >= 1
  PROVE  AcceptsSteps(a \div Parts, b \div Parts, c \div Parts)
<1> DEFINE p == a \div Parts
           q == b \div Parts
           r == c \div Parts
<1>1. /\ p \in Nat /\ Parts * p <= a
      /\ q \in Nat /\ b < Parts * q + Parts
      /\ r \in Nat /\ Parts * r <= c
  BY Cut
<1> HIDE DEF p, q, r
<1>2. Parts \in Nat /\ Parts >= 2 /\ StepTol \in Nat
  BY ValidatorAssumption
<1>3. p + r <= 2 * q + 1
  <2> SUFFICES ASSUME p + r >= 2 * q + 2 PROVE FALSE
    BY <1>1
  <2>leq. \A k \in Nat, m \in Nat, n \in Nat : m <= n => k * m <= k * n
    OBVIOUS
  <2>1. Parts * (2 * q + 2) <= Parts * (p + r)
    BY <1>1, <1>2, <2>leq
  <2>split. \A k \in Nat, l \in Nat, m \in Nat, n \in Nat :
           k * (l + m) = k * l + k * m /\ k * (2 * n + 2) = 2 * (k * n) + 2 * k
    OBVIOUS
  <2>2. Parts * (p + r) = Parts * p + Parts * r /\ Parts * (2 * q + 2) = 2 * (Parts * q) + 2 * Parts
    BY <1>1, <1>2, <2>split
  <2>3. Parts * p \in Nat /\ Parts * q \in Nat /\ Parts * r \in Nat
    BY <1>1, <1>2
  <2> QED  BY <1>1, <1>2, <2>1, <2>2, <2>3
<1>4. r - q <= q - p + StepTol
  BY <1>1, <1>2, <1>3
<1> QED  BY <1>4 DEF AcceptsSteps, p, q, r

LEMMA GoodIsChecked == ASSUME BatchInv, Good(submission), StepTol >= 1 PROVE Checked
<1>1. \A d \in {BUY, SELL}, x \in Inputs : submission.curve[d][x] \in Nat
  BY Submitted
<1>2. /\ submission.metadata = TRUE /\ Compiled /\ NoFaults
      /\ \A x : ~Errs(x)
  BY Submitted DEF Good, Compiled, NoFaults, Fails, Errs
<1>3. ASSUME NEW d \in {BUY, SELL} PROVE ProbePays(d)
  <2>0. Parts \in Nat /\ Parts > 0 /\ Parts * 0 = 0
    BY ValidatorAssumption
  <2>1. ASSUME NEW a \in Nat, a >= Parts PROVE a \div Parts # 0
    BY <2>0, <2>1, Cut
  <2>2. BuyProbe \in Inputs /\ SellProbe \in Inputs
    BY ValidatorAssumption
  <2> QED  BY <1>1, <1>2, <2>1, <2>2 DEF Good, ProbePays, Q, BUY, SELL
<1>4. ASSUME NEW d \in {BUY, SELL}, NEW i \in 1 .. Len(Sizes) PROVE RisesAt(d, i)
  <2>1. Len(Sizes) \in Nat /\ Sizes \in Seq(Inputs)
    BY ValidatorAssumption
  <2>2. CASE i = 1
    BY <1>2, <2>2 DEF RisesAt
  <2>3. CASE i # 1
    <3>1. i - 1 \in 1 .. Len(Sizes) - 1 /\ (i - 1) + 1 = i
      BY <2>1, <2>3
    <3>2. Sizes[i] \in Inputs /\ Sizes[i - 1] \in Inputs
      BY <2>1, <3>1
    <3>3. submission.curve[d][Sizes[i]] >= submission.curve[d][Sizes[i - 1]] + Parts
      BY <3>1 DEF Good, Rising
    <3> QED  BY <1>1, <1>2, <3>2, <3>3, CutRises DEF RisesAt, Q
  <2> QED  BY <2>2, <2>3
<1>5. ASSUME NEW d \in {BUY, SELL}, NEW i \in 1 .. Len(Sizes) PROVE FlattensAt(d, i)
  <2> DEFINE s == Sizes[i]
             out(x) == submission.curve[d][x]
  <2>1. s \in Inputs /\ s + Delta \in Inputs /\ s + 2 * Delta \in Inputs /\ Delta \in Nat \ {0}
    BY ValidatorAssumption
  <2>2. s \in Nat
    BY <2>1, ValidatorAssumption
  <2>3. ConcaveCurve(submission.curve[d])
    BY DEF Good
  <2> HIDE DEF s
  <2>4. s + 0 * Delta = s /\ s + 1 * Delta = s + Delta /\ s < s + Delta /\ s + Delta < s + 2 * Delta
        /\ (s + Delta) - s = Delta /\ (s + 2 * Delta) - (s + Delta) = Delta
    BY <2>1, <2>2
  <2>5. out(s) \in Nat /\ out(s + Delta) \in Nat /\ out(s + 2 * Delta) \in Nat
    BY <1>1, <2>1
  <2>6. (out(s + 2 * Delta) - out(s + Delta)) * Delta <= (out(s + Delta) - out(s)) * Delta
    BY <2>1, <2>3, <2>4 DEF ConcaveCurve
  <2>7. out(s + 2 * Delta) - out(s + Delta) <= out(s + Delta) - out(s)
    <3>1. ASSUME NEW m \in Int, NEW n \in Int, m * Delta <= n * Delta PROVE m <= n
      <4> SUFFICES ASSUME m - n - 1 \in Nat PROVE FALSE
        BY <3>1
      <4>1. \A k \in Nat, l \in Nat : l * k \in Nat
        OBVIOUS
      <4>2. (m - n - 1) * Delta \in Nat
        BY <2>1, <4>1
      <4>3. (m - n - 1) * Delta = m * Delta - n * Delta - Delta
        BY <2>1, <3>1
      <4>4. m * Delta \in Int /\ n * Delta \in Int
        BY <2>1, <3>1
      <4> QED  BY <2>1, <3>1, <4>2, <4>3, <4>4
    <3>2. out(s + 2 * Delta) - out(s + Delta) \in Int /\ out(s + Delta) - out(s) \in Int
      BY <2>5
    <3> QED  BY <2>6, <3>1, <3>2
  <2>8. AcceptsSteps(Q(d, s), Q(d, s + Delta), Q(d, s + 2 * Delta))
    BY <2>5, <2>7, CutFlattens DEF Q
  <2>9. AcceptsSteps(Q(d, s + 0 * Delta), Q(d, s + 1 * Delta), Q(d, s + 2 * Delta))
    BY <2>4, <2>8
  <2> QED  BY <1>2, <2>9 DEF FlattensAt, s
<1>6. Rises(BUY) /\ Rises(SELL) /\ Flattens(BUY) /\ Flattens(SELL)
  BY <1>4, <1>5 DEF Rises, Flattens
<1> QED  BY <1>2, <1>3, <1>6 DEF Checked

(* validate refuses no submission that keeps the rules, whatever its curves, the sizes  *)
(* and the threads: the tolerance of one nano covers whatever truncation does to a        *)
(* concave curve, and only a difference between its builds can make it fail.              *)
THEOREM GoodSubmissionsPass == ASSUME StepTol >= 1 PROVE Spec => []GoodPasses
<1>1. IInv => GoodPasses
  <2> SUFFICES ASSUME IInv, command.name = "validate", Good(submission)
               PROVE  pc # "panicked" /\ (pc = "failed" => ~SameScore)
    BY DEF GoodPasses
  <2>1. Checked /\ submission.misshapen = {} /\ ~submission.remembers
    BY GoodIsChecked DEF IInv, Good
  <2>2. Verdicts /\ Verdict = IF ParityAlone THEN "passed" ELSE "failed"
    BY <2>1, VerdictOf DEF IInv, Predictable, ValidateVerdict
  <2>3. ASSUME pc = "failed" PROVE ~SameScore
    <3>1. ~ParityAlone /\ seed_start = ParityStart /\ seed_stride = ParityStride
      BY <2>1, <2>2, <2>3 DEF Verdicts, Ends
    <3>2. ResultsAlone = [i \in Sims |-> [seed |-> SeedAt(ParityStart, ParityStride, i), found |-> Alone]]
      BY <3>1 DEF ResultsAlone, ResultAlone, ConfigSeed, SeedAt
    <3> QED  BY <3>1, <3>2 DEF ParityAlone, ScoreAlone, SameScore
  <2> QED  BY <2>2, <2>3 DEF Verdicts, Ends
<1> QED  BY <1>1, AlwaysIInv, PTL

-----------------------------------------------------------------------------
(* What a pass is worth. *)

LEMMA ShapeHolds ==
  /\ Inputs \subseteq Nat /\ Parts \in Nat \ {0} /\ Delta \in Nat \ {0}
  /\ Uncertainty \in Nat /\ MergeEps \in Nat
BY ValidatorAssumption

(* The check of module Validator is the one that is proved about. *)
LEMMA SameCheck == ASSUME NEW points PROVE RunTime!ShapeViolation(points) = Shape!ShapeViolation(points)
<1>1. \A S : RunTime!Cardinality(S) = Shape!Cardinality(S)
  BY DEF RunTime!Cardinality, Shape!Cardinality
<1>2. RunTime!Sorted(points) = Shape!Sorted(points)
  BY <1>1, Zenon DEF RunTime!Sorted, Shape!Sorted, RunTime!In, RunTime!Out, Shape!In, Shape!Out,
     RunTime!Before, Shape!Before
<1>3. \A c, p : RunTime!Merge(c, p) = Shape!Merge(c, p)
  BY Zenon DEF RunTime!Merge, Shape!Merge, RunTime!In, RunTime!Out, Shape!In, Shape!Out,
     RunTime!Last, Shape!Last
<1>4. \A s : RunTime!FoldLeft(RunTime!Merge, <<>>, s) = Shape!FoldLeft(Shape!Merge, <<>>, s)
  BY <1>3, Zenon DEF RunTime!FoldLeft, Shape!FoldLeft, RunTime!MapThenFoldSet, Shape!MapThenFoldSet,
     RunTime!Max, Shape!Max
<1>5. RunTime!Cleaned(points) = Shape!Cleaned(points)
  BY <1>2, <1>4 DEF RunTime!Cleaned, Shape!Cleaned
<1>6. \A c : RunTime!Steps(c) = Shape!Steps(c) /\ RunTime!Wide(c) = Shape!Wide(c)
  BY Zenon DEF RunTime!Steps, Shape!Steps, RunTime!Wide, Shape!Wide, RunTime!Dx, Shape!Dx, RunTime!In, Shape!In
<1>7. \A c, i : RunTime!Falls(c, i) = Shape!Falls(c, i)
  BY Zenon DEF RunTime!Falls, Shape!Falls, RunTime!Out, Shape!Out
<1>8. \A c, i, j : RunTime!Follows(c, i, j) = Shape!Follows(c, i, j)
  BY <1>6, Zenon DEF RunTime!Follows, Shape!Follows
<1>9. \A c, i, j : RunTime!Steepens(c, i, j) = Shape!Steepens(c, i, j)
  BY Zenon DEF RunTime!Steepens, Shape!Steepens, RunTime!Dx, Shape!Dx, RunTime!Dy, Shape!Dy,
     RunTime!In, Shape!In, RunTime!Out, Shape!Out, RunTime!Minus, Shape!Minus
<1> QED  BY <1>5, <1>6, <1>7, <1>8, <1>9, Zenon DEF RunTime!ShapeViolation, Shape!ShapeViolation

(* Outputs that rise from each trade size to the next, unless they are zero, rise from any *)
(* trade size to any later one.                                                           *)
LEMMA RisesFurther ==
  ASSUME BatchInv, NEW d \in {BUY, SELL}, Rises(d),
         NEW i \in DOMAIN Sizes, NEW j \in DOMAIN Sizes, i < j, Q(d, Sizes[i]) # 0
  PROVE  Q(d, Sizes[i]) < Q(d, Sizes[j])
<1> DEFINE q(k) == Q(d, Sizes[k])
           T == {n \in Nat : i + n + 1 \in DOMAIN Sizes => q(i) < q(i + n + 1)}
<1>0. /\ Len(Sizes) \in Nat /\ DOMAIN Sizes = 1 .. Len(Sizes) /\ i \in Nat /\ j \in Nat
      /\ \A k \in DOMAIN Sizes : Sizes[k] \in Inputs
  BY ValidatorAssumption
<1>1. \A k \in DOMAIN Sizes : q(k) \in Nat
  <2>1. \A x \in Inputs : submission.curve[d][x] \in Nat
    BY Submitted
  <2>2. \A a \in Nat : a \div Parts \in Nat
    BY ValidatorAssumption
  <2> QED  BY <1>0, <2>1, <2>2 DEF Q
<1>2. \A k \in DOMAIN Sizes : k + 1 \in DOMAIN Sizes => q(k + 1) > q(k) \/ q(k) = 0
  <2> SUFFICES ASSUME NEW k \in DOMAIN Sizes, k + 1 \in DOMAIN Sizes PROVE q(k + 1) > q(k) \/ q(k) = 0
    OBVIOUS
  <2>1. k + 1 # 1 /\ (k + 1) - 1 = k
    BY <1>0
  <2>2. RisesAt(d, k + 1)
    BY <1>0 DEF Rises
  <2> QED  BY <2>1, <2>2 DEF RisesAt
<1>3. q(i) # 0
  OBVIOUS
<1> HIDE DEF q
<1>4. 0 \in T
  <2>1. i + 0 + 1 = i + 1
    BY <1>0
  <2>2. i + 1 \in DOMAIN Sizes => q(i) < q(i + 1)
    BY <1>1, <1>2, <1>3
  <2> QED  BY <2>1, <2>2
<1>5. ASSUME NEW n \in T PROVE n + 1 \in T
  <2> SUFFICES ASSUME i + (n + 1) + 1 \in DOMAIN Sizes PROVE q(i) < q(i + (n + 1) + 1)
    OBVIOUS
  <2>1. n \in Nat /\ i + n + 1 \in DOMAIN Sizes /\ i + (n + 1) + 1 = (i + n + 1) + 1
    BY <1>0
  <2>2. q(i) < q(i + n + 1)
    BY <2>1
  <2>3. q(i + n + 1) < q((i + n + 1) + 1)
    BY <1>1, <1>2, <2>1, <2>2
  <2>4. q(i + (n + 1) + 1) = q((i + n + 1) + 1)
    BY <2>1
  <2> HIDE DEF T
  <2> QED  BY <1>1, <2>1, <2>2, <2>3, <2>4
<1>6. T = Nat
  <2>1. T \in SUBSET Nat /\ \A n \in T : n + 1 \in T
    BY <1>5
  <2> HIDE DEF T
  <2> QED  BY <1>4, <2>1, Shape!Induction, ShapeHolds DEF Shape!Concave, Shape!Rises
<1>7. j - i - 1 \in T
  <2>1. j - i - 1 \in Nat
    BY <1>0
  <2> HIDE DEF T
  <2> QED  BY <1>6, <2>1
<1>8. i + (j - i - 1) + 1 = j
  BY <1>0
<1>9. q(i) < q(j)
  BY <1>7, <1>8
<1> QED  BY <1>9 DEF q

(* What the concavity check accepts of a curve that rises, the check of the simulations *)
(* accepts as well.                                                                    *)
LEMMA FlatEnough ==
  ASSUME BatchInv, MergeEps < Delta, StepTol <= 2 * Uncertainty,
         NEW d \in {BUY, SELL}, NEW i \in DOMAIN Sizes, FlattensAt(d, i), Nondecreasing(submission.curve[d])
  PROVE  ~RunTime!ShapeViolation(Triple(submission.curve[d], i))
<1> DEFINE x == Sizes[i]
           out(y) == submission.curve[d][y]
           p == Q(d, x)
           q == Q(d, x + Delta)
           r == Q(d, x + 2 * Delta)
<1>1. x \in Inputs /\ x + Delta \in Inputs /\ x + 2 * Delta \in Inputs /\ x \in Nat /\ Delta \in Nat \ {0}
  <2>1. i \in 1 .. Len(Sizes) /\ Sizes[i] \in Inputs /\ Inputs \subseteq Nat
    BY ValidatorAssumption
  <2>2. {Sizes[i] + Delta, Sizes[i] + 2 * Delta} \subseteq Inputs
    BY <2>1, ValidatorAssumption
  <2> QED  BY <2>1, <2>2, ShapeHolds
<1>2. x + 0 * Delta = x /\ x + 1 * Delta = x + Delta /\ x < x + Delta /\ x + Delta < x + 2 * Delta
  BY <1>1
<1>3. /\ out(x) \in Nat /\ out(x + Delta) \in Nat /\ out(x + 2 * Delta) \in Nat
      /\ out(x) <= out(x + Delta) /\ out(x + Delta) <= out(x + 2 * Delta)
  <2>1. \A y \in Inputs : submission.curve[d][y] \in Nat
    BY Submitted
  <2> QED  BY <1>1, <1>2, <2>1 DEF Nondecreasing
<1>4. p \in Nat /\ q \in Nat /\ r \in Nat /\ p <= q /\ q <= r
  <2>1. \A u, v \in Nat : u <= v => u \div Parts \in Nat /\ v \div Parts \in Nat /\ u \div Parts <= v \div Parts
    BY Shape!CutDifference, ShapeHolds DEF Shape!Concave, Shape!Rises
  <2> QED  BY <1>3, <2>1 DEF Q
<1>5. r - q <= q - p + StepTol
  BY <1>2 DEF FlattensAt, AcceptsSteps
<1>6. Triple(submission.curve[d], i) = {<<x, p>>, <<x + Delta, q>>, <<x + 2 * Delta, r>>}
  <2>1. {x + k * Delta : k \in 0 .. 2} = {x, x + Delta, x + 2 * Delta}
    <3>1. 0 .. 2 = {0, 1, 2}
      OBVIOUS
    <3> QED  BY <1>2, <3>1
  <2> HIDE DEF x
  <2> QED  BY <2>1 DEF Triple, Q, x
<1> HIDE DEF x, out, p, q, r
<1>7. r - q <= q - p + 2 * Uncertainty
  BY <1>4, <1>5, ValidatorAssumption
<1>8. ~Shape!ShapeViolation({<<x, p>>, <<x + Delta, q>>, <<x + 2 * Delta, r>>})
  BY <1>1, <1>4, <1>7, Shape!EvenSteps, ShapeHolds DEF Shape!Concave, Shape!Rises
<1> QED  BY <1>6, <1>8, SameCheck

(* A pass of validate is earned: every check was met at every trade size and not only  *)
(* between neighbours, no simulation of the parity batches panicked, the builds score    *)
(* the same, and the noise that the concavity check lets through is within what the       *)
(* simulations' own check forgives, as it is with the constants of the code.              *)
THEOREM PassesAreEarned ==
  ASSUME MergeEps < Delta, StepTol <= 2 * Uncertainty
  PROVE  Spec => []PassIsEarned
<1>1. IInv => PassIsEarned
  <2> SUFFICES ASSUME IInv, pc = "passed", command.name = "validate", ~submission.remembers
               PROVE  /\ submission.misshapen = {} /\ submission.errs \cap {Sizes[i] : i \in DOMAIN Sizes} = {}
                      /\ \A d \in {BUY, SELL} : \A i, j \in DOMAIN Sizes :
                            LET q(k) == submission.curve[d][Sizes[k]] \div Parts
                            IN  /\ i < j => q(i) = 0 \/ q(i) < q(j)
                                /\ Nondecreasing(submission.curve[d]) =>
                                      ~RunTime!ShapeViolation(Triple(submission.curve[d], i))
                      /\ SameScore
    BY DEF PassIsEarned
  <2>0. BatchInv /\ DOMAIN Sizes = 1 .. Len(Sizes)
    BY ValidatorAssumption DEF IInv
  <2>1. Verdicts /\ Verdict = "passed" /\ Verdict = ValidateVerdict
    BY VerdictOf DEF IInv, Predictable, Verdicts, Ends
  <2>2. Checked /\ submission.misshapen = {} /\ ParityAlone
    BY <2>1 DEF ValidateVerdict
  <2>3. submission.errs \cap {Sizes[i] : i \in DOMAIN Sizes} = {}
    BY <2>0, <2>2 DEF Checked, Rises, RisesAt, Errs
  <2>4. ASSUME NEW d \in {BUY, SELL}, NEW i \in DOMAIN Sizes, NEW j \in DOMAIN Sizes
        PROVE  LET q(k) == submission.curve[d][Sizes[k]] \div Parts
               IN  /\ i < j => q(i) = 0 \/ q(i) < q(j)
                   /\ Nondecreasing(submission.curve[d]) =>
                         ~RunTime!ShapeViolation(Triple(submission.curve[d], i))
    <3>1. Rises(d) /\ FlattensAt(d, i)
      BY <2>0, <2>2 DEF Checked, Flattens
    <3>2. i < j => Q(d, Sizes[i]) = 0 \/ Q(d, Sizes[i]) < Q(d, Sizes[j])
      BY <2>0, <3>1, RisesFurther
    <3>3. Nondecreasing(submission.curve[d]) => ~RunTime!ShapeViolation(Triple(submission.curve[d], i))
      BY <2>0, <3>1, FlatEnough
    <3> QED  BY <3>2, <3>3 DEF Q
  <2>5. SameScore
    <3>1. seed_start = ParityStart /\ seed_stride = ParityStride
      BY <2>1, <2>2 DEF Verdicts, Ends
    <3>2. ResultsAlone = [i \in Sims |-> [seed |-> SeedAt(ParityStart, ParityStride, i), found |-> Alone]]
      BY <3>1 DEF ResultsAlone, ResultAlone, ConfigSeed, SeedAt
    <3> QED  BY <2>2, <3>2 DEF ParityAlone, ScoreAlone, SameScore
  <2> QED  BY <2>2, <2>3, <2>4, <2>5
<1> QED  BY <1>1, AlwaysIInv, PTL

-----------------------------------------------------------------------------
(* The seeds. *)

SeedsTyped == seed_start \in 0 .. Word - 1 /\ seed_stride \in 0 .. Word - 1

LEMMA SeedsInit == Init => SeedsTyped
BY BatchAssumption DEF Init, SeedsTyped

LEMMA SeedsStep == IInv /\ SeedsTyped /\ [Next]_vars => SeedsTyped'
<1> SUFFICES ASSUME IInv, SeedsTyped, [Next]_vars PROVE SeedsTyped'
  OBVIOUS
<1>1. ASSUME UNCHANGED <<seed_start, seed_stride>> PROVE SeedsTyped'
  BY <1>1 DEF SeedsTyped
<1>2. CASE ValidatorNext
  <2>1. CASE ParityNative \/ ParityBpf
    BY <2>1, CliAssumption DEF ParityNative, ParityBpf, StartBatch, SeedsTyped
  <2> QED
    BY <1>1, <1>2, <2>1 DEF ValidatorNext, CheckMetadata, CompileBoth, Probe, Monotone, Concave,
       RandomState, Compare, batchVars
<1>3. CASE RunBatch
  BY <1>3 DEF RunBatch, StartBatch, SeedsTyped, IInv, Control, RunLabels, CommandLines
<1>4. CASE Launch
  BY <1>4, BatchAssumption DEF Launch, SeedsTyped
<1>5. CASE Build \/ Run \/ PrintResults \/ Abort \/ Exit
  BY <1>1, <1>5 DEF Build, Run, PrintResults, Abort, Exit, batchVars
<1>6. CASE Pool
  <2>1. ASSUME NEW w \in Workers, Work(w) PROVE SeedsTyped'
    BY <1>1, <2>1 DEF Work, Take, CallSubmission, Finish, ShapePanic
  <2> QED  BY <1>1, <1>6, <2>1 DEF Pool, BatchNext, Skip, Collect, Propagate
<1>7. CASE UNCHANGED vars
  BY <1>1, <1>7 DEF vars
<1> QED  BY <1>2, <1>3, <1>4, <1>5, <1>6, <1>7 DEF Next, Main, Done

LEMMA Modulo ==
  ASSUME NEW x \in Int PROVE x % Word \in 0 .. Word - 1 /\ \E k \in Int : x = Word * k + (x % Word)
<1>1. x % Word \in 0 .. Word - 1
  BY BatchAssumption
<1>2. x = Word * (x \div Word) + (x % Word) /\ x \div Word \in Int
  BY BatchAssumption
<1> QED  BY <1>1, <1>2

(* The seed that is s above that of simulation i. *)
OffsetSeed(i, s) == (ConfigSeed(i) + s) % Word

(* A seed is what it is without wrapping, up to a multiple of the word. *)
LEMMA SeedUnwrapped ==
  ASSUME SeedsTyped, NEW i \in Sims, NEW s \in 0 .. 2
  PROVE  \E k \in Int : seed_start + (i - 1) * seed_stride + s = Word * k + OffsetSeed(i, s)
<1> DEFINE n == (i - 1) * seed_stride
           m == n % Word
           c == (seed_start + m) % Word
<1>0. Word \in Int /\ seed_start \in Int /\ n \in Int
  BY BatchAssumption DEF SeedsTyped, Sims
<1>1. m \in Int /\ c \in Int
  BY <1>0, Modulo
<1> HIDE DEF n
<1>2. PICK a \in Int : n = Word * a + m
  BY <1>0, Modulo
<1>3. PICK b \in Int : seed_start + m = Word * b + c
  <2>1. seed_start + m \in Int
    BY <1>0, <1>1
  <2> HIDE DEF m
  <2> QED  BY <2>1, Modulo
<1>4. PICK e \in Int : c + s = Word * e + ((c + s) % Word)
  BY <1>1, Modulo
<1>5. OffsetSeed(i, s) = (c + s) % Word /\ OffsetSeed(i, s) \in Int
  BY <1>1, Modulo DEF OffsetSeed, ConfigSeed, n
<1> HIDE DEF m, c
<1>6. seed_start + n + s = Word * (a + b + e) + OffsetSeed(i, s)
  <2>1. Word * (a + b + e) = Word * a + Word * b + Word * e
    BY <1>0
  <2>2. Word * a \in Int /\ Word * b \in Int /\ Word * e \in Int
    BY <1>0
  <2>3. c + s = Word * e + OffsetSeed(i, s) /\ OffsetSeed(i, s) \in Int /\ s \in Int
    BY <1>4, <1>5
  <2> QED  BY <1>0, <1>1, <1>2, <1>3, <2>1, <2>2, <2>3
<1> QED  BY <1>6 DEF n

LEMMA NoMultiple == ASSUME NEW d \in 1 .. Word - 1, NEW k \in Int, d = Word * k PROVE FALSE
<1>1. Word \in Nat \ {0}
  BY BatchAssumption
<1>2. CASE k <= 0
  BY <1>1, <1>2
<1>3. CASE k >= 1
  BY <1>1, <1>3
<1> QED  BY <1>2, <1>3

LEMMA LaterApart ==
  ASSUME SeedsTyped, seed_stride >= 3, (NSims - 1) * seed_stride + 2 < Word,
         NEW i \in Sims, NEW j \in Sims, i > j, NEW s \in 0 .. 2, NEW t \in 0 .. 2,
         OffsetSeed(i, s) = OffsetSeed(j, t)
  PROVE  FALSE
<1> DEFINE far == (i - j) * seed_stride
<1>0. NSims \in Nat /\ Word \in Nat /\ seed_stride \in Nat /\ seed_start \in Int /\ i \in 1 .. NSims /\ j \in 1 .. NSims
  BY BatchAssumption DEF SeedsTyped, Sims
<1>1. PICK k \in Int : seed_start + (i - 1) * seed_stride + s = Word * k + OffsetSeed(i, s)
  BY SeedUnwrapped
<1>2. PICK l \in Int : seed_start + (j - 1) * seed_stride + t = Word * l + OffsetSeed(j, t)
  BY SeedUnwrapped
<1>3. OffsetSeed(i, s) \in Int
  BY Modulo, <1>0 DEF OffsetSeed, ConfigSeed
<1>4. far = (i - 1) * seed_stride - (j - 1) * seed_stride /\ far \in Int
  BY <1>0
<1>5. far >= 3 /\ far <= (NSims - 1) * seed_stride
  <2>1. i - j >= 1 /\ i - j <= NSims - 1
    BY <1>0
  <2>2. \A x \in Int, y \in Int : x <= y => x * seed_stride <= y * seed_stride
    BY <1>0
  <2>3. 1 * seed_stride <= far /\ far <= (NSims - 1) * seed_stride
    BY <1>0, <2>1, <2>2
  <2> QED  BY <1>0, <1>4, <2>3
<1>6. (NSims - 1) * seed_stride \in Int /\ (i - 1) * seed_stride \in Int /\ (j - 1) * seed_stride \in Int
  BY <1>0
<1>7. far + s - t \in 1 .. Word - 1
  BY <1>0, <1>4, <1>5, <1>6
<1>8. far + s - t = Word * (k - l)
  <2>1. Word * (k - l) = Word * k - Word * l /\ Word * k \in Int /\ Word * l \in Int
    BY <1>0
  <2> QED  BY <1>0, <1>1, <1>2, <1>3, <1>4, <1>6, <2>1
<1> QED  BY <1>7, <1>8, NoMultiple

LEMMA SameApart ==
  ASSUME SeedsTyped, Word > 2, NEW i \in Sims, NEW s \in 0 .. 2, NEW t \in 0 .. 2, s > t,
         OffsetSeed(i, s) = OffsetSeed(i, t)
  PROVE  FALSE
<1>0. Word \in Nat /\ seed_stride \in Nat /\ seed_start \in Int /\ i \in Int
  BY BatchAssumption DEF SeedsTyped, Sims
<1>1. PICK k \in Int : seed_start + (i - 1) * seed_stride + s = Word * k + OffsetSeed(i, s)
  BY SeedUnwrapped
<1>2. PICK l \in Int : seed_start + (i - 1) * seed_stride + t = Word * l + OffsetSeed(i, t)
  BY SeedUnwrapped
<1>3. OffsetSeed(i, s) \in Int /\ (i - 1) * seed_stride \in Int
  BY Modulo, <1>0 DEF OffsetSeed, ConfigSeed
<1>4. s - t = Word * (k - l)
  <2>1. Word * (k - l) = Word * k - Word * l /\ Word * k \in Int /\ Word * l \in Int
    BY <1>0
  <2> QED  BY <1>0, <1>1, <1>2, <1>3, <2>1
<1>5. s - t \in 1 .. Word - 1
  BY <1>0
<1> QED  BY <1>4, <1>5, NoMultiple

OffsetOf(g) == IF g = "parameters" THEN 0 ELSE EngineOffset[g]

(* Every generator's seed is the simulation's plus an offset of at most two. *)
LEMMA SeedsAreOffsets ==
  ASSUME SeedsTyped, NEW i \in Sims, NEW g \in Generators
  PROVE  OffsetOf(g) \in 0 .. 2 /\ StreamSeed(i, g) = OffsetSeed(i, OffsetOf(g))
<1>1. OffsetOf(g) \in 0 .. 2
  BY DEF OffsetOf, EngineOffset, Generators
<1>2. CASE g = "parameters"
  <2>1. (seed_start + (((i - 1) * seed_stride) % Word)) \in Int
    BY Modulo, BatchAssumption DEF SeedsTyped, Sims
  <2>2. ConfigSeed(i) \in 0 .. Word - 1
    BY <2>1, Modulo DEF ConfigSeed
  <2>3. (ConfigSeed(i) + 0) % Word = ConfigSeed(i)
    <3> HIDE DEF ConfigSeed
    <3> QED  BY <2>2, BatchAssumption
  <2> QED  BY <1>1, <1>2, <2>3 DEF OffsetOf, StreamSeed, ParameterSeed, OffsetSeed
<1>3. CASE g # "parameters"
  BY <1>1, <1>3 DEF OffsetOf, StreamSeed, OffsetSeed
<1> QED  BY <1>2, <1>3

(* No two simulations of a batch share a generator's seed, and one shares its own only   *)
(* between the parameters and the prices, for any number of simulations and any start: a  *)
(* stride of three is enough, until the seeds go round the word.                          *)
THEOREM GeneratorsApart == Spec => []StreamsApart
<1>1. SeedsTyped => StreamsApart
  <2> SUFFICES ASSUME SeedsTyped, seed_stride >= 3, (NSims - 1) * seed_stride + 2 < Word,
                      NEW i \in Sims, NEW j \in Sims, NEW g \in Generators, NEW h \in Generators
               PROVE  StreamSeed(i, g) = StreamSeed(j, h)
                          <=> i = j /\ (g = h \/ {g, h} = {"parameters", "price"})
    BY DEF StreamsApart
  <2> DEFINE s == OffsetOf(g)
             t == OffsetOf(h)
  <2>1. i \in Int /\ j \in Int
    BY DEF Sims
  <2>2. /\ s \in 0 .. 2 /\ StreamSeed(i, g) = OffsetSeed(i, s)
        /\ t \in 0 .. 2 /\ StreamSeed(j, h) = OffsetSeed(j, t)
    BY SeedsAreOffsets
  <2>3. s = t <=> g = h \/ {g, h} = {"parameters", "price"}
    BY DEF OffsetOf, EngineOffset, Generators
  <2> HIDE DEF s, t
  <2>4. Word > 2
    <3>1. NSims - 1 \in Nat /\ seed_stride \in Nat /\ Word \in Nat
      BY BatchAssumption DEF SeedsTyped, Sims
    <3>2. (NSims - 1) * seed_stride \in Nat
      BY <3>1
    <3> QED  BY <3>1, <3>2
  <2>5. ASSUME OffsetSeed(i, s) = OffsetSeed(j, t) PROVE i = j /\ s = t
    <3>1. i = j
      BY <2>1, <2>2, <2>5, LaterApart
    <3> QED  BY <2>2, <2>4, <2>5, <3>1, SameApart
  <2> QED  BY <2>2, <2>3, <2>5
<1>2. Init /\ [][Next]_vars => []SeedsTyped
  <2>1. Init => IInv /\ SeedsTyped
    BY InitInv, SeedsInit
  <2>2. IInv /\ SeedsTyped /\ [Next]_vars => IInv' /\ SeedsTyped'
    BY StepInv, SeedsStep
  <2> QED  BY <2>1, <2>2, PTL
<1> QED  BY <1>1, <1>2, PTL DEF Spec

-----------------------------------------------------------------------------
(* The types. *)

Outcome == [seed : 0 .. Word - 1, found : Seq(Nat)]

(* Edges are whole numbers. *)
WholeEdges ==
    \A s \in Submissions, b \in BOOLEAN, seed \in 0 .. Word - 1 : \A found \in Seq(Nat) :
        Edge(s, b, seed, found) \in Int

(* What FoldLeft is defined by, and that it adds up numbers to a number. *)
Sums(it, e, n) ==
    it = [x \in SUBSET (1 .. n) |-> IF x = {} THEN 0 ELSE it[x \ {Max(x)}] + e[Max(x)]]

LEMMA SumsTyped ==
  ASSUME NEW n \in Nat, NEW e \in [1 .. n -> Int], NEW it, Sums(it, e, n)
  PROVE  it[1 .. n] \in Int
<1>0. \A x \in SUBSET (1 .. n) : it[x] = IF x = {} THEN 0 ELSE it[x \ {Max(x)}] + e[Max(x)]
  BY DEF Sums
<1> DEFINE T == {k \in Nat : k <= n => it[1 .. k] \in Int}
<1>1. 0 \in T
  <2>1. 1 .. 0 = {} /\ {} \in SUBSET (1 .. n)
    OBVIOUS
  <2>2. it[{}] = 0
    BY <1>0, <2>1, Zenon
  <2>3. it[1 .. 0] \in Int
    BY <2>1, <2>2
  <2> QED  BY <2>3
<1>2. ASSUME NEW k \in T PROVE k + 1 \in T
  <2> SUFFICES ASSUME k + 1 <= n PROVE it[1 .. k + 1] \in Int
    OBVIOUS
  <2>0. k \in Nat /\ k + 1 \in 1 .. n /\ it[1 .. k] \in Int
    OBVIOUS
  <2> HIDE DEF T
  <2> DEFINE x == 1 .. k + 1
  <2>1. x \in SUBSET (1 .. n) /\ k + 1 \in x /\ x # {} /\ \A m \in x : m \in Nat /\ m <= k + 1
    <3>1. k + 1 \in x /\ \A m \in x : m \in Nat /\ m <= k + 1
      BY <2>0
    <3>2. x \subseteq 1 .. n
      <4>1. \A m \in 1 .. k + 1 : m \in 1 .. n
        BY <2>0
      <4> QED  BY <4>1
    <3> QED  BY <3>1, <3>2
  <2>2. x \ {k + 1} = 1 .. k
    BY <2>0
  <2> HIDE DEF x
  <2>3. Shape!Max(x) \in x /\ \A m \in x : m <= Shape!Max(x)
    BY <2>1, Shape!MaxIsLargest, ShapeHolds DEF Shape!Concave, Shape!Rises
  <2>4. Max(x) = Shape!Max(x)
    BY DEF Max, Shape!Max
  <2>5. Max(x) = k + 1
    <3> DEFINE m == Shape!Max(x)
    <3>1. m \in Nat /\ m <= k + 1 /\ k + 1 <= m
      BY <2>1, <2>3
    <3> HIDE DEF m
    <3>2. m = k + 1
      BY <2>0, <3>1
    <3> QED  BY <2>4, <3>2 DEF m
  <2>6. it[x] = it[1 .. k] + e[k + 1]
    BY <1>0, <2>1, <2>2, <2>5
  <2> QED  BY <2>0, <2>6 DEF x
<1>3. T = Nat
  <2>1. T \in SUBSET Nat /\ \A k \in T : k + 1 \in T
    BY <1>2
  <2> HIDE DEF T
  <2> QED  BY <1>1, <2>1, Shape!Induction, ShapeHolds DEF Shape!Concave, Shape!Rises
<1>4. n \in T
  <2> HIDE DEF T
  <2> QED  BY <1>3
<1> QED  BY <1>4

LEMMA TotalTyped ==
  ASSUME WholeEdges, NEW s \in Submissions, NEW b \in BOOLEAN, NEW rs \in Seq(Outcome)
  PROVE  TotalOf(s, b, rs) \in Int
<1> DEFINE n == Len(rs)
           e == [k \in 1 .. n |-> Edge(s, b, rs[k].seed, rs[k].found)]
           step == [k \in 1 .. n |-> [v \in Int |-> v + e[k]]]
           Folds(it) ==
               it = [x \in SUBSET (1 .. n) |->
                        IF x = {} THEN 0
                        ELSE it[x \ {Max(x)}] + Edge(s, b, rs[Max(x)].seed, rs[Max(x)].found)]
           iter == CHOOSE it : Folds(it)
<1>1. n \in Nat /\ DOMAIN rs = 1 .. n /\ \A k \in 1 .. n : rs[k] \in Outcome
  OBVIOUS
<1>2. e \in [1 .. n -> Int]
  BY <1>1 DEF WholeEdges, Outcome
<1>3. \A k \in 1 .. n : e[k] = Edge(s, b, rs[k].seed, rs[k].found)
  OBVIOUS
<1>4. \E it : Sums(it, e, n)
  <2>1. step \in [1 .. n -> [Int -> Int]]
    BY <1>2
  <2>2. \A k \in 1 .. n : \A v \in Int : step[k][v] = v + e[k]
    OBVIOUS
  <2> HIDE DEF step, e
  <2>3. PICK it : Shape!FoldsBy(it, Int, 0, step, n)
    <3>1. 0 \in Int
      OBVIOUS
    <3> QED  BY <1>1, <2>1, <3>1, Shape!FoldExists, ShapeHolds DEF Shape!Concave, Shape!Rises
  <2>4. \A x : Max(x) = Shape!Max(x)
    BY DEF Max, Shape!Max
  <2>5. ASSUME NEW x \in SUBSET (1 .. n)
        PROVE  it[x] = IF x = {} THEN 0 ELSE it[x \ {Max(x)}] + e[Max(x)]
    <3>1. CASE x = {}
      BY <2>3, <3>1 DEF Shape!FoldsBy
    <3>2. CASE x # {}
      <4>1. Shape!Max(x) \in 1 .. n
        BY <1>1, <3>2, Shape!MaxIsLargest, ShapeHolds DEF Shape!Concave, Shape!Rises
      <4>2. it[x \ {Shape!Max(x)}] \in Int
        BY <2>3 DEF Shape!FoldsBy
      <4>3. it[x] = step[Shape!Max(x)][it[x \ {Shape!Max(x)}]]
        BY <2>3, <3>2 DEF Shape!FoldsBy
      <4>4. it[x] = it[x \ {Shape!Max(x)}] + e[Shape!Max(x)]
        BY <2>2, <4>1, <4>2, <4>3
      <4> QED  BY <2>4, <3>2, <4>4
    <3> QED  BY <3>1, <3>2
  <2>6. it = [x \in SUBSET (1 .. n) |-> it[x]]
    BY <2>3 DEF Shape!FoldsBy
  <2> QED  BY <2>5, <2>6 DEF Sums
<1>5. Sums(iter, e, n)
  <2>1. \A x \in SUBSET (1 .. n) :
            x # {} => e[Max(x)] = Edge(s, b, rs[Max(x)].seed, rs[Max(x)].found)
    <3> SUFFICES ASSUME NEW x \in SUBSET (1 .. n), x # {}
                 PROVE  e[Max(x)] = Edge(s, b, rs[Max(x)].seed, rs[Max(x)].found)
      OBVIOUS
    <3>1. Shape!Max(x) \in x
      BY <1>1, Shape!MaxIsLargest, ShapeHolds DEF Shape!Concave, Shape!Rises
    <3>2. Max(x) = Shape!Max(x)
      BY DEF Max, Shape!Max
    <3> HIDE DEF e
    <3> QED  BY <1>3, <3>1, <3>2
  <2> HIDE DEF e
  <2>2. ASSUME NEW it PROVE Folds(it) <=> Sums(it, e, n)
    <3>1. [x \in SUBSET (1 .. n) |->
              IF x = {} THEN 0
              ELSE it[x \ {Max(x)}] + Edge(s, b, rs[Max(x)].seed, rs[Max(x)].found)]
            = [x \in SUBSET (1 .. n) |-> IF x = {} THEN 0 ELSE it[x \ {Max(x)}] + e[Max(x)]]
      BY <2>1
    <3> QED  BY <3>1, Zenon DEF Sums
  <2> QED  BY <1>4, <2>2
<1>6. TotalOf(s, b, rs) = iter[1 .. n]
  BY <1>1 DEF TotalOf, FoldLeft, MapThenFoldSet
<1> HIDE DEF iter, e
<1>7. iter[1 .. n] \in Int
  BY <1>1, <1>2, <1>5, SumsTyped
<1> QED  BY <1>6, <1>7

(* What TypeOK says and BatchTyped and Control do not. *)
Typed ==
    /\ at \in Nat \ {0} /\ prev \in Nat /\ asked \in Nat
    /\ results \in Seq(Outcome)
    /\ native_total \in Int /\ total \in Int
    /\ reports \in Seq([outcome : Ends, total : Int])

LEMMA QuoteTyped ==
  ASSUME BatchInv, NEW d \in {BUY, SELL}, NEW x \in Inputs, NEW n \in Nat
  PROVE  Quote(d, x, n) \in Nat
<1>1. submission.curve[d][x] \in Nat /\ submission.wobble \in Nat
  BY Submitted, ValidatorAssumption DEF BatchInv, BatchTyped
<1>2. submission.curve[d][x] \div Parts \in Nat
  BY <1>1, Cut
<1> QED  BY <1>1, <1>2 DEF Quote

LEMMA TotalIsTyped ==
  ASSUME WholeEdges, IInv, Typed
  PROVE  Total \in Int
BY TotalTyped DEF IInv, BatchInv, BatchTyped, Typed, Total

LEMMA AdvanceTyped == ASSUME Typed, NEW next, Advance(next) PROVE at' \in Nat \ {0}
BY DEF Typed, Advance

LEMMA CollectTyped == ASSUME IInv, SeedsTyped, Collect PROVE results' \in Seq(Outcome)
<1>1. \A i \in Sims : Result(i) \in Outcome
  <2> SUFFICES ASSUME NEW i \in Sims PROVE Result(i) \in Outcome
    OBVIOUS
  <2>1. sims[i].found \in Seq(Nat)
    BY DEF IInv, BatchInv, BatchTyped
  <2>2. ConfigSeed(i) \in 0 .. Word - 1
    <3>1. (i - 1) * seed_stride \in Int /\ seed_start \in Int
      BY BatchAssumption DEF SeedsTyped, Sims
    <3>2. ((i - 1) * seed_stride) % Word \in Int
      BY <3>1, Modulo
    <3> QED  BY <3>1, <3>2, Modulo DEF ConfigSeed
  <2> QED  BY <2>1, <2>2 DEF Result, Outcome
<1> QED  BY <1>1, BatchAssumption DEF Collect, Sims

LEMMA TypedInit == Init => Typed
BY DEF Init, Typed

LEMMA TypedStep ==
  ASSUME WholeEdges, IInv, SeedsTyped, Typed, [Next]_vars
  PROVE  Typed'
<1>1. ASSUME UNCHANGED <<at, prev, asked, results, native_total, total, reports>> PROVE Typed'
  BY <1>1 DEF Typed
<1>2. CASE ValidatorNext /\ UNCHANGED <<command, total, reports>>
  <2>1. CASE CheckMetadata \/ CompileBoth \/ Compare
    BY <1>1, <1>2, <2>1 DEF CheckMetadata, CompileBoth, Compare, batchVars
  <2>2. CASE Probe
    BY <1>2, <2>2 DEF Probe, Reject, Typed, batchVars
  <2>3. CASE Monotone
    <3>1. pc = "monotone" /\ Sizes[at] \in Inputs /\ side \in {BUY, SELL}
      BY <2>3, ValidatorAssumption DEF IInv, Control, Monotone
    <3>2. Quote(side, Sizes[at], asked) \in Nat
      BY <3>1, QuoteTyped DEF IInv, Typed
    <3>3. at' \in Nat \ {0}
      BY <2>3, AdvanceTyped DEF Monotone, Reject, Typed
    <3>4. prev' \in Nat
      BY <2>3, <3>2 DEF Monotone, Typed
    <3> QED  BY <1>2, <2>3, <3>3, <3>4 DEF Monotone, Typed, batchVars
  <2>4. CASE Concave
    <3>1. at' \in Nat \ {0}
      BY <2>4, AdvanceTyped DEF Concave, Reject, Typed
    <3> QED  BY <1>2, <2>4, <3>1 DEF Concave, Typed, batchVars
  <2>5. CASE RandomState
    BY <1>2, <2>5 DEF RandomState, Reject, Typed, batchVars
  <2>6. CASE ParityNative
    BY <1>2, <2>6 DEF ParityNative, StartBatch, Typed
  <2>7. CASE ParityBpf
    BY <1>2, <2>7, TotalIsTyped DEF ParityBpf, StartBatch, Typed
  <2> QED  BY <1>2, <2>1, <2>2, <2>3, <2>4, <2>5, <2>6, <2>7 DEF ValidatorNext
<1>3. CASE RunBatch
  BY <1>3 DEF RunBatch, StartBatch, Typed
<1>4. CASE Launch
  BY <1>4 DEF Launch, Typed
<1>5. CASE Build \/ Run \/ Abort
  BY <1>1, <1>5 DEF Build, Run, Abort, batchVars
<1>6. CASE PrintResults
  BY <1>6, TotalIsTyped DEF PrintResults, Typed, batchVars
<1>7. CASE Exit
  BY <1>7 DEF Exit, Typed, batchVars
<1>8. CASE Pool
  <2>1. UNCHANGED <<at, prev, asked, native_total, total, reports>>
    BY <1>8 DEF Pool
  <2>2. CASE Collect
    BY <2>1, <2>2, CollectTyped DEF Typed
  <2>3. CASE ~Collect
    <3>1. results' = results
      <4>1. ASSUME NEW w \in Workers, Work(w) PROVE results' = results
        BY <4>1 DEF Work, Take, CallSubmission, Finish, ShapePanic
      <4> QED  BY <1>8, <2>3, <4>1 DEF Pool, BatchNext, Skip, Propagate
    <3> QED  BY <1>1, <2>1, <3>1
  <2> QED  BY <2>2, <2>3
<1>9. CASE UNCHANGED vars
  BY <1>1, <1>9 DEF vars
<1> QED  BY <1>2, <1>3, <1>4, <1>5, <1>6, <1>7, <1>8, <1>9 DEF Next, Main, Done

(* Every variable of the commands and of the batches keeps its type, the sums of edges   *)
(* included, however many simulations, calls and threads there are.                     *)
THEOREM CommandsTyped == ASSUME WholeEdges PROVE Spec => []TypeOK
<1>1. IInv /\ SeedsTyped /\ Typed => TypeOK
  <2>1. IInv => /\ submission \in Submissions /\ command \in CommandLines /\ side \in {BUY, SELL}
                /\ native \in BOOLEAN /\ library \in Nat
                /\ sims \in [Sims -> [status : Statuses, found : Seq(Nat)]]
                /\ thread \in [Workers -> 0 .. NSims]
                /\ batch \in {"idle", "running", "done", "panicked"}
    BY DEF IInv, BatchInv, BatchTyped, Control
  <2>2. IInv => pc \in Ends \cup {"shell", "build", "run", "launch", "run_batch", "metadata", "compile",
                                  "probe", "monotone", "concave", "random", "parity", "parity_native",
                                  "parity_bpf"}
    BY DEF IInv, Control, RunLabels, ValidateLabels, AfterMetadata, AfterCompile, AfterProbe,
       AfterMonotone, AfterConcave, AfterRandom
  <2> QED  BY <2>1, <2>2 DEF SeedsTyped, Typed, TypeOK, Outcome
<1>2. Init => IInv /\ SeedsTyped /\ Typed
  BY InitInv, SeedsInit, TypedInit
<1>3. IInv /\ SeedsTyped /\ Typed /\ [Next]_vars => IInv' /\ SeedsTyped' /\ Typed'
  BY StepInv, SeedsStep, TypedStep
<1> QED  BY <1>1, <1>2, <1>3, PTL DEF Spec
=============================================================================
