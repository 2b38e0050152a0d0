---------------------------- MODULE BatchRunner ----------------------------
(***************************************************************************)
(* A batch of simulations (crates/sim/src/runner.rs): one configuration per    *)
(* simulation, handed to the threads of a rayon pool, results collected in     *)
(* the order of the configurations.  A simulation calls the submission NCalls   *)
(* times; what it computes depends on its seed and on the memory of the        *)
(* submission that its calls find.  A BPF program has that memory in each      *)
(* clone's executor; a native one has the statics of the one dynamic library    *)
(* that the process loaded.  The module has no Init or Next of its own: a       *)
(* command of the CLI (module Cli) starts batches and waits for them.          *)
(***************************************************************************)
EXTENDS Integers, Sequences

CONSTANTS
    Workers,        \* threads of the pool
    NSims,          \* simulations of a batch
    NCalls,         \* bound: calls of the submission in a simulation
    Word,           \* 2^64: seeds wrap
    Submissions     \* records with the fields below, and others

Sims == 1 .. NSims

ASSUME BatchAssumption ==
    /\ NSims \in Nat /\ NCalls \in Nat /\ Word \in Nat \ {0}
    /\ \A s \in Submissions :
          /\ s.remembers \in BOOLEAN       \* it keeps state of its own between calls
          /\ s.misshapen \subseteq Sims    \* simulations in which its quotes fail the shape check
ASSUME WorkersAssumption == Workers # {}

VARIABLES
    submission,
    native,         \* the batch calls the dynamic library, not clones of the BPF program
    library,        \* calls the library of this process has served: what its statics hold
    seed_start, seed_stride,
    sims,           \* per configuration: status, and the memory each call found
    thread,         \* the simulation each thread runs, or 0
    batch, results

batchVars == <<submission, native, library, seed_start, seed_stride, sims, thread, batch, results>>

Queued == [status |-> "queued", found |-> <<>>]
NoBatch == [i \in Sims |-> Queued]
Statuses == {"queued", "running", "done", "panicked", "skipped"}

(* Mutant: the sum does not wrap. *)
ConfigSeedPlain(i) == seed_start + (((i - 1) * seed_stride) % Word)

(* Mutant: seeds saturate. *)
ConfigSeedSaturating(i) ==
    LET seed == seed_start + (i - 1) * seed_stride
    IN  IF seed < Word THEN seed ELSE Word - 1

ConfigSeed(i) == (seed_start + (((i - 1) * seed_stride) % Word)) % Word

(* Every generator a simulation draws from: its parameters, the prices, the retail    *)
(* orders and the arbitrageur's samples.                                             *)
Generators == {"parameters", "price", "retail", "arbitrage"}

(* HyperparameterVariance::apply, when default_configs makes the configuration. *)
ParameterSeed(i) == ConfigSeed(i)

(* run_sim_inner seeds the other three with seed, seed + 1 and seed + 2. *)
EngineOffset == [price |-> 0, retail |-> 1, arbitrage |-> 2]

StreamSeed(i, g) ==
    IF g = "parameters" THEN ParameterSeed(i) ELSE (ConfigSeed(i) + EngineOffset[g]) % Word

StartBatch(is_native, start, stride) ==
    /\ native' = is_native /\ seed_start' = start /\ seed_stride' = stride
    /\ sims' = NoBatch
    /\ batch' = "running" /\ results' = <<>>
    /\ UNCHANGED <<submission, library, thread>>

-----------------------------------------------------------------------------
Take(w, i) ==
    /\ batch = "running" /\ thread[w] = 0 /\ sims[i].status = "queued"
    /\ thread' = [thread EXCEPT ![w] = i]
    /\ sims' = [sims EXCEPT ![i].status = "running"]
    /\ UNCHANGED <<submission, native, library, seed_start, seed_stride, batch, results>>

(* Mutant: the clones of a BPF program share the memory of the first. *)
MemoryShared(i) ==
    IF ~submission.remembers THEN 0 ELSE IF native THEN library ELSE Len(sims[1].found)

(* The memory that the next call of simulation i finds. *)
Memory(i) ==
    IF ~submission.remembers THEN 0 ELSE IF native THEN library ELSE Len(sims[i].found)

CallSubmission(w) ==
    LET i == thread[w]
    IN  /\ i # 0 /\ Len(sims[i].found) < NCalls
        /\ sims' = [sims EXCEPT ![i].found = Append(@, Memory(i))]
        /\ library' = IF native THEN library + 1 ELSE library
        /\ UNCHANGED <<submission, native, seed_start, seed_stride, thread, batch, results>>

(* run_simulation returns: always Ok. *)
Finish(w) ==
    LET i == thread[w]
    IN  /\ i # 0 /\ Len(sims[i].found) = NCalls /\ i \notin submission.misshapen
        /\ sims' = [sims EXCEPT ![i].status = "done"]
        /\ thread' = [thread EXCEPT ![w] = 0]
        /\ UNCHANGED <<submission, native, library, seed_start, seed_stride, batch, results>>

(* Mutant: the panic takes its thread with it. *)
ShapePanicKills(w) ==
    LET i == thread[w]
    IN  /\ i # 0 /\ i \in submission.misshapen
        /\ sims' = [sims EXCEPT ![i].status = "panicked"]
        /\ UNCHANGED <<submission, native, library, seed_start, seed_stride, thread, batch, results>>

(* The shape check panics; rayon catches it and the thread goes on with other work. *)
ShapePanic(w) ==
    LET i == thread[w]
    IN  /\ i # 0 /\ i \in submission.misshapen
        /\ sims' = [sims EXCEPT ![i].status = "panicked"]
        /\ thread' = [thread EXCEPT ![w] = 0]
        /\ UNCHANGED <<submission, native, library, seed_start, seed_stride, batch, results>>

(* Simulations that rayon had put into one piece of work with the one that panicked, *)
(* and that come after it, are dropped.                                              *)
Skip(i) ==
    /\ batch = "running" /\ i > 1
    /\ sims[i].status = "queued" /\ sims[i - 1].status \in {"panicked", "skipped"}
    /\ sims' = [sims EXCEPT ![i].status = "skipped"]
    /\ UNCHANGED <<submission, native, library, seed_start, seed_stride, thread, batch, results>>

Settled(i) == sims[i].status \in {"done", "panicked", "skipped"}

Result(i) == [seed |-> ConfigSeed(i), found |-> sims[i].found]

(* Mutant: what has a result is collected. *)
CollectRest ==
    /\ batch = "running" /\ \A i \in Sims : Settled(i)
    /\ results' = [i \in Sims |-> Result(i)]
    /\ batch' = "done"
    /\ UNCHANGED <<submission, native, library, seed_start, seed_stride, sims, thread>>

Collect ==
    /\ batch = "running" /\ \A i \in Sims : sims[i].status = "done"
    /\ results' = [i \in Sims |-> Result(i)]
    /\ batch' = "done"
    /\ UNCHANGED <<submission, native, library, seed_start, seed_stride, sims, thread>>

(* A panic is rethrown to the caller when no other piece of work is left. *)
Propagate ==
    /\ batch = "running" /\ \A i \in Sims : Settled(i)
    /\ \E i \in Sims : sims[i].status = "panicked"
    /\ batch' = "panicked"
    /\ UNCHANGED <<submission, native, library, seed_start, seed_stride, sims, thread, results>>

Work(w) == (\E i \in Sims : Take(w, i)) \/ CallSubmission(w) \/ Finish(w) \/ ShapePanic(w)

BatchNext == (\E w \in Workers : Work(w)) \/ (\E i \in Sims : Skip(i)) \/ Collect \/ Propagate

-----------------------------------------------------------------------------
(* What simulation i finds when it is run alone, in a process of its own. *)
Alone == [k \in 1 .. NCalls |-> IF submission.remembers THEN k - 1 ELSE 0]
ResultAlone(i) == [seed |-> ConfigSeed(i), found |-> Alone]

ResultsAlone == [i \in Sims |-> ResultAlone(i)]

Isolated == ~submission.remembers \/ ~native

(* The batch is a map: one result per configuration, in their order, each the one    *)
(* that the simulation gives when it is run alone, however many threads there are and  *)
(* whatever they do when.  Only a native submission with statics is excepted.          *)
BatchIsMap == batch = "done" /\ Isolated => results = ResultsAlone

(* A panic is never turned into a result, nor a result into a panic: a batch returns  *)
(* exactly when all its simulations do, and no simulation it dropped is missed.        *)
PanicIsNeverAResult ==
    /\ batch = "done" => submission.misshapen = {}
    /\ batch = "panicked" => submission.misshapen # {}

(* With a stride of three or more, and not so many simulations that the seeds go      *)
(* round, no generator of a simulation gets the seed of any other simulation's, even     *)
(* when the seeds wrap at 2^64, and inside one simulation exactly two share theirs: the    *)
(* prices are drawn from the generator that the parameters were drawn from.  (With the      *)
(* default stride of one, neighbours share more.)                                          *)
StreamsApart ==
    seed_stride >= 3 /\ (NSims - 1) * seed_stride + 2 < Word =>
        \A i, j \in Sims : \A g, h \in Generators :
            StreamSeed(i, g) = StreamSeed(j, h)
                <=> i = j /\ (g = h \/ {g, h} = {"parameters", "price"})
=============================================================================
