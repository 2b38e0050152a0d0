# A verification project for prop-amm-challenge

TLA+ models of the simulator of the prop AMM challenge (`crates/`, `programs/`), the instances
TLC checks, and theorems about the models that TLAPS proves. The models follow the Rust sources;
every definition that stands for code is listed with its lines in `PROJECT.json` under `map`.

## 1. The system

A *submission* is a pricing program. The simulator scores it: it gives the program a pool, puts
a second pool with a known program (the *normalizer*) beside it, moves a fair price, lets an
arbitrageur and retail traders trade with both pools, and reports the submission's *edge*. A
batch runs many such simulations in parallel.

| component | state | operations | talks to |
|---|---|---|---|
| pool, `sim/amm.rs` (`BpfAmm`) | reserves (f64, public fields), storage, current step, a backend | `quote_buy_x/sell_x`, `execute_buy_x/sell_x`, `set_current_step`, `set_initial_storage`, `reset` | calls its program through an executor; the hook runs after every trade |
| executors, `executor/vm.rs`, `syscalls.rs`, `native.rs` | BPF: input buffer, stack, heap and syscall context (return data, storage update, meter), reused by every run; native: none | `execute`, `execute_after_swap`, the syscalls | the program calls back through syscalls |
| programs, `shared/normalizer.rs`, `programs/normalizer`, `programs/starter` | none | `compute_swap`, `after_swap` | pure functions of the payload |
| engine, `sim/engine.rs` | both pools, the edge, the step | `run_sim_inner` | price process, arbitrageur, retail flow, router |
| arbitrageur, `sim/arbitrageur.rs` | a random generator | plan on both sides (closed form or search), execute | quotes and trades on one pool |
| router, `sim/router.rs` | none | `maximize_split`, one leg per pool | quotes and trades on both pools |
| shape check, `sim/curve_checks.rs` | none | `enforce_submission_monotonic_concave` | called after each search on a submission; panics |
| price process, retail flow | a random generator each | `step`, `generate_orders` | engine |
| batch runner, `sim/runner.rs` | a thread pool, the results | `run_batch*`, `run_default_batch*` | one engine per configuration; nothing shared but the immutable program (BPF, each clone with an executor of its own) or one dynamic library (native) |
| validator, `cli/commands/validate.rs` | one executor, the loops' positions, the loaded library | `validate` | calls the executor directly, then two batches |
| build cache, `cli/commands/compile.rs` | `.build/runs/<hash>/`: two files, cargo's target directory | `compile_native`, `compile_bpf` | cargo; other processes through the same directories |
| CLI, `cli/main.rs`, `commands/run.rs`, `build.rs`, `output.rs` | one process per command, the loaded library | `build`, `run`, `validate` | build cache, validator, runner |
| SDK, `submission-sdk` | none | `set_return_data`, `set_storage` | syscalls, or nothing in a native build |

A simulation is sequential; a batch runs many on a pool of threads, and the CLI's processes
share directories. What is hard here is

* **the program in the middle.** Quotes and trades are calls into code that nobody knows, that
  has a memory of its own and whose errors are swallowed (`amm.rs:55`). Between a plan and its
  execution there is a second quote; between the two legs of an order there is the submission's
  hook.
* **two number systems.** Reserves are f64, programs see truncated nanos, the shape check
  compares truncated nanos again.
* **reuse.** One syscall context serves thousands of runs and only its flags are reset.
* **searches over an unknown curve** with few samples, reused probes and early stops.
* **accounting in two places**: the edge of an arbitrage and the edge of a routed trade.
* **what parallel simulations share**: a BPF program's memory belongs to its clone, a native
  program's statics to the process; seeds that are close give generators that are equal; a panic
  of one simulation drops others and is rethrown.
* **what processes share**: the build directories, read, compared and rewritten without a lock,
  by processes that may be killed half way.
* **two checks of one shape**: `validate` and the simulations check the curve differently.

The properties that make each component correct:

* pool: reserves stay above the floor; the hook sees the pool the trade left; the normalizer's
  pool never loses value to truncation;
* executor: what a run answers and keeps is this run's; quoting changes nothing; every call
  returns;
* engine: the edge is exactly what the submission's reserves gained at the fair prices; the
  pools are changed through the pool's methods only; every simulation ends;
* arbitrageur: no trade below the threshold; nothing left on the table in the normalizer's pool;
  the search does not lose the peak and sizes the trade within its tolerance;
* router: the trader gets what the chosen split promised and at least what either pool alone
  quoted; stopping early loses little;
* shape check: no false alarm from truncation; what passes has the shape up to the noise that is
  forgiven;
* batch runner: a batch is a map over its configurations, whatever the schedule; a panic is
  never a result; generators do not share seeds;
* validator: sound submissions pass, a pass is worth what it claims;
* build cache: nobody runs another submission's library; what a killed process left does no
  harm; every build ends;
* CLI: the same command ends the same, and it ends.

Every place where one of these could go wrong is listed, at its line, under `hazards` in
`PROJECT.json`.

## 2. The modules

| module | models | extends |
|---|---|---|
| `Programs` | nanos, the two builds of the normalizer | |
| `AmmOps` | the methods of `BpfAmm` as operators on a record | `Programs` |
| `Amm` | one pool under any sequence of calls | `AmmOps` |
| `Arbitrage` | `execute_arb` on one pool | `AmmOps` |
| `Routing` | splits, legs and trades on two pools | `AmmOps` |
| `Engine` | one simulation | `Arbitrage`, `Routing` |
| `Vm` | one program in an executor | |
| `GoldenSection` | the probes of both searches | |
| `ArbSearch` | `bracket_maximum`, `golden_section_max` | `GoldenSection` |
| `RouterSearch` | `maximize_split` | `GoldenSection` |
| `ShapeCheck` | `submission_shape_violation` | |
| `BatchRunner` | a batch on a thread pool | |
| `Validator` | the checks of `validate`, one action per iteration | `BatchRunner`, an instance of `ShapeCheck` |
| `Cli` | processes that run `build`, `run` or `validate` | `Validator` |
| `BuildCache` | processes that build in shared directories | |
| `MC...` | the instances for TLC | |
| `...Proof` | the theorems | the module they are about |

**Composition.** `Engine` composes pool, arbitrageur and router; it uses their operations as
sets of outcomes, because a submission may answer anything (`SubReplies`, `SubHooks` are
constants; a pure strategy has singletons). `Arbitrage` and `Routing` leave open which samples a
search takes (`SearchInputs`, any split); `ArbSearch` and `RouterSearch` are the searches
themselves, one action per iteration, on a curve that is a constant. `Vm` opens up the call that
`AmmOps!Call` and `AmmOps!CallAfterSwap` take in one step: it shows why a call may be taken for
a function of this run alone (`AnswerIsThisRuns`, `StorageOnlyFromHook`), and that a run that
failed pays nothing even if it returned an amount before. `Cli` composes
validator and batch runner: its main thread starts a batch (`StartBatch`) and waits for it,
while the threads of the pool (`Pool`) interleave freely. For it a simulation is a sequence of
calls of the submission, and a build works or does not; inside a simulation looks `Engine`,
inside a build `BuildCache`. `Validator` uses the decision of `ShapeCheck` to compare what
`validate` accepts with what a simulation refuses.

**Abstract and detailed.** `Amm` is the abstract specification of a pool. `Engine` implements it
twice: `SubPool == INSTANCE Amm WITH amm <- sub, ...` and `NormPool`, with `SubPool!Spec` and
`NormPool!Spec` checked as properties of the simulation. So every step of the engine,
arbitrageur and router is a pool operation or leaves the pool alone, although the reserves are
public.

### How state and actions correspond to the code

*Amounts.* An f64 is an integer number of quanta, `Unit` of them to a nano, so that
`f64_to_nano` truncates (`div Unit`) and saturates at `U64Max`. Rounding of f64 sums and
products, NaN and infinities are not modelled; `MIN_RESERVE` is below one nano, as in the code.
A fair price is a natural number of Y per X.

*Engine.* `pc` names the statement of `run_sim_inner` that is next: `BeginStep` (40-43),
`ArbSub`, `ArbNorm` (45-48), `GenerateOrders` (50), and per order `Split`, `LegSub`, `LegNorm`,
`Account` once per trade, `NextOrder`; `EndStep` closes the loop. `ShapePanic` is the panic of
the shape check inside the searches, possible only when `Misshapen`. The ghosts `mark`, `ends`
and `got` record what the submission's reserves gained, the quotes for the unsplit order and
what the trader received; no action reads them.

*Vm.* A run is `Begin`, then instructions, syscalls and stores in any order, then `Return` or
`Fail`. The meter is the guard `Running`. Stack and heap need no state because the program may
answer anything in any case; the syscall context is kept from run to run as in the code. The
ghosts `said` and `kept` record what the program asked for in this run.

*Searches.* Inputs and splits lie on an integer grid on which the golden ratio is 618/1000.
`seen` is the code's list of samples (arbitrageur: those of the golden section).

*Shape check.* An operator; `MCShapeCheck` adds the sampling, one sample per step.

*Batch.* `sims[i]` is the job of configuration `i`: `Take` is a thread of the pool picking it
up, `CallSubmission` one call of the submission from it, `Finish` its return, `ShapePanic` its
panic. What a submission remembers is a counter of the calls its memory has served: `library`
for the statics of the one dynamic library of the process, the length of `sims[i].found` for the
executor of a clone. `Skip` (jobs rayon had joined to one that panicked) and `Propagate`
(the rethrow when no work is left) are rayon's; they are external. `Result` is the seed
and everything the simulation found, and `Edge` turns it into a number. `run_simulation` always
returns `Ok`, so the `Err` path of the collection has no action.

*Validator.* `pc` names the check that is next; `side` and `at` are where its loops are, `prev`
is `prev_output`, `asked` counts the calls of the one executor. A submission is a record: its
metadata and builds are in order or not, its curve is known in parts of a nano (`Parts`) at the
inputs that are probed, it may err at some of them, and it may remember. `Quote` cuts the curve
to nanos. The inputs are literals, so the code's `continue` for saturated sums is dead, and it
is left out; the test of the average decides nothing beside the one of the total.

*Cli.* `Launch` starts a process (nothing loaded, nothing run), `Exit` ends it and records in
`reports` how it ended and the total it printed. `Abort` is a panic that reaches `main`.

*Build cache.* `pc[p]` names the statement of `ensure_build_dir` or `compile_*` that is next. A
file is truncated and written in two steps, as `fs::write` does. Cargo is external: it reads the
manifest (`ReadManifest`), takes its lock, compares modification times (`changed`), lets rustc
read the source (`ReadByRustc`), replaces the library in two steps and records the build. `Kill`
and `KillBuild` may come between any two steps. `alone` is a ghost: no other process was in the
directory meanwhile. A source is a model value: which ones are refused (`unsafe`, no
`compute_swap`) or do not compile are constants, as is the hash.

## 3. What TLC checks

| run | question | properties | states |
|---|---|---|---|
| `amm` | a pool under the normalizer, and under a program that answers any u64 | `ReserveFloor`, `HookOncePerTrade`, `KNeverFalls`, `TypeOK` | three quanta per nano, two fees, inputs with and without a fraction, any reply in `0..15`, a hook with a checksum modulo five; 25,696 states |
| `engine_adaptive` | a submission that changes its fee in the hook | `EdgeIsMarkToMarket`, `RouterDelivers`, `ArbTakesItsProfit`, `Terminates`, `SubPoolIsAmm`, `NormPoolIsAmm`, `TypeOK` | two steps, three prices, up to two orders a step |
| `engine_fickle` | a submission that answers the same call differently and may be misshapen, beside normalizer pools on either side of the price | `EdgeIsMarkToMarket`, `NormArbExhausts` | one step, three fees, 26 pools, 3.1 million states |
| `vm` | any program in either executor | `AnswerIsThisRuns`, `QuoteLeavesNoTrace`, `StorageOnlyFromHook`, `BpfHookPersists`, `CallsReturn`, `TypeOK` | budget of four instructions, three values, two storages |
| `arb_search` | the arbitrageur's search | `BestOfSamples`, `PeakInBracket`, `SizedToTolerance` | 97 curves, seven starts |
| `router_search` | the router's search | `BestOfSamples`, `PeakInBracket`, `LittleIsLost` | 1600 pairs of pools, two sizes |
| `shape_check` | the shape check | `NoFalseAlarm`, `FallsAreNoise`, `SteepeningIsNoise` | up to four samples of nine inputs |
| `cli` | commands, run twice on submissions that keep the rules or break one | `BatchIsMap`, `PanicIsNeverAResult`, `StreamsApart`, `GoodPasses`, `PassIsEarned`, `Reproducible`, `CommandsEnd`, `TypeOK` | 52 submissions, 103 sessions, three simulations of two calls on two threads; 80,175 states |
| `build_cache` | builds in shared directories | `LoadsWhatItAskedFor`, `AloneSucceeds`, `BuildsEnd`, `TypeOK` | two processes, three builds, four sources; 287,179 states |

The runs `amm_paths`, `vm_sdk` and `cli_statics` expect a violation; they are under *Findings*.

Each property has a mutant: a plausible slip in one definition (`Mutant:` in the modules) under
which TLC finds the property violated on the same instance.

**Bounds, and why they are enough.**

* `MaxReserve` (`MCAmm`) cuts trades that take a reserve beyond it. The floor, the truncation
  and the saturation of nanos (`U64Max = 15`, 48 quanta) all happen below it.
* `NSteps`: one step already interleaves arbitrage, hook and both legs; two let the state one
  step leaves meet the next step's price and arbitrage.
* `OrderFlows` has an empty step, single orders, and two orders of opposite sides, one of which
  is larger than what the pools can pay without moving far.
* `MinReserve = 1`, `Unit = 2` or `3`: the least sizes at which a fraction of a nano exists and
  the floor lies inside a nano.
* `Budget = 4`: enough to return data, set storage twice and still fail or be stopped.
* `BracketSteps = 3` instead of 24, so that the cap is reached; with 24 the same properties hold
  without it. Everything else of the searches has the code's numbers: 12 and 14 iterations, one
  hundredth, one thousandth. The grids are fine enough for the proofs to apply: 100000 points to
  the smallest trade of the arbitrageur and to the router's order, a hundred of them for its
  `alpha` tolerance.
* `MaxSamples = 4`, `Uncertainty = 2`, `MinDx = 3`: two comparable segments with a third sample
  between them are the least on which noise can add up. The code has 4 nanos and a million.
* `cli`: three simulations on two threads are the least at which one waits in the queue while
  two run, a panic can drop a queued one and another can still be running; two calls each let
  the calls of two simulations interleave. `Word = 16` instead of 2^64 makes seeds wrap within
  the batch (start 12, stride 3; start 9, stride 7). `MaxRuns = 2` compares a run with another.
  Three trade sizes instead of ten make a first, a middle and a last, with a tolerance of one
  nano and curves in tenths of a nano with a knee at or between the sizes. `Uncertainty = 1`
  where the code has 4: the claim of `PassIsEarned` is the harder one.
* `build_cache`: two processes, as the hazards are all between two; three builds, so that a
  build that was killed or that failed comes before one that is alone or before two at once; two
  sources with one hash, of which one does not compile, one by itself, one refused.

**Fairness.** `Engine` assumes `WF_vars(Next)`: one thread runs the loop and waits for nobody.
`Vm` assumes `WF_vars(Step)`: a started program goes on or is stopped; that it *ends* is not
assumed but follows from the meter (the mutant that does not count breaks it). `Cli` assumes
`WF_vars(Main)`, as the main thread runs unless it waits for the pool, and `WF_vars(Pool)`, as
rayon wakes a thread while work is queued: *some* step of the pool, no matter which thread's.
`BuildCache` assumes `SF_vars(Step(p))` of each process: a process may wait for cargo's lock,
which is taken and freed again and again by others (weak fairness would let it starve, which the
blocking lock of the operating system does not), and nothing is assumed of kills. No other
module has a liveness property. `Misshapen` weakens `Terminates` by the panic, which is the
code's only other way out.

**What the runs taught.**

* The arbitrageur's search meets its 1% tolerance whenever the bracket moved up. If the very
  first size is past the peak, the bracket reaches down to `min_input` and 12 iterations may not
  be enough; `SizedToTolerance` says so (`steps > 0`).
* `SizedToTolerance` and `PeakInBracket` do not hold when the 24 doublings are used up while the
  profit still rises (`Capped`).
* What truncation hides from the normalizer's closed form is a nano of the output, but also up
  to three of the input: one is lost when the input is cut, one when its net is, and net of a fee
  a nano is worth more than one. `NormArbExhausts` therefore allows `Hidden`; the two uneven pools
  of `MCNormOff` need it.
* The router's stop at a 1% score gap loses less than 5% of the output between concave pools; on
  the 1600 pairs no split is below 97%. The last look at the centre is needed for that. (With it,
  95% is close to what can be proved: between a probe at 382 thousandths and the centre the
  bound that concavity gives has its minimum just above it.)
* `RouterDelivers` needs a submission that answers the same call the same way, *and* does not
  offer its whole reserve: a quote may equal the reserve, the execution refuses it
  (`amm.rs:157`), and the trader loses that leg. For a submission that does, only
  `EdgeIsMarkToMarket` is claimed.
* `NoFalseAlarm` needs samples further apart than the merge distance, or a curve of a slope of at
  most `(Uncertainty - 1) / MergeEps` (`Gentle`; 3/4 with the code's 4 and 4): merging keeps the
  higher output at the lower input, and that point lies above the curve. Without either, TLC finds
  a straight line of slope 4 that is punished, sampled at 2, 3, 5 and 9: the second sample lends
  its output to the first, so the first segment seems flatter than the last. X for Y is
  gentle at every price above 4/3; Y for X is not, and relies on the searches not placing two
  samples within four nanos.
* `validate` has no false alarm (`GoodPasses`), but only because its tolerance covers exactly
  what truncation does to a concave curve: one nano. Without it, sound submissions fail.
* `validate` and the simulations check the shape differently, so a submission that passes may
  still panic in a batch (its curve is looked at for ten sizes in one state only).
  `PassIsEarned` states what a pass does exclude. Monotonicity is compared with the size before;
  a zero switches
  the comparison off, but only a run of zeroes at the beginning escapes it.
* The parity check compares totals, so differences of single simulations that cancel go unseen.
  Its second test, of the averages, can never decide.
* The comment at `validate.rs:210` announces a quote after the hook; there is none.
* A simulation has four generators: its parameters (config.rs:94), prices, retail orders and the
  arbitrageur. With a stride of one or two, neighbouring simulations of a batch share generators
  (`StreamsApart` asks for three): with the default of one, the retail flow of simulation `i` and
  the prices of `i + 1` come from equal generators. With any stride the parameters and the prices
  of one simulation do: both start a `Pcg64` with the simulation's own seed. `StreamsApart` states
  both, that different simulations share none and that inside one exactly this pair is shared.
* `AloneSucceeds` holds for a build that finds the half-written file of a killed one because the
  files are compared by content and cargo only trusts a build it finished. Two builds in the
  same directory at once may make each other fail; the next one that is alone recovers.

**Findings.** Three runs show where the code does something else than the repository says:

* `amm_paths`: `run_simulation*` writes the normalizer's fee into its storage; the native build
  reads it there, the BPF build does not, so the two disagree, which `docs/DESIGN.md:63` rules
  out (the CLI avoids it by using the native normalizer with BPF submissions; `run_simulation`
  does not);
* `vm_sdk`: in a native build `set_storage` of the SDK keeps nothing, which is not what
  `README.md:118` promises;
* `cli_statics`: all threads of a native run call the one library of the process, so a
  submission with a static counter scores by how they interleave, and the same command prints
  two totals; `README.md:296` says "Local CLI runs are deterministic for a given config."
  `Reproducible` is what does hold: for submissions without memory, and in BPF for all.

## 4. What is proved

All theorems hold for every value of the constants that the named assumptions allow, in
particular for any `Unit`, `U64Max`, fees, prices, order flows, number of steps, submission and
budget. A hypothesis of a single theorem is named below, with what in the code justifies it.

**Pools and the simulation.**

* **`AmmProof`**: `PoolSafe` (type and floor of a pool) and `PoolTyped`: the pair is inductive as
  it stands, as the checks of `execute_*` restore it, whatever is answered. `HookSeesTheTrade`
  (`HookOncePerTrade`), for every program and hook: a step that moves the submission's reserves is
  a reset or a trade, and after a trade the storage is what one run of the hook makes of the old
  one, told the amounts, the reserves the trade left and the step (`HookTold`); a step that leaves
  the reserves alone leaves the storage alone. `NormalizerNeverLoses` (`KNeverFalls`): if the
  fee of one nano is worth more than the fraction the program does not see (`Deep`), the product
  of the f64 reserves never falls. `CpKeepsProduct` bounds the integer curve (rounding up keeps
  the product), `ProductSurvivesTruncation` carries that over to the reserves with their
  fractions.
* **`EngineProof`** rests on one invariant, `IInv`: types, both pools above the floor, where the
  loop is (`InLoop`), and that of the trades not yet accounted only the first can be the
  submission's (`SubmissionFirst`). Without the last the mark-to-market equation is not
  inductive: `Pending` looks at one trade only. From it follow `SimulationTyped`,
  `ScoreIsMarkToMarket` and, with a submission that answers the same call the same way
  (`PureSubmission`), `ArbProfitable`. `RouterKeepsItsPromise` needs a second invariant,
  `Promise` (the quotes behind the chosen split are still the pools' quotes at each leg, because
  the submission's hook cannot reach the normalizer's pool) and `SolventSubmission`.
  **`SimulationRefinesAmm`** is the refinement: under the mappings `SubPool` and `NormPool` every
  simulation is a behaviour of `Amm`, for both pools at once. Each action is one `Trade`, one
  `SetCurrentStep` or a stutter of each pool; that a trade the checks refuse is a stutter, and
  that its input is an amount, is what `IInv` is needed for. It assumes that every natural is an
  amount (`Amounts = Nat`); the run cuts them.

* **What the closed form leaves** (`EngineProof`, last part). `NormVisitExhausts`: if the
  normalizer's pool is `Ample` when the arbitrageur comes, `NormArbExhausts` holds after its visit;
  `NormArbAlwaysExhausts`: if it is at every visit, it always holds. `Ample` lists what the closed
  form neglects: the program charges the fee the arbitrageur reads, a tenth at most
  (`NormalizerFee = StorageFee`); a nano is little of either reserve, of its fee and of its
  price; the least input is little of the reserve it is paid into; and no amount comes near
  `MAX_INPUT_AMOUNT`, which itself fits a u64 of nanos (`Representable`, arbitrageur.rs:16).
  `OpeningPoolsAmple` shows that every pool a batch starts with is (0.4 to 2 times 100 X and
  10000 Y, 30 to 80 basis points, prices from 10 to 10000), so the hypothesis is met by the
  states the arbitrageur sees; a long price path or large orders could in principle leave it,
  which is why it stays one. The argument, in whole nanos: a plan aims at
  a target of the reserve, an integer root (`NormPlan`, `Optimum`). The trade reaches it up to
  three nanos (`PlanReaches`) and does not pass it, unless its input was raised to the least one
  (`PlanStops`). At the target the marginal price is the fair one up to those nanos, and no
  further trade earns more than `Hidden`, what the nanos are worth (`FlatIsDry`), nor does one
  back (`TradedIsDry`). Where no trade is planned, the price is past the fair one already
  (`SpentIsDry`) or the best profit is below the threshold (`IdleIsDry`).
  `NormVisitEnds` says that the visit always has an
  outcome: the integer root, which the model takes from a bounded set (`Roots`), is always in it
  (`RootExists`, `NormPlansExist`), so none of this holds because the model is stuck.

**Executors.**

* **`VmProof`**: `ContextIsThisRuns` says that a raised flag of the context goes with this run's
  data; it is what makes the answers fresh (`AnswersAreFresh`), the storage the hook's
  (`StorageIsTheHooks`, `HookUpdatesLast`: `BpfHookPersists`), and with `VmTyped` the meter
  sound. `QuotesAreReadOnly` holds of either build.

**Searches.** The curve is any function to the integers.

* **`ArbSearchProof`**, **`RouterSearchProof`**: `ArbTakesBestSample` and `RouterTakesBestSample`
  say that the result is the best of what was sampled, on any curve, concave or not.
* `ArbKeepsThePeak`, `RouterKeepsThePeak` (`PeakInBracket`): on curves with one hump
  (`HumpedCurves`, `HumpedScores`) the peak is never cut off. That each half of the argument
  compares the *right* two probes is not obvious: each iteration keeps one probe of the one
  before, on which the error of the ratio and the rounding have added up, and computes the other
  one afresh. `Low` and `High` are the errors of the two probes, `Probed` says that one of them
  is fresh and the other one at most `Slack`, and `Wide` bounds the bracket from below by a table
  of what is left after each iteration (`Shrunk`). Kept probes swap sides in the worst case with
  their error (`UpProbed`, `DownProbed`), `Roomy` and `InOrder` show that the gap between the
  probes outweighs the slack for all iterations the code takes. The hypotheses are the code's:
  at most 12 and 14 iterations, and a grid (`FineGrid`) far coarser than that of f64s.
* `ArbSizesToTolerance` (`SizedToTolerance`): on concave curves (`ConcaveCurves`), with the code's
  12 iterations and its tolerance of a hundredth (`FinerGrid`), a bracket that moved up is at most
  four times its lower end, `Near` and its table `Closing` bound it from above after each
  iteration, and `TwelveSuffice`; inside the tolerance the lower end, which is sampled, takes 99
  hundredths of the best profit (`LowerEndPays`).
* `RouterLosesLittle` (`LittleIsLost`): between concave pools (`ConcaveScores`) the split taken
  yields 95 hundredths of the best, with the code's constants (`CodeTolerances`, router.rs:15-20)
  and an order of at least `MIN_TRADE_SIZE`. Its four ways to stop come down to two
  (`NarrowOrClose`). A bracket no wider than a twentieth has an end that is good enough
  (`EndsPay`). Two probes within a hundredth of each other are harder: the bracket may still be
  wide, but then it is early (`WideMeansEarly`) and the probes are where they should be, up to
  two thousandths (`Spaced`); if the best split lies outside the probes the nearer one is good
  enough (`OutsideSees`), if it lies between them the centre is (`CenterSees`): the loss is the
  value of a quadratic whose discriminant `Spread` shows not to be positive.
  `ConcaveScores` is about the two curves: that the code quotes a leg below `MIN_TRADE_SIZE` as
  nothing, a thousandth of an X at either end, is left out.

**Shape check.**

* **`ShapeProof`**, for any set of samples: `PassingOutputsRise` (`FallsAreNoise`) turns the
  comparison of neighbours into a statement about any two samples further apart than `MergeEps`,
  with the noise added up on the way. Merged samples count as one with the highest of their
  outputs, so the statement is about the later sample or one within `MergeEps` of it, and about
  the later sample itself when none are merged; `Groups` says which point stands for which
  samples (`MergeGroups`, `CleanedGroups`), and `BetweenCounts` that there are as many samples on
  the way as points. `PassingSlopesFall` (`SteepeningIsNoise`) does the same for slopes, between
  any two wide segments of the merged points. `HonestCurvesPass` (`NoFalseAlarm`): no
  rising and concave curve is punished for truncation, if a nano is tolerated
  (curve_checks.rs:5: four are) and either no two samples are so close that they are merged
  (`Apart`) or the curve is `Gentle`. For the first, cleaning only puts the samples in order
  (`ApartAreKept`) and the chords of the samples are those of the curve but for a nano
  (`ChordsAreNoise`). For the second, a merged sample has the output of an input up to `MergeEps`
  further on (`Lends`), and samples keep that distance (`Lent`, an invariant of the fold:
  `MergeLends`, `CurveCleaned`); so the widths a slope is computed by are off by up to `MergeEps`
  at either end, and `MovedChords` bounds what that makes of a comparison, in each of the four
  directions the ends can have moved in.
  The samples are sorted and merged by folds; the lemmas about what is left of them
  (`SortedIsOrdered`, `ApartAreKept`, `CurveCleaned`) are inductions over `Nat`.

**Batches, commands, builds.**

* **`CliProof`**: for any number of threads, simulations, calls, curves and sizes. `BatchInv`
  says of every batch that what a finished simulation found is what it finds alone
  (`FoundAlone`), and that only a panic drops one (`Deserved`); `BatchesAreMaps` and
  `PanicsAreNotResults` follow. `Control` and `Progress` say what the checks passed so far have
  established, and `Verdicts` that the outcome of a command is a function, `Verdict`, of the
  submission and the command line; hence `CommandsAreReproducible`. `GoodSubmissionsPass` adds
  that truncation costs a concave curve at most one nano (`CutFlattens`) and that rising by a
  nano survives it (`CutRises`), so it assumes `StepTol >= 1` (validate.rs:28: it is 1).
  `PassesAreEarned` (`PassIsEarned`) chains the comparisons over all sizes and uses the theorems
  of `ShapeProof` for the check at run time; it assumes `MergeEps < Delta` and
  `StepTol <= 2 * Uncertainty` (4 < 1000000 and 1 <= 8: validate.rs:27-28, curve_checks.rs:5,8).
  `CommandsTyped` adds up edges, so it assumes that an edge is a number (`WholeEdges`).
  `GeneratorsApart` is arithmetic modulo 2^64, for seeds that are a simulation's own plus at most
  two (`SeedsAreOffsets`).
* **`BuildCacheProof`**: for any number of processes, sources, hashes and builds. The invariant
  has, beside the types, `Named` (a process that was started has a source), `Locked` (cargo's
  lock is held by exactly the process that is in the build), `Recorded` (what cargo takes for
  built is the library of what `lib.rs` holds, or it is being built from that), `Apart` and
  `Mine` (a process that is `alone` shares its directory with nobody, and what it has brought
  about so far), and `Own` (whatever is found in a directory comes from a source with the
  directory's name). From it follow `BuildsTyped`, `LoadsOwn` and `AloneBuildsSucceed`.

**How.** A module of proofs uses another one's lemmas through an instance: `RouterSearchProof`
has `Golden == INSTANCE ArbSearchProof`, `EngineProof` has `Pool == INSTANCE AmmProof`,
`CliProof` an instance of `ShapeProof`; the assumptions of the instance are discharged by a lemma
(`GoldenHolds`, `ShapeHolds`). An induction is the absence of a least counterexample
(`LeastElement`, from the library's `NatLessThanWellFounded`), and a fold is introduced by the
existence of the function it is defined by; the library's induction theorems take an operator and
cannot be used.

**Left to TLC.** Liveness (`Terminates`, `CallsReturn`, `CommandsEnd`, `BuildsEnd`), which is
beyond the prover; and `NormArbExhausts` for pools that are not `Ample`: the optimality of the
closed form then depends on each rounding, and `MCNormOff` checks it on small pools of that kind.

## 5. What is not modelled, and the plan

Not modelled:

* the loader (parsing and verification are `solana_rbpf`'s, once, and the result is immutable);
* the byte layout of payloads: the programs' operators take the fields; the encoders and
  decoders are literal offsets without state;
* the distributions of prices and orders, and the draw of hyperparameters: any price and any
  order of a set may come;
* non-finite numbers and the rounding of f64s;
* search statistics and bench, which no result depends on; the layout of what is printed;
* the starter program (the normalizer's curve with another fee and no hook); the workflow
  scripts;
* the check of a source for `unsafe` and `compute_swap`, an algorithm over syntax trees of other
  crates: its verdict is a constant of `BuildCache`;
* changes of the source between two reads of it, and files of a build directory that others than
  these processes write.

`BpfAmm::reset` is modelled although no production code calls it; the entry points `run_batch`,
`run_default_batch` and `run_default_batch_seeded` likewise, as parameters of `StartBatch`.

The plan followed the weight of what can go wrong: first the score and the pools it is made of
(`Programs`, `AmmOps`, `Amm`, `Arbitrage`, `Routing`, `Engine`, with proofs), then what a call
is (`Vm`, with proofs), then the searches and the check that guards them (`ArbSearch`,
`RouterSearch`, `ShapeCheck`), then what surrounds a simulation (`BatchRunner`, `Validator`,
`Cli`, `BuildCache`, with proofs), and then what the properties had left open: the closed form of
the arbitrageur, and merged samples of the shape check. These exist. Left:

1. Composition of `Vm` with `Amm`: that a pool whose calls take many steps implements `Amm`.
   `VmProof` shows what it would rest on: a call answers with what its own run returned, and only
   a hook changes storage.
2. That a simulation stays `Ample`: it would need bounds on the price path and on the orders,
   which are random in the code.
