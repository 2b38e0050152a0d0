------------------------------- MODULE MCCli -------------------------------
(* Commands run twice on submissions that keep the rules or break one of them. *)
EXTENDS Cli

MCSizes == <<2, 5, 9>>
MCInputs == {2, 3, 4, 5, 6, 7, 9, 10, 11}

(* Curves with a knee, concave or not, in tenths of a nano. *)
Knee(k, first, then) ==
    [x \in MCInputs |-> IF x <= k THEN first * x ELSE first * k + then * (x - k)]
Slopes == {0, 7, 10, 13}
MCCurves == {Knee(k, first, then) : k \in {1, 4}, first \in Slopes, then \in Slopes}

Fair == Knee(4, 29, 13)
Both(c) == [d \in {BUY, SELL} |-> c]

Sound == [remembers |-> FALSE, misshapen |-> {}, metadata |-> TRUE, compiles |-> Builds,
          errs |-> {}, fails |-> {}, curve |-> Both(Fair), wobble |-> 0, drift |-> 0]

OneSided(s, c) == [Sound EXCEPT !.curve = [d \in {BUY, SELL} |-> IF d = s THEN c ELSE Fair]]
Shaped ==
    {OneSided(BUY, c) : c \in MCCurves} \cup {OneSided(SELL, Knee(5, 13, t)) : t \in Slopes}
Broken ==
    {[Sound EXCEPT !.metadata = FALSE], [Sound EXCEPT !.compiles = {"native"}],
     [Sound EXCEPT !.compiles = {"bpf"}], [Sound EXCEPT !.fails = {"hook"}],
     [Sound EXCEPT !.fails = {"random"}]}
        \cup {[Sound EXCEPT !.errs = {x}] : x \in {2, 5, 9, 10}}
Scored ==
    {[Sound EXCEPT !.drift = d] : d \in {-1, 0, 1}}
        \cup {[Sound EXCEPT !.remembers = TRUE, !.wobble = 1]}
        \cup {[Sound EXCEPT !.remembers = r, !.misshapen = m] :
                  r \in BOOLEAN, m \in {{}, {2}, {1, 3}, {2, 3}}}

MCSubmissions == Shaped \cup Broken \cup Scored

RunLine(b, p, start, stride) ==
    [name |-> "run", bpf |-> b, prebuilt |-> p, seed_start |-> start, seed_stride |-> stride]
RunLines ==
    {RunLine(FALSE, FALSE, 12, 3), RunLine(FALSE, FALSE, 0, 0), RunLine(TRUE, TRUE, 1, 5)}
MCSessions ==
    (MCSubmissions \X {[name |-> "validate"]})
        \cup (Broken \X {[name |-> "build"], RunLine(TRUE, FALSE, 0, 1)})
        \cup (Scored \X RunLines)

(* The default run of a submission with a static counter. *)
StaticSubmissions == {[Sound EXCEPT !.remembers = TRUE]}
StaticSessions == StaticSubmissions \X {RunLine(FALSE, FALSE, 0, 1)}

(* A quote is worth more to a simulation the later it is asked for. *)
MCEdge(s, is_native, seed, found) ==
    FoldLeft(LAMBDA sum, k : sum + k * (1 + found[k]), seed, [k \in DOMAIN found |-> k])
        + IF is_native THEN s.drift ELSE 0
=============================================================================
