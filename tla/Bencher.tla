-------------------------------- MODULE Bencher -------------------------------
(* A benchmark's Bencher: how it finds a batch long enough for the page's      *)
(* clock, takes its samples, and publishes the last of its measurements. A     *)
(* report keeps the durations of whole batches, before the division by `iters`.*)
EXTENDS Integers, Sequences, SequencesExt, FiniteSets

CONSTANTS Bodies,      \* what is measured: [kind, cost and cold of an iteration, tick of the clock]
          Durations,   \* what an async routine may say it took
          Target,      \* CALIBRATION_MS
          Samples,     \* SAMPLES
          MaxIters,    \* MAX_ITERS
          MaxCalls     \* bounds the calls of iter

VARIABLES body,        \* what is measured
          state,       \* of the entry point
          n,           \* the size of the batch
          rounds,      \* batches that were too short
          samples,     \* durations taken
          report,      \* Bencher.result
          calls,       \* calls of iter that were begun
          published    \* LAST

vars == <<body, state, n, rounds, samples, report, calls, published>>

Unmeasured == [iters |-> 0, median |-> 0, low |-> 0, high |-> 0]

Init == /\ body \in Bodies
        /\ state = "body" /\ n = 1 /\ rounds = 0 /\ samples = <<>> /\ calls = 0
        /\ report = Unmeasured /\ published = Unmeasured

\* A sync batch is timed by a clock that ticks, and an iteration of a cold body
\* costs more; what an async routine returns is believed.
Elapsed(start, cost) == ((start + cost) \div body.tick - start \div body.tick) * body.tick
Timed == IF body.kind = "async" THEN Durations
         ELSE {Elapsed(start, n * (body.cost + IF rounds = 0 THEN body.cold ELSE 0)) :
                  start \in 0..body.tick - 1}

Iter == /\ state = "body" /\ calls < MaxCalls
        /\ state' = "calibrate" /\ calls' = calls + 1
        /\ n' = 1 /\ rounds' = 0 /\ samples' = <<>>
        /\ UNCHANGED <<body, report, published>>

Least(a, b) == IF a < b THEN a ELSE b
Most(a, b) == IF a < b THEN b ELSE a
\* The next batch is as much longer as the last was too short, within 2 to 64
\* times; where the clock did not move, 16 times.
Growth(ms) == IF ms > 0 THEN Least(64, Most(2, (Target + ms - 1) \div ms)) ELSE 16

Calibrate(ms) ==
    /\ state = "calibrate" /\ ms \in Timed
    /\ IF ms >= Target \/ n >= MaxIters THEN state' = "sample" /\ UNCHANGED <<n, rounds>>
       ELSE /\ n' = Least(MaxIters, n * Growth(ms)) /\ rounds' = rounds + 1
            /\ UNCHANGED state
    /\ UNCHANGED <<body, samples, report, calls, published>>

Summarize(taken) ==
    LET sorted == SortSeq(taken, <)
    IN [iters |-> n, median |-> sorted[(Len(sorted) \div 2) + 1],
        low |-> Head(sorted), high |-> Last(sorted)]

Sample(ms) ==
    LET taken == Append(samples, ms)
    IN /\ state = "sample" /\ ms \in Timed
       /\ samples' = taken
       /\ IF Len(taken) < Samples THEN UNCHANGED <<state, report>>
          ELSE state' = "body" /\ report' = Summarize(taken)
       /\ UNCHANGED <<body, n, rounds, calls, published>>

\* The body returns and its entry publishes the report, an empty one if it never
\* measured; or it panics, and nothing is published.
Record == /\ state = "body" /\ state' = "recorded" /\ published' = report
          /\ UNCHANGED <<body, n, rounds, samples, report, calls>>
Panic == /\ state \in {"body", "calibrate", "sample"} /\ state' = "trapped"
         /\ UNCHANGED <<body, n, rounds, samples, report, calls, published>>

Next == \/ Iter \/ Record \/ Panic
        \/ \E ms \in Timed : Calibrate(ms) \/ Sample(ms)
Spec == Init /\ [][Next]_vars
-----------------------------------------------------------------------------
\* Calibration ends: whatever the readings are, every round doubles the batch at
\* least, up to the largest.
CalibrationEnds == n \in 1..MaxIters /\ (2 ^ rounds <= n \/ n = MaxIters)

\* The batch that is sampled is long enough for the target to lie within one tick
\* of it, and not much longer: four times the target, or sixteen ticks, unless a
\* single iteration is.
BatchFits ==
    state = "sample" /\ body.kind = "sync" =>
        /\ body.cold = 0 => n * body.cost > Target - body.tick \/ n = MaxIters
        /\ n = 1 \/ n * body.cost <= Most(4 * Target, 16 * body.tick)

\* What is published is a measurement of the last call of iter: half its samples
\* are no longer than the median and half no shorter. A benchmark that did not
\* measure, or did not return, publishes none.
PublishedIsMeasured ==
    IF state # "recorded" \/ calls = 0 THEN published = Unmeasured
    ELSE LET at(P(_)) == Cardinality({i \in DOMAIN samples : P(samples[i])})
         IN /\ published.iters = n /\ Len(samples) = Samples
            /\ 2 * at(LAMBDA ms : ms <= published.median) >= Samples
            /\ 2 * at(LAMBDA ms : ms >= published.median) >= Samples
            /\ at(LAMBDA ms : ms < published.low \/ ms > published.high) = 0

BenchExact == CalibrationEnds /\ BatchFits /\ PublishedIsMeasured
=============================================================================
