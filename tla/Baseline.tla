------------------------------ MODULE Baseline ------------------------------
(***************************************************************************)
(* The evaluation baseline: minirag eval --baseline (cmd/minirag/eval.go)  *)
(* with CompareBaseline, MergeBaseline, LoadBaseline and SaveBaseline of   *)
(* internal/evaluation/evaluation.go.                                      *)
(*                                                                         *)
(* A report has one metric of each kind the code distinguishes: a score,   *)
(* where more is better and 0 means "not measured"; a latency, where less  *)
(* is better and 0 means "not measured"; a number of failures, where less  *)
(* is better and 0 is the best there is.                                   *)
(***************************************************************************)
EXTENDS Integers, FiniteSets

CONSTANTS
    Mode,           \* retrieval modes
    Settings,       \* dataset, pipeline, top-k and candidate-k of a command
    Cases,          \* cases of the dataset
    MaxScore,       \* bounds the scores of a run
    MaxLatency,     \* bounds the latencies of a run, in milliseconds
    Tolerance       \* --regression-tolerance, in percent

ASSUME BaselineAssumption ==
    /\ Cases \in Nat \ {0}
    /\ MaxScore \in Nat /\ MaxLatency \in Nat
    /\ Tolerance \in 0..100

VARIABLES
    file,       \* NoFile, Damaged, or the settings and the reports it holds
    outcome,    \* how the last command ended
    record      \* history: the best of every metric the runs merged so far had

vars == <<file, outcome, record>>

benchmarkMetrics ==
    [score    |-> [lowerIsBetter |-> FALSE, zeroIsValid |-> FALSE],
     latency  |-> [lowerIsBetter |-> TRUE,  zeroIsValid |-> FALSE],
     failures |-> [lowerIsBetter |-> TRUE,  zeroIsValid |-> TRUE]]

Metric == DOMAIN benchmarkMetrics
Report == [score : 0..MaxScore, latency : 0..MaxLatency, failures : 0..Cases]

\* Run averages over the cases it evaluated: with none, the values stay 0.
RunReport == {r \in Report : r.failures = Cases => r.score = 0 /\ r.latency = 0}

\* A command evaluates one mode, or with --mode all every mode.
Comparison == UNION {[M -> RunReport] : M \in {{m} : m \in Mode} \cup {Mode}}

NoReport == [none |-> TRUE]
NoFile   == [state |-> "missing"]
Damaged  == [state |-> "damaged"]
Valid(s, best) == [state |-> "valid", settings |-> s, best |-> best]

NoRecord == [s \in Settings |-> [m \in Mode |-> NoReport]]

Init ==
    /\ file = NoFile
    /\ outcome = [exit |-> "none", regressions |-> {}, worse |-> {}]
    /\ record = NoRecord

-----------------------------------------------------------------------------
(* Comparing and merging one metric x.                                     *)

Beyond(now, limit, x) ==
    IF benchmarkMetrics[x].lowerIsBetter
    THEN 100 * now > limit * (100 + Tolerance)
    ELSE 100 * now < limit * (100 - Tolerance)

\* Faulty variant: a baseline of 0 is never compared with.
RegressedFromSome(now, before, x) == before > 0 /\ Beyond(now, before, x)

\* Faulty variant: a baseline of 0 is always compared with.
RegressedFromAny(now, before, x) == Beyond(now, before, x)

Regressed(now, before, x) ==
    (before > 0 \/ benchmarkMetrics[x].zeroIsValid) /\ Beyond(now, before, x)

\* Faulty variant: the latest value replaces the best.
Differs(now, best, x) == now # best

Improves(now, best, x) ==
    IF benchmarkMetrics[x].lowerIsBetter
    THEN (~benchmarkMetrics[x].zeroIsValid /\ best <= 0) \/ now < best
    ELSE now > best

CompareBaseline(reports, best) ==
    {p \in (DOMAIN reports) \X Metric :
        LET m == p[1]  x == p[2] IN
        best[m] # NoReport /\ Regressed(reports[m][x], best[m][x], x)}

\* Faulty variant: modes the command did not evaluate are dropped.
MergeEvaluated(best, reports) ==
    [m \in Mode |->
        IF m \notin DOMAIN reports THEN NoReport
        ELSE IF best[m] = NoReport THEN reports[m]
        ELSE [x \in Metric |-> IF Improves(reports[m][x], best[m][x], x)
                               THEN reports[m][x] ELSE best[m][x]]]

\* Modes the command did not evaluate keep their report.
MergeBaseline(best, reports) ==
    [m \in Mode |->
        IF m \notin DOMAIN reports THEN best[m]
        ELSE IF best[m] = NoReport THEN reports[m]
        ELSE [x \in Metric |-> IF Improves(reports[m][x], best[m][x], x)
                               THEN reports[m][x] ELSE best[m][x]]]

-----------------------------------------------------------------------------
(* History: the best value each metric ever had, a latency of 0 being none. *)

Better(a, b, x) ==
    IF x = "score" THEN a > b
    ELSE IF x = "failures" THEN a < b
    ELSE a > 0 /\ (b = 0 \/ a < b)

Remembered(s, reports) ==
    [record EXCEPT ![s] =
        [m \in Mode |->
            IF m \notin DOMAIN reports THEN @[m]
            ELSE IF @[m] = NoReport THEN reports[m]
            ELSE [x \in Metric |-> IF Better(reports[m][x], @[m][x], x)
                                   THEN reports[m][x] ELSE @[m][x]]]]

\* Where a run is worse than the record, by more than the tolerance.
WorseThanRecord(s, reports) ==
    {p \in (DOMAIN reports) \X Metric :
        LET m == p[1]  x == p[2] IN
        /\ record[s][m] # NoReport
        /\ record[s][m][x] > 0 \/ x = "failures"
        /\ Beyond(reports[m][x], record[s][m][x], x)}

-----------------------------------------------------------------------------
\* Faulty variant: the settings are not compared.
AnyBaseline(s) == file.state = "valid"

\* LoadBaseline and ValidateBaseline accept the file.
UsableBaseline(s) == file.state = "valid" /\ file.settings = s

\* Faulty variant: a baseline that cannot be loaded is taken for none.
Unreadable == file.state # "valid"

\* Only a file that does not exist is created.
Absent == file = NoFile

Ends(exit, regressions, worse) ==
    outcome' = [exit |-> exit, regressions |-> regressions, worse |-> worse]

Refuses == Ends("error", {}, {}) /\ UNCHANGED <<file, record>>

\* eval --baseline [--fail-on-regression]
CheckBaseline(s, reports, fail) ==
    IF ~UsableBaseline(s) THEN Refuses
    ELSE LET regressions == CompareBaseline(reports, file.best) IN
         /\ Ends(IF fail /\ regressions # {} THEN "regressed" ELSE "passed",
                 regressions, WorseThanRecord(s, reports))
         /\ UNCHANGED <<file, record>>

\* What eval --baseline --update-baseline saves.
Updated(s, reports) ==
    IF Absent
    THEN Valid(s, [m \in Mode |-> IF m \in DOMAIN reports THEN reports[m] ELSE NoReport])
    ELSE Valid(file.settings, MergeBaseline(file.best, reports))

\* --fail-on-regression has no effect with --update-baseline.
UpdateBaseline(s, reports) ==
    IF ~Absent /\ ~UsableBaseline(s) THEN Refuses
    ELSE /\ file' = Updated(s, reports)
         /\ record' = Remembered(s, reports)
         /\ Ends("updated", IF Absent THEN {} ELSE CompareBaseline(reports, file.best),
                 IF Absent THEN {} ELSE WorseThanRecord(s, reports))

\* SaveBaseline truncates the file and writes it in place: a command that is
\* killed in between leaves one that does not decode.
KilledWhileSaving(s) ==
    /\ file = NoFile \/ UsableBaseline(s)
    /\ file' = Damaged
    /\ record' = NoRecord
    /\ Ends("killed", {}, {})

\* Nothing in the code repairs it: the file is removed by hand.
RemoveBaseline ==
    /\ file # NoFile
    /\ file' = NoFile
    /\ record' = NoRecord
    /\ UNCHANGED outcome

Next ==
    \/ \E s \in Settings, reports \in Comparison :
          \/ \E fail \in BOOLEAN : CheckBaseline(s, reports, fail)
          \/ UpdateBaseline(s, reports)
    \/ \E s \in Settings : KilledWhileSaving(s)
    \/ RemoveBaseline

Spec == Init /\ [][Next]_vars

-----------------------------------------------------------------------------
(* Properties.                                                             *)

TypeOK ==
    /\ file \in {NoFile, Damaged} \cup {Valid(s, b) : s \in Settings, b \in [Mode -> Report \cup {NoReport}]}
    /\ outcome \in [exit : {"none", "error", "passed", "regressed", "updated", "killed"},
                    regressions : SUBSET (Mode \X Metric),
                    worse : SUBSET (Mode \X Metric)]
    /\ record \in [Settings -> [Mode -> Report \cup {NoReport}]]

\* The file holds, for every mode, the highest score and the fewest failures
\* of all the runs merged into it, of its own settings only.
KeepsBestScores ==
    file.state = "valid" =>
        \A m \in Mode :
            LET best == file.best[m]  seen == record[file.settings][m] IN
            IF seen = NoReport THEN best = NoReport
            ELSE /\ best # NoReport
                 /\ best.score = seen.score /\ best.failures = seen.failures

\* "MergeBaseline keeps the best observed value for each metric"
\* (evaluation.go:374), for a latency the lowest (README.md:275): the file
\* never holds one above a latency that was measured.  The code violates it.
KeepsLowestLatency ==
    file.state = "valid" =>
        \A m \in Mode :
            LET seen == record[file.settings][m] IN
            seen # NoReport /\ seen.latency > 0 => file.best[m].latency <= seen.latency

\* A file that a killed command left behind is never overwritten nor compared with:
\* every command reports it until somebody removes the file.
DamageIsReported ==
    [][file = Damaged /\ outcome' # outcome => outcome'.exit = "error" /\ file' = Damaged]_vars

\* The check reports exactly what is worse, beyond the tolerance, than the best of
\* the runs merged into the baseline: a run that equals or beats every one of them
\* passes, and one that is worse in a score or in the failures does not.  (A
\* worse latency may be missed, see KeepsLowestLatency.)
GateIsExact ==
    /\ outcome.regressions \subseteq outcome.worse
    /\ \A p \in outcome.worse : p[2] # "latency" => p \in outcome.regressions
=============================================================================
