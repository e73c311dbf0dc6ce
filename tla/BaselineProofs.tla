--------------------------- MODULE BaselineProofs ---------------------------
(***************************************************************************)
(* What Baseline promises for every set of modes and settings, every range *)
(* of scores and latencies, and every tolerance.                           *)
(***************************************************************************)
EXTENDS Baseline, TLAPS

-----------------------------------------------------------------------------
(* The inductive invariant.                                                *)

\* A report of the file against the best the merged runs had: the same score and
\* failures; its latency, if it has one, is one of theirs, though not always the
\* lowest (see KeepsLowestLatency).
Stands(best, seen) ==
    \/ best = NoReport /\ seen = NoReport
    \/ /\ best \in Report /\ seen \in Report
       /\ best.score = seen.score /\ best.failures = seen.failures
       /\ best.latency > 0 => 0 < seen.latency /\ seen.latency <= best.latency

FileStands ==
    /\ file = NoFile => record = NoRecord
    /\ file.state = "valid" => \A m \in Mode : Stands(file.best[m], record[file.settings][m])

IInv == TypeOK /\ FileStands /\ GateIsExact

-----------------------------------------------------------------------------
(* Reports and files.                                                      *)

LEMMA Metrics == Metric = {"score", "latency", "failures"}
BY DEF Metric, benchmarkMetrics

LEMMA NoReportIsNone == NoReport \notin Report
BY DEF NoReport, Report

\* A report is what it says of each metric.
LEMMA ReportFields ==
    ASSUME NEW r \in Report
    PROVE  /\ r["score"] = r.score /\ r["latency"] = r.latency /\ r["failures"] = r.failures
           /\ r.score \in Nat /\ r.latency \in Nat /\ r.failures \in Nat
BY BaselineAssumption DEF Report

\* The three states of the file exclude each other.
LEMMA Files ==
    ASSUME NEW s, NEW best
    PROVE  /\ NoFile # Damaged /\ Valid(s, best) # NoFile /\ Valid(s, best) # Damaged
           /\ NoFile.state # "valid" /\ Damaged.state # "valid"
           /\ Valid(s, best).state = "valid"
           /\ Valid(s, best).settings = s /\ Valid(s, best).best = best
BY DEF NoFile, Damaged, Valid

\* A file that can be used holds reports.
LEMMA ValidFile ==
    ASSUME TypeOK, file.state = "valid"
    PROVE  /\ file.settings \in Settings /\ file.best \in [Mode -> Report \cup {NoReport}]
           /\ file = Valid(file.settings, file.best)
           /\ file # NoFile /\ file # Damaged
<1>1. PICK s \in Settings, b \in [Mode -> Report \cup {NoReport}] : file = Valid(s, b)
  BY Files DEF TypeOK
<1>. QED
  BY <1>1, Files

\* A command evaluates modes, and each has a report.
LEMMA Evaluated ==
    ASSUME NEW reports \in Comparison
    PROVE  DOMAIN reports \subseteq Mode /\ \A m \in DOMAIN reports : reports[m] \in Report
<1>1. PICK M \in {{m} : m \in Mode} \cup {Mode} : reports \in [M -> RunReport]
  BY DEF Comparison
<1>. QED
  BY <1>1 DEF RunReport

-----------------------------------------------------------------------------
(* Merging.                                                                *)

\* What MergeBaseline makes of one report, and the history of the best.
Merged(now, best) ==
    [x \in Metric |-> IF Improves(now[x], best[x], x) THEN now[x] ELSE best[x]]
Best(now, seen) ==
    [x \in Metric |-> IF Better(now[x], seen[x], x) THEN now[x] ELSE seen[x]]

LEMMA MergedFields ==
    ASSUME NEW now \in Report, NEW best \in Report
    PROVE  /\ Merged(now, best) \in Report
           /\ Merged(now, best).score = IF now.score > best.score THEN now.score ELSE best.score
           /\ Merged(now, best).failures =
                IF now.failures < best.failures THEN now.failures ELSE best.failures
           /\ Merged(now, best).latency =
                IF best.latency <= 0 \/ now.latency < best.latency
                THEN now.latency ELSE best.latency
<1>1. /\ Improves(now.score, best.score, "score") <=> now.score > best.score
      /\ Improves(now.failures, best.failures, "failures") <=> now.failures < best.failures
      /\ Improves(now.latency, best.latency, "latency") <=>
            best.latency <= 0 \/ now.latency < best.latency
  BY DEF Improves, benchmarkMetrics
<1>2. /\ Merged(now, best)["score"] = IF now.score > best.score THEN now.score ELSE best.score
      /\ Merged(now, best)["failures"] =
            IF now.failures < best.failures THEN now.failures ELSE best.failures
      /\ Merged(now, best)["latency"] = IF best.latency <= 0 \/ now.latency < best.latency
                                        THEN now.latency ELSE best.latency
  BY <1>1, Metrics, ReportFields DEF Merged
<1>3. Merged(now, best) \in Report
  BY <1>2, Metrics DEF Merged, Report
<1>. QED
  BY <1>2, <1>3, ReportFields

LEMMA BestFields ==
    ASSUME NEW now \in Report, NEW seen \in Report
    PROVE  /\ Best(now, seen) \in Report
           /\ Best(now, seen).score = IF now.score > seen.score THEN now.score ELSE seen.score
           /\ Best(now, seen).failures =
                IF now.failures < seen.failures THEN now.failures ELSE seen.failures
           /\ Best(now, seen).latency =
                IF now.latency > 0 /\ (seen.latency = 0 \/ now.latency < seen.latency)
                THEN now.latency ELSE seen.latency
<1>1. /\ Best(now, seen)["score"] = IF now.score > seen.score THEN now.score ELSE seen.score
      /\ Best(now, seen)["failures"] =
            IF now.failures < seen.failures THEN now.failures ELSE seen.failures
      /\ Best(now, seen)["latency"] =
            IF now.latency > 0 /\ (seen.latency = 0 \/ now.latency < seen.latency)
            THEN now.latency ELSE seen.latency
  BY Metrics, ReportFields DEF Best, Better
<1>2. Best(now, seen) \in Report
  BY <1>1, Metrics DEF Best, Report
<1>. QED
  BY <1>1, <1>2, ReportFields

\* Merging a run into a report that stands leaves one that stands.
LEMMA MergeStands ==
    ASSUME NEW now \in Report, NEW best \in Report, NEW seen \in Report, Stands(best, seen)
    PROVE  Stands(Merged(now, best), Best(now, seen))
<1>1. /\ best.score = seen.score /\ best.failures = seen.failures
      /\ best.latency > 0 => 0 < seen.latency /\ seen.latency <= best.latency
  BY NoReportIsNone DEF Stands
<1>2. /\ now.latency \in Nat /\ best.latency \in Nat /\ seen.latency \in Nat
  BY ReportFields
<1>. DEFINE merged == Merged(now, best)  top == Best(now, seen)
<1>3. /\ merged \in Report
      /\ merged.score = IF now.score > best.score THEN now.score ELSE best.score
      /\ merged.failures = IF now.failures < best.failures THEN now.failures ELSE best.failures
      /\ merged.latency = IF best.latency <= 0 \/ now.latency < best.latency
                          THEN now.latency ELSE best.latency
  BY MergedFields
<1>4. /\ top \in Report
      /\ top.score = IF now.score > seen.score THEN now.score ELSE seen.score
      /\ top.failures = IF now.failures < seen.failures THEN now.failures ELSE seen.failures
      /\ top.latency = IF now.latency > 0 /\ (seen.latency = 0 \/ now.latency < seen.latency)
                       THEN now.latency ELSE seen.latency
  BY BestFields
<1>. HIDE DEF merged, top
<1>5. merged.score = top.score /\ merged.failures = top.failures
  BY <1>1, <1>3, <1>4
<1>6. merged.latency > 0 => 0 < top.latency /\ top.latency <= merged.latency
  BY <1>1, <1>2, <1>3, <1>4
<1>. QED
  BY <1>3, <1>4, <1>5, <1>6 DEF Stands, merged, top

-----------------------------------------------------------------------------
(* Comparing.                                                              *)

\* What lies beyond a lower limit lies beyond a higher one.
LEMMA BeyondIsMonotone ==
    ASSUME NEW now \in Nat, NEW high \in Nat, NEW low \in Nat, low <= high,
           Beyond(now, high, "latency")
    PROVE  Beyond(now, low, "latency")
<1>1. low * (100 + Tolerance) <= high * (100 + Tolerance)
  BY BaselineAssumption
<1>2. /\ low * (100 + Tolerance) \in Nat /\ high * (100 + Tolerance) \in Nat
      /\ 100 * now \in Nat
  BY BaselineAssumption
<1>. QED
  BY <1>1, <1>2 DEF Beyond, benchmarkMetrics

\* The comparison with a file that stands, and that with the record.
LEMMA ComparisonIsExact ==
    ASSUME TypeOK, FileStands, file.state = "valid", NEW reports \in Comparison
    PROVE  LET regressions == CompareBaseline(reports, file.best)
               worse       == WorseThanRecord(file.settings, reports) IN
           /\ regressions \subseteq worse
           /\ \A p \in worse : p[2] # "latency" => p \in regressions
           /\ regressions \subseteq Mode \X Metric /\ worse \subseteq Mode \X Metric
<1>. DEFINE s           == file.settings
            regressions == CompareBaseline(reports, file.best)
            worse       == WorseThanRecord(s, reports)
<1>1. ASSUME NEW p \in (DOMAIN reports) \X Metric
      PROVE  /\ p \in regressions => p \in worse
             /\ p \in worse /\ p[2] # "latency" => p \in regressions
  <2>. DEFINE m == p[1]  x == p[2]  now == reports[m]
              best == file.best[m]  seen == record[s][m]
  <2>1. m \in Mode /\ now \in Report /\ x \in {"score", "latency", "failures"}
    BY Evaluated, Metrics
  <2>2. Stands(best, seen)
    BY <2>1 DEF FileStands
  <2>3. p \in regressions <=> best # NoReport /\ Regressed(now[x], best[x], x)
    BY DEF CompareBaseline
  <2>4. p \in worse <=> /\ seen # NoReport
                        /\ seen[x] > 0 \/ x = "failures"
                        /\ Beyond(now[x], seen[x], x)
    BY DEF WorseThanRecord
  <2>5. CASE best = NoReport /\ seen = NoReport
    BY <2>3, <2>4, <2>5
  <2>6. CASE best \in Report /\ seen \in Report
    <3>1. /\ best # NoReport /\ seen # NoReport
          /\ best.score = seen.score /\ best.failures = seen.failures
          /\ best.latency > 0 => 0 < seen.latency /\ seen.latency <= best.latency
      BY <2>2, <2>6, NoReportIsNone DEF Stands
    <3>2. CASE x = "latency"
      <4>1. now[x] \in Nat /\ best[x] = best.latency /\ seen[x] = seen.latency
            /\ best[x] \in Nat /\ seen[x] \in Nat
        BY <2>1, <2>6, <3>2, ReportFields
      <4>2. Regressed(now[x], best[x], x) => best[x] > 0 /\ Beyond(now[x], best[x], x)
        BY <3>2 DEF Regressed, benchmarkMetrics
      <4>3. best[x] > 0 => seen[x] > 0 /\ seen[x] <= best[x]
        BY <3>1, <4>1
      <4>4. best[x] > 0 /\ Beyond(now[x], best[x], x) => Beyond(now[x], seen[x], x)
        BY <3>2, <4>1, <4>3, BeyondIsMonotone
      <4>. QED
        BY <2>3, <2>4, <3>1, <3>2, <4>2, <4>3, <4>4
    <3>3. CASE x = "score" \/ x = "failures"
      <4>1. best[x] = seen[x] /\ best[x] \in Nat
        BY <2>6, <3>1, <3>3, ReportFields
      <4>2. Regressed(now[x], best[x], x) <=>
              (best[x] > 0 \/ x = "failures") /\ Beyond(now[x], best[x], x)
        BY <3>3 DEF Regressed, benchmarkMetrics
      <4>. QED
        BY <2>3, <2>4, <3>1, <4>1, <4>2
    <3>. QED
      BY <2>1, <3>2, <3>3
  <2>. QED
    BY <2>2, <2>5, <2>6 DEF Stands
<1>2. regressions \subseteq (DOMAIN reports) \X Metric /\ worse \subseteq (DOMAIN reports) \X Metric
  BY DEF CompareBaseline, WorseThanRecord
<1>3. DOMAIN reports \subseteq Mode
  BY Evaluated
<1>. QED
  BY <1>1, <1>2, <1>3

-----------------------------------------------------------------------------
(* The steps.                                                              *)

\* A command that refuses, or is killed, compares nothing.
LEMMA EndsQuietly ==
    ASSUME NEW exit \in {"error", "killed"}, Ends(exit, {}, {})
    PROVE  /\ outcome' \in [exit : {"none", "error", "passed", "regressed", "updated", "killed"},
                            regressions : SUBSET (Mode \X Metric),
                            worse : SUBSET (Mode \X Metric)]
           /\ GateIsExact'
BY DEF Ends, GateIsExact

\* What a comparison ends with.
LEMMA EndsCompared ==
    ASSUME NEW exit \in {"passed", "regressed", "updated"},
           NEW regressions \in SUBSET (Mode \X Metric), NEW worse \in SUBSET (Mode \X Metric),
           regressions \subseteq worse,
           \A p \in worse : p[2] # "latency" => p \in regressions,
           Ends(exit, regressions, worse)
    PROVE  /\ outcome' \in [exit : {"none", "error", "passed", "regressed", "updated", "killed"},
                            regressions : SUBSET (Mode \X Metric),
                            worse : SUBSET (Mode \X Metric)]
           /\ GateIsExact'
BY DEF Ends, GateIsExact

\* What is saved stands against the history: of a first run, or of a merged one.
LEMMA UpdateStands ==
    ASSUME TypeOK, FileStands, NEW s \in Settings, NEW reports \in Comparison,
           Absent \/ UsableBaseline(s), file' = Updated(s, reports),
           record' = Remembered(s, reports)
    PROVE  /\ file' \in {NoFile, Damaged} \cup
                {Valid(t, b) : t \in Settings, b \in [Mode -> Report \cup {NoReport}]}
           /\ record' \in [Settings -> [Mode -> Report \cup {NoReport}]]
           /\ FileStands'
<1>. DEFINE old == record[s]
            new == [m \in Mode |->
                      IF m \notin DOMAIN reports THEN old[m]
                      ELSE IF old[m] = NoReport THEN reports[m]
                      ELSE Best(reports[m], old[m])]
<1>1. old \in [Mode -> Report \cup {NoReport}]
  BY DEF TypeOK
<1>2. record' = [record EXCEPT ![s] = new]
  BY DEF Remembered, Best
<1>3. \A m \in Mode : new[m] \in Report \cup {NoReport}
  BY <1>1, Evaluated, BestFields
<1>4. record' \in [Settings -> [Mode -> Report \cup {NoReport}]] /\ record'[s] = new
  BY <1>2, <1>3 DEF TypeOK
<1>5. ASSUME NEW best \in [Mode -> Report \cup {NoReport}], file' = Valid(s, best),
             \A m \in Mode : Stands(best[m], new[m])
      PROVE  /\ file' \in {NoFile, Damaged} \cup
                  {Valid(t, b) : t \in Settings, b \in [Mode -> Report \cup {NoReport}]}
             /\ FileStands'
  BY <1>4, <1>5, Files DEF FileStands
<1>6. CASE Absent
  <2>. DEFINE best == [m \in Mode |-> IF m \in DOMAIN reports THEN reports[m] ELSE NoReport]
  <2>1. file' = Valid(s, best) /\ best \in [Mode -> Report \cup {NoReport}]
    BY <1>6, Evaluated DEF Updated
  <2>2. \A m \in Mode : old[m] = NoReport
    BY <1>6 DEF Absent, FileStands, NoRecord
  <2>3. ASSUME NEW m \in Mode PROVE Stands(best[m], new[m])
    <3>1. CASE m \in DOMAIN reports
      <4>1. best[m] = reports[m] /\ new[m] = reports[m] /\ reports[m] \in Report
        BY <2>2, <3>1, Evaluated
      <4>2. reports[m].latency \in Nat
        BY <4>1, ReportFields
      <4>. QED
        BY <4>1, <4>2 DEF Stands
    <3>2. CASE m \notin DOMAIN reports
      BY <2>2, <3>2 DEF Stands
    <3>. QED
      BY <3>1, <3>2
  <2>. HIDE DEF best, new
  <2>. QED
    BY <1>4, <1>5, <2>1, <2>3
<1>7. CASE UsableBaseline(s)
  <2>. DEFINE best == MergeBaseline(file.best, reports)
  <2>1. /\ file.best \in [Mode -> Report \cup {NoReport}] /\ file.settings = s /\ ~Absent
        /\ file.state = "valid"
    BY <1>7, ValidFile DEF UsableBaseline, Absent
  <2>2. file' = Valid(s, best)
    BY <2>1 DEF Updated
  <2>3. best = [m \in Mode |->
                  IF m \notin DOMAIN reports THEN file.best[m]
                  ELSE IF file.best[m] = NoReport THEN reports[m]
                  ELSE Merged(reports[m], file.best[m])]
    BY DEF MergeBaseline, Merged
  <2>4. best \in [Mode -> Report \cup {NoReport}]
    <3>1. \A m \in Mode : best[m] \in Report \cup {NoReport}
      BY <2>1, <2>3, Evaluated, MergedFields
    <3>. QED
      BY <2>3, <3>1
  <2>5. ASSUME NEW m \in Mode PROVE Stands(best[m], new[m])
    <3>1. Stands(file.best[m], old[m])
      BY <2>1 DEF FileStands
    <3>2. CASE m \notin DOMAIN reports
      BY <2>3, <3>1, <3>2
    <3>3. CASE m \in DOMAIN reports /\ file.best[m] = NoReport
      <4>1. old[m] = NoReport
        BY <3>1, <3>3, NoReportIsNone DEF Stands
      <4>2. best[m] = reports[m] /\ new[m] = reports[m] /\ reports[m] \in Report
        BY <2>3, <3>3, <4>1, Evaluated
      <4>3. reports[m].latency \in Nat
        BY <4>2, ReportFields
      <4>. QED
        BY <4>2, <4>3 DEF Stands
    <3>4. CASE m \in DOMAIN reports /\ file.best[m] # NoReport
      <4>1. file.best[m] \in Report /\ old[m] \in Report /\ old[m] # NoReport
        BY <3>1, <3>4, NoReportIsNone DEF Stands
      <4>2. reports[m] \in Report
        BY <3>4, Evaluated
      <4>3. best[m] = Merged(reports[m], file.best[m]) /\ new[m] = Best(reports[m], old[m])
        BY <2>3, <3>4, <4>1
      <4>. QED
        BY <3>1, <4>1, <4>2, <4>3, MergeStands
    <3>. QED
      BY <3>2, <3>3, <3>4
  <2>. HIDE DEF best, new
  <2>. QED
    BY <1>4, <1>5, <2>2, <2>4, <2>5
<1>. QED
  BY <1>4, <1>6, <1>7

\* Every command, and the removal of the file, keep the invariant.
LEMMA NextKeeps ==
    ASSUME IInv, [Next]_vars
    PROVE  IInv'
<1>1. ASSUME NEW s \in Settings, NEW reports \in Comparison, NEW fail \in BOOLEAN,
             CheckBaseline(s, reports, fail)
      PROVE  IInv'
  <2>1. CASE UsableBaseline(s)
    <3>. DEFINE regressions == CompareBaseline(reports, file.best)
                worse       == WorseThanRecord(s, reports)
                exit        == IF fail /\ regressions # {} THEN "regressed" ELSE "passed"
    <3>1. UNCHANGED <<file, record>> /\ Ends(exit, regressions, worse)
      BY <1>1, <2>1 DEF CheckBaseline
    <3>2. /\ regressions \subseteq worse
          /\ \A p \in worse : p[2] # "latency" => p \in regressions
          /\ regressions \subseteq Mode \X Metric /\ worse \subseteq Mode \X Metric
      BY <2>1, ComparisonIsExact DEF UsableBaseline, IInv
    <3>3. exit \in {"passed", "regressed", "updated"}
      OBVIOUS
    <3>. HIDE DEF regressions, worse, exit
    <3>. QED
      BY <3>1, <3>2, <3>3, EndsCompared DEF IInv, TypeOK, FileStands
  <2>2. CASE ~UsableBaseline(s)
    BY <1>1, <2>2, EndsQuietly DEF CheckBaseline, Refuses, IInv, TypeOK, FileStands
  <2>. QED
    BY <2>1, <2>2
<1>2. ASSUME NEW s \in Settings, NEW reports \in Comparison, UpdateBaseline(s, reports)
      PROVE  IInv'
  <2>1. CASE Absent \/ UsableBaseline(s)
    <3>. DEFINE regressions == IF Absent THEN {} ELSE CompareBaseline(reports, file.best)
                worse       == IF Absent THEN {} ELSE WorseThanRecord(s, reports)
    <3>1. /\ file' = Updated(s, reports) /\ record' = Remembered(s, reports)
          /\ Ends("updated", regressions, worse)
      BY <1>2, <2>1 DEF UpdateBaseline
    <3>2. /\ regressions \subseteq worse
          /\ \A p \in worse : p[2] # "latency" => p \in regressions
          /\ regressions \subseteq Mode \X Metric /\ worse \subseteq Mode \X Metric
      BY <2>1, ComparisonIsExact DEF UsableBaseline, IInv
    <3>. HIDE DEF regressions, worse
    <3>. QED
      BY <2>1, <3>1, <3>2, EndsCompared, UpdateStands DEF IInv, TypeOK
  <2>2. CASE ~(Absent \/ UsableBaseline(s))
    BY <1>2, <2>2, EndsQuietly DEF UpdateBaseline, Refuses, IInv, TypeOK, FileStands
  <2>. QED
    BY <2>1, <2>2
<1>3. NoRecord \in [Settings -> [Mode -> Report \cup {NoReport}]]
  BY DEF NoRecord
<1>4. ASSUME file' \in {NoFile, Damaged}, record' = NoRecord
      PROVE  /\ file' \in {NoFile, Damaged} \cup
                  {Valid(t, b) : t \in Settings, b \in [Mode -> Report \cup {NoReport}]}
             /\ record' \in [Settings -> [Mode -> Report \cup {NoReport}]]
             /\ FileStands'
  BY <1>3, <1>4 DEF FileStands, NoFile, Damaged
<1>5. ASSUME NEW s \in Settings, KilledWhileSaving(s) PROVE IInv'
  <2>1. file' \in {NoFile, Damaged} /\ record' = NoRecord /\ Ends("killed", {}, {})
    BY <1>5 DEF KilledWhileSaving
  <2>. QED
    BY <1>4, <2>1, EndsQuietly DEF IInv, TypeOK
<1>6. CASE RemoveBaseline
  <2>1. file' \in {NoFile, Damaged} /\ record' = NoRecord /\ UNCHANGED outcome
    BY <1>6 DEF RemoveBaseline
  <2>. QED
    BY <1>4, <2>1 DEF IInv, TypeOK, GateIsExact
<1>7. CASE UNCHANGED vars
  BY <1>7 DEF vars, IInv, TypeOK, FileStands, GateIsExact
<1>. QED
  BY <1>1, <1>2, <1>5, <1>6, <1>7 DEF Next

-----------------------------------------------------------------------------
(* The theorems.                                                           *)

\* The inductive invariant holds in every reachable state.
THEOREM Invariant == Spec => []IInv
<1>1. Init => IInv
  BY Files DEF Init, IInv, TypeOK, FileStands, GateIsExact, NoRecord
<1>2. IInv /\ [Next]_vars => IInv'
  BY NextKeeps
<1>. QED
  BY <1>1, <1>2, PTL DEF Spec

\* Every variable keeps its type.
THEOREM TypeCorrect == Spec => []TypeOK
<1>1. IInv => TypeOK
  BY DEF IInv
<1>. QED
  BY <1>1, Invariant, PTL

\* The file has the best scores and the fewest failures of the runs merged into it.
THEOREM BestScoresAreKept == Spec => []KeepsBestScores
<1>1. IInv => KeepsBestScores
  <2>. SUFFICES ASSUME IInv, file.state = "valid", NEW m \in Mode
                PROVE  LET best == file.best[m]  seen == record[file.settings][m] IN
                       IF seen = NoReport THEN best = NoReport
                       ELSE /\ best # NoReport
                            /\ best.score = seen.score /\ best.failures = seen.failures
    BY DEF KeepsBestScores
  <2>1. Stands(file.best[m], record[file.settings][m])
    BY DEF IInv, FileStands
  <2>. QED
    BY <2>1, NoReportIsNone DEF Stands
<1>. QED
  BY <1>1, Invariant, PTL

\* The gate reports exactly the scores and failures that are worse than the best of
\* the merged runs, and no latency that is not.
THEOREM GateCorrect == Spec => []GateIsExact
<1>1. IInv => GateIsExact
  BY DEF IInv
<1>. QED
  BY <1>1, Invariant, PTL

\* A damaged file is reported by every command, and left alone.
THEOREM DamageStaysReported == Spec => DamageIsReported
<1>1. ASSUME [Next]_vars, file = Damaged, outcome' # outcome
      PROVE  outcome'.exit = "error" /\ file' = Damaged
  <2>1. ~Absent /\ \A s \in Settings : ~UsableBaseline(s)
    BY <1>1, Files DEF Absent, UsableBaseline
  <2>2. ASSUME Refuses PROVE outcome'.exit = "error" /\ file' = Damaged
    BY <1>1, <2>2 DEF Refuses, Ends
  <2>3. ASSUME NEW s \in Settings, NEW reports \in Comparison, NEW fail \in BOOLEAN,
               CheckBaseline(s, reports, fail) \/ UpdateBaseline(s, reports)
        PROVE  outcome'.exit = "error" /\ file' = Damaged
    BY <2>1, <2>2, <2>3 DEF CheckBaseline, UpdateBaseline
  <2>4. ASSUME NEW s \in Settings PROVE ~KilledWhileSaving(s)
    BY <1>1, <2>1, Files DEF KilledWhileSaving
  <2>5. ~RemoveBaseline /\ ~UNCHANGED vars
    BY <1>1 DEF RemoveBaseline, vars
  <2>. QED
    BY <1>1, <2>3, <2>4, <2>5 DEF Next
<1>2. [Next]_vars => (file = Damaged /\ outcome' # outcome =>
                        outcome'.exit = "error" /\ file' = Damaged)
  BY <1>1
<1>. QED
  BY <1>2, PTL DEF Spec, DamageIsReported
=============================================================================
