------------------------------ MODULE TelecomKpi ------------------------------
(***************************************************************************)
(* ci/telecom_kpi.py and telecom_pmxml.py: one declared threshold over the *)
(* cells of a metrics file, with or without a baseline file.  A cell's row *)
(* is a ratio with its denominator (json, csv), a bare value (openmetrics) *)
(* or raw counters from which the ratio is derived (pmxml).  Ratios are in *)
(* percent; the model's denominators divide 100.                           *)
(***************************************************************************)
EXTENDS Integers, Sequences, FiniteSets, SequencesExt, FiniteSetsExt

CONSTANTS Files,        \* metrics files: [fmt, blank, rows], rows a function from cells to rows
          Baselines,    \* files, and NoFile
          Thresholds,   \* [min, max, delta, floor, agg, direction, severity]
          NoFile, None  \* a bound that is not declared

VARIABLE kpi

\* A row of raw counters is [num, den, suspect], by subcounter; <<>> for a
\* counter that is absent.
\* A row that states a value; None for what is not a finite number.
Stated_(value, n) == [value |-> value, n |-> n]

Total(s) == FoldSeq(LAMBDA a, b : a + b, 0, s)

-----------------------------------------------------------------------------
(* From a file to the samples of the threshold's KPI.                      *)

\* Impossible counters give no sample; nothing attempted, or a suspect
\* counter, gives one with no attempts behind it.
derive_kpis(r) ==
  IF r.den = <<>> \/ Total(r.num) > Total(r.den)
     \/ \E s \in {r.num, r.den} : \E i \in DOMAIN s : s[i] < 0
    THEN {}
  ELSE {[value |-> IF Total(r.den) = 0 THEN 0 ELSE (100 * Total(r.num)) \div Total(r.den),
         samples |-> IF r.suspect THEN 0 ELSE Total(r.den)]}

_samples(n) == IF n = None \/ n < 0 THEN 0 ELSE n

Parsed(fmt, r) ==
  CASE fmt = "pmxml" -> derive_kpis(r)
    [] r.value = None -> {}
    [] fmt = "openmetrics" -> {[value |-> r.value, samples |-> 0]}
    [] OTHER -> {[value |-> r.value, samples |-> _samples(r.n)]}

\* A function from the cells that have a sample to it.
parse_frame(f) ==
  IF f = NoFile THEN <<>>
  ELSE [c \in {c \in DOMAIN f.rows : Parsed(f.fmt, f.rows[c]) # {}} |->
          CHOOSE s \in Parsed(f.fmt, f.rows[c]) : TRUE]

\* Nothing at all was read of a file that is not blank, be it a header alone.
\* Raw counters are samples as well, under their own names.
ZeroSamples(f) ==
  /\ ~f.blank
  /\ \A c \in DOMAIN f.rows :
       IF f.fmt = "pmxml" THEN f.rows[c].num = <<>> /\ f.rows[c].den = <<>> ELSE f.rows[c].value = None

-----------------------------------------------------------------------------
(* evaluate_kpis.                                                          *)

Values(frame) == {frame[c].value : c \in DOMAIN frame}
Sum_(frame) == MapThenSumSet(LAMBDA c : frame[c].value, DOMAIN frame)

\* The cell that is worst for the bound, whatever the direction.
_pick(frame, t, which) == IF which = "min" THEN Min(Values(frame)) ELSE Max(Values(frame))

\* What is compared, times the number of cells if it is a mean.
Times(frame, t) == IF t.agg = "mean" THEN Cardinality(DOMAIN frame) ELSE 1
Observed(frame, t, which) == IF t.agg = "mean" THEN Sum_(frame) ELSE _pick(frame, t, which)

_bound_breaches(frame, t) ==
  {b \in {"min", "max"} :
     \/ b = "min" /\ t.min # None /\ Observed(frame, t, b) < t.min * Times(frame, t)
     \/ b = "max" /\ t.max # None /\ Observed(frame, t, b) > t.max * Times(frame, t)}

_rep_value(frame, t) == Observed(frame, t, IF t.direction = "higher_is_better" THEN "min" ELSE "max")

\* The drop exceeds the allowed one; over a common denominator.
_regression(frame, base, t) ==
  LET n == Times(frame, t)  m == Times(base, t)
      drop == _rep_value(base, t) * n - _rep_value(frame, t) * m
  IN  (IF t.direction = "higher_is_better" THEN drop ELSE -drop) > t.delta * n * m

Attempts_(frame) == MapThenSumSet(LAMBDA c : frame[c].samples, DOMAIN frame)
insufficient(frame, t) == t.floor > 0 /\ Attempts_(frame) < t.floor

evaluate_kpis(frame, base, t) ==
  IF DOMAIN frame = {} THEN {[kind |-> "unmeasurable", severity |-> "warning"]}
  ELSE {[kind |-> b, severity |-> IF insufficient(frame, t) THEN "warning" ELSE t.severity]
          : b \in _bound_breaches(frame, t)}
       \cup (IF t.delta = None THEN {}
             ELSE IF DOMAIN base = {} THEN {[kind |-> "no_baseline", severity |-> "warning"]}
             ELSE IF _regression(frame, base, t) THEN {[kind |-> "regression", severity |-> t.severity]}
             ELSE {})

grade_kpi(f, b, t) ==
  LET issues == evaluate_kpis(parse_frame(f), parse_frame(b), t)
                \cup (IF ZeroSamples(f) THEN {[kind |-> "zero_samples", severity |-> "error"]} ELSE {})
  IN  IF \E i \in issues : i.severity = "error" THEN "FAIL"
      ELSE IF issues # {} THEN "WARN" ELSE "PASS"

KpiInit == kpi = [at |-> "new"]
KpiNext ==
  /\ kpi.at = "new"
  /\ \E f \in Files, b \in Baselines, t \in Thresholds :
       kpi' = [at |-> "graded", file |-> f, base |-> b, t |-> t, verdict |-> grade_kpi(f, b, t)]

-----------------------------------------------------------------------------
(* What the verdict is worth, from the rows as they stand in the file.     *)

\* A cell that reports attempts, all of them plausible.
Attempted(f, c) ==
  LET r == f.rows[c] IN
  IF f.fmt = "pmxml"
    THEN IF /\ Total(r.den) > 0 /\ ~r.suspect /\ Total(r.num) <= Total(r.den)
            /\ \A s \in {r.num, r.den} : \A i \in DOMAIN s : s[i] >= 0
           THEN Total(r.den) ELSE 0
  ELSE IF f.fmt = "openmetrics" \/ r.value = None \/ r.n = None \/ r.n < 0 THEN 0 ELSE r.n

\* A cell that reports a value; raw counters need an attempt for that.
Measured(f, c) == IF f.fmt = "pmxml" THEN Attempted(f, c) > 0 ELSE f.rows[c].value # None

\* A cell whose ratio can be told: one with nothing attempted, or with a
\* suspect counter, has counters but measured nothing.
Told(f, c) ==
  LET r == f.rows[c] IN
  IF f.fmt = "pmxml"
    THEN /\ r.den # <<>> /\ Total(r.num) <= Total(r.den)
         /\ \A s \in {r.num, r.den} : \A i \in DOMAIN s : s[i] >= 0
  ELSE r.value # None

\* Its ratio is outside the declared bounds; nothing of nothing is 0.
Outside(f, c, t) ==
  LET r == f.rows[c]
      num == IF f.fmt = "pmxml" THEN 100 * Total(r.num) ELSE r.value
      den == IF f.fmt = "pmxml" /\ Total(r.den) # 0 THEN Total(r.den) ELSE 1
  IN  \/ t.min # None /\ num < t.min * den
      \/ t.max # None /\ num > t.max * den

\* "Never let a mean hide one dead cell", "never a silent PASS" (telecom_model.py,
\* telecom_kpi.py:10-12): with the attempts the threshold asks for, no measured
\* cell is outside a gating bound of an accepted file, whichever way
\* the threshold's direction points; and a PASS, whatever the severity and the
\* floor, read the ratio of some cell, found none outside its bounds (an idle
\* cell counts as 0), and had its baseline if the threshold promises one.
KpiPassIsEarned ==
  kpi.at = "graded" =>
    LET f == kpi.file  t == kpi.t IN
    /\ /\ kpi.verdict # "FAIL" /\ t.severity = "error" /\ t.agg = "worst"
       /\ MapThenSumSet(LAMBDA c : Attempted(f, c), DOMAIN f.rows) >= t.floor
       => \A c \in DOMAIN f.rows : Measured(f, c) => ~Outside(f, c, t)
    /\ kpi.verdict = "PASS" =>
         /\ \E c \in DOMAIN f.rows : Told(f, c)
         /\ t.agg = "worst" => \A c \in DOMAIN f.rows : Told(f, c) => ~Outside(f, c, t)
         /\ t.delta # None => kpi.base # NoFile

\* A zero denominator is to end in "a non-gating WARNING, never a division error
\* or a fake 100%" (telecom_pmxml.py:8-10), so that what passes was measured.
\* It does not hold, and no run checks it: a file whose cells are all idle
\* breaches no upper bound with its zeros, and passes with no issue at all.
PassMeasured ==
  kpi.at = "graded" /\ kpi.verdict = "PASS" => \E c \in DOMAIN kpi.file.rows : Measured(kpi.file, c)

\* "A zero denominator yields a sample with samples=0 (the insufficiency clamp
\* makes it a non-gating WARNING)" (telecom_pmxml.py:9-11), and a suspect group
\* likewise (telecom_pmxml.py:161-163): where the threshold sets a floor, a cell
\* without attempts fails no file whose cells with attempts are all within the
\* bounds.
UnmeasuredNeverGates ==
  kpi.at = "graded" /\ kpi.file.fmt = "pmxml" /\ kpi.t.floor > 0 /\ kpi.t.delta = None
  /\ (\A c \in DOMAIN kpi.file.rows : Attempted(kpi.file, c) > 0 => ~Outside(kpi.file, c, kpi.t))
    => kpi.verdict # "FAIL"
=============================================================================
