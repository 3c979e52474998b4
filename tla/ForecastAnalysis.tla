------------------------- MODULE ForecastAnalysis -------------------------
(***************************************************************************)
(* analysis/forecast_data_analysis.cpp: the preprocessing preview of the    *)
(* forecast company's series.  Columns are 1-based: the code's              *)
(* "index >= window" is "i > window" here.                                  *)
(*                                                                         *)
(* The second half of the module holds the definitions the results are      *)
(* compared with: they say what interpolation, a moving average, a slope... *)
(* are without the loops, the running sums and the scaled indexes.          *)
(***************************************************************************)
EXTENDS SeriesStatistics

\* A diagnosis needs this many values.
DiagnosisMinimum == 4

-----------------------------------------------------------------------------
(* interpolate(): hold the first known value to the left edge, bridge each   *)
(* pair of neighbouring known values, hold the last one to the right edge.   *)

KnownIndexes(column) == Arranged(KnownAt(column), Ascending(KnownAt(column)))

HoldFirst(column, first) ==
    [i \in DOMAIN column |-> IF i < first THEN column[first] ELSE column[i]]

HoldLast(column, last) ==
    [i \in DOMAIN column |-> IF i > last THEN column[last] ELSE column[i]]

Bridge(column, left, right) ==
    [i \in DOMAIN column |->
        IF left < i /\ i < right
        THEN column[left]
               + ((i - left) * (column[right] - column[left])) \div (right - left)
        ELSE column[i]]

Interpolate(column) ==
    LET known == KnownIndexes(column)
        bridged[pair \in 0..Len(known) - 1] ==
          IF pair = 0 THEN HoldFirst(column, Head(known))
          ELSE Bridge(bridged[pair - 1], known[pair], known[pair + 1])
    IN  IF known = <<>> THEN column
        ELSE HoldLast(bridged[Len(known) - 1], Last(known))

-----------------------------------------------------------------------------
(* smooth(): a causal moving average by a running sum of the values in the   *)
(* window and a running count of them.                                       *)

Entering(column, i) == IF column[i] = Missing THEN 0 ELSE column[i]

LeavingOneLate(column, i, window) ==
    IF i > window + 1 THEN Entering(column, i - window - 1) ELSE 0

Leaving(column, i, window) ==
    IF i > window THEN Entering(column, i - window) ELSE 0

RunningSum(column, window) ==
    LET sum[i \in 0..Len(column)] ==
          IF i = 0 THEN 0
          ELSE sum[i - 1] + Entering(column, i) - Leaving(column, i, window)
    IN  sum

RunningCount(column, window) ==
    LET Counts(i) == IF column[i] = Missing THEN 0 ELSE 1
        valid[i \in 0..Len(column)] ==
          IF i = 0 THEN 0
          ELSE valid[i - 1] + Counts(i)
                 - (IF i > window THEN Counts(i - window) ELSE 0)
    IN  valid

Smooth(column, window) ==
    LET sum   == RunningSum(column, window)
        valid == RunningCount(column, window)
    IN  [i \in DOMAIN column |->
            IF column[i] # Missing /\ valid[i] > 0
            THEN sum[i] \div valid[i] ELSE column[i]]

-----------------------------------------------------------------------------
(* The two operations that change the series.                                *)

Preprocess(operation, window, column) ==
    CASE operation = "missing" -> Interpolate(column)
      [] operation = "smooth"  -> Smooth(Interpolate(column), window)
      [] OTHER                 -> column

FeatureStatistics(before, after) ==
    [summary |-> Summarize(Known(after)),
     missing_before |-> MissingIn(before), missing_after |-> MissingIn(after),
     filled  |-> MissingIn(before) - MissingIn(after),
     changed |-> ChangedCount(before, after)]

\* How many training windows the series yields: the guard keeps the unsigned
\* subtraction from wrapping.
WindowCount(size, horizon) ==
    IF size >= Lookback + horizon THEN size - Lookback - horizon + 1 ELSE 0

\* slope(): with positions and values centred (x2, n times), the least-squares
\* slope is 2 * num / (n * den).
Slope(values) ==
    LET n == Len(values)
        Dx(i) == 2 * (i - 1) - (n - 1)
        Dy(i) == n * values[i] - Total(values)
    IN  [num |-> TotalOf(LAMBDA i : Dx(i) * Dy(i), 1..n),
         den |-> TotalOf(LAMBDA i : Dx(i) * Dx(i), 1..n)]

\* autocorrelation(): covariance over variance, both n^2 times the code's.
Autocorrelation(values, lag) ==
    LET n == Len(values)
        Dy(i) == n * values[i] - Total(values)
    IN  [num |-> TotalOf(LAMBDA i : Dy(i) * Dy(i - lag), lag + 1..n),
         den |-> TotalOf(LAMBDA i : Dy(i) * Dy(i), 1..n)]

LagOf(values, window) ==
    IF window < Len(values) \div 2 THEN window ELSE Len(values) \div 2

\* addDiagnosticMetrics(): no metric at all below the minimum.
Diagnosis(diagnostic, window, values) ==
    IF Len(values) < DiagnosisMinimum THEN [metric |-> "none"]
    ELSE CASE diagnostic = "trend" ->
                [metric |-> "trend", slope |-> Slope(values),
                 change |-> Last(values) - Head(values)]
           [] diagnostic = "seasonality" ->
                [metric |-> "seasonality", lag |-> LagOf(values, window),
                 ratio |-> Autocorrelation(values, LagOf(values, window))]
           [] OTHER ->
                LET middle == Len(values) \div 2
                    first  == SubSeq(values, 1, middle)
                    second == SubSeq(values, middle + 1, Len(values))
                IN  [metric |-> "stationarity",
                     first  |-> [n |-> Len(first), total |-> Total(first),
                                 spread |-> Spread(first)],
                     second |-> [n |-> Len(second), total |-> Total(second),
                                 spread |-> Spread(second)]]

-----------------------------------------------------------------------------
(* analyzeForecastData().                                                    *)

Column(rows, feature) == [i \in DOMAIN rows |-> rows[i].values[feature]]

\* The checks on the company and on the order of the rows: 422 when they fail.
ForecastRowsAreValid(request, company, rows) ==
    /\ company.id = request.company_id
    /\ company.task \in {Missing, "forecast"}
    /\ \A i \in DOMAIN rows :
         /\ rows[i].company_id = request.company_id
         /\ rows[i].id > 0
         /\ i > 1 => rows[i].sample_index > rows[i - 1].sample_index

SequenceGaps(rows) ==
    Cardinality({i \in 2..Len(rows) :
                   rows[i].sample_index # rows[i - 1].sample_index + 1})

TimestampErrors(rows) ==
    Cardinality({i \in 2..Len(rows) :
                   /\ rows[i].sampled_at # Missing
                   /\ rows[i - 1].sampled_at # Missing
                   /\ rows[i].sampled_at <= rows[i - 1].sampled_at})

AnalyzeForecastData(request, rows) ==
    LET before  == [f \in DOMAIN rows[1].values |-> Column(rows, f)]
        after   == [f \in DOMAIN before |->
                      Preprocess(request.operation, request.window, before[f])]
        repaired == [i \in DOMAIN rows |->
                      [rows[i] EXCEPT !.values = [f \in DOMAIN before |-> after[f][i]]]]
    IN  [kind      |-> "forecast",
         features  |-> [f \in DOMAIN before |-> FeatureStatistics(before[f], after[f])],
         gaps      |-> SequenceGaps(rows),
         errors    |-> IF request.operation = "sequence" THEN TimestampErrors(rows) ELSE 0,
         windows   |-> IF request.operation = "window"
                       THEN WindowCount(Len(rows), request.horizon) ELSE 0,
         diagnosis |-> IF request.operation = "diagnosis"
                       THEN Diagnosis(request.diagnostic, request.window,
                                      Known(after[request.feature]))
                       ELSE [metric |-> "none"],
         after     |-> after,
         preview   |-> FirstRows(repaired),
         chart     |-> SampledChart(Len(rows))]

-----------------------------------------------------------------------------
(* What the results must be.                                                 *)

\* Every known cell stays, and every other is what the nearest known cells on
\* both sides make it.
IsInterpolation(before, after) ==
    LET known == {i \in DOMAIN before : before[i] # Missing}
    IN  IF known = {} THEN after = before
        ELSE \A i \in DOMAIN before :
               LET left  == {k \in known : k <= i}
                   right == {k \in known : k >= i}
               IN  IF i \in known THEN after[i] = before[i]
                   ELSE IF left = {} THEN after[i] = before[Min(right)]
                   ELSE IF right = {} THEN after[i] = before[Max(left)]
                   ELSE IsQuotient(after[i] - before[Max(left)],
                          (before[Min(right)] - before[Max(left)]) * (i - Max(left)),
                          Min(right) - Max(left))

\* Every cell is the mean of the last `window` interpolated cells, itself
\* included, of fewer at the start.
IsMovingAverage(before, after, window) ==
    LET source == Interpolate(before)
    IN  \A i \in DOMAIN before :
          LET span == {j \in DOMAIN before : i - window < j /\ j <= i}
          IN  IF source[i] = Missing THEN after[i] = Missing
              ELSE IsQuotient(after[i], TotalOf(LAMBDA j : source[j], span),
                              Cardinality(span))

\* The least-squares slope is the mean of the slopes of all pairs, weighted by
\* the square of their distance.
IsLeastSquares(values, slope) ==
    LET pairs == {p \in (DOMAIN values) \X (DOMAIN values) : p[1] < p[2]}
        num == TotalOf(LAMBDA p : (p[2] - p[1]) * (values[p[2]] - values[p[1]]), pairs)
        den == TotalOf(LAMBDA p : (p[2] - p[1]) * (p[2] - p[1]), pairs)
    IN  /\ slope.den > 0
        /\ 2 * slope.num * den = num * Len(values) * slope.den

\* The diagnosis never divides by zero (a quotient over an empty or constant
\* denominator is reported as null), and an autocorrelation is in [-1, 1].
DiagnosisIsDefined(diagnosis, values) ==
    CASE diagnosis.metric = "trend" -> IsLeastSquares(values, diagnosis.slope)
      [] diagnosis.metric = "seasonality" ->
           /\ diagnosis.lag \in 1..Len(values) - 1
           /\ diagnosis.ratio.num \in -diagnosis.ratio.den..diagnosis.ratio.den
      [] diagnosis.metric = "stationarity" ->
           /\ diagnosis.first.n > 0 /\ diagnosis.second.n > 0
           /\ diagnosis.first.n + diagnosis.second.n = Len(values)
           /\ diagnosis.first.total + diagnosis.second.total = Total(values)
      [] OTHER -> Len(values) < DiagnosisMinimum

WindowsOf(size, horizon) ==
    Cardinality({start \in 1..size : start + Lookback + horizon - 1 <= size})

\* What is reported of one column of n cells.
IsPreprocessed(operation, window, before, after, stats, n) ==
    /\ CASE operation = "missing" -> IsInterpolation(before, after)
         [] operation = "smooth"  -> IsMovingAverage(before, after, window)
         [] OTHER                 -> after = before
    /\ stats.filled = Cardinality({i \in 1..n : before[i] = Missing /\ after[i] # Missing})
    /\ stats.missing_after \in {0, stats.missing_before}

\* What is reported of the rows a request reads.
IsPreprocessedResult(request, rows, analysis) ==
    /\ \A f \in DOMAIN analysis.features :
         IsPreprocessed(request.operation, request.window, Column(rows, f),
                        analysis.after[f], analysis.features[f], Len(rows))
    /\ request.operation = "window" =>
         analysis.windows = WindowsOf(Len(rows), request.horizon)
    /\ request.operation = "diagnosis" =>
         DiagnosisIsDefined(analysis.diagnosis, Known(Column(rows, request.feature)))
    /\ ChartCoversTheSeries(Len(rows))
===========================================================================
