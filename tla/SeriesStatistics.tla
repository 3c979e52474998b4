------------------------- MODULE SeriesStatistics -------------------------
(***************************************************************************)
(* What both analysis files of the server compute of one column of samples. *)
(*                                                                         *)
(* A column is a sequence over Int \cup {Missing}.  The code computes in    *)
(* floating point; here every reading is a multiple of a unit chosen by the *)
(* instance so that each quotient the code forms is an integer, or the      *)
(* quotient is kept as a numerator over a known denominator (said at each   *)
(* operator).  Rounding is therefore not modelled.                          *)
(***************************************************************************)
EXTENDS WaterDomain, Ordering, SequencesExt

KnownAt(column) == {i \in DOMAIN column : column[i] # Missing}

Known(column) == AtPositions(column, KnownAt(column))

MissingIn(column) == Len(column) - Len(Known(column))

Sorted(values) == InAscendingOrder(values)

Total(values) == SumFunction(values)

TotalOf(op(_), set) == SumFunction([x \in set |-> op(x)])

\* q is a / n in the unit of the readings, rounded down where that is too coarse.
IsQuotient(q, a, n) == q * n <= a /\ a < (q + 1) * n

\* n^2 times the variance of n values: n * sum of squares - square of the sum,
\* what Welford's m2 accumulates (n * m2).
Spread(values) ==
    Len(values) * Total([i \in DOMAIN values |-> values[i] * values[i]])
      - Total(values) * Total(values)

\* quantile(): 20 times the value at p/20 of the way through the sorted values,
\* by linear interpolation between the two neighbours.
Quantile(sorted, p) ==
    LET position == p * (Len(sorted) - 1)
        left     == position \div 20 + 1
        right    == IF left < Len(sorted) THEN left + 1 ELSE left
        fraction == position % 20
    IN  (20 - fraction) * sorted[left] + fraction * sorted[right]

\* summarize(): everything but the valid count stays empty for an empty column.
\* total stands for the mean, spread for the standard deviation, the quantiles
\* are scaled by 20.
Summarize(values) ==
    IF values = <<>> THEN [valid |-> 0]
    ELSE LET sorted == Sorted(values)
         IN  [valid  |-> Len(values),   total  |-> Total(values),
              spread |-> Spread(values),
              minimum |-> Head(sorted), maximum |-> Last(sorted),
              q10 |-> Quantile(sorted, 2),  q25 |-> Quantile(sorted, 5),
              median |-> Quantile(sorted, 10),
              q75 |-> Quantile(sorted, 15), q90 |-> Quantile(sorted, 18)]

\* What the statistics of one feature say of its column before and after.
ChangedCount(before, after) ==
    Cardinality({i \in DOMAIN before : before[i] # after[i]})

FirstRows(rows) ==
    SubSeq(rows, 1, IF Len(rows) < PreviewLimit THEN Len(rows) ELSE PreviewLimit)

\* Which of n rows a chart of at most ChartLimit points shows.
SampledChart(n) ==
    IF n <= ChartLimit THEN [k \in 1..n |-> k]
    ELSE [k \in 1..ChartLimit |-> ((k - 1) * (n - 1)) \div (ChartLimit - 1) + 1]

\* A chart shows the first and the last row and its points move forward.
ChartCoversTheSeries(n) ==
    LET chart == SampledChart(n)
    IN  /\ chart[1] = 1
        /\ chart[Len(chart)] = n
        /\ \A k \in 1..Len(chart) - 1 : chart[k] < chart[k + 1]
===========================================================================
