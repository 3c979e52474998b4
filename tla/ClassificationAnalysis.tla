---------------------- MODULE ClassificationAnalysis ----------------------
(***************************************************************************)
(* analysis/classification_analysis.cpp: median repair, sliding z-score     *)
(* cleaning, distributions and correlations of the classification           *)
(* companies' samples.  Scales: quantiles 20 times, whisker limits 40       *)
(* times, bin edges `bins` times, ranks twice.                              *)
(*                                                                         *)
(* The last part holds the definitions the results are compared with.       *)
(***************************************************************************)
EXTENDS SeriesStatistics

\* |coefficient| above .7 is listed as high.
HighTenths == 7

-----------------------------------------------------------------------------
(* missing and clean.                                                        *)

MedianOf(column) == Quantile(Sorted(Known(column)), 10) \div 20

\* A column without any value is left as it is.
RepairMissing(column) ==
    IF Known(column) = <<>> THEN column
    ELSE [i \in DOMAIN column |->
            IF column[i] = Missing THEN MedianOf(column) ELSE column[i]]

\* |x - mean| > threshold * sigma over the `window` values before x, with both
\* sides multiplied by window and squared.  For sigma = 0 this is the code's
\* "difference > 0".
IsOutlier(source, i, window, threshold) ==
    LET past == SubSeq(source, i - window, i - 1)
        difference == window * source[i] - Total(past)
    IN  difference * difference > threshold * threshold * Spread(past)

Outliers(source, window, threshold) ==
    {i \in window + 1..Len(source) : IsOutlier(source, i, window, threshold)}

HoldForwardFromTheSource(source, window, threshold) ==
    LET outliers == Outliers(source, window, threshold)
    IN  [i \in DOMAIN source |->
            IF i \in outliers THEN source[i - 1] ELSE source[i]]

\* Detection looks at the repaired series, never at values already replaced; the
\* replacement is the previous cell of the result, replaced or not.
HoldForward(source, window, threshold) ==
    LET outliers == Outliers(source, window, threshold)
        held[i \in DOMAIN source] ==
          IF i \in outliers THEN held[i - 1] ELSE source[i]
    IN  held

CleanColumn(request, column) ==
    LET repaired == RepairMissing(column)
    IN  CASE request.operation = "missing" -> repaired
          [] request.operation = "clean" ->
               IF Known(column) = <<>> THEN repaired
               ELSE HoldForward(repaired, request.window, request.threshold)
          [] OTHER -> column

CleaningStatistics(request, before, after) ==
    LET repairs == request.operation \in {"missing", "clean"}
                     /\ Known(before) # <<>>
    IN  [summary |-> Summarize(Known(after)),
         missing_before |-> MissingIn(before), missing_after |-> MissingIn(after),
         filled   |-> IF repairs THEN MissingIn(before) ELSE 0,
         outliers |-> IF repairs /\ request.operation = "clean"
                      THEN Cardinality(Outliers(RepairMissing(before),
                                                request.window, request.threshold))
                      ELSE 0,
         changed  |-> ChangedCount(before, after)]

-----------------------------------------------------------------------------
(* correlation.                                                              *)

\* Equal values share the mean of the positions they occupy in sorted order:
\* positions start + 1 .. end, so twice the rank is start + end + 1.
Ranks(values) ==
    [i \in DOMAIN values |->
        LET start == Cardinality({j \in DOMAIN values : values[j] < values[i]})
            end   == Cardinality({j \in DOMAIN values : values[j] <= values[i]})
        IN  start + end + 1]

\* pearson(): null below two pairs and for a constant column.  The coefficient is
\* covariance / sqrt(spread_x * spread_y).
Pearson(x, y) ==
    LET n == Len(x)
        covariance == n * Total([i \in 1..n |-> x[i] * y[i]]) - Total(x) * Total(y)
    IN  IF n < 2 \/ Spread(x) <= 0 \/ Spread(y) <= 0 THEN [defined |-> FALSE]
        ELSE [defined |-> TRUE, covariance |-> covariance,
              scale |-> Spread(x) * Spread(y)]

Pairs(rows, first, second) ==
    AtPositions(rows, {i \in DOMAIN rows : /\ rows[i].values[first] # Missing
                                           /\ rows[i].values[second] # Missing})

Correlate(method, rows, first, second) ==
    LET complete == Pairs(rows, first, second)
        x == [i \in DOMAIN complete |-> complete[i].values[first]]
        y == [i \in DOMAIN complete |-> complete[i].values[second]]
        coefficient == IF method = "spearman" THEN Pearson(Ranks(x), Ranks(y))
                       ELSE Pearson(x, y)
    IN  [count |-> Len(complete), coefficient |-> coefficient,
         high  |-> /\ first # second
                   /\ coefficient.defined
                   /\ 100 * coefficient.covariance * coefficient.covariance
                        > HighTenths * HighTenths * coefficient.scale]

-----------------------------------------------------------------------------
(* distribution.                                                             *)

GroupRows(rows, company) ==
    AtPositions(rows, {i \in DOMAIN rows : rows[i].company_id = company})

GroupValues(rows, company, feature) ==
    LET group == GroupRows(rows, company)
    IN  Sorted(Known([i \in DOMAIN group |-> group[i].values[feature]]))

\* 40 times the distance Tukey's rule allows.
IsTukeyOutlier(sorted, value) ==
    LET q25 == Quantile(sorted, 5)
        q75 == Quantile(sorted, 15)
    IN  \/ 40 * value < 2 * q25 - 3 * (q75 - q25)
        \/ 40 * value > 2 * q75 + 3 * (q75 - q25)

BinOfWithoutTopEdge(value, low, high, bins) ==
    IF low = high THEN 1 ELSE ((value - low) * bins) \div (high - low) + 1

\* The index of a value's bin among `bins` equal bins over low..high; the top
\* edge belongs to the last bin.
BinOf(value, low, high, bins) ==
    IF low = high THEN 1
    ELSE LET index == ((value - low) * bins) \div (high - low)
         IN  IF index < bins THEN index + 1 ELSE bins

Histogram(group, all, bins) ==
    IF all = <<>> THEN <<>>
    ELSE LET low   == Head(all)
             high  == Last(all)
             count == IF low = high THEN 1 ELSE bins
         IN  [k \in 1..count |->
                [lower |-> low * count + (high - low) * (k - 1),
                 upper |-> low * count + (high - low) * k,
                 count |-> Cardinality({i \in DOMAIN group :
                                          BinOf(group[i], low, high, count) = k})]]

\* distribution(): one group per company, the bins common to all of them.
Distribution(request, rows) ==
    LET companies == {rows[i].company_id : i \in DOMAIN rows}
        all == Sorted(Known([i \in DOMAIN rows |-> rows[i].values[request.feature]]))
        Group(company) ==
          LET group  == GroupValues(rows, company, request.feature)
              inside == AtPositions(group, {i \in DOMAIN group :
                                              ~IsTukeyOutlier(group, group[i])})
          IN  [valid     |-> Len(group),
               missing   |-> Len(GroupRows(rows, company)) - Len(group),
               outliers  |-> Len(group) - Len(inside),
               whiskers  |-> IF inside = <<>> THEN <<>>
                             ELSE <<Head(inside), Last(inside)>>,
               histogram |-> Histogram(group, all, request.bins)]
    IN  [company \in companies |-> Group(company)]

-----------------------------------------------------------------------------
(* analyzeClassificationData().                                              *)

IsComparison(request) ==
    request.operation = "distribution" /\ request.view = "comparison"

\* Ids grow within each company, and only a comparison may mix companies.
ClassificationRowsAreValid(request, rows) ==
    \A i \in DOMAIN rows :
      /\ rows[i].id > 0 /\ rows[i].company_id > 0
      /\ \A j \in 1..i - 1 : rows[j].company_id = rows[i].company_id
                               => rows[j].id < rows[i].id
      /\ IsComparison(request) \/ rows[i].company_id = request.company_id

\* length_error, answered 413.
TooManyGroups(request, rows) ==
    /\ request.operation = "distribution"
    /\ Cardinality({rows[i].company_id : i \in DOMAIN rows}) > GroupLimit

AnalyzeClassificationData(request, rows) ==
    LET features == DOMAIN rows[1].values
        before == [f \in features |-> [i \in DOMAIN rows |-> rows[i].values[f]]]
        after  == [f \in features |-> CleanColumn(request, before[f])]
        processed == [i \in DOMAIN rows |->
                       [rows[i] EXCEPT !.values = [f \in features |-> after[f][i]]]]
    IN  [kind      |-> "classification",
         features  |-> [f \in features |->
                          CleaningStatistics(request, before[f], after[f])],
         groups    |-> IF request.operation = "distribution"
                       THEN Distribution(request, processed) ELSE <<>>,
         correlation |-> IF request.operation = "correlation"
                         THEN [f \in features |-> [g \in features |->
                                 Correlate(request.method, processed, f, g)]]
                         ELSE <<>>,
         processed |-> processed,
         preview   |-> FirstRows(processed),
         chart     |-> SampledChart(Len(rows))]

-----------------------------------------------------------------------------
(* What the results must be.                                                 *)

\* As many known values on either side of the median: half of them at most are
\* below it, half at most above, and it is the middle of the two in the middle.
\* Where the unit is too coarse for that middle, MedianOf() rounds down.
IsMedian(median, column) ==
    LET known == Known(column)
        below == {known[i] : i \in {j \in DOMAIN known :
                    2 * Cardinality({k \in DOMAIN known : known[k] <= known[j]}) >= Len(known)}}
        above == {known[i] : i \in {j \in DOMAIN known :
                    2 * Cardinality({k \in DOMAIN known : known[k] >= known[j]}) >= Len(known)}}
    IN  median = (Min(below) + Max(above)) \div 2

\* The variance of n values is the sum of the squared differences of its pairs.
IsFarOut(source, i, window, threshold) ==
    LET past  == i - window..i - 1
        pairs == {p \in past \X past : p[1] < p[2]}
        distance == TotalOf(LAMBDA k : source[i] - source[k], past)
    IN  distance * distance
          > threshold * threshold
              * TotalOf(LAMBDA p : (source[p[1]] - source[p[2]])
                                     * (source[p[1]] - source[p[2]]), pairs)

\* Every gap is filled with the median and every outlier takes the last value
\* before it that is not one; nothing else changes, and nothing changes in a
\* series no longer than the window or in a column without values.
IsCleaned(request, before, after) ==
    IF Known(before) = <<>> THEN after = before
    ELSE LET source == [i \in DOMAIN before |->
                          IF before[i] # Missing THEN before[i] ELSE MedianOf(before)]
             kept   == {i \in DOMAIN before :
                          \/ request.operation = "missing"
                          \/ i <= request.window
                          \/ ~IsFarOut(source, i, request.window, request.threshold)}
         IN  /\ IsMedian(MedianOf(before), before)
             /\ \A i \in DOMAIN before :
                  after[i] = source[Max({k \in kept : k <= i})]

\* Ranks of n values add up to those of n distinct ones and keep their order.
AreRanks(ranks, values) ==
    /\ Total(ranks) = Len(values) * (Len(values) + 1)
    /\ \A i, j \in DOMAIN values : values[i] < values[j] <=> ranks[i] < ranks[j]

\* Each value of a group is in the bin whose edges surround it, the top one in
\* the last, and the bins reach from the smallest value of all groups to the largest.
DescribesBins(bins, values, low, high) ==
    LET Inside(value, k) ==
          /\ bins[k].lower <= value * Len(bins)
          /\ value * Len(bins) < bins[k].upper \/ k = Len(bins)
    IN  /\ \A k \in DOMAIN bins :
             bins[k].count = Cardinality({i \in DOMAIN values : Inside(values[i], k)})
        /\ bins # <<>> => /\ bins[1].lower = low * Len(bins)
                          /\ bins[Len(bins)].upper = high * Len(bins)
                          /\ Total([k \in DOMAIN bins |-> bins[k].count]) = Len(values)

\* Outliers lie beyond the whiskers and everything else between them.
DescribesWhiskers(group, values) ==
    values # <<>> =>
      /\ group.whiskers # <<>>
      /\ group.outliers = Cardinality({i \in DOMAIN values :
                                         \/ values[i] < group.whiskers[1]
                                         \/ values[i] > group.whiskers[2]})

DescribesGroup(group, values, low, high) ==
    /\ group.valid = Len(values)
    /\ DescribesBins(group.histogram, values, low, high)
    /\ DescribesWhiskers(group, values)

\* A coefficient is at most 1 in absolute value.
IsCoefficient(coefficient) ==
    coefficient.defined =>
      coefficient.covariance * coefficient.covariance <= coefficient.scale
===========================================================================
