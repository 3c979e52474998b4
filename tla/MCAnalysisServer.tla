------------------------- MODULE MCAnalysisServer -------------------------
EXTENDS AnalysisServer

CONSTANT None   \* the NULL cell

MCDefaults ==
    [forecast |-> [company_id |-> 7, dataset |-> "train_data", feature |-> "cod",
                   window |-> 2, horizon |-> 1, diagnostic |-> "trend"],
     classification |-> [company_id |-> 0, dataset |-> "train_data", cleaning_run_id |-> 0,
                         persist |-> FALSE, window |-> 2, threshold |-> 1,
                         feature |-> "cod", view |-> "histogram", bins |-> 3,
                         method |-> "pearson"],
     overview |-> [company_id |-> 0, dataset |-> "train_data", limit |-> 2],
     trace    |-> [sample_id |-> 0, dataset |-> "test_data", cleaning_run_id |-> 0],
     predict  |-> [company_id |-> 0, dataset |-> "test_data", end_sample_id |-> 0,
                   horizon |-> 2]]

I(n) == <<"int", n>>
S(s) == <<"string", s>>
B(b) == <<"bool", b>>
Other == <<"other", 0>>

Send(method, path, fields) ==
    [method |-> method, path |-> path, object |-> TRUE, fields |-> fields]

Forecast(operation, fields) ==
    Send("POST", <<"api", "v1", "data", "forecast", operation>>, fields)

Classification(operation, fields) ==
    Send("POST", <<"api", "v1", "data", "classification", operation>>, fields)

Trace(fields) == Send("POST", <<"api", "v1", "inference", "classify">>, fields)
Prediction(fields) == Send("POST", <<"api", "v1", "inference", "forecast">>, fields)
Overview(fields) == Send("GET", <<"api", "", "v1", "data", "overview", "">>, fields)

-----------------------------------------------------------------------------
(* The messages.                                                             *)

SeriesMessages ==
    {Forecast("missing", [company_id |-> I(7)]),
     Forecast("smooth", [company_id |-> I(7), window |-> I(2)]),
     Forecast("smooth", [company_id |-> I(7), window |-> I(3)])}
    \cup {Forecast("diagnosis", [company_id |-> I(7), window |-> I(2), diagnostic |-> S(d)]) :
            d \in {"trend", "seasonality", "stationarity"}}

OrderMessages ==
    {Forecast("sequence", [company_id |-> I(7), dataset |-> S("val_data")])}
    \cup {Forecast("window", [company_id |-> I(7), horizon |-> I(h),
                              dataset |-> S("val_data")]) : h \in {1, 2}}

CleaningMessages ==
    {Classification("missing", [company_id |-> I(1)]),
     Classification("clean", [company_id |-> I(1), window |-> I(2)])}

DistributionMessages ==
    {Classification("distribution", [company_id |-> I(1), bins |-> I(b), view |-> S(v)]) :
       b \in {2, 3}, v \in {"histogram", "comparison"}}

CorrelationMessages ==
    {Classification("correlation", [company_id |-> I(1), method |-> S(m)]) :
       m \in {"pearson", "spearman"}}

SavingMessages ==
    {Classification(op, [company_id |-> I(1), persist |-> B(TRUE)]) :
       op \in {"missing", "clean"}}

ReadMessages ==
    {Overview([company_id |-> I(c), dataset |-> S(d)]) :
       c \in {1, 9}, d \in {"train_data", "val_data", "test_data"}}
    \cup {Trace([sample_id |-> I(s), dataset |-> S(d)]) :
            s \in {1, 12}, d \in {"train_data", "test_data", "val_data"}}
    \cup {Prediction([company_id |-> I(c), dataset |-> S(d), end_sample_id |-> I(e)]) :
            c \in {1, 9}, d \in {"train_data", "test_data", "all"}, e \in {0, 3, 4, 12}}
    \cup {Prediction([company_id |-> I(1), dataset |-> S("train_data"), horizon |-> I(1)]),
          Classification("clean", [company_id |-> I(9)]),
          Classification("clean", [company_id |-> I(1), dataset |-> S("val_data")]),
          Classification("distribution", [company_id |-> I(1), dataset |-> S("test_data"),
                                          view |-> S("comparison")]),
          Forecast("missing", [company_id |-> I(1)]),
          Forecast("missing", [company_id |-> I(7), dataset |-> S("test_data")])}

\* Messages the router or the parser turns away, and the ones answered at once.
OtherMessages ==
    {Send("GET", <<"api", "v1", "health">>, <<>>),
     Send("GET", <<"", "api", "v1", "companies">>, <<>>),
     Send("GET", <<"api", "v1", "inference", "forecast", "model">>, <<>>),
     Send("POST", <<"api", "v1", "health">>, <<>>),
     Send("GET", <<"api", "v1", "samples">>, <<>>),
     [Trace([sample_id |-> I(1)]) EXCEPT !.object = FALSE],
     Trace([sample_id |-> I(0)]), Trace([sample_id |-> S("1")]), Trace(<<>>),
     Prediction([company_id |-> I(1), horizon |-> I(3)]),
     Overview([company_id |-> I(1), limit |-> I(0)]),
     Overview([company_id |-> I(0)]),
     Forecast("smooth", [company_id |-> I(7), window |-> I(0)]),
     Forecast("smooth", [company_id |-> I(7), window |-> I(1)]),
     Forecast("smooth", [company_id |-> I(7), horizon |-> I(0)]),
     Forecast("smooth", [company_id |-> I(7), dataset |-> Other]),
     Forecast("missing", [company_id |-> I(7), persist |-> B(TRUE)]),
     Classification("clean", [company_id |-> I(1), window |-> I(1)]),
     Classification("clean", [company_id |-> I(1), threshold |-> I(0)]),
     Classification("distribution", [company_id |-> I(1), persist |-> B(TRUE)]),
     Classification("distribution", [company_id |-> I(1), view |-> S("comparison"),
                                     cleaning_run_id |-> I(1)]),
     Classification("correlation", [company_id |-> I(1), method |-> S("kendall")])}

MCFirstMessages ==
    SeriesMessages \cup OrderMessages \cup CleaningMessages \cup DistributionMessages
    \cup CorrelationMessages \cup SavingMessages \cup ReadMessages \cup OtherMessages

\* Cleans version 1 and saves version 2.
SaveAgain ==
    Classification("clean", [company_id |-> I(1), cleaning_run_id |-> I(1),
                             persist |-> B(TRUE)])

\* What may follow when two versions of one company and split may exist.
AfterTwoVersions ==
    {Classification("distribution", [company_id |-> I(1), cleaning_run_id |-> I(r)]) :
       r \in {1, 2}}
    \cup {Trace([sample_id |-> I(s), cleaning_run_id |-> I(2), dataset |-> S("train_data")]) :
            s \in {1, 3}}

MCFollowUps(m) ==
    IF m = SaveAgain THEN AfterTwoVersions
    ELSE IF m \in SavingMessages
    THEN {SaveAgain,
          Classification("distribution", [company_id |-> I(1), cleaning_run_id |-> I(1)]),
          Classification("distribution", [company_id |-> I(2), cleaning_run_id |-> I(1)]),
          Classification("correlation", [company_id |-> I(1), cleaning_run_id |-> I(1),
                                         dataset |-> S("test_data")])}
         \cup {Trace([sample_id |-> I(s), cleaning_run_id |-> I(r), dataset |-> S(d)]) :
                 s \in {1, 2}, r \in {0, 1}, d \in {"train_data", "test_data"}}
    ELSE {}

MCMessages ==
    MCFirstMessages \cup UNION {MCFollowUps(m) : m \in MCFirstMessages}
    \cup AfterTwoVersions

MCPredictions ==
    {<<>>, << <<1, 300>>, <<2, 400>>, <<7, 300>> >>, << <<0, 1000>> >>}

-----------------------------------------------------------------------------
(* The stores.                                                               *)

Companies == {[id |-> 1, task |-> "trace"], [id |-> 2, task |-> None],
              [id |-> 7, task |-> "forecast"]}

Store(samples) ==
    [companies |-> Companies, samples |-> samples, runs |-> <<>>,
     models |-> {"classifier", "forecaster"}]

Sample(id, company, split, cod, ph) ==
    [id |-> id, company_id |-> company, split |-> split, sample_index |-> id,
     sampled_at |-> None, values |-> [cod |-> cod, ph |-> ph]]

\* One company's rows, cod given, ph constant or empty.
Table(company, split, cod, ph) ==
    {Sample(i, company, split, cod[i], ph) : i \in DOMAIN cod}

Columns(n, values) == [1..n -> values]

SeriesStores ==
    {Store(Table(7, "train", cod, 72)) :
       cod \in Columns(5, {None, 0, 72}) \cup Columns(4, {None, 0, 72, 216})
                 \cup Columns(3, {None, 72}) \cup {<<>>}}

\* Gaps in sample_index and times that stand still or run backwards; more rows
\* than the limit; a company whose task is not forecasting.
OrderStores ==
    {Store({[id |-> i, company_id |-> 7, split |-> "validation", sample_index |-> index[i],
             sampled_at |-> time[i], values |-> [cod |-> 72 * i, ph |-> None]] :
              i \in 1..n}) :
       n \in 3..6, index \in {<<1, 2, 3, 4, 5, 6>>, <<1, 3, 4, 6, 7, 9>>},
       time \in {<<1, 2, 3, 4, 5, 6>>, <<3, None, 2, 1, 5, 4>>}}
    \cup {[Store(Table(7, "validation", <<72, 72>>, 0)) EXCEPT
             !.companies = {[id |-> 7, task |-> "trace"]}]}

CleaningStores ==
    {Store(Table(1, "train", cod, 12)) : cod \in Columns(5, {None, 0, 12, 24})}
    \cup {Store(Table(1, "train", [i \in 1..7 |-> 12], 12))}

\* Companies 1 and 2, and a third one in some.
DistributionStores ==
    {Store(Table(1, "train", cod, 0)
           \cup {Sample(10 + i, 2, "train", other[i], 0) : i \in DOMAIN other}
           \cup third) :
       cod \in Columns(3, {None, 0, 12, 24}), other \in Columns(2, {None, 0, 36}),
       third \in {{}, {Sample(20, 7, "train", 12, 12)}}}
    \cup {Store(Table(1, "train", cod, 0)) : cod \in Columns(5, {0, 12, 120})}

CorrelationStores ==
    {Store({Sample(i, 1, "train", cod[i], ph[i]) : i \in 1..3}) :
       cod, ph \in Columns(3, {None, 0, 1, 3})}

SavingStores ==
    {Store(Table(1, "train", cod, ph) \cup {Sample(10, 1, "test", 0, 0)}) :
       cod \in Columns(3, {None, 0, 12}), ph \in {None, 12}}

\* A gap in the middle of company 1's rows, no gap, missing ids, no models.
ReadStores ==
    LET others == {Sample(12, 1, "test", 0, 12), Sample(13, 7, "train", 0, 12)}
    IN  {Store(Table(1, "train", <<0, 12, None, 24, 0>>, 12) \cup others),
         Store({s \in Table(1, "train", <<0, 12, 0, 24, 12>>, 12) : s.id # 3}
                 \cup others),
         [Store({Sample(12, 2, "test", None, 12)}) EXCEPT !.models = {}],
         Store({Sample(12, 2, "test", None, 12)})}

MCStoresFor(m) ==
    CASE m \in SeriesMessages       -> SeriesStores
      [] m \in OrderMessages        -> OrderStores
      [] m \in CleaningMessages     -> CleaningStores
      [] m \in DistributionMessages -> DistributionStores
      [] m \in CorrelationMessages  -> CorrelationStores
      [] m \in SavingMessages       -> SavingStores
      [] OTHER                      -> ReadStores
===========================================================================
