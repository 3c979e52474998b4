----------------------- MODULE AnalysisServerProofs -----------------------
(***************************************************************************)
(* For every set of messages and every installed store: a request reads the *)
(* rows of its scope, only a model's invalid output is answered 500, a       *)
(* saved version can be read by every later request, and the columns are    *)
(* cleaned, interpolated, smoothed, diagnosed, binned and correlated as a     *)
(* reader would by hand.                                                     *)
(*                                                                         *)
(* The order of the proof is the one of a request: what the parser promises *)
(* of it, what each query selects, what the cleaning of a column keeps, what *)
(* the preview of a series shows, what a distribution counts and how large a *)
(* correlation can be, and the invariant that carries these facts from stage *)
(* to stage.                                                                *)
(***************************************************************************)
EXTENDS AnalysisServer, CollectionProofs, SequenceTheorems

-----------------------------------------------------------------------------
(* The request.                                                              *)

\* The parser keeps the kind of the route.
LEMMA ParsedKind ==
  ASSUME NEW m, NEW handler
  PROVE  Parse(handler, m).request.kind = handler
<1>1. \A kind, keys : Fields(kind, m, keys).kind = kind
  BY DEF Fields
<1> QED BY <1>1 DEF Parse, ParseForecastData, ParseClassificationData, ParseOverview,
                    ParseTrace, ParsePrediction

\* A message that reaches forecastData() names one of its operations.
LEMMA ForecastOperation ==
  ASSUME NEW m, Route(m) = "forecast"
  PROVE  Operation(m) \in ForecastOperations
<1> DEFINE matching == {r \in Routes : r[2] = SplitPath(m.path)}
           exact == {r \in matching : r[1] = m.method}
<1>1. exact # {} /\ Route(m) = (CHOOSE r \in exact : TRUE)[3]
  BY DEF Route
<1>2. PICK r \in exact : r[3] = "forecast"
  BY <1>1
<1>3. r \in Routes /\ r[2] = SplitPath(m.path)
  OBVIOUS
<1> HIDE DEF exact, matching
<1>4. PICK op \in ForecastOperations :
        r = <<"POST", <<"api", "v1", "data", "forecast", op>>, "forecast">>
  BY <1>2, <1>3 DEF Routes
<1>5. SplitPath(m.path) = <<"api", "v1", "data", "forecast", op>>
  BY <1>3, <1>4
<1>6. Operation(m) = <<"api", "v1", "data", "forecast", op>>[5]
  BY <1>5 DEF Operation, Last
<1> QED BY <1>6

Datasets == {"train_data", "val_data", "test_data"}

LEMMA EveryDatasetHasASplit == Datasets = DOMAIN SplitOf
BY DEF Datasets, SplitOf

\* The fields of an accepted request, one lemma per handler that has any.
LEMMA ForecastRequest ==
  ASSUME NEW m, Parse("forecast", m).ok, NEW r, r = Parse("forecast", m).request
  PROVE  /\ r.dataset \in Datasets /\ r.operation = Operation(m)
         /\ r.window \in Nat /\ r.window >= 2
         /\ r.horizon \in Nat /\ r.horizon > 0 /\ r.feature \in Features
<1>1. Parse("forecast", m) = ParseForecastData(m)
  BY DEF Parse
<1>2. ForecastRequestIsValid(r)
  BY <1>1 DEF ParseForecastData
<1>3. r.operation = Operation(m)
  BY <1>1 DEF ParseForecastData, Fields
<1>4. r.window \in 2..MaxForecastWindow /\ r.horizon \in 1..MaxHorizon
  BY <1>2 DEF ForecastRequestIsValid
<1>5. r.window \in Nat /\ r.window >= 2 /\ r.horizon \in Nat /\ r.horizon > 0
  BY <1>4, DomainAssumption
<1> QED BY <1>2, <1>3, <1>5 DEF ForecastRequestIsValid, Datasets

LEMMA OverviewRequest ==
  ASSUME NEW m, Parse("overview", m).ok, NEW r, r = Parse("overview", m).request
  PROVE  r.dataset \in Datasets
<1>1. Parse("overview", m) = ParseOverview(m)
  BY DEF Parse
<1> QED BY <1>1 DEF ParseOverview, Datasets

\* An id of the request is the one of the message, or 0.
LEMMA OptionalId ==
  ASSUME NEW m, FieldsAreTyped(m), NEW kind, NEW key, NEW low \in {0, 1},
         OptionalIntFrom(m, key, low), Defaults[kind][key] = 0
  PROVE  Field(kind, m, key) \in Nat
<1>1. CASE Has(m, key)
  <2>1. Kind(m, key) = "int" /\ low <= m.fields[key][2]
    BY <1>1 DEF OptionalIntFrom, IsIntFrom
  <2>2. m.fields[key][2] \in Int
    BY <1>1, <2>1 DEF FieldsAreTyped, Has
  <2> QED BY <1>1, <2>1, <2>2 DEF Field
<1>2. CASE ~Has(m, key)
  BY <1>2 DEF Field
<1> QED BY <1>1, <1>2

LEMMA TraceRequest ==
  ASSUME NEW m, FieldsAreTyped(m), Parse("trace", m).ok,
         NEW r, r = Parse("trace", m).request
  PROVE  /\ r.dataset \in Datasets
         /\ r.cleaning_run_id \in Nat
<1>1. Parse("trace", m) = ParseTrace(m)
  BY DEF Parse
<1>2. /\ r = Fields("trace", m, {"sample_id", "dataset", "cleaning_run_id"})
      /\ r.dataset \in {"train_data", "test_data"}
      /\ OptionalIntFrom(m, "cleaning_run_id", 0)
  BY <1>1 DEF ParseTrace
<1>3. r.cleaning_run_id = Field("trace", m, "cleaning_run_id")
  BY <1>2 DEF Fields
<1>4. Defaults["trace"]["cleaning_run_id"] = 0
  BY OptionalIdsAssumption
<1> QED BY <1>2, <1>3, <1>4, OptionalId DEF Datasets

LEMMA PredictionRequest ==
  ASSUME NEW m, FieldsAreTyped(m), Parse("predict", m).ok,
         NEW r, r = Parse("predict", m).request
  PROVE  /\ r.dataset \in Datasets
         /\ r.end_sample_id \in Nat
<1>1. Parse("predict", m) = ParsePrediction(m)
  BY DEF Parse
<1>2. /\ r = Fields("predict", m, {"company_id", "dataset", "end_sample_id", "horizon"})
      /\ r.dataset \in Datasets
      /\ OptionalIntFrom(m, "end_sample_id", 0)
  BY <1>1 DEF ParsePrediction, Datasets
<1>3. r.end_sample_id = Field("predict", m, "end_sample_id")
  BY <1>2 DEF Fields
<1>4. Defaults["predict"]["end_sample_id"] = 0
  BY OptionalIdsAssumption
<1> QED BY <1>2, <1>3, <1>4, OptionalId

LEMMA ClassificationRequest ==
  ASSUME NEW m, FieldsAreTyped(m), Parse("classification", m).ok,
         NEW r, r = Parse("classification", m).request
  PROVE  /\ r.dataset \in Datasets
         /\ r.company_id \in Int
         /\ r.cleaning_run_id \in Nat
         /\ r.window \in Nat /\ r.window >= 2
         /\ r.bins \in Nat /\ r.bins > 0 /\ r.feature \in Features
         /\ r.persist => r.operation \in {"missing", "clean"}
         /\ IsComparison(r) => r.cleaning_run_id = 0
<1> DEFINE keys == {"dataset", "feature", "view", "method"}
                     \cup {"company_id", "cleaning_run_id", "persist",
                           "window", "threshold", "bins"}
<1>1. Parse("classification", m) = ParseClassificationData(m)
  BY DEF Parse
<1>2. /\ r = Fields("classification", m, keys)
      /\ Has(m, "company_id") /\ IsIntFrom(m, "company_id", 1)
      /\ OptionalIntFrom(m, "cleaning_run_id", 0)
      /\ ClassificationRequestIsValid(r)
  BY <1>1 DEF ParseClassificationData
<1>3. /\ r.cleaning_run_id = Field("classification", m, "cleaning_run_id")
      /\ r.company_id = Field("classification", m, "company_id")
  BY <1>2 DEF Fields
<1>4. Defaults["classification"]["cleaning_run_id"] = 0
  BY OptionalIdsAssumption
<1>5. r.cleaning_run_id \in Nat
  BY <1>2, <1>3, <1>4, OptionalId
<1>6. r.company_id \in Int
  BY <1>2, <1>3 DEF Field, FieldsAreTyped, Has, IsIntFrom
<1>7. r.window \in 2..MaxCleanWindow /\ r.bins \in MinBins..MaxBins /\ r.feature \in Features
  BY <1>2 DEF ClassificationRequestIsValid
<1>8. MaxCleanWindow \in Nat /\ MinBins \in Nat /\ MinBins > 0 /\ MaxBins \in Nat
  BY DomainAssumption
<1>9. /\ r.dataset \in {"train_data", "test_data"}
      /\ r.persist => r.operation \in {"missing", "clean"}
      /\ r.operation = "distribution" /\ r.view = "comparison" => r.cleaning_run_id = 0
  BY <1>2 DEF ClassificationRequestIsValid
<1> QED BY <1>5, <1>6, <1>7, <1>8, <1>9 DEF Datasets, IsComparison

-----------------------------------------------------------------------------
(* The queries.                                                              *)

LEMMA SequenceOfLength ==
  ASSUME NEW S, NEW n \in Nat, NEW f \in [1..n -> S]
  PROVE  f \in Seq(S) /\ Len(f) = n /\ DOMAIN f = 1..n
BY SeqDef, LenProperties

\* Rows that show the samples of R and no other.
Lists(found, R) ==
    /\ found \in Seq(SampleRows)
    /\ \A i \in DOMAIN found : \E s \in R :
         found[i].id = s.id /\ found[i].company_id = s.company_id
    /\ \A s \in R : \E i \in DOMAIN found : found[i].id = s.id

\* A sequence of the elements of R, none left out.
Covers(q, R) ==
    /\ q \in Seq(R)
    /\ \A s \in R : \E i \in DOMAIN q : q[i] = s

LEMMA SampleFields ==
  ASSUME NEW samples, SamplesAreSound(samples), NEW s \in samples
  PROVE  /\ s.id \in Nat /\ s.id > 0
         /\ s.company_id \in Int
         /\ s.sample_index \in Int
         /\ s.sampled_at \in Int \cup {Missing}
         /\ s.values \in Readings
         /\ s.split \in Range(SplitOf)
BY DEF SamplesAreSound

LEMMA WithoutSequenceIsListed ==
  ASSUME NEW samples, SamplesAreSound(samples), NEW R \in SUBSET samples,
         NEW q, Covers(q, R)
  PROVE  /\ Lists(AllWithoutSequence(q), R)
         /\ Len(AllWithoutSequence(q)) = Len(q)
<1> DEFINE found == AllWithoutSequence(q)
<1>1. PICK n \in Nat : q \in [1..n -> R]
  BY SeqDef DEF Covers
<1>2. DOMAIN q = 1..n /\ Len(q) = n
  BY <1>1
<1>3. ASSUME NEW i \in 1..n
      PROVE  /\ found[i].id = q[i].id /\ found[i].company_id = q[i].company_id
             /\ found[i] \in SampleRows
  <2>1. q[i] \in samples
    BY <1>1
  <2>2. found[i] = WithoutSequence(q[i])
    BY <1>2 DEF AllWithoutSequence
  <2>3. /\ q[i].id \in Nat \ {0} /\ q[i].company_id \in Int /\ q[i].id \in Int
        /\ q[i].values \in Readings
    BY <2>1, SampleFields
  <2>4. WithoutSequence(q[i]) \in SampleRows
    BY <2>3 DEF WithoutSequence, SampleRows
  <2> QED BY <2>2, <2>4 DEF WithoutSequence
<1>4. found \in [1..n -> SampleRows]
  BY <1>2, <1>3 DEF AllWithoutSequence
<1>5. found \in Seq(SampleRows) /\ Len(found) = n /\ DOMAIN found = 1..n
  BY <1>4, SequenceOfLength
<1>6. \A i \in 1..n : q[i] \in R
  BY <1>1
<1>7. \A s \in R : \E i \in 1..n : q[i] = s
  BY <1>2 DEF Covers
<1>8. Lists(found, R)
  <2> HIDE DEF found
  <2> QED BY <1>2, <1>3, <1>5, <1>6, <1>7 DEF Lists
<1> QED BY <1>2, <1>5, <1>8

LEMMA WithSequenceIsListed ==
  ASSUME NEW samples, SamplesAreSound(samples), NEW R \in SUBSET samples,
         NEW q, Covers(q, R)
  PROVE  /\ Lists(AllWithSequence(q), R)
         /\ Len(AllWithSequence(q)) = Len(q)
<1> DEFINE found == AllWithSequence(q)
<1>1. PICK n \in Nat : q \in [1..n -> R]
  BY SeqDef DEF Covers
<1>2. DOMAIN q = 1..n /\ Len(q) = n
  BY <1>1
<1>3. ASSUME NEW i \in 1..n
      PROVE  /\ found[i].id = q[i].id /\ found[i].company_id = q[i].company_id
             /\ found[i] \in SampleRows
  <2>1. q[i] \in samples
    BY <1>1
  <2>2. found[i] = WithSequence(q[i])
    BY <1>2 DEF AllWithSequence
  <2>3. /\ q[i].id \in Nat \ {0} /\ q[i].company_id \in Int
        /\ q[i].sample_index \in Int /\ q[i].sampled_at \in Int \cup {Missing}
        /\ q[i].values \in Readings
    BY <2>1, SampleFields
  <2>4. WithSequence(q[i]) \in SampleRows
    BY <2>3 DEF WithSequence, SampleRows
  <2> QED BY <2>2, <2>4 DEF WithSequence
<1>4. found \in [1..n -> SampleRows]
  BY <1>2, <1>3 DEF AllWithSequence
<1>5. found \in Seq(SampleRows) /\ Len(found) = n /\ DOMAIN found = 1..n
  BY <1>4, SequenceOfLength
<1>6. \A i \in 1..n : q[i] \in R
  BY <1>1
<1>7. \A s \in R : \E i \in 1..n : q[i] = s
  BY <1>2 DEF Covers
<1>8. Lists(found, R)
  <2> HIDE DEF found
  <2> QED BY <1>2, <1>3, <1>5, <1>6, <1>7 DEF Lists
<1> QED BY <1>2, <1>5, <1>8

\* The three orders of the queries are strict and total on what they order: the
\* primary key, or the unique place in the sequence.
LEMMA IdsOrder ==
  ASSUME NEW samples, SamplesAreSound(samples), NEW R \in SUBSET samples
  PROVE  /\ IsFiniteSet(R)
         /\ Orders({p \in R \X R : p[1].id < p[2].id}, R)
<1>1. IsFiniteSet(R)
  BY FS_Subset DEF SamplesAreSound
<1>2. \A s \in R : s.id \in Nat
  BY SampleFields
<1>3. \A r, s \in R : r # s => r.id # s.id
  BY DEF SamplesAreSound
<1> QED BY <1>1, <1>2, <1>3 DEF Orders

LEMMA CompaniesAndIdsOrder ==
  ASSUME NEW samples, SamplesAreSound(samples), NEW R \in SUBSET samples
  PROVE  Orders({p \in R \X R :
                    \/ p[1].company_id < p[2].company_id
                    \/ p[1].company_id = p[2].company_id /\ p[1].id < p[2].id}, R)
<1>1. \A s \in R : s.id \in Nat /\ s.company_id \in Int
  BY SampleFields
<1>2. \A r, s \in R : r # s => r.id # s.id
  BY DEF SamplesAreSound
<1> QED BY <1>1, <1>2 DEF Orders

LEMMA IndexesOrder ==
  ASSUME NEW samples, SamplesAreSound(samples), NEW R \in SUBSET samples,
         \A r, s \in R : r.company_id = s.company_id /\ r.split = s.split
  PROVE  Orders({p \in R \X R : p[1].sample_index < p[2].sample_index}, R)
<1>1. \A s \in R : s.sample_index \in Int
  BY SampleFields
<1>2. \A r, s \in R : r # s => r.sample_index # s.sample_index
  BY DEF SamplesAreSound
<1> QED BY <1>1, <1>2 DEF Orders

LEMMA ArrangedCovers ==
  ASSUME NEW S, NEW R, IsFiniteSet(S), Orders(R, S)
  PROVE  /\ Covers(Arranged(S, R), S)
         /\ Len(Arranged(S, R)) = Cardinality(S)
         /\ Cardinality(S) \in Nat
<1>1. /\ Cardinality(S) \in Nat
      /\ Arranged(S, R) \in [1..Cardinality(S) -> S]
      /\ \A x \in S : \E k \in 1..Cardinality(S) : Arranged(S, R)[k] = x
  BY ArrangedIsSorted
<1>2. Arranged(S, R) \in Seq(S) /\ Len(Arranged(S, R)) = Cardinality(S)
  BY <1>1, SequenceOfLength
<1> QED BY <1>1, <1>2 DEF Covers

LEMMA ListedIds ==
  ASSUME NEW found, NEW R, Lists(found, R)
  PROVE  {found[i].id : i \in DOMAIN found} = {s.id : s \in R}
BY DEF Lists

\* A row that a query returns shows what its sample has.
Shows(row, s) ==
    row.id = s.id /\ row.company_id = s.company_id /\ row.values = s.values

LEMMA WithoutSequenceShows ==
  ASSUME NEW R, NEW q, Covers(q, R), NEW found, found = AllWithoutSequence(q)
  PROVE  /\ DOMAIN found = DOMAIN q
         /\ \A i \in DOMAIN q : q[i] \in R /\ Shows(found[i], q[i])
<1>1. DOMAIN found = DOMAIN q
  BY DEF AllWithoutSequence
<1>2. ASSUME NEW i \in DOMAIN q
      PROVE  q[i] \in R /\ Shows(found[i], q[i])
  <2>1. q[i] \in R
    BY ElementOfSeq, LenProperties DEF Covers
  <2>2. found[i] = WithoutSequence(q[i])
    BY DEF AllWithoutSequence
  <2> QED BY <2>1, <2>2 DEF WithoutSequence, Shows
<1> QED BY <1>1, <1>2

LEMMA WithSequenceShows ==
  ASSUME NEW R, NEW q, Covers(q, R), NEW found, found = AllWithSequence(q)
  PROVE  /\ DOMAIN found = DOMAIN q
         /\ \A i \in DOMAIN q :
              /\ q[i] \in R /\ Shows(found[i], q[i])
              /\ found[i].sample_index = q[i].sample_index
              /\ found[i].sampled_at = q[i].sampled_at
<1>1. DOMAIN found = DOMAIN q
  BY DEF AllWithSequence
<1>2. ASSUME NEW i \in DOMAIN q
      PROVE  /\ q[i] \in R /\ Shows(found[i], q[i])
             /\ found[i].sample_index = q[i].sample_index
             /\ found[i].sampled_at = q[i].sampled_at
  <2>1. q[i] \in R
    BY ElementOfSeq, LenProperties DEF Covers
  <2>2. found[i] = WithSequence(q[i])
    BY DEF AllWithSequence
  <2> QED BY <2>1, <2>2 DEF WithSequence, Shows
<1> QED BY <1>1, <1>2

LEMMA ArrangedInOrder ==
  ASSUME NEW S, NEW R, IsFiniteSet(S), Orders(R, S), NEW q, q = Arranged(S, R)
  PROVE  \A i, j \in DOMAIN q : i < j => <<q[i], q[j]>> \in R
BY ArrangedIsSorted

\* Rows that show samples of the table are of the table.
LEMMA ShownAreOfTheTable ==
  ASSUME NEW st, NEW r, NEW found, NEW q, DOMAIN found = DOMAIN q,
         \A i \in DOMAIN q : q[i] \in st.samples /\ Shows(found[i], q[i]),
         r.kind = "forecast" => \A i \in DOMAIN q :
           /\ found[i].sample_index = q[i].sample_index
           /\ found[i].sampled_at = q[i].sampled_at
  PROVE  AreOfTheTable(st, r, found)
BY DEF AreOfTheTable, Shows

\* What RowsAreInScope says of the rows of a request.
AreWhatWasAsked(st, r, found) ==
    /\ IsInScope(st, r, found)
    /\ AreInOrder(r, found)
    /\ AreTheValuesAskedFor(st, r, found)

\* The rows of a version are its company's, in the order of their ids.
IsOrderedVersion(run) ==
    /\ \A i \in DOMAIN run.rows : run.rows[i].company_id = run.company_id
    /\ \A i, j \in DOMAIN run.rows : i < j => run.rows[i].id < run.rows[j].id

\* What the store keeps from request to request.
Versions == [company_id : Int, split : Range(SplitOf), parent : Nat,
             rows : Seq(SampleRows), changed : Nat]

VersionsAreSound(st) ==
    /\ st.runs \in Seq(Versions)
    /\ \A id \in DOMAIN st.runs : VersionIsUsable(st, id) /\ IsOrderedVersion(st.runs[id])

LEMMA ScopeOfOneCompany ==
  ASSUME NEW st, NEW r, r.kind # "trace"
  PROVE  IdsInScope(st, r) = {s.id : s \in RawRows(st, r.company_id, r.dataset)}
BY DEF IdsInScope, RawRows

LEMMA WholeTable ==
  ASSUME NEW S, NEW q \in Seq(S), NEW limit \in Nat,
         ~(Len(FirstOf(q, limit + 1)) > limit)
  PROVE  FirstOf(q, limit + 1) = q
<1>1. Len(q) \in Nat /\ \A i \in 1..Len(q) : q[i] \in S
  BY LenProperties
<1>2. CASE Len(q) < limit + 1
  BY <1>2, SubSeqFull DEF FirstOf
<1>3. CASE ~(Len(q) < limit + 1)
  <2>1. FirstOf(q, limit + 1) = SubSeq(q, 1, limit + 1)
    BY <1>3 DEF FirstOf
  <2>2. \A i \in 1..limit + 1 : q[i] \in S
    BY <1>1, <1>3
  <2>3. Len(SubSeq(q, 1, limit + 1)) = limit + 1
    BY <2>2, SubSeqProperties
  <2> QED BY <2>1, <2>3
<1> QED BY <1>2, <1>3

\* The rows of a forecast analysis are those of the company in the split: the
\* limit of the query is one above the one the service allows.
LEMMA ForecastLoad ==
  ASSUME NEW st, SamplesAreSound(st.samples),
         NEW r, r.kind = "forecast", r.operation \in ForecastOperations,
         LoadForecastSamples(st, r).ok,
         ~(Len(LoadForecastSamples(st, r).rows) > ForecastRowLimit)
  PROVE  /\ LoadForecastSamples(st, r).rows \in Seq(SampleRows)
         /\ AreWhatWasAsked(st, r, LoadForecastSamples(st, r).rows)
<1> DEFINE raw == RawRows(st, r.company_id, r.dataset)
           q == BySampleIndex(raw)
           found == AllWithSequence(FirstOf(q, ForecastRowLimit + 1))
<1>1. LoadForecastSamples(st, r).rows = found
  BY DEF LoadForecastSamples, Found, Failed
<1>2. raw \subseteq st.samples
  BY DEF RawRows
<1>3. IsFiniteSet(raw) /\ Orders({p \in raw \X raw : p[1].sample_index < p[2].sample_index}, raw)
  <2>1. \A s, t \in raw : s.company_id = t.company_id /\ s.split = t.split
    BY DEF RawRows
  <2> HIDE DEF raw
  <2>2. IsFiniteSet(raw)
    BY <1>2, IdsOrder
  <2>3. Orders({p \in raw \X raw : p[1].sample_index < p[2].sample_index}, raw)
    BY <1>2, <2>1, IndexesOrder
  <2> QED BY <2>2, <2>3
<1>4. Covers(q, raw)
  BY <1>3, ArrangedCovers DEF BySampleIndex
<1>5. ForecastRowLimit \in Nat
  BY DomainAssumption
<1>6. FirstOf(q, ForecastRowLimit + 1) = q
  <2>1. Len(found) = Len(FirstOf(q, ForecastRowLimit + 1))
    <3> DEFINE part == FirstOf(q, ForecastRowLimit + 1)
    <3>1. part \in Seq(raw)
      <4>1. q \in Seq(raw) /\ Len(q) \in Nat /\ \A i \in 1..Len(q) : q[i] \in raw
        BY <1>4, LenProperties DEF Covers
      <4> HIDE DEF q, raw
      <4> QED BY <4>1, <1>5, SubSeqProperties DEF FirstOf
    <3> HIDE DEF part
    <3>2. PICK n \in Nat : part \in [1..n -> raw]
      BY <3>1, SeqDef
    <3>3. AllWithSequence(part) = [i \in 1..n |-> WithSequence(part[i])]
      BY <3>2 DEF AllWithSequence
    <3>4. Len(AllWithSequence(part)) = n /\ Len(part) = n
      BY <3>2, <3>3
    <3> QED BY <3>4 DEF part
  <2>2. q \in Seq(raw)
    BY <1>4 DEF Covers
  <2> HIDE DEF q, raw
  <2> QED BY <1>1, <1>5, <2>1, <2>2, WholeTable
<1>7. Lists(found, raw)
  BY <1>2, <1>4, <1>6, WithSequenceIsListed
<1>8. {found[i].id : i \in DOMAIN found} = {s.id : s \in raw}
  BY <1>7, ListedIds
<1>9. ~IsComparison(r)
  BY DEF IsComparison, ForecastOperations
<1>10. IdsInScope(st, r) = {s.id : s \in raw}
  BY ScopeOfOneCompany
<1>11. r.kind # "trace" /\ r.kind # "predict"
  OBVIOUS
<1>12. /\ DOMAIN found = DOMAIN q
       /\ \A i \in DOMAIN q : /\ q[i] \in raw /\ Shows(found[i], q[i])
                              /\ found[i].sample_index = q[i].sample_index
                              /\ found[i].sampled_at = q[i].sampled_at
  <2> HIDE DEF q, raw
  <2> QED BY <1>4, <1>6, WithSequenceShows
<1>13. \A i, j \in DOMAIN q : i < j => q[i].sample_index < q[j].sample_index
  <2> DEFINE order == {p \in raw \X raw : p[1].sample_index < p[2].sample_index}
  <2>1. q = Arranged(raw, order)
    BY DEF BySampleIndex
  <2>2. \A i, j \in DOMAIN q : i < j => <<q[i], q[j]>> \in order
    <3> HIDE DEF q, raw, order
    <3> QED BY <1>3, <2>1, ArrangedInOrder DEF order
  <2> HIDE DEF q, raw
  <2> QED BY <2>2
<1> HIDE DEF found, raw, q
<1>14. IsInScope(st, r, found)
  BY <1>8, <1>9, <1>10, <1>11, Zenon DEF IsInScope
<1>15. AreInOrder(r, found)
  BY <1>12, <1>13 DEF AreInOrder
<1>16. AreTheValuesAskedFor(st, r, found)
  <2>1. \A i \in DOMAIN q : q[i] \in st.samples
    BY <1>2, <1>12
  <2>2. AreOfTheTable(st, r, found)
    BY <1>12, <2>1, ShownAreOfTheTable
  <2> QED BY <2>2 DEF AreTheValuesAskedFor, NamesAVersion
<1> QED BY <1>1, <1>7, <1>14, <1>15, <1>16 DEF Lists, AreWhatWasAsked

\* The rows of a classification analysis are those of the table, or of a version
\* computed from all of them.
LEMMA ClassificationLoad ==
  ASSUME NEW st, SamplesAreSound(st.samples), VersionsAreSound(st),
         NEW r, r.kind = "classification", r.cleaning_run_id \in Nat,
         IsComparison(r) => r.cleaning_run_id = 0,
         LoadClassificationSamples(st, r).ok
  PROVE  LET found == LoadClassificationSamples(st, r).rows
         IN  /\ found \in Seq(SampleRows)
             /\ AreWhatWasAsked(st, r, found)
             /\ found # <<>> /\ Len(found) <= ClassificationRowLimit
             /\ r.cleaning_run_id > 0 => VersionFits(st, r)
<1> DEFINE found == LoadClassificationSamples(st, r).rows
           raw == RowsToClassify(st, r)
           mine == IdsInScope(st, r)
           read == {found[i].id : i \in DOMAIN found}
<1>1. /\ found = IF r.cleaning_run_id > 0 THEN st.runs[r.cleaning_run_id].rows
                 ELSE AllWithoutSequence(ByCompanyAndId(raw))
      /\ r.cleaning_run_id > 0 => VersionFits(st, r)
      /\ ~(Len(found) > ClassificationRowLimit) /\ found # <<>>
  BY DEF LoadClassificationSamples, VersionRows, Found, Failed
<1>2. r.kind # "trace" /\ r.kind # "predict"
  OBVIOUS
<1>3. ASSUME r.cleaning_run_id > 0
      PROVE  found \in Seq(SampleRows) /\ AreWhatWasAsked(st, r, found)
  <2> DEFINE run == st.runs[r.cleaning_run_id]
  <2>1. /\ r.cleaning_run_id \in DOMAIN st.runs
        /\ run.company_id = r.company_id
        /\ run.split = SplitOf[r.dataset]
    BY <1>1, <1>3 DEF VersionFits
  <2>2. run \in Versions
    BY <2>1, ElementOfSeq, LenProperties DEF VersionsAreSound
  <2>3. found \in Seq(SampleRows)
    BY <1>1, <1>3, <2>2 DEF Versions
  <2>4. read = IdsOf(st, run)
    <3>1. VersionIsUsable(st, r.cleaning_run_id)
      BY <2>1 DEF VersionsAreSound
    <3>2. {run.rows[i].id : i \in DOMAIN run.rows} = IdsOf(st, run)
      BY <3>1 DEF VersionIsUsable
    <3>3. found = run.rows
      BY <1>1, <1>3
    <3> HIDE DEF found, run
    <3> QED BY <3>2, <3>3
  <2>5. IdsOf(st, run) = mine
    BY <2>1, <1>2, ScopeOfOneCompany DEF IdsOf, RawRows
  <2>6. ~IsComparison(r)
    BY <1>3
  <2>7. IsInScope(st, r, found)
    <3> HIDE DEF found
    <3> QED BY <1>2, <2>4, <2>5, <2>6, Zenon DEF IsInScope
  <2>8. IsOrderedVersion(run) /\ found = run.rows
    BY <1>1, <1>3, <2>1 DEF VersionsAreSound
  <2> HIDE DEF found
  <2>9. AreInOrder(r, found)
    BY <2>8 DEF IsOrderedVersion, AreInOrder
  <2>10. AreTheValuesAskedFor(st, r, found)
    <3>1. AreOfTheVersion(run, r, found)
      BY <2>1, <2>8 DEF AreOfTheVersion
    <3> QED BY <1>3, <2>1, <3>1 DEF AreTheValuesAskedFor, NamesAVersion
  <2> QED BY <2>3, <2>7, <2>9, <2>10 DEF AreWhatWasAsked
<1>4. ASSUME ~(r.cleaning_run_id > 0)
      PROVE  found \in Seq(SampleRows) /\ AreWhatWasAsked(st, r, found)
  <2>1. raw \subseteq st.samples
    BY DEF RowsToClassify
  <2> DEFINE q == ByCompanyAndId(raw)
             order == {p \in raw \X raw :
                         \/ p[1].company_id < p[2].company_id
                         \/ p[1].company_id = p[2].company_id /\ p[1].id < p[2].id}
  <2>2. /\ Covers(ByCompanyAndId(raw), raw)
        /\ IsFiniteSet(raw) /\ Orders(order, raw)
    <3> HIDE DEF raw
    <3>1. IsFiniteSet(raw)
      BY <2>1, IdsOrder
    <3>2. Orders({p \in raw \X raw :
                    \/ p[1].company_id < p[2].company_id
                    \/ p[1].company_id = p[2].company_id /\ p[1].id < p[2].id}, raw)
      BY <2>1, CompaniesAndIdsOrder
    <3> QED BY <3>1, <3>2, ArrangedCovers DEF ByCompanyAndId
  <2>3. Lists(found, raw)
    BY <1>1, <1>4, <2>1, <2>2, WithoutSequenceIsListed
  <2>4. read = {s.id : s \in raw}
    BY <2>3, ListedIds
  <2>7. /\ DOMAIN found = DOMAIN q
        /\ \A i \in DOMAIN q : q[i] \in raw /\ Shows(found[i], q[i])
    <3>1. found = AllWithoutSequence(q)
      BY <1>1, <1>4
    <3> HIDE DEF q, raw, found
    <3> QED BY <2>2, <3>1, WithoutSequenceShows DEF q
  <2>8. AreInOrder(r, found)
    <3>1. q = Arranged(raw, order)
      BY DEF ByCompanyAndId
    <3> HIDE DEF q, raw, found
    <3>2. \A i, j \in DOMAIN q : i < j => <<q[i], q[j]>> \in order
      <4> HIDE DEF order
      <4> QED BY <2>2, <3>1, ArrangedInOrder
    <3>3. ASSUME NEW i \in DOMAIN found, NEW j \in DOMAIN found, i < j
          PROVE  \/ found[i].company_id < found[j].company_id
                 \/ found[i].company_id = found[j].company_id /\ found[i].id < found[j].id
      <4>1. i \in DOMAIN q /\ j \in DOMAIN q
        BY <2>7, <3>3
      <4>2. <<q[i], q[j]>> \in order
        BY <3>2, <3>3, <4>1
      <4>3. \/ q[i].company_id < q[j].company_id
            \/ q[i].company_id = q[j].company_id /\ q[i].id < q[j].id
        BY <4>2
      <4>4. Shows(found[i], q[i]) /\ Shows(found[j], q[j])
        BY <2>7, <4>1
      <4> HIDE DEF order
      <4> QED BY <4>3, <4>4 DEF Shows
    <3>4. r.kind # "forecast"
      OBVIOUS
    <3> HIDE DEF order
    <3> QED BY <3>3, <3>4 DEF AreInOrder
  <2>9. AreTheValuesAskedFor(st, r, found)
    <3> HIDE DEF q, raw, found
    <3>1. \A i \in DOMAIN q : q[i] \in st.samples /\ Shows(found[i], q[i])
      BY <2>1, <2>7
    <3>2. r.kind # "forecast"
      OBVIOUS
    <3>3. AreOfTheTable(st, r, found)
      BY <2>7, <3>1, <3>2, ShownAreOfTheTable
    <3> QED BY <1>4, <3>3 DEF AreTheValuesAskedFor, NamesAVersion
  <2>5. CASE IsComparison(r)
    <3>1. raw = {s \in st.samples : s.split = SplitOf[r.dataset]}
      BY <2>5 DEF RowsToClassify, IsComparison
    <3>2. IsInScope(st, r, found)
      <4> HIDE DEF found, raw
      <4> QED BY <1>2, <2>4, <2>5, <3>1, Zenon DEF IsInScope
    <3> QED BY <2>3, <2>8, <2>9, <3>2 DEF Lists, AreWhatWasAsked
  <2>6. CASE ~IsComparison(r)
    <3>1. raw = RawRows(st, r.company_id, r.dataset)
      BY <2>6 DEF RowsToClassify, IsComparison, RawRows
    <3>2. mine = {s.id : s \in raw}
      BY <1>2, <3>1, ScopeOfOneCompany
    <3>3. IsInScope(st, r, found)
      <4> HIDE DEF found, raw
      <4> QED BY <1>2, <2>4, <2>6, <3>2, Zenon DEF IsInScope
    <3> QED BY <2>3, <2>8, <2>9, <3>3 DEF Lists, AreWhatWasAsked
  <2> QED BY <2>5, <2>6
<1>5. ClassificationRowLimit \in Nat
  BY DomainAssumption
<1>6. found \in Seq(SampleRows) /\ AreWhatWasAsked(st, r, found)
  BY <1>3, <1>4
<1>7. Len(found) \in Nat
  BY <1>6, LenProperties
<1> QED BY <1>1, <1>5, <1>6, <1>7

\* What is left of a sequence is a sequence.
LEMMA AtPositionsIsSequence ==
  ASSUME NEW S, NEW s, NEW I \in SUBSET Int, IsFiniteSet(I), \A i \in I : s[i] \in S
  PROVE  /\ AtPositions(s, I) \in Seq(S)
         /\ Len(AtPositions(s, I)) = Cardinality(I)
<1> DEFINE order == Arranged(I, Ascending(I))
           n == Cardinality(I)
<1>1. n \in Nat /\ order \in [1..n -> I]
  BY AscendingOrders, ArrangedIsSorted
<1>2. AtPositions(s, I) = [k \in 1..n |-> s[order[k]]]
  <2>1. DOMAIN order = 1..n
    BY <1>1
  <2> HIDE DEF n
  <2> QED BY <2>1 DEF AtPositions
<1>3. \A k \in 1..n : s[order[k]] \in S
  BY <1>1
<1> HIDE DEF order
<1>4. AtPositions(s, I) \in [1..n -> S]
  BY <1>2, <1>3
<1> QED BY <1>1, <1>4, SequenceOfLength

\* A trace reads the sample it names: of the split's table, or of a version of
\* that split, and then without a gap.
LEMMA TableSample ==
  ASSUME NEW st, SamplesAreSound(st.samples),
         NEW r, r.kind = "trace", r.dataset \in Datasets, r.cleaning_run_id = 0,
         FindSample(st, r).rows # <<>>
  PROVE  LET found == FindSample(st, r).rows
         IN  found \in Seq(SampleRows) /\ AreWhatWasAsked(st, r, found)
<1> DEFINE R == {row \in st.samples : row.id = r.sample_id
                                       /\ row.split = SplitOf[r.dataset]}
           found == FindSample(st, r).rows
           mine == IdsInScope(st, r)
           read == {found[i].id : i \in DOMAIN found}
<1>1. found = AllWithoutSequence(ById(R))
  BY EveryDatasetHasASplit DEF FindSample, Found
<1>2. /\ Covers(ById(R), R)
      /\ \A i, j \in DOMAIN ById(R) : i < j => ById(R)[i].id < ById(R)[j].id
  <2>1. R \subseteq st.samples
    OBVIOUS
  <2> DEFINE order == {p \in R \X R : p[1].id < p[2].id}
             q == ById(R)
  <2> HIDE DEF R
  <2>2. IsFiniteSet(R) /\ Orders(order, R)
    BY <2>1, IdsOrder
  <2>3. Covers(ById(R), R)
    BY <2>2, ArrangedCovers DEF ById
  <2>4. q = Arranged(R, order)
    BY DEF ById
  <2>5. \A i, j \in DOMAIN q : i < j => <<q[i], q[j]>> \in order
    <3> HIDE DEF order, q
    <3> QED BY <2>2, <2>4, ArrangedInOrder
  <2>6. \A i, j \in DOMAIN q : i < j => q[i].id < q[j].id
    <3> HIDE DEF q
    <3> QED BY <2>5
  <2> QED BY <2>3, <2>6
<1>3. Lists(found, R)
  BY <1>1, <1>2, WithoutSequenceIsListed
<1>4. read = {s.id : s \in R}
  BY <1>3, ListedIds
<1>5. R # {}
  <2>1. found \in Seq(SampleRows) /\ found # <<>>
    BY <1>3 DEF Lists
  <2>2. 1 \in DOMAIN found
    <3> HIDE DEF found
    <3> QED BY <2>1, LenProperties, EmptySeq
  <2> HIDE DEF R, found
  <2> QED BY <1>3, <2>2 DEF Lists
<1>6. read = {r.sample_id}
  <2> HIDE DEF read
  <2> QED BY <1>4, <1>5
<1>7. r.sample_id \in mine
  <2>1. PICK s \in R : TRUE
    BY <1>5
  <2> QED BY <2>1 DEF IdsInScope
<1>8. IsInScope(st, r, found)
  <2> HIDE DEF found
  <2> QED BY <1>6, <1>7 DEF IsInScope
<1> DEFINE q == ById(R)
<1>9. /\ DOMAIN found = DOMAIN q
      /\ \A i \in DOMAIN q : q[i] \in R /\ Shows(found[i], q[i])
  <2> HIDE DEF R, q, found
  <2> QED BY <1>1, <1>2, WithoutSequenceShows DEF q
<1>10. AreInOrder(r, found)
  <2>1. \A i, j \in DOMAIN q : i < j => q[i].id < q[j].id
    BY <1>2
  <2>2. \A i, j \in DOMAIN q : q[i].company_id = q[j].company_id
    <3>1. \A s, t \in R : s = t
      BY DEF SamplesAreSound
    <3> HIDE DEF R, q
    <3> QED BY <1>9, <3>1
  <2> HIDE DEF R, q, found
  <2> QED BY <1>9, <2>1, <2>2 DEF AreInOrder, Shows
<1>11. AreTheValuesAskedFor(st, r, found)
  <2>1. R \subseteq st.samples
    OBVIOUS
  <2> HIDE DEF R, q, found
  <2>2. \A i \in DOMAIN q : q[i] \in st.samples /\ Shows(found[i], q[i])
    BY <1>9, <2>1
  <2>3. r.kind # "forecast"
    OBVIOUS
  <2>4. AreOfTheTable(st, r, found)
    BY <1>9, <2>2, <2>3, ShownAreOfTheTable
  <2> QED BY <2>4 DEF AreTheValuesAskedFor, NamesAVersion
<1> QED BY <1>3, <1>8, <1>10, <1>11 DEF Lists, AreWhatWasAsked

LEMMA VersionSample ==
  ASSUME NEW st, VersionsAreSound(st),
         NEW r, r.kind = "trace", r.dataset \in Datasets,
         r.cleaning_run_id \in Nat, r.cleaning_run_id # 0,
         FindCleanedSample(st, r).rows # <<>>
  PROVE  LET found == FindCleanedSample(st, r).rows
         IN  /\ found \in Seq(SampleRows) /\ AreWhatWasAsked(st, r, found)
             /\ IsComplete(found[1])
<1> DEFINE run == st.runs[r.cleaning_run_id]
           saved == run.rows
           I == {i \in DOMAIN saved : saved[i].id = r.sample_id}
           found == FindCleanedSample(st, r).rows
           mine == IdsInScope(st, r)
           read == {found[i].id : i \in DOMAIN found}
<1>1. /\ found = AtPositions(saved, I)
      /\ r.cleaning_run_id \in DOMAIN st.runs
      /\ run.split = SplitOf[r.dataset]
  BY EveryDatasetHasASplit DEF FindCleanedSample, VersionRows, Found
<1>2. run \in Versions
  BY <1>1, ElementOfSeq, LenProperties DEF VersionsAreSound
<1>3. saved \in Seq(SampleRows)
  BY <1>2 DEF Versions
<1>4. /\ I \subseteq Int /\ IsFiniteSet(I)
      /\ \A i \in I : saved[i] \in SampleRows
  <2>1. Len(saved) \in Nat /\ saved \in [1..Len(saved) -> SampleRows]
    BY <1>3, LenProperties
  <2>2. I \subseteq 1..Len(saved)
    BY <2>1
  <2> HIDE DEF I, saved
  <2>3. IsFiniteSet(1..Len(saved))
    BY <2>1, FS_Interval
  <2>4. IsFiniteSet(I)
    BY <2>2, <2>3, FS_Subset
  <2> QED BY <2>1, <2>2, <2>4
<1>5. /\ found \in Seq(SampleRows)
      /\ DOMAIN found = 1..Cardinality(I)
      /\ \A k \in 1..Cardinality(I) : \E i \in I : found[k] = saved[i]
  <2> HIDE DEF I, saved, found
  <2> QED BY <1>1, <1>4, AtPositionsIsSequence, AtPositionsIsSelection
<1>6. 1 \in DOMAIN found
  <2>1. found \in Seq(SampleRows) /\ found # <<>>
    BY <1>5
  <2> HIDE DEF found
  <2> QED BY <2>1, LenProperties, EmptySeq
<1>7. PICK first \in I : found[1] = saved[first]
  BY <1>5, <1>6
<1>8. VersionIsUsable(st, r.cleaning_run_id)
  BY <1>1 DEF VersionsAreSound
<1>9. IsComplete(found[1])
  <2>1. \A i \in DOMAIN saved : IsComplete(saved[i])
    BY <1>8 DEF VersionIsUsable
  <2> QED BY <1>7, <2>1
<1>10. {saved[i].id : i \in DOMAIN saved} = IdsOf(st, run)
  BY <1>8 DEF VersionIsUsable
<1>11. r.sample_id \in mine
  <2>1. saved[first].id = r.sample_id /\ first \in DOMAIN saved
    OBVIOUS
  <2>2. r.sample_id \in IdsOf(st, run)
    BY <1>10, <2>1
  <2> QED BY <1>1, <2>2 DEF IdsOf, IdsInScope
<1>12. read = {r.sample_id}
  <2>1. \A k \in DOMAIN found : found[k].id = r.sample_id
    BY <1>5
  <2> HIDE DEF found
  <2> QED BY <1>6, <2>1
<1>13. IsInScope(st, r, found)
  <2> HIDE DEF found
  <2> QED BY <1>11, <1>12 DEF IsInScope
\* The sample is there once.
<1>14. DOMAIN found = 1..1
  <2>1. \A i, j \in DOMAIN saved : i < j => saved[i].id < saved[j].id
    BY <1>1 DEF VersionsAreSound, IsOrderedVersion
  <2>2. ASSUME NEW i \in I, NEW j \in I PROVE i = j
    <3>1. i \in Int /\ j \in Int /\ saved[i].id = saved[j].id /\ saved[i].id \in Nat
      BY <1>4 DEF SampleRows
    <3> QED BY <2>1, <3>1
  <2>3. I = {first}
    <3> HIDE DEF I
    <3> QED BY <2>2
  <2>4. Cardinality({first}) = 1
    BY FS_Singleton
  <2> HIDE DEF I, found
  <2> QED BY <1>5, <2>3, <2>4
<1>15. AreInOrder(r, found)
  <2> HIDE DEF found
  <2> QED BY <1>14 DEF AreInOrder
<1>16. AreTheValuesAskedFor(st, r, found)
  <2>1. \A k \in DOMAIN found : \E i \in DOMAIN run.rows : found[k] = run.rows[i]
    BY <1>5
  <2> HIDE DEF found
  <2>2. AreOfTheVersion(run, r, found)
    BY <1>1, <2>1 DEF AreOfTheVersion
  <2> QED BY <1>1, <2>2 DEF AreTheValuesAskedFor, NamesAVersion
<1> QED BY <1>5, <1>9, <1>13, <1>15, <1>16 DEF AreWhatWasAsked

LEMMA LargestOf ==
  ASSUME NEW S \in SUBSET Int, NEW x \in S, \A y \in S : y <= x
  PROVE  Max(S) = x
<1>1. \E z \in S : \A y \in S : z >= y
  OBVIOUS
<1>2. Max(S) \in S /\ \A y \in S : Max(S) >= y
  BY <1>1 DEF Max
<1>3. Max(S) \in Int /\ x \in Int
  BY <1>2
<1> QED BY <1>2, <1>3

LEMMA SmallestOf ==
  ASSUME NEW S \in SUBSET Int, NEW x \in S, \A y \in S : x <= y
  PROVE  Min(S) = x
<1>1. \E z \in S : \A y \in S : z <= y
  OBVIOUS
<1>2. Min(S) \in S /\ \A y \in S : Min(S) <= y
  BY <1>1 DEF Min
<1>3. Min(S) \in Int /\ x \in Int
  BY <1>2
<1> QED BY <1>2, <1>3

\* The last `limit` elements of a sequence that has them.
LEMMA LastElements ==
  ASSUME NEW S, NEW q \in Seq(S), NEW limit \in Nat, Len(LastOf(q, limit)) = limit
  PROVE  /\ Len(q) >= limit
         /\ LastOf(q, limit) \in [1..limit -> S]
         /\ \A k \in 1..limit : LastOf(q, limit)[k] = q[Len(q) - limit + k]
<1>1. Len(q) \in Nat /\ \A i \in 1..Len(q) : q[i] \in S
  BY LenProperties
<1>2. Len(q) >= limit
  <2> SUFFICES ASSUME Len(q) < limit PROVE FALSE
    BY <1>1
  <2>1. LastOf(q, limit) = q
    BY SubSeqFull DEF LastOf
  <2> QED BY <2>1
<1>3. LastOf(q, limit) = SubSeq(q, Len(q) - limit + 1, Len(q))
  <2>1. ~(Len(q) < limit)
    BY <1>1, <1>2
  <2> QED BY <2>1, Zenon DEF LastOf
<1>4. \A i \in Len(q) - limit + 1..Len(q) : q[i] \in S
  BY <1>1, <1>2
<1>5. Len(q) - limit + 1 \in Int /\ Len(q) \in Int
  BY <1>1
<1> DEFINE first == Len(q) - limit + 1
           part == SubSeq(q, first, Len(q))
<1>6. /\ part \in Seq(S)
      /\ \A k \in 1..Len(q) - first + 1 : part[k] = q[first + k - 1]
  <2> HIDE DEF first
  <2> QED BY <1>4, <1>5, SubSeqProperties DEF first
<1>7. part \in [1..limit -> S]
  BY <1>3, <1>6, LenProperties
<1>8. \A k \in 1..limit : part[k] = q[Len(q) - limit + k]
  BY <1>1, <1>6
<1> QED BY <1>2, <1>3, <1>7, <1>8

\* The window of a prediction: the last Lookback rows of the company's table, or
\* the ones that end at the sample asked for, without a row left out between.
LEMMA HistoryLoad ==
  ASSUME NEW st, SamplesAreSound(st.samples),
         NEW r, r.kind = "predict", r.dataset \in Datasets, r.end_sample_id \in Nat,
         NEW found, found = LoadForecastWindow(st, r).rows, Len(found) = Lookback,
         r.end_sample_id > 0 => Last(found).id = r.end_sample_id
  PROVE  found \in Seq(SampleRows) /\ AreWhatWasAsked(st, r, found)
<1> DEFINE R == RowsUpTo(st, r)
           raw == RawRows(st, r.company_id, r.dataset)
           q == ById(R)
           n == Cardinality(R)
           part == LastOf(q, Lookback)
           read == {found[i].id : i \in DOMAIN found}
           mine == IdsInScope(st, r)
           last == q[n].id
           first == q[n - Lookback + 1].id
<1>1. found = AllWithoutSequence(part)
  BY EveryDatasetHasASplit DEF LoadForecastWindow, Found
<1>2. R \subseteq raw /\ raw \subseteq st.samples
  BY DEF RowsUpTo, RawRows
<1>3. Lookback \in Nat /\ Lookback > 0
  BY DomainAssumption
<1>4. /\ n \in Nat /\ q \in [1..n -> R]
      /\ \A s \in R : \E k \in 1..n : q[k] = s
      /\ \A i, j \in 1..n : i < j => q[i].id < q[j].id
      /\ q \in Seq(R) /\ Len(q) = n
  <2> HIDE DEF R
  <2>1. R \subseteq st.samples
    BY <1>2
  <2> DEFINE order == {p \in R \X R : p[1].id < p[2].id}
  <2>2. IsFiniteSet(R) /\ Orders(order, R)
    BY <2>1, IdsOrder
  <2>3. q = Arranged(R, order)
    BY DEF ById
  <2>4. \A i, j \in 1..n : i < j => <<q[i], q[j]>> \in order
    <3> HIDE DEF order, q
    <3> QED BY <2>2, <2>3, ArrangedIsSorted
  <2>5. /\ n \in Nat /\ q \in [1..n -> R]
        /\ \A s \in R : \E k \in 1..n : q[k] = s
    <3> HIDE DEF order, q
    <3> QED BY <2>2, <2>3, ArrangedIsSorted
  <2>6. q \in Seq(R) /\ Len(q) = n
    <3> HIDE DEF q, n
    <3> QED BY <2>5, SequenceOfLength
  <2>7. \A i, j \in 1..n : i < j => q[i].id < q[j].id
    <3> HIDE DEF q, n
    <3> QED BY <2>4
  <2> QED BY <2>5, <2>6, <2>7
<1>5. \A k \in 1..n : /\ q[k] \in R /\ q[k] \in raw /\ q[k].id \in Nat
  <2>1. \A k \in 1..n : q[k] \in R
    <3> HIDE DEF q, n, R
    <3> QED BY <1>4
  <2>2. \A s \in R : s \in st.samples /\ s \in raw
    BY <1>2
  <2> HIDE DEF q, n, R, raw
  <2> QED BY <2>1, <2>2, SampleFields
<1> HIDE DEF R, q, n
<1>6. Len(part) = Lookback
  <2>1. Len(q) \in Nat /\ \A i \in 1..Len(q) : q[i] \in R
    BY <1>4, <1>5
  <2>2. part \in Seq(R)
    BY <2>1, <1>3, SubSeqProperties DEF LastOf
  <2> HIDE DEF part
  <2>3. PICK m \in Nat : part \in [1..m -> R]
    BY <2>2, SeqDef
  <2>4. AllWithoutSequence(part) = [k \in 1..m |-> WithoutSequence(part[k])]
    BY <2>3 DEF AllWithoutSequence
  <2>5. Len(AllWithoutSequence(part)) = m
    BY <2>4
  <2>6. Len(part) = m
    BY <2>3
  <2> QED BY <1>1, <2>5, <2>6
<1>7. /\ n >= Lookback
      /\ part \in [1..Lookback -> R]
      /\ \A k \in 1..Lookback : part[k] = q[n - Lookback + k]
  <2>1. q \in Seq(R) /\ Len(q) = n
    BY <1>4
  <2>2. Len(q) >= Lookback
    BY <1>3, <1>6, <2>1, LastElements
  <2>3. part \in [1..Lookback -> R]
    BY <1>3, <1>6, <2>1, LastElements
  <2>4. \A k \in 1..Lookback : part[k] = q[Len(q) - Lookback + k]
    BY <1>3, <1>6, <2>1, LastElements
  <2> HIDE DEF part
  <2> QED BY <2>1, <2>2, <2>3, <2>4
<1>8. /\ DOMAIN found = 1..Lookback
      /\ \A k \in 1..Lookback :
           found[k] \in SampleRows /\ Shows(found[k], q[n - Lookback + k])
  <2> HIDE DEF part
  <2>1. found = [k \in 1..Lookback |-> WithoutSequence(part[k])]
    BY <1>1, <1>7 DEF AllWithoutSequence
  <2>2. ASSUME NEW k \in 1..Lookback
        PROVE  /\ WithoutSequence(part[k]) \in SampleRows
               /\ Shows(WithoutSequence(part[k]), part[k])
    <3>1. part[k] \in st.samples
      BY <1>2, <1>7
    <3>2. /\ part[k].id \in Nat \ {0} /\ part[k].id \in Int
          /\ part[k].company_id \in Int /\ part[k].values \in Readings
      BY <3>1, SampleFields
    <3> QED BY <3>2 DEF WithoutSequence, SampleRows, Shows
  <2> QED BY <1>7, <2>1, <2>2
<1>9. found \in Seq(SampleRows)
  <2>1. found = [k \in 1..Lookback |-> found[k]]
    BY <1>1, <1>8 DEF AllWithoutSequence
  <2>2. found \in [1..Lookback -> SampleRows]
    BY <1>8, <2>1
  <2> QED BY <1>3, <2>2, SequenceOfLength
<1> HIDE DEF part
<1>10. /\ first \in read /\ last \in read
       /\ first \in Nat /\ last \in Nat
       /\ \A id \in read : first <= id /\ id <= last
       /\ \A id \in read : \E j \in n - Lookback + 1..n : id = q[j].id
       /\ \A j \in n - Lookback + 1..n : q[j].id \in read
  <2>1. /\ n - Lookback + 1 \in 1..n /\ n \in 1..n
    BY <1>3, <1>4, <1>7
  <2>2. \A id \in read : \E j \in n - Lookback + 1..n : id = q[j].id
    <3> SUFFICES ASSUME NEW k \in DOMAIN found
                 PROVE  \E j \in n - Lookback + 1..n : found[k].id = q[j].id
      OBVIOUS
    <3>1. k \in 1..Lookback /\ n - Lookback + k \in n - Lookback + 1..n
      BY <1>3, <1>4, <1>8
    <3> QED BY <1>8, <3>1 DEF Shows
  <2>3. \A j \in n - Lookback + 1..n : q[j].id \in read
    <3> SUFFICES ASSUME NEW j \in n - Lookback + 1..n
                 PROVE  q[j].id \in read
      OBVIOUS
    <3> DEFINE k == j - (n - Lookback)
    <3>1. k \in 1..Lookback /\ n - Lookback + k = j
      BY <1>3, <1>4
    <3>2. found[k].id = q[j].id
      BY <1>8, <3>1 DEF Shows
    <3> QED BY <1>8, <3>1, <3>2
  <2>4. \A j \in n - Lookback + 1..n : first <= q[j].id /\ q[j].id <= last
    <3> SUFFICES ASSUME NEW j \in n - Lookback + 1..n
                 PROVE  first <= q[j].id /\ q[j].id <= last
      OBVIOUS
    <3>1. j \in 1..n /\ j <= n /\ n - Lookback + 1 <= j
      BY <2>1
    <3>2. q[j].id \in Nat /\ first \in Nat /\ last \in Nat
      BY <1>5, <2>1, <3>1
    <3>3. j = n \/ q[j].id < last
      BY <1>4, <2>1, <3>1
    <3>4. j = n - Lookback + 1 \/ first < q[j].id
      BY <1>4, <2>1, <3>1
    <3> QED BY <3>2, <3>3, <3>4
  <2>5. first \in Nat /\ last \in Nat
    BY <1>5, <2>1
  <2>6. first \in read /\ last \in read
    <3>1. n - Lookback + 1 \in n - Lookback + 1..n /\ n \in n - Lookback + 1..n
      BY <1>3, <1>4, <2>1
    <3> HIDE DEF read
    <3> QED BY <2>3, <3>1
  <2>7. \A id \in read : first <= id /\ id <= last
    BY <2>2, <2>4
  <2> QED BY <2>2, <2>3, <2>5, <2>6, <2>7
<1>11. read \subseteq Int
  <2>1. ASSUME NEW j \in n - Lookback + 1..n PROVE q[j].id \in Int
    BY <1>3, <1>4, <1>5, <1>7
  <2> QED BY <1>10, <2>1
<1>12. mine = {s.id : s \in raw}
  BY ScopeOfOneCompany
<1>13. read \subseteq mine
  <2>1. ASSUME NEW j \in n - Lookback + 1..n PROVE q[j].id \in mine
    <3>1. j \in 1..n
      BY <1>3, <1>4, <1>7
    <3> QED BY <1>5, <1>12, <3>1
  <2> QED BY <1>10, <2>1
<1>14. Cardinality(read) = Lookback
  <2> DEFINE f == [k \in 1..Lookback |-> found[k].id]
  <2>1. \A i, j \in 1..Lookback : f[i] = f[j] => i = j
    <3> SUFFICES ASSUME NEW i \in 1..Lookback, NEW j \in 1..Lookback, i < j
                 PROVE  f[i] # f[j]
      BY <1>3
    <3>1. /\ n - Lookback + i \in 1..n /\ n - Lookback + j \in 1..n
          /\ n - Lookback + i < n - Lookback + j
      BY <1>3, <1>4, <1>7
    <3>2. q[n - Lookback + i].id < q[n - Lookback + j].id
      BY <1>4, <3>1
    <3>3. q[n - Lookback + i].id \in Nat /\ q[n - Lookback + j].id \in Nat
      BY <1>5, <3>1
    <3> QED BY <1>8, <3>2, <3>3 DEF Shows
  <2>2. f \in [1..Lookback -> read] /\ \A id \in read : \E k \in 1..Lookback : f[k] = id
    BY <1>8
  <2> HIDE DEF f, read
  <2>3. f \in Bijection(1..Lookback, read)
    BY <2>1, <2>2 DEF Bijection, Injection, Surjection, IsInjective
  <2>4. /\ IsFiniteSet(1..Lookback)
        /\ Cardinality(1..Lookback) = IF 1 > Lookback THEN 0 ELSE Lookback - 1 + 1
    BY <1>3, FS_Interval
  <2>5. ExistsBijection(1..Lookback, read)
    BY <2>3 DEF ExistsBijection
  <2>6. Cardinality(1..Lookback) = Lookback
    BY <1>3, <2>4
  <2> QED BY <2>4, <2>5, <2>6, FS_Bijection
<1> HIDE DEF read, first, last
<1>15. Min(read) = first /\ Max(read) = last
  BY <1>10, <1>11, LargestOf, SmallestOf
<1>16. r.end_sample_id > 0 => last = r.end_sample_id
  <2>1. Last(found) = found[Lookback]
    BY DEF Last
  <2>2. found[Lookback].id = q[n - Lookback + Lookback].id /\ n - Lookback + Lookback = n
    BY <1>3, <1>4, <1>8 DEF Shows
  <2> QED BY <2>1, <2>2 DEF last
<1>17. ASSUME NEW id \in mine \ read PROVE id < first \/ id > last
  <2>1. PICK s \in raw : id = s.id
    BY <1>12
  <2>2. s.id \in Nat
    BY <1>2, SampleFields
  <2>3. CASE s \in R
    <3>1. PICK j \in 1..n : q[j] = s
      BY <1>4, <2>3
    <3>2. j \notin n - Lookback + 1..n
      BY <1>10, <2>1, <3>1
    <3>3. /\ j < n - Lookback + 1 /\ n - Lookback + 1 \in 1..n
      BY <1>3, <1>4, <1>7, <3>2
    <3>4. q[j].id < q[n - Lookback + 1].id
      BY <1>4, <3>3
    <3> QED BY <2>1, <3>1, <3>4 DEF first
  <2>4. CASE s \notin R
    <3>1. r.end_sample_id > 0 /\ ~(s.id <= r.end_sample_id)
      BY <2>4 DEF R, RowsUpTo
    <3>2. last = r.end_sample_id
      BY <1>16, <3>1
    <3> QED BY <1>10, <2>1, <2>2, <3>1, <3>2
  <2> QED BY <2>3, <2>4
<1>18. ASSUME ~(r.end_sample_id > 0) PROVE Max(mine) = last
  <2>1. R = raw
    BY <1>18 DEF R, RowsUpTo
  <2>2. mine \subseteq Int
    BY <1>2, <1>12, SampleFields
  <2>3. last \in mine
    BY <1>10, <1>13
  <2>4. ASSUME NEW id \in mine PROVE id <= last
    <3>1. PICK s \in raw : id = s.id
      BY <1>12
    <3>2. PICK j \in 1..n : q[j] = s
      BY <1>4, <2>1
    <3>3. n \in 1..n /\ (j < n \/ j = n)
      BY <1>4
    <3>4. q[j].id < q[n].id \/ j = n
      BY <1>4, <3>3
    <3>5. q[j].id \in Nat /\ q[n].id \in Nat
      BY <1>5, <3>3
    <3> QED BY <3>1, <3>2, <3>4, <3>5 DEF last
  <2> HIDE DEF mine
  <2> QED BY <2>2, <2>3, <2>4, LargestOf
<1>19. IsInScope(st, r, found)
  <2>1. \A id \in mine \ read : id < Min(read) \/ id > Max(read)
    BY <1>15, <1>17
  <2>2. IF r.end_sample_id > 0 THEN Max(read) = r.end_sample_id
        ELSE Max(read) = Max(mine)
    BY <1>15, <1>16, <1>18
  <2>3. r.kind # "trace"
    OBVIOUS
  <2> QED BY <1>13, <1>14, <2>1, <2>2, <2>3, Zenon DEF IsInScope, read
<1>20. AreInOrder(r, found)
  <2> SUFFICES ASSUME NEW i \in 1..Lookback, NEW j \in 1..Lookback, i < j
               PROVE  found[i].company_id = found[j].company_id /\ found[i].id < found[j].id
    BY <1>8 DEF AreInOrder
  <2>1. /\ n - Lookback + i \in 1..n /\ n - Lookback + j \in 1..n
        /\ n - Lookback + i < n - Lookback + j
    BY <1>3, <1>4, <1>7
  <2>2. q[n - Lookback + i].id < q[n - Lookback + j].id
    BY <1>4, <2>1
  <2>3. q[n - Lookback + i].company_id = r.company_id /\ q[n - Lookback + j].company_id = r.company_id
    BY <1>5, <2>1 DEF RawRows
  <2> QED BY <1>8, <2>2, <2>3 DEF Shows
<1>21. AreTheValuesAskedFor(st, r, found)
  <2>1. ASSUME NEW k \in 1..Lookback
        PROVE  \E s \in st.samples : Shows(found[k], s)
    <3>1. n - Lookback + k \in 1..n
      BY <1>3, <1>4, <1>7
    <3> QED BY <1>2, <1>5, <1>8, <3>1
  <2>2. AreOfTheTable(st, r, found)
    BY <1>8, <2>1 DEF AreOfTheTable, Shows
  <2> QED BY <2>2 DEF AreTheValuesAskedFor, NamesAVersion
<1> QED BY <1>9, <1>19, <1>20, <1>21 DEF AreWhatWasAsked

-----------------------------------------------------------------------------
(* The cleaning of a column.                                                 *)

Reading == Int \cup {Missing}

LEMMA ReadingsOfRows == Readings = [Features -> Reading]
BY DEF Readings, Reading

LEMMA KnownIsSequence ==
  ASSUME NEW n \in Nat, NEW column \in [1..n -> Reading]
  PROVE  /\ Known(column) \in Seq(Int)
         /\ KnownAt(column) \subseteq 1..n /\ IsFiniteSet(KnownAt(column))
         /\ Len(Known(column)) = Cardinality(KnownAt(column))
         /\ Len(Known(column)) \in Nat
<1>1. KnownAt(column) \subseteq 1..n /\ \A i \in KnownAt(column) : column[i] \in Int
  BY DEF KnownAt, Reading
<1>2. IsFiniteSet(1..n)
  BY FS_Interval
<1>3. IsFiniteSet(KnownAt(column))
  BY <1>1, <1>2, FS_Subset
<1>4. KnownAt(column) \in SUBSET Int
  BY <1>1
<1>5. AtPositions(column, KnownAt(column)) \in Seq(Int)
  BY <1>1, <1>3, <1>4, AtPositionsIsSequence
<1>6. Len(AtPositions(column, KnownAt(column))) = Cardinality(KnownAt(column))
  BY <1>1, <1>3, <1>4, AtPositionsIsSequence
<1>7. Cardinality(KnownAt(column)) \in Nat
  BY <1>3, FS_CardinalityType
<1> QED BY <1>1, <1>3, <1>5, <1>6, <1>7 DEF Known

\* How many cells are empty: all that are not known; none when the count is 0.
LEMMA MissingIsCounted ==
  ASSUME NEW n \in Nat, NEW column \in [1..n -> Reading]
  PROVE  /\ MissingIn(column) = Cardinality({i \in 1..n : column[i] = Missing})
         /\ MissingIn(column) \in Nat
         /\ MissingIn(column) = 0 => \A i \in 1..n : column[i] # Missing
<1> DEFINE empty == {i \in 1..n : column[i] = Missing}
<1>1. IsFiniteSet(1..n) /\ Cardinality(1..n) = IF 1 > n THEN 0 ELSE n - 1 + 1
  BY FS_Interval
<1>2. Cardinality(1..n) = n
  BY <1>1
<1>3. KnownAt(column) \subseteq 1..n /\ empty = (1..n) \ KnownAt(column)
  BY DEF KnownAt
<1>4. (1..n) \cap KnownAt(column) = KnownAt(column)
  BY <1>3
<1> HIDE DEF empty
<1>5. IsFiniteSet(empty) /\ Cardinality(empty) = n - Cardinality(KnownAt(column))
  <2> DEFINE known == KnownAt(column)
             all == 1..n
  <2>1. IsFiniteSet(all) /\ IsFiniteSet(known)
    BY <1>1, KnownIsSequence
  <2>2. all \cap known = known /\ empty = all \ known /\ Cardinality(all) = n
    BY <1>2, <1>3, <1>4
  <2> HIDE DEF all, known
  <2>3. IsFiniteSet(all \ known)
    BY <2>1, FS_Difference
  <2>4. Cardinality(all \ known) = Cardinality(all) - Cardinality(all \cap known)
    BY <2>1, FS_Difference
  <2> QED BY <2>2, <2>3, <2>4 DEF known
<1>6. Len(column) = n
  OBVIOUS
<1>7. MissingIn(column) = n - Cardinality(KnownAt(column))
  BY <1>6, KnownIsSequence DEF MissingIn
<1>8. Cardinality(empty) \in Nat
  BY <1>5, FS_CardinalityType
<1>9. Cardinality(empty) = 0 => empty = {}
  BY <1>5, FS_EmptySet
<1> QED BY <1>5, <1>7, <1>8, <1>9 DEF empty

\* Sorting puts the same values into another order.
LEMMA SortedIsSequence ==
  ASSUME NEW values \in Seq(Int)
  PROVE  /\ Sorted(values) \in Seq(Int)
         /\ Len(Sorted(values)) = Len(values)
         /\ \A i, j \in 1..Len(values) : i <= j => Sorted(values)[i] <= Sorted(values)[j]
         /\ \E order \in Bijection(1..Len(values), 1..Len(values)) :
              \A k \in 1..Len(values) : Sorted(values)[k] = values[order[k]]
<1> DEFINE D == DOMAIN values
           R == {p \in D \X D : \/ values[p[1]] < values[p[2]]
                                \/ values[p[1]] = values[p[2]] /\ p[1] < p[2]}
           order == Arranged(D, R)
           n == Len(values)
<1>1. n \in Nat /\ D = 1..n /\ \A i \in D : values[i] \in Int
  BY LenProperties
<1>2. IsFiniteSet(D) /\ Cardinality(D) = IF 1 > n THEN 0 ELSE n - 1 + 1
  <2> HIDE DEF n
  <2> QED BY <1>1, FS_Interval
<1>3. Cardinality(D) = n
  BY <1>1, <1>2
<1>4. Orders(R, D)
  BY <1>1 DEF Orders
<1>5. /\ order \in [1..n -> D]
      /\ \A i, j \in 1..n : i < j => <<order[i], order[j]>> \in R
      /\ \A x \in D : \E k \in 1..n : order[k] = x
      /\ \A i, j \in 1..n : order[i] = order[j] => i = j
  <2> HIDE DEF D, R, n
  <2> QED BY <1>2, <1>3, <1>4, ArrangedIsSorted
<1>6. Sorted(values) = [k \in DOMAIN order |-> values[order[k]]]
  BY DEF Sorted, InAscendingOrder
<1> HIDE DEF order
<1>7. Sorted(values) = [k \in 1..n |-> values[order[k]]]
  BY <1>5, <1>6
<1>8. Sorted(values) \in [1..n -> Int]
  BY <1>1, <1>5, <1>7
<1>9. \A i, j \in 1..n : i < j => values[order[i]] <= values[order[j]]
  <2> SUFFICES ASSUME NEW i \in 1..n, NEW j \in 1..n, i < j
               PROVE  values[order[i]] <= values[order[j]]
    OBVIOUS
  <2>1. order[i] \in D /\ order[j] \in D /\ <<order[i], order[j]>> \in R
    BY <1>5
  <2>2. values[order[i]] \in Int /\ values[order[j]] \in Int
    BY <1>1, <2>1
  <2>3. values[order[i]] < values[order[j]] \/ values[order[i]] = values[order[j]]
    BY <2>1
  <2> HIDE DEF D, R
  <2> QED BY <2>2, <2>3
<1>10. \A i, j \in 1..n : i <= j => Sorted(values)[i] <= Sorted(values)[j]
  <2> SUFFICES ASSUME NEW i \in 1..n, NEW j \in 1..n, i <= j
               PROVE  Sorted(values)[i] <= Sorted(values)[j]
    OBVIOUS
  <2>1. i = j \/ i < j
    BY <1>1
  <2>2. Sorted(values)[i] \in Int
    BY <1>8
  <2> QED BY <1>7, <1>9, <2>1, <2>2
<1> HIDE DEF n
<1>11. Sorted(values) \in Seq(Int) /\ Len(Sorted(values)) = n
  BY <1>1, <1>8, SequenceOfLength
<1>12. order \in Bijection(1..n, 1..n)
  BY <1>1, <1>5 DEF Bijection, Injection, Surjection, IsInjective
<1>13. \A k \in 1..n : Sorted(values)[k] = values[order[k]]
  BY <1>7
<1> QED BY <1>10, <1>11, <1>12, <1>13 DEF n

LEMMA MedianIsNumber ==
  ASSUME NEW n \in Nat, NEW column \in [1..n -> Reading], Known(column) # <<>>
  PROVE  MedianOf(column) \in Int
<1> DEFINE sorted == Sorted(Known(column))
           size == Len(Known(column))
           position == 10 * (size - 1)
           left == position \div 20 + 1
           right == IF left < size THEN left + 1 ELSE left
           fraction == position % 20
<1>1. Known(column) \in Seq(Int) /\ size \in Nat
  BY KnownIsSequence
<1>2. size > 0
  BY <1>1, EmptySeq
<1>3. sorted \in Seq(Int) /\ Len(sorted) = size
  BY <1>1, SortedIsSequence
<1>4. left \in 1..size /\ right \in 1..size /\ fraction \in 0..19
  <2> HIDE DEF size
  <2>1. position \in Nat /\ position <= 20 * (size - 1)
    BY <1>1, <1>2
  <2> HIDE DEF position
  <2>2. position \div 20 \in 0..size - 1 /\ position % 20 \in 0..19
    BY <1>1, <1>2, <2>1
  <2> QED BY <1>1, <1>2, <2>2
<1>5. sorted[left] \in Int /\ sorted[right] \in Int
  <2> HIDE DEF left, right, sorted, size
  <2> QED BY <1>3, <1>4, LenProperties
<1>6. Quantile(sorted, 10) = (20 - fraction) * sorted[left] + fraction * sorted[right]
  <2> HIDE DEF sorted
  <2> QED BY <1>3 DEF Quantile
<1>7. Quantile(sorted, 10) \in Int
  <2> HIDE DEF sorted, left, right, fraction, size
  <2> QED BY <1>4, <1>5, <1>6
<1> HIDE DEF sorted, left, right, fraction, size
<1> QED BY <1>7 DEF MedianOf, sorted

\* Repairing leaves a column without values alone and any other without a gap.
LEMMA RepairedColumn ==
  ASSUME NEW n \in Nat, NEW column \in [1..n -> Reading]
  PROVE  /\ RepairMissing(column) \in [1..n -> Reading]
         /\ Known(column) # <<>> => RepairMissing(column) \in [1..n -> Int]
         /\ Known(column) # <<>> =>
              \A i \in 1..n : RepairMissing(column)[i] =
                 IF column[i] = Missing THEN MedianOf(column) ELSE column[i]
<1>1. CASE Known(column) = <<>>
  BY <1>1 DEF RepairMissing
<1>2. CASE Known(column) # <<>>
  <2>1. MedianOf(column) \in Int
    BY <1>2, MedianIsNumber
  <2>2. RepairMissing(column) =
          [i \in 1..n |-> IF column[i] = Missing THEN MedianOf(column) ELSE column[i]]
    BY <1>2 DEF RepairMissing
  <2>3. \A i \in 1..n : column[i] = Missing \/ column[i] \in Int
    BY DEF Reading
  <2> QED BY <2>1, <2>2, <2>3 DEF Reading
<1> QED BY <1>1, <1>2

\* The positions that are not outliers, up to one of them.
KeptUpTo(source, window, threshold, i) ==
    {k \in 1..i : k \notin Outliers(source, window, threshold)}

\* The loop's cell-by-cell replacement holds the last value before a run of
\* outliers over the whole run.
THEOREM OutliersAreHeld ==
  ASSUME NEW n \in Nat, NEW S, NEW source \in [1..n -> S],
         NEW window \in Nat, window >= 1, NEW threshold
  PROVE  /\ HoldForward(source, window, threshold) \in [1..n -> S]
         /\ \A i \in 1..n :
              /\ Max(KeptUpTo(source, window, threshold, i)) \in 1..i
              /\ HoldForward(source, window, threshold)[i]
                   = source[Max(KeptUpTo(source, window, threshold, i))]
<1> DEFINE outliers == Outliers(source, window, threshold)
           kept(i) == KeptUpTo(source, window, threshold, i)
           IsHeld(h) == h = [i \in DOMAIN source |->
                               IF i \in outliers THEN h[i - 1] ELSE source[i]]
           reference == [i \in 1..n |-> source[Max(kept(i))]]
           held == HoldForward(source, window, threshold)
<1>1. Len(source) = n /\ DOMAIN source = 1..n
  OBVIOUS
<1>2. outliers \subseteq window + 1..n
  BY <1>1 DEF Outliers
<1>3. held = CHOOSE h : IsHeld(h)
  BY DEF HoldForward
<1>4. ASSUME NEW i \in 1..n
      PROVE  /\ Max(kept(i)) \in 1..i
             /\ i \notin outliers => Max(kept(i)) = i
             /\ i \in outliers => i - 1 \in 1..n /\ kept(i) = kept(i - 1)
  <2>1. 1 \in kept(i) /\ kept(i) \subseteq 1..i
    BY <1>2 DEF KeptUpTo
  <2>2. PICK m \in kept(i) : \A k \in kept(i) : k <= m
    <3> HIDE DEF kept
    <3>1. kept(i) \in SUBSET Int /\ kept(i) # {} /\ i \in Int /\ \A k \in kept(i) : k <= i
      BY <2>1
    <3> QED BY <3>1, GreatestNumber
  <2>3. Max(kept(i)) = m
    <3> HIDE DEF kept
    <3>1. kept(i) \in SUBSET Int
      BY <2>1
    <3> QED BY <2>2, <3>1, LargestOf
  <2>4. ASSUME i \notin outliers PROVE m = i
    <3>1. i \in kept(i)
      BY <2>4 DEF KeptUpTo
    <3> QED BY <2>1, <2>2, <3>1
  <2>5. ASSUME i \in outliers PROVE i - 1 \in 1..n /\ kept(i) = kept(i - 1)
    BY <1>2, <2>5 DEF KeptUpTo
  <2> QED BY <2>1, <2>2, <2>3, <2>4, <2>5
<1>5. IsHeld(reference)
  <2>1. ASSUME NEW i \in 1..n
        PROVE  reference[i] = IF i \in outliers THEN reference[i - 1] ELSE source[i]
    BY <1>4
  <2> HIDE DEF outliers, kept
  <2> QED BY <1>1, <2>1
<1>6. IsHeld(held)
  <2> HIDE DEF IsHeld, reference, held
  <2> QED BY <1>3, <1>5
<1>7. \A i \in 1..n : held[i] = reference[i]
  <2> DEFINE T == {i \in Nat : i \in 1..n => held[i] = reference[i]}
  <2>1. 0 \in T
    OBVIOUS
  <2>2. ASSUME NEW i \in T PROVE i + 1 \in T
    <3> SUFFICES ASSUME i + 1 \in 1..n PROVE held[i + 1] = reference[i + 1]
      OBVIOUS
    <3> HIDE DEF held, reference, outliers, kept
    <3>1. held[i + 1] = IF i + 1 \in outliers THEN held[i] ELSE source[i + 1]
      <4>1. held[i + 1] = IF i + 1 \in outliers THEN held[(i + 1) - 1] ELSE source[i + 1]
        BY <1>1, <1>6
      <4>2. (i + 1) - 1 = i
        BY DEF T
      <4> QED BY <4>1, <4>2
    <3>2. reference[i + 1] = IF i + 1 \in outliers THEN reference[i] ELSE source[i + 1]
      BY <1>1, <1>5
    <3>3. i + 1 \in outliers => i \in 1..n
      BY <1>4
    <3> QED BY <3>1, <3>2, <3>3
  <2> HIDE DEF T
  <2>3. T = Nat
    BY <2>1, <2>2, Induction DEF T
  <2> HIDE DEF held, reference
  <2> QED BY <2>3 DEF T
<1>8. held \in [1..n -> S]
  <2>1. \A i \in 1..n : reference[i] \in S
    BY <1>4
  <2>2. held = [i \in 1..n |-> held[i]]
    <3> HIDE DEF held, outliers
    <3> QED BY <1>1, <1>6
  <2> HIDE DEF held, reference
  <2> QED BY <1>7, <2>1, <2>2
<1> QED BY <1>4, <1>7, <1>8

LEMMA CleanedColumn ==
  ASSUME NEW r, r.window \in Nat, r.window >= 2,
         NEW n \in Nat, NEW column \in [1..n -> Reading]
  PROVE  /\ CleanColumn(r, column) \in [1..n -> Reading]
         /\ r.operation \in {"missing", "clean"} /\ Known(column) # <<>> =>
              CleanColumn(r, column) \in [1..n -> Int]
<1> DEFINE repaired == RepairMissing(column)
<1>1. /\ repaired \in [1..n -> Reading]
      /\ Known(column) # <<>> => repaired \in [1..n -> Int]
  BY RepairedColumn
<1> HIDE DEF repaired
<1>2. ASSUME Known(column) # <<>>
      PROVE  HoldForward(repaired, r.window, r.threshold) \in [1..n -> Int]
  <2>1. repaired \in [1..n -> Int] /\ r.window >= 1
    BY <1>1, <1>2
  <2> QED BY <2>1, OutliersAreHeld
<1>3. \A f \in [1..n -> Int] : f \in [1..n -> Reading]
  BY DEF Reading
<1>4. CASE r.operation = "missing"
  <2>1. CleanColumn(r, column) = repaired
    BY <1>4 DEF CleanColumn, repaired
  <2> QED BY <1>1, <2>1
<1>5. CASE r.operation = "clean"
  <2>1. CleanColumn(r, column) =
          IF Known(column) = <<>> THEN repaired
          ELSE HoldForward(repaired, r.window, r.threshold)
    BY <1>5 DEF CleanColumn, repaired
  <2> QED BY <1>1, <1>2, <1>3, <2>1
<1>6. CASE r.operation \notin {"missing", "clean"}
  <2>1. CleanColumn(r, column) = column
    BY <1>6 DEF CleanColumn
  <2> QED BY <1>6, <2>1
<1> QED BY <1>4, <1>5, <1>6

-----------------------------------------------------------------------------
(* The cleaned column and the reference it is compared with.                *)

\* Two ways of numbering the same positions count the same.
LEMMA SameCount ==
  ASSUME NEW n \in Nat, NEW order \in Bijection(1..n, 1..n),
         NEW P \in SUBSET (1..n), NEW Q \in SUBSET (1..n),
         \A i \in 1..n : order[i] \in P <=> i \in Q
  PROVE  /\ IsFiniteSet(P) /\ IsFiniteSet(Q)
         /\ Cardinality(P) = Cardinality(Q) /\ Cardinality(P) \in Nat
<1>1. IsFiniteSet(1..n)
  BY FS_Interval
<1>2. IsFiniteSet(P) /\ IsFiniteSet(Q)
  BY <1>1, FS_Subset
<1> DEFINE g == [i \in Q |-> order[i]]
<1>3. /\ \A i \in 1..n : order[i] \in 1..n
      /\ \A i, j \in 1..n : order[i] = order[j] => i = j
      /\ \A k \in 1..n : \E i \in 1..n : order[i] = k
  BY DEF Bijection, Injection, Surjection, IsInjective
<1>4. \A i \in Q : g[i] \in P
  BY <1>3
<1>5. \A i, j \in Q : g[i] = g[j] => i = j
  BY <1>3
<1>6. \A k \in P : \E i \in Q : g[i] = k
  BY <1>3
<1>7. g \in Bijection(Q, P)
  BY <1>4, <1>5, <1>6 DEF Bijection, Injection, Surjection, IsInjective
<1>8. ExistsBijection(Q, P)
  BY <1>7 DEF ExistsBijection
<1> QED BY <1>2, <1>8, FS_Bijection, FS_CardinalityType

\* The positions of the values up to v, and of those from v on.
UpTo(values, n, v) == {k \in 1..n : values[k] <= v}
From(values, n, v) == {k \in 1..n : values[k] >= v}

\* s lists n numbers in ascending order.
IsAscending(s, n) ==
    s \in [1..n -> Int] /\ \A i, j \in 1..n : i <= j => s[i] <= s[j]

\* Where the two middles of n values are.
LowerMiddle(n) == (n + 1) \div 2
UpperMiddle(n) == n \div 2 + 1

\* Half of the values at least are not above the one in the middle, and not below.
LEMMA MiddleOfSorted ==
  ASSUME NEW n \in Nat, n > 0, NEW s, IsAscending(s, n)
  PROVE  /\ LowerMiddle(n) \in 1..n /\ UpperMiddle(n) \in 1..n
         /\ \A j \in 1..n :
              2 * Cardinality(UpTo(s, n, s[j])) >= n <=> s[LowerMiddle(n)] <= s[j]
         /\ \A j \in 1..n :
              2 * Cardinality(From(s, n, s[j])) >= n <=> s[j] <= s[UpperMiddle(n)]
<1> DEFINE m == LowerMiddle(n)
           M == UpperMiddle(n)
<1>0. s \in [1..n -> Int] /\ \A i, j \in 1..n : i <= j => s[i] <= s[j]
  BY DEF IsAscending
<1>1. m \in 1..n /\ M \in 1..n /\ 2 * m >= n /\ 2 * (m - 1) < n
      /\ 2 * (n - M + 1) >= n /\ 2 * (n - M) < n
  BY DEF LowerMiddle, UpperMiddle
<1> HIDE DEF m, M
<1>2. IsFiniteSet(1..n)
  BY FS_Interval
<1>3. \A a, b \in 0..n + 1 : a <= b + 1 => IsFiniteSet(a..b) /\ Cardinality(a..b) = b - a + 1
  BY FS_Interval
<1>4. ASSUME NEW j \in 1..n
      PROVE  2 * Cardinality(UpTo(s, n, s[j])) >= n <=> s[m] <= s[j]
  <2> DEFINE low == UpTo(s, n, s[j])
  <2>1. IsFiniteSet(low) /\ Cardinality(low) \in Nat
    BY <1>2, FS_Subset, FS_CardinalityType DEF UpTo
  <2>2. CASE s[m] <= s[j]
    <3>1. 1..m \subseteq low
      BY <1>0, <1>1, <2>2 DEF UpTo
    <3>2. Cardinality(1..m) <= Cardinality(low)
      BY <2>1, <3>1, FS_Subset
    <3>3. Cardinality(1..m) = m
      BY <1>1, <1>3
    <3> HIDE DEF low
    <3>4. 2 * Cardinality(low) >= n
      BY <1>1, <2>1, <3>2, <3>3
    <3> QED BY <2>2, <3>4 DEF low
  <2>3. CASE ~(s[m] <= s[j])
    <3>1. low \subseteq 1..m - 1
      <4>1. ASSUME NEW k \in 1..n, s[k] <= s[j] PROVE k < m
        BY <1>0, <1>1, <2>3, <4>1
      <4> QED BY <1>1, <4>1 DEF UpTo
    <3>2. IsFiniteSet(1..m - 1) /\ Cardinality(1..m - 1) = m - 1
      BY <1>1, <1>3
    <3>3. Cardinality(low) <= m - 1
      BY <3>1, <3>2, FS_Subset
    <3> HIDE DEF low
    <3>4. ~(2 * Cardinality(low) >= n)
      BY <1>1, <2>1, <3>3
    <3> QED BY <2>3, <3>4 DEF low
  <2> QED BY <2>2, <2>3
<1>5. ASSUME NEW j \in 1..n
      PROVE  2 * Cardinality(From(s, n, s[j])) >= n <=> s[j] <= s[M]
  <2> DEFINE high == From(s, n, s[j])
  <2>1. IsFiniteSet(high) /\ Cardinality(high) \in Nat
    BY <1>2, FS_Subset, FS_CardinalityType DEF From
  <2>2. CASE s[j] <= s[M]
    <3>1. M..n \subseteq high
      BY <1>0, <1>1, <2>2 DEF From
    <3>2. Cardinality(M..n) <= Cardinality(high)
      BY <2>1, <3>1, FS_Subset
    <3>3. Cardinality(M..n) = n - M + 1
      BY <1>1, <1>3
    <3> HIDE DEF high
    <3>4. 2 * Cardinality(high) >= n
      BY <1>1, <2>1, <3>2, <3>3
    <3> QED BY <2>2, <3>4 DEF high
  <2>3. CASE ~(s[j] <= s[M])
    <3>1. high \subseteq M + 1..n
      <4>1. ASSUME NEW k \in 1..n, s[k] >= s[j] PROVE k > M
        BY <1>0, <1>1, <2>3, <4>1
      <4> QED BY <1>1, <4>1 DEF From
    <3>2. IsFiniteSet(M + 1..n) /\ Cardinality(M + 1..n) = n - M
      BY <1>1, <1>3
    <3>3. Cardinality(high) <= n - M
      BY <3>1, <3>2, FS_Subset
    <3> HIDE DEF high
    <3>4. ~(2 * Cardinality(high) >= n)
      BY <1>1, <2>1, <3>3
    <3> QED BY <2>3, <3>4 DEF high
  <2> QED BY <2>2, <2>3
<1> QED BY <1>1, <1>4, <1>5 DEF m, M

\* quantile(1/2) is the middle of the two values in the middle.
LEMMA MedianIsInTheMiddle ==
  ASSUME NEW n \in Nat, NEW column \in [1..n -> Reading], Known(column) # <<>>
  PROVE  IsMedian(MedianOf(column), column)
<1> DEFINE known == Known(column)
           size == Len(known)
           s == Sorted(known)
           m == LowerMiddle(size)
           M == UpperMiddle(size)
           below == {known[i] : i \in {j \in DOMAIN known :
                       2 * Cardinality({k \in DOMAIN known : known[k] <= known[j]}) >= size}}
           above == {known[i] : i \in {j \in DOMAIN known :
                       2 * Cardinality({k \in DOMAIN known : known[k] >= known[j]}) >= size}}
<1>1. known \in Seq(Int) /\ size \in Nat
  BY KnownIsSequence
<1>2. size > 0 /\ DOMAIN known = 1..size
  BY <1>1, EmptySeq, LenProperties
<1> HIDE DEF size, known, s
<1>21. ASSUME NEW v
       PROVE  /\ UpTo(known, size, v) = {k \in DOMAIN known : known[k] <= v}
              /\ From(known, size, v) = {k \in DOMAIN known : known[k] >= v}
  BY <1>2 DEF UpTo, From
<1>22. \A v : v \in below <=>
             \E j \in 1..size : v = known[j] /\ 2 * Cardinality(UpTo(known, size, known[j])) >= size
  BY <1>2, <1>21
<1>23. \A v : v \in above <=>
             \E j \in 1..size : v = known[j] /\ 2 * Cardinality(From(known, size, known[j])) >= size
  BY <1>2, <1>21
<1>3. /\ s \in Seq(Int) /\ Len(s) = size
      /\ \A i, j \in 1..size : i <= j => s[i] <= s[j]
      /\ \E order \in Bijection(1..size, 1..size) : \A k \in 1..size : s[k] = known[order[k]]
  BY <1>1, SortedIsSequence DEF s, size
<1>4. s \in [1..size -> Int]
  BY <1>3, LenProperties
<1>5. PICK order \in Bijection(1..size, 1..size) : \A k \in 1..size : s[k] = known[order[k]]
  BY <1>3
<1>6. IsAscending(s, size)
  BY <1>3, <1>4 DEF IsAscending
<1>7. m = (size + 1) \div 2 /\ M = size \div 2 + 1
  BY DEF LowerMiddle, UpperMiddle
<1>8. /\ m \in 1..size /\ M \in 1..size
      /\ \A j \in 1..size :
           2 * Cardinality(UpTo(s, size, s[j])) >= size <=> s[m] <= s[j]
      /\ \A j \in 1..size :
           2 * Cardinality(From(s, size, s[j])) >= size <=> s[j] <= s[M]
  BY <1>1, <1>2, <1>6, MiddleOfSorted
<1> HIDE DEF m, M
<1>9. /\ \A i \in 1..size : order[i] \in 1..size
      /\ \A k \in 1..size : \E i \in 1..size : order[i] = k
  BY <1>5 DEF Bijection, Injection, Surjection
<1>10. \A i \in 1..size : known[i] \in Int
  BY <1>1, <1>2, LenProperties
<1>11. ASSUME NEW v
       PROVE  /\ Cardinality(UpTo(known, size, v)) = Cardinality(UpTo(s, size, v))
              /\ Cardinality(From(known, size, v)) = Cardinality(From(s, size, v))
  <2> DEFINE P(lower) == {k \in 1..size : IF lower THEN known[k] <= v ELSE known[k] >= v}
             Q(lower) == {k \in 1..size : IF lower THEN s[k] <= v ELSE s[k] >= v}
  <2>1. ASSUME NEW lower \in BOOLEAN PROVE Cardinality(P(lower)) = Cardinality(Q(lower))
    <3>1. \A i \in 1..size : order[i] \in P(lower) <=> i \in Q(lower)
      BY <1>5, <1>9
    <3>2. P(lower) \in SUBSET (1..size) /\ Q(lower) \in SUBSET (1..size)
      OBVIOUS
    <3> HIDE DEF P, Q
    <3> QED BY <1>1, <1>5, <3>1, <3>2, SameCount
  <2>2. /\ P(TRUE) = UpTo(known, size, v) /\ Q(TRUE) = UpTo(s, size, v)
        /\ P(FALSE) = From(known, size, v) /\ Q(FALSE) = From(s, size, v)
    BY DEF UpTo, From
  <2> HIDE DEF P, Q
  <2> QED BY <2>1, <2>2
<1>12. Min(below) = s[m]
  <2>1. below \in SUBSET Int
    BY <1>2, <1>10
  <2>2. PICK i \in 1..size : order[m] = i /\ known[i] = s[m]
    BY <1>5, <1>8, <1>9
  <2>3. s[m] \in Int /\ s[m] <= s[m]
    BY <1>4, <1>8
  <2>4. 2 * Cardinality(UpTo(known, size, known[i])) >= size
    <3>1. 2 * Cardinality(UpTo(s, size, s[m])) >= size
      BY <1>8, <2>3
    <3> QED BY <1>11, <2>2, <3>1
  <2>5. s[m] \in below
    BY <1>22, <2>2, <2>4
  <2>6. ASSUME NEW v \in below PROVE s[m] <= v
    <3>1. PICK i2 \in 1..size :
            v = known[i2] /\ 2 * Cardinality(UpTo(known, size, known[i2])) >= size
      BY <1>22
    <3>2. PICK j \in 1..size : order[j] = i2 /\ s[j] = known[i2]
      <4>1. PICK j \in 1..size : order[j] = i2
        BY <1>9
      <4>2. s[j] = known[order[j]]
        BY <1>5
      <4> QED BY <4>1, <4>2
    <3>3. 2 * Cardinality(UpTo(s, size, s[j])) >= size
      BY <1>11, <3>1, <3>2
    <3> QED BY <1>8, <3>1, <3>2, <3>3
  <2> HIDE DEF below
  <2> QED BY <2>1, <2>5, <2>6, SmallestOf
<1>13. Max(above) = s[M]
  <2>1. above \in SUBSET Int
    BY <1>2, <1>10
  <2>2. PICK i \in 1..size : order[M] = i /\ known[i] = s[M]
    BY <1>5, <1>8, <1>9
  <2>3. s[M] \in Int /\ s[M] <= s[M]
    BY <1>4, <1>8
  <2>4. 2 * Cardinality(From(known, size, known[i])) >= size
    <3>1. 2 * Cardinality(From(s, size, s[M])) >= size
      BY <1>8, <2>3
    <3> QED BY <1>11, <2>2, <3>1
  <2>5. s[M] \in above
    BY <1>23, <2>2, <2>4
  <2>6. ASSUME NEW v \in above PROVE v <= s[M]
    <3>1. PICK i2 \in 1..size :
            v = known[i2] /\ 2 * Cardinality(From(known, size, known[i2])) >= size
      BY <1>23
    <3>2. PICK j \in 1..size : order[j] = i2 /\ s[j] = known[i2]
      <4>1. PICK j \in 1..size : order[j] = i2
        BY <1>9
      <4>2. s[j] = known[order[j]]
        BY <1>5
      <4> QED BY <4>1, <4>2
    <3>3. 2 * Cardinality(From(s, size, s[j])) >= size
      BY <1>11, <3>1, <3>2
    <3> QED BY <1>8, <3>1, <3>2, <3>3
  <2> HIDE DEF above
  <2> QED BY <2>1, <2>5, <2>6, LargestOf
<1>14. Quantile(s, 10) = 10 * (s[m] + s[M])
  <2> DEFINE position == 10 * (size - 1)
             left == position \div 20 + 1
             right == IF left < size THEN left + 1 ELSE left
             fraction == position % 20
  <2>1. Quantile(s, 10) = (20 - fraction) * s[left] + fraction * s[right]
    BY <1>3 DEF Quantile
  <2>2. left = m
    BY <1>1, <1>2, <1>7
  <2>3. \/ fraction = 0 /\ M = m
        \/ fraction = 10 /\ M = m + 1 /\ m < size
    BY <1>1, <1>2, <1>7
  <2>4. s[m] \in Int /\ s[M] \in Int
    BY <1>4, <1>8
  <2> HIDE DEF fraction, left
  <2>5. CASE fraction = 0 /\ M = m
    <3>1. s[right] \in Int
      BY <1>1, <1>4, <1>8, <2>2
    <3> HIDE DEF right
    <3> QED BY <2>1, <2>2, <2>4, <2>5, <3>1
  <2>6. CASE fraction = 10 /\ M = m + 1 /\ m < size
    <3>1. right = M
      BY <2>2, <2>6
    <3> HIDE DEF right
    <3> QED BY <2>1, <2>2, <2>4, <2>6, <3>1
  <2> QED BY <2>3, <2>5, <2>6
<1>15. MedianOf(column) = (Min(below) + Max(above)) \div 2
  <2>1. MedianOf(column) = Quantile(s, 10) \div 20
    BY DEF MedianOf, s, known
  <2>2. s[m] + s[M] \in Int
    BY <1>4, <1>8
  <2>3. ASSUME NEW x \in Int PROVE (10 * x) \div 20 = x \div 2
    OBVIOUS
  <2> HIDE DEF below, above
  <2> QED BY <1>12, <1>13, <1>14, <2>1, <2>2, <2>3
<1> QED BY <1>15, Zenon DEF IsMedian, size, known

\* The values before one, by their positions in the column and by their number.
LEMMA PastIsWindow ==
  ASSUME NEW n \in Nat, NEW source \in [1..n -> Int],
         NEW window \in Nat, window >= 1, NEW i \in window + 1..n
  PROVE  LET past == SubSeq(source, i - window, i - 1)
         IN  /\ past \in [1..window -> Int] /\ Len(past) = window
             /\ \A k \in 1..window : past[k] = source[i - window - 1 + k]
<1> DEFINE past == SubSeq(source, i - window, i - 1)
<1>1. source \in Seq(Int)
  BY IsASeq
<1>2. /\ past \in Seq(Int) /\ Len(past) = window
      /\ \A k \in 1..window : past[k] = source[i - window + k - 1]
  <2>1. (i - 1) - (i - window) + 1 = window /\ i - window \in 1..n /\ i - 1 \in 1..n
    OBVIOUS
  <2>2. Len(source) = n /\ i - window <= i - 1
    OBVIOUS
  <2> QED BY <1>1, <2>1, <2>2, SubSeqProperties
<1>3. \A k \in 1..window : i - window + k - 1 = i - window - 1 + k /\ i - window - 1 + k \in 1..n
  OBVIOUS
<1> HIDE DEF past
<1>4. past \in [1..window -> Int]
  BY <1>2, LenProperties
<1> QED BY <1>2, <1>3, <1>4 DEF past

\* g numbers from 1 what f holds at the window before i.
IsShifted(g, f, i, window) ==
    \A k \in 1..window : g[k] \in Int /\ f[i - window - 1 + k] = g[k]

\* A sum over the values before one.
LEMMA SumOverThePast ==
  ASSUME NEW n \in Nat, NEW source \in [1..n -> Int],
         NEW window \in Nat, window >= 1, NEW i \in window + 1..n,
         NEW f, NEW g, IsShifted(g, f, i, window)
  PROVE  SumFunctionOnSet(f, i - window..i - 1) = SumFunctionOnSet(g, 1..window)
<1>1. i - window - 1 \in Nat /\ (i - window - 1) + 1 = i - window
      /\ (i - window - 1) + window = i - 1
  OBVIOUS
<1>2. IsTail(g, f, i - window - 1, window)
  BY DEF IsShifted, IsTail
<1> QED BY <1>1, <1>2, SumOfTail

\* The sliding window's sum and variance are what IsFarOut() says.
LEMMA OutlierIsFarOut ==
  ASSUME NEW n \in Nat, NEW source \in [1..n -> Int],
         NEW window \in Nat, window >= 1, NEW i \in window + 1..n, NEW threshold
  PROVE  IsOutlier(source, i, window, threshold) <=> IsFarOut(source, i, window, threshold)
<1> DEFINE past == SubSeq(source, i - window, i - 1)
           P == i - window..i - 1
           away == [k \in P |-> source[i] - source[k]]
           d == [p \in Ascending(P) |-> (source[p[1]] - source[p[2]]) * (source[p[1]] - source[p[2]])]
           sq == [k \in DOMAIN past |-> past[k] * past[k]]
           squares == [k \in P |-> source[k] * source[k]]
           sum == SumFunctionOnSet(source, P)
<1>1. /\ past \in [1..window -> Int] /\ Len(past) = window
      /\ \A k \in 1..window : past[k] = source[i - window - 1 + k]
  BY PastIsWindow
<1>2. IsFiniteSet(P) /\ Cardinality(P) = window
  <2>1. i - window \in Int /\ i - 1 \in Int /\ (i - 1) - (i - window) + 1 = window
    OBVIOUS
  <2> QED BY <2>1, FS_Interval
<1>3. P \in SUBSET Int /\ P \in SUBSET (1..n)
  OBVIOUS
<1>4. \A k \in P : source[k] \in Int
  BY <1>3
<1>5. Total(past) = sum
  <2>1. Total(past) = SumFunctionOnSet(past, 1..window)
    <3> HIDE DEF past
    <3> QED BY <1>1 DEF Total, SumFunction
  <2> HIDE DEF past
  <2>2. IsShifted(past, source, i, window)
    BY <1>1 DEF IsShifted
  <2>3. SumFunctionOnSet(source, P) = SumFunctionOnSet(past, 1..window)
    BY <2>2, SumOverThePast
  <2> QED BY <2>1, <2>3
<1>6. Total(sq) = SumFunctionOnSet(squares, P)
  <2> HIDE DEF past
  <2>1. DOMAIN sq = 1..window /\ \A k \in 1..window : sq[k] = past[k] * past[k]
    BY <1>1
  <2>2. \A k \in 1..window : i - window - 1 + k \in P
    OBVIOUS
  <2>3. IsShifted(sq, squares, i, window)
    BY <1>1, <2>1, <2>2 DEF IsShifted
  <2> HIDE DEF sq, squares
  <2>4. SumFunctionOnSet(squares, P) = SumFunctionOnSet(sq, 1..window)
    BY <2>3, SumOverThePast
  <2> QED BY <2>1, <2>4 DEF Total, SumFunction
<1>7. sum \in Int
  BY <1>2, <1>4, SumIsInt
<1>8. Spread(past) = SumFunctionOnSet(d, Ascending(P))
  <2>1. AreProducts(squares, source, source, P)
    BY <1>4 DEF AreProducts
  <2>2. AreDifferences(d, source, source, P)
    BY DEF AreDifferences, Ascending
  <2>3. Spread(past) = window * SumFunctionOnSet(squares, P) - sum * sum
    BY <1>1, <1>5, <1>6 DEF Spread
  <2> HIDE DEF d, squares, past, P
  <2>4. PairsAddUp(d, source, source, squares, P)
    BY <1>2, <1>3, <2>1, <2>2, SumOverPairs
  <2> QED BY <1>2, <2>3, <2>4 DEF PairsAddUp, sum
<1>9. SumFunctionOnSet(away, P) = window * source[i] - sum
  <2> DEFINE ones == [k \in P |-> 1]
  <2>1. IsCombination(away, source[i], ones, -1, source, P)
    BY <1>4 DEF IsCombination
  <2>2. SumFunctionOnSet(ones, P) = 1 * Cardinality(P)
    <3>1. \A k \in P : ones[k] = 1
      OBVIOUS
    <3> HIDE DEF ones, P
    <3> QED BY <1>2, <3>1, SumOfConstant
  <2> HIDE DEF ones, away, P
  <2>3. SumFunctionOnSet(away, P) = source[i] * SumFunctionOnSet(ones, P) + (-1) * sum
    BY <1>2, <2>1, SumOfCombination DEF sum
  <2>4. source[i] \in Int
    OBVIOUS
  <2> HIDE DEF sum
  <2> QED BY <1>2, <1>7, <2>2, <2>3, <2>4
<1>10. IsOutlier(source, i, window, threshold) <=>
         (window * source[i] - sum) * (window * source[i] - sum)
           > threshold * threshold * SumFunctionOnSet(d, Ascending(P))
  <2> HIDE DEF d, P, sum
  <2> QED BY <1>5, <1>8, Zenon DEF IsOutlier
<1>11. IsFarOut(source, i, window, threshold) <=>
         SumFunctionOnSet(away, P) * SumFunctionOnSet(away, P)
           > threshold * threshold * SumFunctionOnSet(d, Ascending(P))
  BY Zenon DEF IsFarOut, TotalOf, SumFunction, Ascending
<1> QED BY <1>9, <1>10, <1>11, Zenon

\* Where no value is an outlier or the operation replaces none, what is kept is
\* everything; otherwise it is what the loop of HoldForward() keeps.
LEMMA KeptIsNotFarOut ==
  ASSUME NEW n \in Nat, NEW source \in [1..n -> Int],
         NEW window \in Nat, window >= 1, NEW threshold, NEW i \in 1..n
  PROVE  KeptUpTo(source, window, threshold, i) =
           {k \in 1..n : (k <= window \/ ~IsFarOut(source, k, window, threshold)) /\ k <= i}
<1>1. \A k \in window + 1..n :
        IsOutlier(source, k, window, threshold) <=> IsFarOut(source, k, window, threshold)
  BY OutlierIsFarOut
<1>2. Outliers(source, window, threshold) =
        {k \in window + 1..n : IsOutlier(source, k, window, threshold)}
  BY DEF Outliers
<1> QED BY <1>1, <1>2 DEF KeptUpTo

\* The cleaned column is the reference's, and no more cells change than are
\* filled or held.
LEMMA ColumnIsCleaned ==
  ASSUME NEW r, r.window \in Nat, r.window >= 2, r.operation \in {"missing", "clean"},
         NEW n \in Nat, NEW column \in [1..n -> Reading]
  PROVE  LET after == CleanColumn(r, column)
             stats == CleaningStatistics(r, column, after)
         IN  /\ IsCleaned(r, column, after)
             /\ stats.changed <= stats.filled + stats.outliers
             /\ stats.missing_after = (IF Known(column) = <<>> THEN n ELSE 0)
<1> DEFINE after == CleanColumn(r, column)
           stats == CleaningStatistics(r, column, after)
           source == RepairMissing(column)
           outliers == IF r.operation = "clean"
                       THEN Outliers(source, r.window, r.threshold) ELSE {}
           kept(i) == {k \in 1..n : /\ \/ r.operation = "missing"
                                       \/ k <= r.window
                                       \/ ~IsFarOut(source, k, r.window, r.threshold)
                                    /\ k <= i}
           empty == {i \in 1..n : column[i] = Missing}
           changed == {i \in 1..n : column[i] # after[i]}
<1>1. DOMAIN column = 1..n /\ Len(column) = n /\ IsFiniteSet(1..n) /\ Missing \notin Int
  BY FS_Interval, DomainAssumption
<1>2. /\ stats.changed = Cardinality(changed)
      /\ stats.missing_after = MissingIn(after)
      /\ stats.filled = (IF Known(column) # <<>> THEN MissingIn(column) ELSE 0)
      /\ stats.outliers = (IF Known(column) # <<>> THEN
                             IF r.operation = "clean" THEN Cardinality(outliers) ELSE 0
                           ELSE 0)
  <2>1. r.operation \in {"missing", "clean"} /\ DOMAIN column = 1..n
    BY <1>1
  <2> HIDE DEF after
  <2> QED BY <2>1, Zenon DEF CleaningStatistics, ChangedCount
<1>3. CASE Known(column) = <<>>
  <2>1. after = column
    BY <1>3 DEF CleanColumn, RepairMissing
  <2>2. changed = {}
    BY <2>1
  <2>3. MissingIn(column) = n
    BY <1>1, <1>3, EmptySeq DEF MissingIn
  <2>4. IsCleaned(r, column, after)
    BY <1>3, <2>1 DEF IsCleaned
  <2> HIDE DEF after, stats, outliers, changed
  <2> QED BY <1>2, <1>3, <2>1, <2>2, <2>3, <2>4, FS_EmptySet DEF after, stats
<1>4. CASE Known(column) # <<>>
  <2>1. /\ source \in [1..n -> Int]
        /\ \A i \in 1..n : source[i] = IF column[i] = Missing THEN MedianOf(column) ELSE column[i]
    BY <1>4, RepairedColumn
  <2>2. source = [i \in DOMAIN column |-> IF column[i] # Missing THEN column[i] ELSE MedianOf(column)]
    <3> HIDE DEF source
    <3> QED BY <1>1, <2>1
  <2>3. after = IF r.operation = "missing" THEN source
                ELSE HoldForward(source, r.window, r.threshold)
    BY <1>4, Zenon DEF CleanColumn
  <2> HIDE DEF source, after
  <2>4. ASSUME NEW i \in 1..n
        PROVE  /\ after[i] = source[Max(kept(i))] /\ after[i] \in Int
               /\ i \notin outliers => after[i] = source[i]
    <3>1. CASE r.operation = "missing"
      <4>1. kept(i) = 1..i
        BY <3>1
      <4>2. Max(1..i) = i
        <5>1. 1..i \in SUBSET Int /\ i \in 1..i /\ \A k \in 1..i : k <= i
          OBVIOUS
        <5> QED BY <5>1, LargestOf
      <4> HIDE DEF kept
      <4> QED BY <2>1, <2>3, <3>1, <4>1, <4>2
    <3>2. CASE r.operation = "clean"
      <4>1. kept(i) = KeptUpTo(source, r.window, r.threshold, i)
        <5>1. kept(i) = {k \in 1..n : /\ k <= r.window \/ ~IsFarOut(source, k, r.window, r.threshold)
                                      /\ k <= i}
          BY <3>2
        <5> HIDE DEF kept
        <5>2. r.window >= 1
          OBVIOUS
        <5> QED BY <2>1, <5>1, <5>2, KeptIsNotFarOut
      <4>2. r.window >= 1
        OBVIOUS
      <4>3. /\ Max(KeptUpTo(source, r.window, r.threshold, i)) \in 1..i
            /\ after[i] = source[Max(KeptUpTo(source, r.window, r.threshold, i))]
        <5>1. after = HoldForward(source, r.window, r.threshold)
          BY <2>3, <3>2
        <5>2. r.window \in Nat
          OBVIOUS
        <5> HIDE DEF kept, outliers, empty, changed, stats
        <5>3. /\ HoldForward(source, r.window, r.threshold) \in [1..n -> Int]
              /\ Max(KeptUpTo(source, r.window, r.threshold, i)) \in 1..i
          BY <2>1, <4>2, <5>2, OutliersAreHeld
        <5>4. Max(KeptUpTo(source, r.window, r.threshold, i)) \in 1..n
          BY <5>3
        <5>5. HoldForward(source, r.window, r.threshold)[i]
                = source[Max(KeptUpTo(source, r.window, r.threshold, i))]
          BY <2>1, <4>2, <5>2, <5>3, <5>4, OutliersAreHeld
        <5> QED BY <5>1, <5>3, <5>5
      <4>4. i \notin outliers => Max(KeptUpTo(source, r.window, r.threshold, i)) = i
        <5> SUFFICES ASSUME i \notin outliers
                     PROVE  Max(KeptUpTo(source, r.window, r.threshold, i)) = i
          OBVIOUS
        <5>1. i \in KeptUpTo(source, r.window, r.threshold, i)
          BY <3>2 DEF KeptUpTo
        <5>2. /\ KeptUpTo(source, r.window, r.threshold, i) \in SUBSET Int
              /\ \A k \in KeptUpTo(source, r.window, r.threshold, i) : k <= i
          BY DEF KeptUpTo
        <5> QED BY <5>1, <5>2, LargestOf
      <4>5. Max(KeptUpTo(source, r.window, r.threshold, i)) \in 1..n
        BY <4>3
      <4> HIDE DEF kept
      <4> QED BY <2>1, <4>1, <4>3, <4>4, <4>5
    <3> QED BY <3>1, <3>2
  <2>5. IsCleaned(r, column, after)
    <3>1. IsMedian(MedianOf(column), column)
      BY <1>4, MedianIsInTheMiddle
    <3> DEFINE keep == {i \in DOMAIN column :
                          \/ r.operation = "missing"
                          \/ i <= r.window
                          \/ ~IsFarOut(source, i, r.window, r.threshold)}
    <3>2. \A i \in DOMAIN column : {k \in keep : k <= i} = kept(i)
      BY <1>1
    <3>3. \A i \in DOMAIN column : after[i] = source[Max({k \in keep : k <= i})]
      <4> HIDE DEF keep, kept
      <4> QED BY <1>1, <2>4, <3>2
    <3> QED BY <1>4, <2>2, <3>1, <3>3, Zenon DEF IsCleaned
  <2>6. MissingIn(after) = 0
    <3>1. after \in [1..n -> Reading]
      BY CleanedColumn DEF after
    <3>2. {i \in 1..n : after[i] = Missing} = {}
      BY <1>1, <2>4
    <3> QED BY <3>1, <3>2, MissingIsCounted, FS_EmptySet
  <2>7. Cardinality(changed) <= MissingIn(column) + Cardinality(outliers)
    <3>1. changed \subseteq empty \cup outliers
      BY <2>1, <2>4
    <3>2. IsFiniteSet(outliers)
      <4>1. outliers \subseteq 1..n
        BY <2>1 DEF Outliers
      <4> QED BY <1>1, <4>1, FS_Subset
    <3>3. IsFiniteSet(empty)
      BY <1>1, FS_Subset
    <3>4. Cardinality(empty) = MissingIn(column)
      BY MissingIsCounted
    <3> HIDE DEF empty, outliers, changed
    <3>5. /\ IsFiniteSet(empty \cup outliers)
          /\ Cardinality(empty \cup outliers)
               = Cardinality(empty) + Cardinality(outliers) - Cardinality(empty \cap outliers)
      BY <3>2, <3>3, FS_Union
    <3>6. IsFiniteSet(empty \cap outliers)
      BY <3>3, FS_Subset
    <3>7. Cardinality(changed) <= Cardinality(empty \cup outliers) /\ IsFiniteSet(changed)
      BY <3>1, <3>5, FS_Subset
    <3>8. /\ Cardinality(empty) \in Nat /\ Cardinality(outliers) \in Nat
          /\ Cardinality(empty \cap outliers) \in Nat /\ Cardinality(changed) \in Nat
      BY <3>2, <3>3, <3>6, <3>7, FS_CardinalityType
    <3> QED BY <3>4, <3>5, <3>7, <3>8
  <2>8. r.operation # "clean" => Cardinality(outliers) = 0
    BY FS_EmptySet
  <2> HIDE DEF stats, outliers, changed
  <2> QED BY <1>2, <1>4, <2>5, <2>6, <2>7, <2>8 DEF after, stats
<1> QED BY <1>3, <1>4

\* Cleaning keeps the samples and their companies; a result without an
\* unresolved column has no gap in any row.
LEMMA ProcessedRows ==
  ASSUME NEW r, r.window \in Nat, r.window >= 2,
         NEW found \in Seq(SampleRows), found # <<>>
  PROVE  LET analysis == AnalyzeClassificationData(r, found)
         IN  /\ analysis.processed \in Seq(SampleRows)
             /\ Len(analysis.processed) = Len(found)
             /\ \A i \in DOMAIN found :
                  /\ analysis.processed[i].id = found[i].id
                  /\ analysis.processed[i].company_id = found[i].company_id
             /\ ~Unresolved(analysis) =>
                  \A i \in DOMAIN found : IsComplete(analysis.processed[i])
<1> DEFINE analysis == AnalyzeClassificationData(r, found)
           n == Len(found)
           features == DOMAIN found[1].values
           before == [f \in features |-> [i \in DOMAIN found |-> found[i].values[f]]]
           after == [f \in features |-> CleanColumn(r, before[f])]
           processed == [i \in DOMAIN found |->
                          [found[i] EXCEPT !.values = [f \in features |-> after[f][i]]]]
<1>1. /\ n \in Nat /\ n > 0 /\ DOMAIN found = 1..n
      /\ \A i \in 1..n : found[i] \in SampleRows
  BY LenProperties, EmptySeq
<1>2. \A i \in 1..n : found[i].values \in [Features -> Reading]
  BY <1>1, ReadingsOfRows DEF SampleRows
<1>3. features = Features
  BY <1>1, <1>2
<1>4. ASSUME NEW f \in features
      PROVE  before[f] \in [1..n -> Reading] /\ after[f] \in [1..n -> Reading]
  <2>1. before[f] \in [1..n -> Reading]
    BY <1>1, <1>2, <1>3
  <2>2. after[f] = CleanColumn(r, before[f])
    OBVIOUS
  <2> HIDE DEF before, after, n
  <2> QED BY <1>1, <2>1, <2>2, CleanedColumn
<1>5. analysis.processed = processed
  BY DEF AnalyzeClassificationData
<1>6. ASSUME NEW f \in features
      PROVE  analysis.features[f] = CleaningStatistics(r, before[f], after[f])
  BY DEF AnalyzeClassificationData
<1>7. DOMAIN analysis.features = features
  BY DEF AnalyzeClassificationData
<1> HIDE DEF analysis, features, before, after
<1>8. ASSUME NEW i \in 1..n
      PROVE  /\ processed[i] \in SampleRows
             /\ processed[i].id = found[i].id
             /\ processed[i].company_id = found[i].company_id
             /\ processed[i].values = [f \in features |-> after[f][i]]
  <2>1. [f \in features |-> after[f][i]] \in Readings
    BY <1>3, <1>4, ReadingsOfRows
  <2>2. found[i] \in SampleRows
    BY <1>1
  <2>3. processed[i] = [found[i] EXCEPT !.values = [f \in features |-> after[f][i]]]
    BY <1>1
  <2> DEFINE values == [f \in features |-> after[f][i]]
  <2> HIDE DEF values
  <2> QED BY <2>1, <2>2, <2>3 DEF SampleRows, values
<1>9. processed \in [1..n -> SampleRows]
  <2>1. processed = [i \in 1..n |-> processed[i]]
    BY <1>1
  <2> HIDE DEF processed
  <2> QED BY <1>8, <2>1
<1>10. processed \in Seq(SampleRows) /\ Len(processed) = n
  <2> HIDE DEF processed, n
  <2> QED BY <1>1, <1>9, SequenceOfLength
<1>11. ASSUME ~Unresolved(analysis), NEW i \in 1..n
       PROVE  IsComplete(processed[i])
  <2>1. ASSUME NEW f \in features PROVE after[f][i] # Missing
    <3>1. analysis.features[f].missing_after = 0
      BY <1>7, <1>11 DEF Unresolved
    <3>2. CleaningStatistics(r, before[f], after[f]).missing_after = MissingIn(after[f])
      BY Zenon DEF CleaningStatistics
    <3>3. MissingIn(after[f]) = 0
      BY <1>6, <3>1, <3>2
    <3> HIDE DEF n
    <3> QED BY <1>1, <1>4, <1>11, <3>3, MissingIsCounted
  <2>2. processed[i].values = [f \in features |-> after[f][i]]
    BY <1>8
  <2> HIDE DEF processed
  <2>3. DOMAIN processed[i].values = features
    BY <2>2
  <2>4. \A f \in features : processed[i].values[f] = after[f][i]
    BY <2>2
  <2> QED BY <2>1, <2>3, <2>4 DEF IsComplete
<1> HIDE DEF processed
<1> QED BY <1>1, <1>5, <1>8, <1>10, <1>11 DEF analysis

\* What CleaningIsReference says of an analysis of the rows found.
IsCleanedResult(req, found, analysis) ==
    req.operation \in {"missing", "clean"} =>
      \A f \in DOMAIN analysis.features :
        LET before == Column(found, f)
            after  == Column(analysis.processed, f)
            stats  == analysis.features[f]
        IN  /\ IsCleaned(req, before, after)
            /\ stats.changed <= stats.filled + stats.outliers
            /\ stats.missing_after = (IF Known(before) = <<>> THEN Len(found) ELSE 0)

\* Every column of the rows an analysis is given is cleaned by its own values.
LEMMA RowsAreCleaned ==
  ASSUME NEW r, r.window \in Nat, r.window >= 2,
         NEW found \in Seq(SampleRows), found # <<>>
  PROVE  IsCleanedResult(r, found, AnalyzeClassificationData(r, found))
<1> DEFINE analysis == AnalyzeClassificationData(r, found)
           n == Len(found)
           features == DOMAIN found[1].values
           before == [f \in features |-> [i \in DOMAIN found |-> found[i].values[f]]]
           after == [f \in features |-> CleanColumn(r, before[f])]
           processed == [i \in DOMAIN found |->
                          [found[i] EXCEPT !.values = [f \in features |-> after[f][i]]]]
<1> SUFFICES ASSUME r.operation \in {"missing", "clean"}, NEW f \in DOMAIN analysis.features
             PROVE  LET was == Column(found, f)
                        is == Column(analysis.processed, f)
                        stats == analysis.features[f]
                    IN  /\ IsCleaned(r, was, is)
                        /\ stats.changed <= stats.filled + stats.outliers
                        /\ stats.missing_after = (IF Known(was) = <<>> THEN Len(found) ELSE 0)
  BY Zenon DEF IsCleanedResult
<1>1. /\ n \in Nat /\ n > 0 /\ DOMAIN found = 1..n
      /\ \A i \in 1..n : found[i] \in SampleRows
  BY LenProperties, EmptySeq
<1>2. \A i \in 1..n : found[i].values \in [Features -> Reading]
  BY <1>1, ReadingsOfRows DEF SampleRows
<1>3. features = Features /\ f \in features
  BY <1>1, <1>2 DEF AnalyzeClassificationData
<1>4. before[f] \in [1..n -> Reading] /\ before[f] = Column(found, f)
  BY <1>1, <1>2, <1>3 DEF Column
<1>5. after[f] = CleanColumn(r, before[f])
  BY <1>3
<1>6. after[f] \in [1..n -> Reading]
  <2> HIDE DEF before, after, n
  <2> QED BY <1>1, <1>4, <1>5, CleanedColumn
<1>7. analysis.processed = processed
  BY DEF AnalyzeClassificationData
<1>8. analysis.features[f] = CleaningStatistics(r, before[f], after[f])
  BY <1>3 DEF AnalyzeClassificationData
<1>9. Column(processed, f) = after[f]
  <2>1. ASSUME NEW i \in 1..n PROVE processed[i].values[f] = after[f][i]
    <3> HIDE DEF after, before
    <3>1. processed[i] = [found[i] EXCEPT !.values = [g \in features |-> after[g][i]]]
      BY <1>1
    <3>2. found[i] \in SampleRows
      BY <1>1
    <3> DEFINE values == [g \in features |-> after[g][i]]
    <3>3. values[f] = after[f][i]
      BY <1>3
    <3> HIDE DEF values, processed
    <3>4. processed[i].values = values
      BY <3>1, <3>2 DEF SampleRows, values
    <3> QED BY <3>3, <3>4
  <2>2. DOMAIN processed = 1..n
    BY <1>1
  <2> HIDE DEF processed, after
  <2> QED BY <1>6, <2>1, <2>2 DEF Column
<1> HIDE DEF analysis, before, after, n, processed
<1>10. LET stats == CleaningStatistics(r, before[f], after[f])
       IN  /\ IsCleaned(r, before[f], after[f])
           /\ stats.changed <= stats.filled + stats.outliers
           /\ stats.missing_after = (IF Known(before[f]) = <<>> THEN n ELSE 0)
  BY <1>1, <1>4, <1>5, ColumnIsCleaned
<1> QED BY <1>4, <1>7, <1>8, <1>9, <1>10, Zenon DEF n

-----------------------------------------------------------------------------
(* The chart, the training windows and the interpolated column.              *)

\* Division rounds down to the quotient, and there is only one.
LEMMA DivisionIsQuotient ==
  ASSUME NEW a \in Int, NEW n \in Nat, n > 0
  PROVE  a \div n \in Int /\ IsQuotient(a \div n, a, n)
BY DEF IsQuotient

\* There is one quotient.
LEMMA QuotientIsUnique ==
  ASSUME NEW a \in Int, NEW n \in Nat, n > 0, NEW q \in Int, NEW r \in Int,
         IsQuotient(q, a, n), IsQuotient(r, a, n)
  PROVE  q = r
<1>1. ASSUME NEW x \in Int, NEW y \in Int, x * n <= a, a < (y + 1) * n PROVE x <= y
  <2> SUFFICES ASSUME y + 1 <= x PROVE FALSE
    OBVIOUS
  <2>1. (y + 1) * n <= x * n
    BY ProductsKeepOrder
  <2>2. (y + 1) * n \in Int /\ x * n \in Int
    OBVIOUS
  <2> QED BY <1>1, <2>1, <2>2
<1>2. q <= r /\ r <= q
  BY <1>1 DEF IsQuotient
<1> QED BY <1>2

\* A chart of n rows shows the first and the last one and moves forward.
LEMMA ChartCovers ==
  ASSUME NEW n \in Nat, n > 0
  PROVE  ChartCoversTheSeries(n)
<1> DEFINE c == ChartLimit - 1
           m == n - 1
           chart == SampledChart(n)
           Point(k) == ((k - 1) * m) \div c + 1
<1>1. ChartLimit \in Nat /\ ChartLimit > 1 /\ c \in Nat /\ c > 0 /\ m \in Nat
  BY DomainAssumption
<1>2. CASE n <= ChartLimit
  <2>1. chart = [k \in 1..n |-> k]
    BY <1>2 DEF SampledChart
  <2>2. Len(chart) = n
    BY <2>1
  <2>3. chart[1] = 1 /\ chart[n] = n /\ \A k \in 1..n - 1 : chart[k] < chart[k + 1]
    BY <2>1
  <2> HIDE DEF chart
  <2> QED BY <2>2, <2>3 DEF ChartCoversTheSeries, chart
<1>3. CASE n > ChartLimit
  <2>1. chart = [k \in 1..ChartLimit |-> Point(k)]
    BY <1>1, <1>3 DEF SampledChart
  <2>2. Len(chart) = ChartLimit
    BY <1>1, <2>1
  <2>3. \A k \in 1..ChartLimit : chart[k] = Point(k)
    BY <2>1
  <2>4. m > c
    BY <1>1, <1>3
  <2>5. ASSUME NEW k \in Nat
        PROVE  /\ k * m \in Nat
               /\ (k * m) \div c \in Int /\ IsQuotient((k * m) \div c, k * m, c)
    <3>1. k * m \in Nat
      BY <1>1
    <3> HIDE DEF c, m
    <3> QED BY <1>1, <3>1, DivisionIsQuotient
  <2>6. chart[1] = 1
    <3> HIDE DEF c, m
    <3>1. 0 * m = 0
      BY <1>1
    <3>2. IsQuotient((0 * m) \div c, 0, c) /\ (0 * m) \div c \in Int
      BY <2>5, <3>1
    <3>3. IsQuotient(0, 0, c)
      BY <1>1 DEF IsQuotient
    <3>4. (0 * m) \div c = 0
      BY <1>1, <3>2, <3>3, QuotientIsUnique
    <3>5. 1 \in 1..ChartLimit /\ 1 - 1 = 0
      BY <1>1
    <3> HIDE DEF chart
    <3> QED BY <2>3, <3>4, <3>5
  <2>7. chart[ChartLimit] = n
    <3> DEFINE total == c * m
    <3>1. ChartLimit \in 1..ChartLimit /\ ChartLimit - 1 = c /\ m + 1 = n
      BY <1>1
    <3> HIDE DEF c, m
    <3>2. total \in Nat /\ (total \div c) \in Int /\ IsQuotient(total \div c, total, c)
      BY <1>1, <2>5
    <3>3. IsQuotient(m, total, c)
      BY <1>1 DEF IsQuotient
    <3> HIDE DEF total
    <3>4. total \div c = m
      BY <1>1, <3>2, <3>3, QuotientIsUnique
    <3> HIDE DEF chart
    <3> QED BY <1>1, <2>3, <3>1, <3>4 DEF total
  <2>8. ASSUME NEW k \in 1..ChartLimit - 1 PROVE chart[k] < chart[k + 1]
    <3> DEFINE low == (k - 1) * m
               high == k * m
               q == low \div c
               r == high \div c
    <3>1. k - 1 \in Nat /\ k \in Nat /\ k \in 1..ChartLimit /\ k + 1 \in 1..ChartLimit
          /\ (k + 1) - 1 = k
      BY <1>1
    <3> HIDE DEF c, m
    <3>2. low \in Nat /\ high \in Nat /\ high = low + m
      BY <1>1, <3>1
    <3>3. q \in Int /\ r \in Int /\ IsQuotient(q, low, c) /\ IsQuotient(r, high, c)
      BY <2>5, <3>1
    <3>4. chart[k] = q + 1 /\ chart[k + 1] = r + 1
      BY <2>3, <3>1
    <3> HIDE DEF low, high, q, r, chart
    <3>5. q * c <= low /\ high < (r + 1) * c
      BY <3>3 DEF IsQuotient
    <3>6. (r + 1) * c = r * c + c /\ r * c \in Int /\ q * c \in Int
      BY <1>1, <3>3
    <3>7. q * c < r * c
      BY <1>1, <2>4, <3>2, <3>5, <3>6
    <3>8. ~(r <= q)
      BY <1>1, <3>3, <3>6, <3>7, ProductsKeepOrder
    <3> QED BY <3>3, <3>4, <3>8
  <2> HIDE DEF chart
  <2> QED BY <2>2, <2>6, <2>7, <2>8 DEF ChartCoversTheSeries, chart
<1> QED BY <1>1, <1>2, <1>3

\* The guarded subtraction counts the places a window fits.
LEMMA WindowsAreCounted ==
  ASSUME NEW n \in Nat, NEW horizon \in Nat, horizon > 0
  PROVE  WindowCount(n, horizon) = WindowsOf(n, horizon)
<1> DEFINE last == n - Lookback - horizon + 1
           starts == {start \in 1..n : start + Lookback + horizon - 1 <= n}
<1>1. Lookback \in Nat /\ Lookback > 0
  BY DomainAssumption
<1>2. starts = 1..last
  BY <1>1
<1>3. Cardinality(1..last) = IF 1 > last THEN 0 ELSE last - 1 + 1
  <2>1. last \in Int
    BY <1>1
  <2> HIDE DEF last
  <2> QED BY <2>1, FS_Interval
<1>4. WindowsOf(n, horizon) = Cardinality(starts)
  BY Zenon DEF WindowsOf
<1> HIDE DEF starts
<1> QED BY <1>1, <1>2, <1>3, <1>4 DEF WindowCount

\* The k-th of the m numbers of K is ks[k].
Numbers(ks, K, m) ==
    /\ m \in Nat /\ ks \in [1..m -> K]
    /\ \A p, q \in 1..m : p < q => ks[p] < ks[q]
    /\ \A i \in K : \E p \in 1..m : ks[p] = i

\* The indexes interpolate() collects, in order.
LEMMA KnownIndexesList ==
  ASSUME NEW n \in Nat, NEW column \in [1..n -> Reading]
  PROVE  /\ Numbers(KnownIndexes(column), KnownAt(column), Cardinality(KnownAt(column)))
         /\ KnownIndexes(column) \in Seq(1..n)
         /\ Len(KnownIndexes(column)) = Cardinality(KnownAt(column))
<1> DEFINE K == KnownAt(column)
           ks == KnownIndexes(column)
           m == Cardinality(K)
<1>1. K \subseteq 1..n /\ IsFiniteSet(K)
  BY KnownIsSequence
<1>2. ks = Arranged(K, Ascending(K))
  BY DEF KnownIndexes
<1> HIDE DEF K, ks
<1>3. K \in SUBSET Int
  BY <1>1
<1>4. Orders(Ascending(K), K)
  BY <1>3, AscendingOrders
<1>5. /\ m \in Nat /\ ks \in [1..m -> K]
      /\ \A i \in K : \E p \in 1..m : ks[p] = i
      /\ \A p, q \in 1..m : p < q => <<ks[p], ks[q]>> \in Ascending(K)
  BY <1>1, <1>2, <1>4, ArrangedIsSorted
<1>6. \A p, q \in 1..m : p < q => ks[p] < ks[q]
  BY <1>5 DEF Ascending
<1>7. ks \in [1..m -> 1..n]
  BY <1>1, <1>5
<1>8. ks \in Seq(1..n) /\ Len(ks) = m
  <2> HIDE DEF m
  <2> QED BY <1>5, <1>7, SequenceOfLength
<1> QED BY <1>5, <1>6, <1>8 DEF Numbers, K, ks

\* Where i is among the numbers ks[1], ..., ks[m] of K: before the first, after
\* the last or between two of them.
HasNeighbours(K, ks, m, i) ==
    LET left  == {k \in K : k <= i}
        right == {k \in K : k >= i}
    IN  \/ i < ks[1] /\ left = {} /\ Min(right) = ks[1]
        \/ i > ks[m] /\ right = {} /\ left # {} /\ Max(left) = ks[m]
        \/ \E q \in 1..m - 1 :
             /\ ks[q] < i /\ i < ks[q + 1]
             /\ left # {} /\ Max(left) = ks[q]
             /\ right # {} /\ Min(right) = ks[q + 1]

\* An unknown cell has its nearest known ones at the edge or on both sides.
LEMMA NeighboursOf ==
  ASSUME NEW n \in Nat, NEW K \in SUBSET (1..n), NEW m, NEW ks, Numbers(ks, K, m), K # {},
         NEW i \in 1..n, i \notin K
  PROVE  HasNeighbours(K, ks, m, i)
<1> DEFINE left == {k \in K : k <= i}
           right == {k \in K : k >= i}
           below == {q \in 1..m : ks[q] <= i}
<1>1. /\ m \in Nat /\ ks \in [1..m -> K]
      /\ \A p, q \in 1..m : p < q => ks[p] < ks[q]
      /\ \A k \in K : \E p \in 1..m : ks[p] = k
  BY DEF Numbers
<1>2. m > 0
  <2>1. PICK k \in K : TRUE
    OBVIOUS
  <2>2. PICK p \in 1..m : ks[p] = k
    BY <1>1
  <2> QED BY <1>1
<1>3. /\ left \in SUBSET Int /\ right \in SUBSET Int
      /\ \A p \in 1..m : ks[p] \in Int /\ ks[p] # i /\ ks[p] \in K
      /\ 1 \in 1..m /\ m \in 1..m
  <2>1. \A p \in 1..m : ks[p] \in K
    BY <1>1
  <2>2. \A k \in K : k \in Int /\ k # i
    OBVIOUS
  <2>3. 1 \in 1..m /\ m \in 1..m
    BY <1>1, <1>2
  <2>4. left \in SUBSET Int /\ right \in SUBSET Int
    <3>1. left \subseteq K /\ right \subseteq K
      OBVIOUS
    <3> HIDE DEF left, right
    <3> QED BY <2>2, <3>1
  <2> HIDE DEF left, right
  <2> QED BY <2>1, <2>2, <2>3, <2>4
<1>4. \A p, q \in 1..m : p <= q => ks[p] <= ks[q]
  <2> SUFFICES ASSUME NEW p \in 1..m, NEW q \in 1..m, p <= q PROVE ks[p] <= ks[q]
    OBVIOUS
  <2>1. p = q \/ p < q
    BY <1>1
  <2>2. ks[p] \in Int /\ ks[q] \in Int
    BY <1>3
  <2> QED BY <1>1, <2>1, <2>2
<1>5. CASE i < ks[1]
  <2>1. ASSUME NEW k \in K PROVE ks[1] <= k
    <3>1. PICK p \in 1..m : ks[p] = k
      BY <1>1
    <3> QED BY <1>4, <1>3, <3>1
  <2>2. left = {}
    <3>1. ASSUME NEW k \in K PROVE ~(k <= i)
      <4>1. ks[1] \in Int /\ k \in Int /\ ks[1] <= k
        BY <1>3, <2>1
      <4> QED BY <1>5, <4>1
    <3> QED BY <3>1
  <2>3. ks[1] \in right
    <3>1. ks[1] \in K /\ ks[1] \in Int
      BY <1>3
    <3> QED BY <1>5, <3>1
  <2>4. \A k \in right : ks[1] <= k
    BY <2>1
  <2> HIDE DEF left, right
  <2>5. Min(right) = ks[1]
    BY <1>3, <2>3, <2>4, SmallestOf
  <2> QED BY <1>5, <2>2, <2>5, Zenon DEF left, right, HasNeighbours
<1>6. CASE i > ks[m]
  <2>1. ASSUME NEW k \in K PROVE k <= ks[m]
    <3>1. PICK p \in 1..m : ks[p] = k
      BY <1>1
    <3>2. p <= m
      BY <1>1
    <3> QED BY <1>4, <1>3, <3>1, <3>2
  <2>2. right = {}
    <3>1. ASSUME NEW k \in K PROVE ~(k >= i)
      <4>1. ks[m] \in Int /\ k \in Int /\ k <= ks[m]
        BY <1>3, <2>1
      <4> QED BY <1>6, <4>1
    <3> QED BY <3>1
  <2>3. ks[m] \in left
    <3>1. ks[m] \in K /\ ks[m] \in Int
      BY <1>3
    <3> QED BY <1>6, <3>1
  <2>4. \A k \in left : k <= ks[m]
    BY <2>1
  <2>5. left # {}
    BY <2>3
  <2> HIDE DEF left, right
  <2>6. Max(left) = ks[m]
    BY <1>3, <2>3, <2>4, LargestOf
  <2> QED BY <1>6, <2>2, <2>5, <2>6, Zenon DEF left, right, HasNeighbours
<1>7. CASE ~(i < ks[1]) /\ ~(i > ks[m])
  <2>1. ks[1] < i /\ i < ks[m]
    <3>1. ks[1] \in Int /\ ks[m] \in Int /\ ks[1] # i /\ ks[m] # i
      BY <1>3
    <3> QED BY <1>7, <3>1
  <2>2. 1 \in below /\ below \in SUBSET Int /\ \A q \in below : q <= m
    <3>1. 1 \in 1..m /\ ks[1] <= i
      <4>1. ks[1] \in Int
        BY <1>3
      <4> QED BY <1>3, <2>1, <4>1
    <3> QED BY <1>1, <3>1
  <2>3. PICK q \in below : \A p \in below : p <= q
    <3> HIDE DEF below
    <3>1. below # {} /\ m \in Int
      BY <1>1, <2>2
    <3> QED BY <2>2, <3>1, GreatestNumber
  <2>4. q \in 1..m /\ q # m /\ ks[q] < i
    BY <1>3, <2>1
  <2>5. q \in 1..m - 1 /\ q + 1 \in 1..m /\ q + 1 \notin below
    BY <1>1, <2>2, <2>3, <2>4
  <2>6. i < ks[q + 1]
    BY <1>3, <2>5
  <2>7. ASSUME NEW k \in K PROVE k <= ks[q] \/ ks[q + 1] <= k
    <3>1. PICK p \in 1..m : ks[p] = k
      BY <1>1
    <3>2. p <= q \/ q + 1 <= p
      BY <2>4
    <3> QED BY <1>4, <2>4, <2>5, <3>1, <3>2
  <2>8. ks[q] \in left /\ \A k \in left : k <= ks[q]
    BY <1>1, <1>3, <2>4, <2>5, <2>6, <2>7
  <2>9. ks[q + 1] \in right /\ \A k \in right : ks[q + 1] <= k
    BY <1>1, <1>3, <2>4, <2>5, <2>6, <2>7
  <2> HIDE DEF left, right
  <2>10. Max(left) = ks[q] /\ left # {}
    BY <1>3, <2>8, LargestOf
  <2>11. Min(right) = ks[q + 1] /\ right # {}
    BY <1>3, <2>9, SmallestOf
  <2> QED BY <2>4, <2>5, <2>6, <2>10, <2>11, Zenon DEF left, right, HasNeighbours
<1> HIDE DEF left, right, below
<1> QED BY <1>5, <1>6, <1>7

\* The value on the line from one known cell to the next.
OnTheLine(column, left, right, i) ==
    column[left] + ((i - left) * (column[right] - column[left])) \div (right - left)

\* filled is column with its left edge held and the first p gaps bridged.
IsBridged(filled, column, ks, p, n) ==
    /\ filled \in [1..n -> Reading]
    /\ \A i \in KnownAt(column) : filled[i] = column[i]
    /\ \A i \in 1..n : i < ks[1] => filled[i] = column[ks[1]]
    /\ \A q \in 1..p : \A i \in 1..n :
         ks[q] < i /\ i < ks[q + 1] => filled[i] = OnTheLine(column, ks[q], ks[q + 1], i)

\* Between known cells the line has a quotient at every cell.
LEMMA LineIsNumber ==
  ASSUME NEW n \in Nat, NEW column \in [1..n -> Reading],
         NEW left \in KnownAt(column), NEW right \in KnownAt(column), left < right, NEW i \in 1..n
  PROVE  /\ OnTheLine(column, left, right, i) \in Int
         /\ IsQuotient(OnTheLine(column, left, right, i) - column[left],
                       (column[right] - column[left]) * (i - left), right - left)
<1>1. left \in 1..n /\ right \in 1..n /\ column[left] \in Int /\ column[right] \in Int
  BY DEF KnownAt, Reading
<1> DEFINE a == (i - left) * (column[right] - column[left])
           w == right - left
<1>2. a \in Int /\ w \in Nat /\ w > 0 /\ (column[right] - column[left]) * (i - left) = a
  BY <1>1
<1>3. OnTheLine(column, left, right, i) = column[left] + a \div w
  BY DEF OnTheLine
<1> HIDE DEF a, w
<1>4. a \div w \in Int /\ IsQuotient(a \div w, a, w)
  BY <1>2, DivisionIsQuotient
<1>5. OnTheLine(column, left, right, i) - column[left] = a \div w
  BY <1>1, <1>3, <1>4
<1> QED BY <1>1, <1>2, <1>3, <1>4, <1>5 DEF w

\* Bridging one more gap touches nothing else.
LEMMA BridgeOnceMore ==
  ASSUME NEW n \in Nat, NEW column \in [1..n -> Reading],
         NEW m, NEW ks, Numbers(ks, KnownAt(column), m),
         NEW p \in Nat, p + 1 \in 1..m - 1, NEW filled, IsBridged(filled, column, ks, p, n)
  PROVE  IsBridged(Bridge(filled, ks[p + 1], ks[p + 2]), column, ks, p + 1, n)
<1> DEFINE K == KnownAt(column)
           l == ks[p + 1]
           r == ks[p + 2]
           next == Bridge(filled, l, r)
<1>1. /\ m \in Nat /\ ks \in [1..m -> K]
      /\ \A a, b \in 1..m : a < b => ks[a] < ks[b]
      /\ \A k \in K : \E a \in 1..m : ks[a] = k
  BY DEF Numbers
<1>2. p + 1 \in 1..m /\ p + 2 \in 1..m /\ 1 \in 1..m /\ p + 1 < p + 2
  BY <1>1
<1>3. K \subseteq 1..n
  BY KnownIsSequence
<1> HIDE DEF K
<1>4. l \in K /\ r \in K /\ l < r /\ l \in 1..n /\ r \in 1..n /\ ks[1] \in 1..n
  BY <1>1, <1>2, <1>3
<1>5. \A a \in 1..m : ks[a] \in Int
  <2>1. \A k \in K : k \in Int
    BY <1>3
  <2> QED BY <1>1, <2>1
<1>6. /\ filled \in [1..n -> Reading]
      /\ \A i \in K : filled[i] = column[i]
      /\ \A i \in 1..n : i < ks[1] => filled[i] = column[ks[1]]
      /\ \A q \in 1..p : \A i \in 1..n :
           ks[q] < i /\ i < ks[q + 1] => filled[i] = OnTheLine(column, ks[q], ks[q + 1], i)
  BY DEF IsBridged, K
<1>7. ASSUME NEW i \in 1..n
      PROVE  next[i] = IF l < i /\ i < r THEN OnTheLine(column, l, r, i) ELSE filled[i]
  <2>1. filled[l] = column[l] /\ filled[r] = column[r] /\ DOMAIN filled = 1..n
    BY <1>4, <1>6
  <2> HIDE DEF l, r
  <2>2. next[i] = IF l < i /\ i < r
                  THEN filled[l] + ((i - l) * (filled[r] - filled[l])) \div (r - l)
                  ELSE filled[i]
    BY <2>1 DEF Bridge
  <2> QED BY <2>1, <2>2 DEF OnTheLine
<1>8. next \in [1..n -> Reading]
  <2>1. \A i \in 1..n : OnTheLine(column, l, r, i) \in Int
    BY <1>4, LineIsNumber DEF K
  <2>2. DOMAIN filled = 1..n /\ \A i \in 1..n : filled[i] \in Reading
    BY <1>6
  <2> HIDE DEF l, r
  <2>3. next = [i \in 1..n |-> next[i]]
    BY <2>2 DEF Bridge
  <2>4. \A i \in 1..n : next[i] \in Reading
    BY <1>7, <2>1, <2>2 DEF Reading
  <2> HIDE DEF next
  <2> QED BY <2>3, <2>4
<1>9. ASSUME NEW i \in K PROVE ~(l < i /\ i < r)
  <2>1. PICK a \in 1..m : ks[a] = i
    BY <1>1
  <2>2. a <= p + 1 \/ p + 2 <= a
    BY <1>1
  <2>3. a < p + 1 => i < l
    BY <1>1, <1>2, <2>1
  <2>4. p + 2 < a => r < i
    BY <1>1, <1>2, <2>1
  <2>5. a \in Int /\ i \in Int /\ l \in Int /\ r \in Int
    BY <1>3, <1>4, <2>1
  <2>6. a = p + 1 => i = l
    BY <2>1
  <2>7. a = p + 2 => i = r
    BY <2>1
  <2> HIDE DEF l, r
  <2> QED BY <2>2, <2>3, <2>4, <2>5, <2>6, <2>7
<1>10. ks[1] <= l
  <2>1. 1 < p + 1 \/ p + 1 = 1
    OBVIOUS
  <2> QED BY <1>1, <1>2, <1>4, <2>1
<1>11. ASSUME NEW q \in 1..p + 1, NEW i \in 1..n, ks[q] < i, i < ks[q + 1]
       PROVE  next[i] = OnTheLine(column, ks[q], ks[q + 1], i)
  <2>1. CASE q = p + 1
    <3>1. ks[q] = l /\ ks[q + 1] = r
      BY <2>1
    <3> QED BY <1>7, <1>11, <3>1
  <2>2. CASE q # p + 1
    <3>1. q \in 1..p /\ q \in 1..m /\ q + 1 \in 1..m
      <4>1. m \in Nat /\ p \in Nat /\ q \in 1..p + 1 /\ p + 1 <= m - 1
        BY <1>1
      <4> QED BY <2>2, <4>1
    <3>2. ks[q + 1] <= l
      <4>1. q + 1 < p + 1 \/ q + 1 = p + 1
        BY <3>1
      <4>2. ks[q + 1] \in Int /\ l \in Int
        BY <1>4, <1>5, <3>1
      <4>3. q + 1 < p + 1 => ks[q + 1] < l
        BY <1>1, <1>2, <3>1
      <4>4. q + 1 = p + 1 => ks[q + 1] = l
        OBVIOUS
      <4> HIDE DEF l
      <4> QED BY <4>1, <4>2, <4>3, <4>4
    <3>3. ~(l < i)
      <4>1. ks[q + 1] \in Int /\ l \in Int
        BY <1>4, <1>5, <3>1
      <4> QED BY <1>11, <3>2, <4>1
    <3>4. next[i] = filled[i]
      BY <1>7, <3>3
    <3> QED BY <1>6, <1>11, <3>1, <3>4
  <2> QED BY <2>1, <2>2
<1>12. ASSUME NEW i \in 1..n, i < ks[1] PROVE next[i] = column[ks[1]]
  <2>1. ~(l < i)
    BY <1>4, <1>10, <1>12
  <2> QED BY <1>6, <1>7, <1>12, <2>1
<1>13. \A i \in K : next[i] = column[i]
  BY <1>3, <1>6, <1>7, <1>9
<1> HIDE DEF next, l, r
<1>14. IsBridged(next, column, ks, p + 1, n)
  BY <1>8, <1>11, <1>12, <1>13 DEF IsBridged, K
<1> QED BY <1>14 DEF next, l, r

\* What interpolate() leaves of a column that has known cells.
LEMMA BridgedColumn ==
  ASSUME NEW n \in Nat, NEW column \in [1..n -> Reading], KnownAt(column) # {}
  PROVE  LET ks == KnownIndexes(column)
             m  == Cardinality(KnownAt(column))
         IN  \E filled : /\ IsBridged(filled, column, ks, m - 1, n)
                         /\ Interpolate(column) = HoldLast(filled, ks[m])
<1> DEFINE K == KnownAt(column)
           ks == KnownIndexes(column)
           m == Cardinality(K)
           S == [1..n -> Reading]
           base == HoldFirst(column, ks[1])
           step == [x \in (1..m - 1) \X S |-> Bridge(x[2], ks[x[1]], ks[x[1] + 1])]
           IsBridges(b) == b = [pair \in 0..Len(ks) - 1 |->
                                  IF pair = 0 THEN HoldFirst(column, Head(ks))
                                  ELSE Bridge(b[pair - 1], ks[pair], ks[pair + 1])]
           bridged == CHOOSE b : IsBridges(b)
<1>1. Numbers(ks, K, m) /\ ks \in Seq(1..n) /\ Len(ks) = m /\ K \subseteq 1..n
  BY KnownIndexesList, KnownIsSequence
<1> HIDE DEF K, ks
<1>2. /\ m \in Nat /\ ks \in [1..m -> K]
      /\ \A a, b \in 1..m : a < b => ks[a] < ks[b]
      /\ \A k \in K : \E a \in 1..m : ks[a] = k
  BY <1>1 DEF Numbers
<1>3. m > 0 /\ 1 \in 1..m /\ m \in 1..m /\ m - 1 \in Nat
  <2>1. PICK k \in K : TRUE
    BY DEF K
  <2>2. PICK a \in 1..m : ks[a] = k
    BY <1>2
  <2> HIDE DEF m
  <2> QED BY <1>2
<1> HIDE DEF m
<1>4. ks # <<>> /\ Head(ks) = ks[1] /\ Last(ks) = ks[m]
  BY <1>1, <1>3, EmptySeq DEF Last
<1>5. ks[1] \in K /\ ks[1] \in 1..n /\ ks[m] \in K /\ ks[m] \in 1..n
  BY <1>1, <1>2, <1>3
<1>6. base \in S
  <2>1. \A i \in 1..n : column[i] \in Reading
    OBVIOUS
  <2>2. base = [i \in 1..n |-> IF i < ks[1] THEN column[ks[1]] ELSE column[i]]
    BY DEF HoldFirst
  <2> HIDE DEF base
  <2> QED BY <1>5, <2>1, <2>2
<1>7. IsBridged(base, column, ks, 0, n)
  <2>1. \A i \in 1..n : base[i] = IF i < ks[1] THEN column[ks[1]] ELSE column[i]
    BY DEF HoldFirst
  <2>2. ASSUME NEW i \in K PROVE i \in 1..n /\ ~(i < ks[1])
    <3>1. PICK a \in 1..m : ks[a] = i
      BY <1>2
    <3>2. a = 1 \/ 1 < a
      BY <1>2
    <3>3. ks[a] \in Int /\ ks[1] \in Int
      BY <1>1, <1>2, <1>5
    <3> QED BY <1>1, <1>2, <1>3, <3>1, <3>2, <3>3
  <2> HIDE DEF base
  <2> QED BY <1>6, <2>1, <2>2 DEF IsBridged, K
<1>8. ASSUME NEW b, b[0] = base,
             \A p \in 1..m - 1 : b[p - 1] \in S => b[p] = Bridge(b[p - 1], ks[p], ks[p + 1])
      PROVE  \A p \in 0..m - 1 : IsBridged(b[p], column, ks, p, n)
  <2> DEFINE T == {p \in Nat : p <= m - 1 => IsBridged(b[p], column, ks, p, n)}
  <2>1. 0 \in T
    BY <1>7, <1>8
  <2>2. ASSUME NEW p \in T PROVE p + 1 \in T
    <3> SUFFICES ASSUME p + 1 <= m - 1 PROVE IsBridged(b[p + 1], column, ks, p + 1, n)
      OBVIOUS
    <3>1. p \in Nat /\ p <= m - 1 /\ p + 1 \in 1..m - 1 /\ (p + 1) - 1 = p /\ (p + 1) + 1 = p + 2
      BY <1>3
    <3>2. IsBridged(b[p], column, ks, p, n)
      BY <3>1
    <3>3. b[p] \in S
      BY <3>2 DEF IsBridged
    <3> HIDE DEF T, S, base
    <3>4. b[p + 1] = Bridge(b[p], ks[p + 1], ks[p + 2])
      BY <1>8, <3>1, <3>3
    <3> QED BY <1>1, <3>1, <3>2, <3>4, BridgeOnceMore DEF K
  <2> HIDE DEF T
  <2>3. T = Nat
    <3>1. T \in SUBSET Nat
      BY DEF T
    <3> QED BY <2>1, <2>2, <3>1, Induction
  <2> QED BY <2>3 DEF T
<1>9. \E b : IsBridges(b)
  <2>1. PICK b : IsRecursion(b, base, step, m - 1)
    <3> HIDE DEF base, step
    <3> QED BY <1>3, RecursionDefines
  <2>2. ASSUME NEW p \in 1..m - 1, b[p - 1] \in S
        PROVE  b[p] = Bridge(b[p - 1], ks[p], ks[p + 1])
    <3>1. step[<<p, b[p - 1]>>] = Bridge(b[p - 1], ks[p], ks[p + 1])
      BY <2>2
    <3> HIDE DEF step, base
    <3> QED BY <2>1, <3>1 DEF IsRecursion
  <2>3. b[0] = base /\ b = [p \in 0..m - 1 |-> b[p]]
    <3> HIDE DEF step, base
    <3> QED BY <2>1 DEF IsRecursion
  <2>4. \A p \in 0..m - 1 : b[p] \in S
    <3>1. \A p \in 0..m - 1 : IsBridged(b[p], column, ks, p, n)
      <4> HIDE DEF S, base
      <4> QED BY <1>8, <2>2, <2>3
    <3> QED BY <3>1 DEF IsBridged
  <2>5. ASSUME NEW p \in 0..m - 1
        PROVE  b[p] = IF p = 0 THEN HoldFirst(column, Head(ks))
                      ELSE Bridge(b[p - 1], ks[p], ks[p + 1])
    <3>1. CASE p = 0
      BY <1>4, <2>3, <3>1
    <3>2. CASE p # 0
      <4>1. p \in 1..m - 1 /\ p - 1 \in 0..m - 1
        BY <1>3, <3>2
      <4> HIDE DEF S
      <4> QED BY <2>2, <2>4, <3>2, <4>1
    <3> QED BY <3>1, <3>2
  <2>6. Len(ks) - 1 = m - 1
    BY <1>1
  <2> HIDE DEF base, S
  <2>7. b = [p \in 0..Len(ks) - 1 |-> IF p = 0 THEN HoldFirst(column, Head(ks))
                                      ELSE Bridge(b[p - 1], ks[p], ks[p + 1])]
    BY <2>3, <2>5, <2>6
  <2> QED BY <2>7
<1>10. IsBridges(bridged)
  <2> HIDE DEF IsBridges
  <2> QED BY <1>9
<1>11. IsBridged(bridged[m - 1], column, ks, m - 1, n)
  <2>1. Len(ks) - 1 = m - 1
    BY <1>1
  <2> HIDE DEF bridged
  <2>2. bridged[0] = base
    BY <1>3, <1>4, <1>10, <2>1
  <2>3. ASSUME NEW p \in 1..m - 1 PROVE bridged[p] = Bridge(bridged[p - 1], ks[p], ks[p + 1])
    <3>1. p \in 0..m - 1 /\ p # 0
      OBVIOUS
    <3> HIDE DEF base
    <3> QED BY <1>10, <2>1, <3>1
  <2>4. m - 1 \in 0..m - 1
    BY <1>3
  <2> HIDE DEF base, IsBridges, S
  <2> QED BY <1>8, <2>2, <2>3, <2>4
<1>12. Interpolate(column) = HoldLast(bridged[m - 1], ks[m])
  <2>1. Interpolate(column) =
          IF ks = <<>> THEN column ELSE HoldLast(bridged[Len(ks) - 1], Last(ks))
    BY DEF Interpolate, ks
  <2> HIDE DEF bridged
  <2> QED BY <1>1, <1>4, <2>1
<1> HIDE DEF bridged
<1> QED BY <1>11, <1>12 DEF m, K, ks

\* A column with known cells keeps them and has the others from its neighbours.
LEMMA InterpolatedColumn ==
  ASSUME NEW n \in Nat, NEW column \in [1..n -> Reading]
  PROVE  LET after == Interpolate(column)
         IN  /\ after \in [1..n -> Reading]
             /\ KnownAt(column) = {} => after = column
             /\ KnownAt(column) # {} => after \in [1..n -> Int]
             /\ \A i \in KnownAt(column) : after[i] = column[i]
             /\ IsInterpolation(column, after)
<1> DEFINE K == KnownAt(column)
           ks == KnownIndexes(column)
           m == Cardinality(K)
           after == Interpolate(column)
<1>1. Numbers(ks, K, m) /\ ks \in Seq(1..n) /\ Len(ks) = m /\ K \subseteq 1..n
  BY KnownIndexesList, KnownIsSequence
<1>2. K = {i \in DOMAIN column : column[i] # Missing}
  BY DEF KnownAt
<1>3. CASE K = {}
  <2>1. m = 0
    BY <1>3, FS_EmptySet
  <2>2. ks = <<>>
    <3> HIDE DEF ks, m
    <3> QED BY <1>1, <2>1, EmptySeq
  <2>3. after = column
    BY <2>2 DEF Interpolate
  <2>4. IsInterpolation(column, after)
    <3> HIDE DEF after
    <3> QED BY <1>2, <1>3, <2>3, Zenon DEF IsInterpolation
  <2> QED BY <1>3, <2>3, <2>4
<1>4. CASE K # {}
  <2>1. PICK filled : IsBridged(filled, column, ks, m - 1, n) /\ after = HoldLast(filled, ks[m])
    BY <1>4, BridgedColumn
  <2> HIDE DEF after
  <2>2. /\ m \in Nat /\ ks \in [1..m -> K]
        /\ \A a, b \in 1..m : a < b => ks[a] < ks[b]
        /\ \A k \in K : \E a \in 1..m : ks[a] = k
    BY <1>1 DEF Numbers
  <2>3. m > 0
    <3>1. PICK k \in K : TRUE
      BY <1>4
    <3>2. PICK a \in 1..m : ks[a] = k
      BY <2>2
    <3> HIDE DEF m, K, ks
    <3> QED BY <2>2
  <2> HIDE DEF m, ks, K
  <2>4. /\ filled \in [1..n -> Reading]
        /\ \A i \in K : filled[i] = column[i]
        /\ \A i \in 1..n : i < ks[1] => filled[i] = column[ks[1]]
        /\ \A q \in 1..m - 1 : \A i \in 1..n :
             ks[q] < i /\ i < ks[q + 1] => filled[i] = OnTheLine(column, ks[q], ks[q + 1], i)
    BY <2>1 DEF IsBridged, K
  <2>5. 1 \in 1..m /\ m \in 1..m /\ \A q \in 1..m - 1 : q \in 1..m /\ q + 1 \in 1..m /\ q < q + 1
    BY <2>2, <2>3
  <2>6. \A a \in 1..m : ks[a] \in K /\ ks[a] \in 1..n /\ ks[a] \in Int
    BY <1>1, <2>2
  <2>7. \A k \in K : k \in 1..n /\ column[k] \in Int
    BY DEF K, KnownAt, Reading
  <2>8. \A i \in 1..n : after[i] = IF i > ks[m] THEN filled[ks[m]] ELSE filled[i]
    BY <2>1, <2>4 DEF HoldLast
  <2>9. after = [i \in 1..n |-> after[i]]
    BY <2>1, <2>4 DEF HoldLast
  <2>10. ASSUME NEW a \in 1..m PROVE ks[a] <= ks[m]
    <3>1. a = m \/ a < m
      BY <2>2
    <3>2. ks[a] \in Int /\ ks[m] \in Int /\ (a < m => ks[a] < ks[m])
      BY <2>2, <2>5, <2>6
    <3> QED BY <3>1, <3>2
  <2>11. ASSUME NEW i \in K PROVE after[i] = column[i]
    <3>1. PICK a \in 1..m : ks[a] = i
      BY <2>2
    <3>2. ~(i > ks[m])
      BY <2>5, <2>6, <2>10, <3>1
    <3>3. i \in 1..n
      BY <2>7
    <3> QED BY <2>4, <2>8, <3>2, <3>3
  <2>12. ASSUME NEW i \in 1..n, i > ks[m] PROVE after[i] = column[ks[m]]
    BY <2>4, <2>5, <2>6, <2>8, <2>12
  <2>13. ASSUME NEW i \in 1..n, i < ks[1] PROVE after[i] = column[ks[1]]
    <3>1. ks[1] \in Int /\ ks[m] \in Int /\ ks[1] <= ks[m]
      BY <2>5, <2>6, <2>10
    <3>2. ~(i > ks[m])
      BY <2>13, <3>1
    <3> QED BY <2>4, <2>8, <2>13, <3>2
  <2>14. ASSUME NEW q \in 1..m - 1, NEW i \in 1..n, ks[q] < i, i < ks[q + 1]
         PROVE  after[i] = OnTheLine(column, ks[q], ks[q + 1], i)
    <3>1. ks[q + 1] \in Int /\ ks[m] \in Int /\ ks[q + 1] <= ks[m]
      BY <2>5, <2>6, <2>10
    <3>2. ~(i > ks[m])
      BY <2>14, <3>1
    <3> QED BY <2>4, <2>8, <2>14, <3>2
  <2>15. ASSUME NEW i \in 1..n
         PROVE  /\ after[i] \in Int
                /\ LET left == {k \in K : k <= i}
                       right == {k \in K : k >= i}
                   IN  IF i \in K THEN after[i] = column[i]
                       ELSE IF left = {} THEN after[i] = column[Min(right)]
                       ELSE IF right = {} THEN after[i] = column[Max(left)]
                       ELSE IsQuotient(after[i] - column[Max(left)],
                              (column[Min(right)] - column[Max(left)]) * (i - Max(left)),
                              Min(right) - Max(left))
    <3> DEFINE left == {k \in K : k <= i}
               right == {k \in K : k >= i}
    <3>1. CASE i \in K
      BY <2>7, <2>11, <3>1
    <3>2. CASE i \notin K
      <4>1. \/ i < ks[1] /\ left = {} /\ Min(right) = ks[1]
            \/ i > ks[m] /\ right = {} /\ left # {} /\ Max(left) = ks[m]
            \/ \E q \in 1..m - 1 :
                 /\ ks[q] < i /\ i < ks[q + 1]
                 /\ left # {} /\ Max(left) = ks[q]
                 /\ right # {} /\ Min(right) = ks[q + 1]
        <5>1. K \in SUBSET (1..n)
          BY <1>1
        <5>2. HasNeighbours(K, ks, m, i)
          BY <1>1, <1>4, <3>2, <5>1, NeighboursOf
        <5> QED BY <5>2, Zenon DEF HasNeighbours
      <4> HIDE DEF left, right
      <4>2. CASE i < ks[1] /\ left = {} /\ Min(right) = ks[1]
        <5>1. after[i] = column[ks[1]] /\ column[ks[1]] \in Int
          BY <2>5, <2>6, <2>7, <2>13, <4>2
        <5> QED BY <3>2, <4>2, <5>1 DEF left, right
      <4>3. CASE i > ks[m] /\ right = {} /\ left # {} /\ Max(left) = ks[m]
        <5>1. after[i] = column[ks[m]] /\ column[ks[m]] \in Int
          BY <2>5, <2>6, <2>7, <2>12, <4>3
        <5> QED BY <3>2, <4>3, <5>1 DEF left, right
      <4>4. ASSUME NEW q \in 1..m - 1, ks[q] < i, i < ks[q + 1],
                   left # {}, Max(left) = ks[q], right # {}, Min(right) = ks[q + 1]
            PROVE  after[i] \in Int /\ IsQuotient(after[i] - column[ks[q]],
                     (column[ks[q + 1]] - column[ks[q]]) * (i - ks[q]), ks[q + 1] - ks[q])
        <5>1. ks[q] \in K /\ ks[q + 1] \in K /\ ks[q] < ks[q + 1]
          BY <2>2, <2>5, <2>6
        <5>2. after[i] = OnTheLine(column, ks[q], ks[q + 1], i)
          BY <2>14, <4>4
        <5> QED BY <5>1, <5>2, LineIsNumber DEF K
      <4> QED BY <3>2, <4>1, <4>2, <4>3, <4>4 DEF left, right
    <3> QED BY <3>1, <3>2
  <2>16. after \in [1..n -> Int]
    BY <2>9, <2>15
  <2>17. after \in [1..n -> Reading]
    BY <2>16 DEF Reading
  <2>18. IsInterpolation(column, after)
    <3>1. DOMAIN column = 1..n /\ K # {} /\ K = {i \in DOMAIN column : column[i] # Missing}
      BY <1>2, <1>4
    <3> QED BY <2>15, <3>1, Zenon DEF IsInterpolation
  <2> QED BY <1>4, <2>11, <2>16, <2>17, <2>18, Zenon DEF K, after
<1> QED BY <1>3, <1>4

-----------------------------------------------------------------------------
(* The moving average: the running sums are the sums over the window.        *)

\* The cells a moving average at i takes in.
Span(n, i, window) == {j \in 1..n : i - window < j /\ j <= i}

\* What leaves the window when the i-th cell enters it.
Leaves(f, i, window) == IF i > window THEN f[i - window] ELSE 0

\* g adds what enters the window and subtracts what leaves it.
IsSliding(g, f, n, window) ==
    g = [i \in 0..n |-> IF i = 0 THEN 0
                        ELSE g[i - 1] + f[i] - Leaves(f, i, window)]

SpanSum(f, n, i, window) == SumFunctionOnSet(f, Span(n, i, window))

\* One step of the window takes one cell in and, once it is full, lets one go.
LEMMA SpanSlides ==
  ASSUME NEW n \in Nat, NEW f \in [1..n -> Int], NEW window \in Nat, window > 0
  PROVE  /\ SpanSum(f, n, 0, window) = 0
         /\ \A i \in 0..n : SpanSum(f, n, i, window) \in Int
         /\ \A i \in 1..n :
              SpanSum(f, n, i, window)
                = SpanSum(f, n, i - 1, window) + f[i]
                    - Leaves(f, i, window)
<1>1. Span(n, 0, window) = {}
  BY DEF Span
<1>2. ASSUME NEW i \in 0..n
      PROVE  IsFiniteSet(Span(n, i, window)) /\ SpanSum(f, n, i, window) \in Int
  <2>1. Span(n, i, window) \subseteq 1..n /\ IsFiniteSet(1..n)
    BY FS_Interval DEF Span
  <2>2. IsFiniteSet(Span(n, i, window))
    BY <2>1, FS_Subset
  <2>3. \A j \in Span(n, i, window) : f[j] \in Int
    BY <2>1
  <2> QED BY <2>2, <2>3, SumIsInt DEF SpanSum
<1>3. ASSUME NEW i \in 1..n
      PROVE  SpanSum(f, n, i, window)
               = SpanSum(f, n, i - 1, window) + f[i]
                   - Leaves(f, i, window)
  <2> DEFINE middle == {j \in 1..n : i - window < j /\ j <= i - 1}
             sum == SumFunctionOnSet(f, middle)
  <2>1. middle \subseteq 1..n /\ IsFiniteSet(1..n)
    BY FS_Interval
  <2>2. IsFiniteSet(middle)
    BY <2>1, FS_Subset
  <2>3. \A j \in middle : f[j] \in Int
    BY <2>1
  <2>4. Span(n, i, window) = middle \cup {i} /\ i \notin middle
    BY DEF Span
  <2>5. f[i] \in Int
    OBVIOUS
  <2>6. i > window => /\ Span(n, i - 1, window) = middle \cup {i - window}
                      /\ i - window \notin middle /\ f[i - window] \in Int
    BY DEF Span
  <2>7. ~(i > window) => Span(n, i - 1, window) = middle
    BY DEF Span
  <2> HIDE DEF middle
  <2>8. sum \in Int
    BY <2>2, <2>3, SumIsInt
  <2>9. SpanSum(f, n, i, window) = f[i] + sum
    BY <2>2, <2>3, <2>4, <2>5, SumGrows DEF SpanSum
  <2>10. i > window => SpanSum(f, n, i - 1, window) = f[i - window] + sum
    BY <2>2, <2>3, <2>6, SumGrows DEF SpanSum
  <2>11. ~(i > window) => SpanSum(f, n, i - 1, window) = sum
    BY <2>7 DEF SpanSum
  <2> HIDE DEF sum
  <2> QED BY <2>5, <2>6, <2>8, <2>9, <2>10, <2>11 DEF Leaves
<1> QED BY <1>1, <1>2, <1>3, SumOfNone DEF SpanSum

\* The running sum is the sum over the window, however long the series.
LEMMA SlidingSum ==
  ASSUME NEW n \in Nat, NEW f \in [1..n -> Int], NEW window \in Nat, window > 0
  PROVE  /\ \E g : IsSliding(g, f, n, window)
         /\ \A g : IsSliding(g, f, n, window) =>
              \A i \in 0..n : g[i] = SpanSum(f, n, i, window)
<1>0. /\ SpanSum(f, n, 0, window) = 0
      /\ \A i \in 0..n : SpanSum(f, n, i, window) \in Int
      /\ \A i \in 1..n :
           SpanSum(f, n, i, window)
             = SpanSum(f, n, i - 1, window) + f[i]
                 - Leaves(f, i, window)
  BY SpanSlides
<1> DEFINE reference == [i \in 0..n |-> SpanSum(f, n, i, window)]
<1>2. IsSliding(reference, f, n, window)
  <2>1. ASSUME NEW i \in 0..n
        PROVE  reference[i] = IF i = 0 THEN 0 ELSE reference[i - 1] + f[i] - Leaves(f, i, window)
    <3>1. CASE i = 0
      BY <1>0, <3>1
    <3>2. CASE i # 0
      <4>1. i \in 1..n /\ i - 1 \in 0..n
        BY <3>2
      <4> QED BY <1>0, <3>2, <4>1
    <3> QED BY <3>1, <3>2
  <2>2. reference = [i \in 0..n |-> reference[i]]
    OBVIOUS
  <2> HIDE DEF reference
  <2>3. reference = [i \in 0..n |-> IF i = 0 THEN 0 ELSE reference[i - 1] + f[i] - Leaves(f, i, window)]
    BY <2>1, <2>2
  <2> QED BY <2>3 DEF IsSliding
<1>3. ASSUME NEW g, IsSliding(g, f, n, window), NEW k \in 0..n
      PROVE  g[k] = SpanSum(f, n, k, window)
  <2>1. g = [i \in 0..n |-> IF i = 0 THEN 0 ELSE g[i - 1] + f[i] - Leaves(f, i, window)]
    BY <1>3 DEF IsSliding
  <2>2. g[0] = 0 /\ \A i \in 1..n : g[i] = g[i - 1] + f[i] - Leaves(f, i, window)
    <3>1. 0 \in 0..n /\ \A i \in 1..n : i \in 0..n /\ i # 0
      OBVIOUS
    <3> QED BY <2>1, <3>1
  <2> DEFINE T == {i \in Nat : i <= n => g[i] = SpanSum(f, n, i, window)}
  <2>3. 0 \in T
    BY <1>0, <2>2
  <2>4. ASSUME NEW i \in T PROVE i + 1 \in T
    <3> SUFFICES ASSUME i + 1 <= n PROVE g[i + 1] = SpanSum(f, n, i + 1, window)
      OBVIOUS
    <3>1. i \in Nat /\ i + 1 \in 1..n /\ (i + 1) - 1 = i /\ g[i] = SpanSum(f, n, i, window)
      OBVIOUS
    <3> HIDE DEF T
    <3> QED BY <1>0, <2>2, <3>1
  <2> HIDE DEF T
  <2>5. T = Nat
    <3>1. T \in SUBSET Nat
      BY DEF T
    <3> QED BY <2>3, <2>4, <3>1, Induction
  <2> QED BY <2>5 DEF T
<1> HIDE DEF reference
<1> QED BY <1>2, <1>3

\* The running sum of a series without gaps slides over its values.
LEMMA RunningSumIsSliding ==
  ASSUME NEW n \in Nat, NEW column \in [1..n -> Int], NEW window \in Nat, window > 0
  PROVE  IsSliding(RunningSum(column, window), column, n, window)
<1> DEFINE IsRunning(sum) ==
             sum = [i \in 0..Len(column) |-> IF i = 0 THEN 0
                      ELSE sum[i - 1] + Entering(column, i) - Leaving(column, i, window)]
<1>1. RunningSum(column, window) = CHOOSE sum : IsRunning(sum)
  BY DEF RunningSum
<1>2. Len(column) = n /\ \A i \in 1..n : column[i] # Missing
  BY DomainAssumption
<1>3. ASSUME NEW i \in 0..n, i # 0
      PROVE  /\ Entering(column, i) = column[i]
             /\ Leaving(column, i, window) = Leaves(column, i, window)
  <2>1. i \in 1..n /\ (i > window => i - window \in 1..n)
    BY <1>3
  <2> QED BY <1>2, <2>1 DEF Entering, Leaving, Leaves
<1>4. ASSUME NEW g PROVE IsRunning(g) <=> IsSliding(g, column, n, window)
  <2> DEFINE Mine(i) == IF i = 0 THEN 0
                        ELSE g[i - 1] + Entering(column, i) - Leaving(column, i, window)
             Theirs(i) == IF i = 0 THEN 0 ELSE g[i - 1] + column[i]
                            - Leaves(column, i, window)
  <2>1. \A i \in 0..n : Mine(i) = Theirs(i)
    BY <1>3
  <2>2. IsRunning(g) <=> g = [i \in 0..n |-> Mine(i)]
    BY <1>2
  <2>3. IsSliding(g, column, n, window) <=> g = [i \in 0..n |-> Theirs(i)]
    BY DEF IsSliding
  <2>4. [i \in 0..n |-> Mine(i)] = [i \in 0..n |-> Theirs(i)]
    <3> HIDE DEF Mine, Theirs
    <3> QED BY <2>1
  <2> HIDE DEF IsRunning, Mine, Theirs
  <2> QED BY <2>2, <2>3, <2>4
<1> HIDE DEF IsRunning
<1>5. \E g : IsRunning(g)
  BY <1>4, SlidingSum
<1>6. IsRunning(RunningSum(column, window))
  BY <1>1, <1>5
<1> QED BY <1>4, <1>6

\* The running count of a series without gaps slides over ones.
LEMMA RunningCountIsSliding ==
  ASSUME NEW n \in Nat, NEW column \in [1..n -> Int], NEW window \in Nat, window > 0
  PROVE  IsSliding(RunningCount(column, window), [i \in 1..n |-> 1], n, window)
<1> DEFINE ones == [i \in 1..n |-> 1]
           Counts(i) == IF column[i] = Missing THEN 0 ELSE 1
           IsRunning(valid) ==
             valid = [i \in 0..Len(column) |-> IF i = 0 THEN 0
                        ELSE valid[i - 1] + Counts(i)
                               - (IF i > window THEN Counts(i - window) ELSE 0)]
<1>1. RunningCount(column, window) = CHOOSE valid : IsRunning(valid)
  BY DEF RunningCount
<1>2. Len(column) = n /\ \A i \in 1..n : column[i] # Missing
  BY DomainAssumption
<1>3. ASSUME NEW i \in 0..n, i # 0
      PROVE  /\ Counts(i) = ones[i]
             /\ (IF i > window THEN Counts(i - window) ELSE 0) = Leaves(ones, i, window)
  <2>1. i \in 1..n /\ (i > window => i - window \in 1..n)
    BY <1>3
  <2> QED BY <1>2, <2>1 DEF Leaves
<1>4. ASSUME NEW g PROVE IsRunning(g) <=> IsSliding(g, ones, n, window)
  <2> DEFINE Mine(i) == IF i = 0 THEN 0
                        ELSE g[i - 1] + Counts(i) - (IF i > window THEN Counts(i - window) ELSE 0)
             Theirs(i) == IF i = 0 THEN 0 ELSE g[i - 1] + ones[i]
                            - Leaves(ones, i, window)
  <2>2. IsRunning(g) <=> g = [i \in 0..n |-> Mine(i)]
    BY <1>2
  <2>3. IsSliding(g, ones, n, window) <=> g = [i \in 0..n |-> Theirs(i)]
    <3> HIDE DEF ones
    <3> QED BY DEF IsSliding
  <2> HIDE DEF Counts, ones
  <2>1. \A i \in 0..n : Mine(i) = Theirs(i)
    BY <1>3
  <2>4. [i \in 0..n |-> Mine(i)] = [i \in 0..n |-> Theirs(i)]
    <3> HIDE DEF Mine, Theirs
    <3> QED BY <2>1
  <2> HIDE DEF IsRunning, Mine, Theirs
  <2> QED BY <2>2, <2>3, <2>4
<1>5. ones \in [1..n -> Int]
  OBVIOUS
<1> HIDE DEF IsRunning, ones
<1>6. \E g : IsRunning(g)
  BY <1>4, <1>5, SlidingSum
<1>7. IsRunning(RunningCount(column, window))
  BY <1>1, <1>6
<1>8. IsSliding(RunningCount(column, window), ones, n, window)
  BY <1>4, <1>7
<1> QED BY <1>8 DEF ones

\* A smoothed cell is the mean of the window that ends in it.
LEMMA SmoothedColumn ==
  ASSUME NEW n \in Nat, NEW column \in [1..n -> Reading], NEW window \in Nat, window > 0
  PROVE  LET after == Smooth(Interpolate(column), window)
         IN  /\ after \in [1..n -> Reading]
             /\ KnownAt(column) = {} => after = column
             /\ KnownAt(column) # {} => after \in [1..n -> Int]
             /\ IsMovingAverage(column, after, window)
<1> DEFINE source == Interpolate(column)
           sum == RunningSum(source, window)
           valid == RunningCount(source, window)
           after == Smooth(source, window)
<1>1. /\ source \in [1..n -> Reading]
      /\ KnownAt(column) = {} => source = column
      /\ KnownAt(column) # {} => source \in [1..n -> Int]
  BY InterpolatedColumn
<1>2. after = [i \in DOMAIN source |-> IF source[i] # Missing /\ valid[i] > 0
                                        THEN sum[i] \div valid[i] ELSE source[i]]
  BY DEF Smooth
<1>3. CASE KnownAt(column) = {}
  <2>1. \A i \in 1..n : source[i] = Missing
    BY <1>1, <1>3 DEF KnownAt
  <2>2. after = column
    <3> HIDE DEF after, sum, valid, source
    <3> QED BY <1>1, <1>2, <1>3, <2>1
  <2>3. IsMovingAverage(column, after, window)
    <3>1. DOMAIN column = 1..n /\ \A i \in 1..n : source[i] = Missing /\ after[i] = Missing
      BY <1>1, <1>3, <2>1, <2>2
    <3> HIDE DEF after
    <3> QED BY <3>1 DEF IsMovingAverage
  <2> QED BY <1>3, <2>2, <2>3
<1>4. CASE KnownAt(column) # {}
  <2>1. source \in [1..n -> Int] /\ DOMAIN source = 1..n
    BY <1>1, <1>4
  <2>2. \A i \in 1..n : source[i] # Missing
    BY <2>1, DomainAssumption
  <2> DEFINE ones == [i \in 1..n |-> 1]
  <2>3. /\ \A i \in 0..n : sum[i] = SpanSum(source, n, i, window)
        /\ \A i \in 0..n : SpanSum(source, n, i, window) \in Int
    <3> HIDE DEF source
    <3>1. IsSliding(RunningSum(source, window), source, n, window)
      BY <2>1, RunningSumIsSliding
    <3>2. \A i \in 0..n : RunningSum(source, window)[i] = SpanSum(source, n, i, window)
      BY <2>1, <3>1, SlidingSum
    <3> QED BY <2>1, <3>2, SpanSlides
  <2>4. \A i \in 0..n : valid[i] = SpanSum(ones, n, i, window)
    <3>1. IsSliding(valid, ones, n, window)
      <4> HIDE DEF source
      <4> QED BY <2>1, RunningCountIsSliding
    <3>2. ones \in [1..n -> Int]
      OBVIOUS
    <3> HIDE DEF ones, valid
    <3> QED BY <3>1, <3>2, SlidingSum
  <2>5. ASSUME NEW i \in 1..n
        PROVE  valid[i] = Cardinality(Span(n, i, window)) /\ valid[i] \in Nat /\ valid[i] > 0
    <3>1. Span(n, i, window) \subseteq 1..n /\ IsFiniteSet(1..n) /\ i \in Span(n, i, window)
      BY FS_Interval DEF Span
    <3>2. IsFiniteSet(Span(n, i, window))
      BY <3>1, FS_Subset
    <3>3. \A j \in Span(n, i, window) : ones[j] = 1
      BY <3>1
    <3>4. SumFunctionOnSet(ones, Span(n, i, window)) = 1 * Cardinality(Span(n, i, window))
      <4> HIDE DEF ones
      <4> QED BY <3>2, <3>3, SumOfConstant
    <3>5. Cardinality(Span(n, i, window)) \in Nat /\ Cardinality(Span(n, i, window)) # 0
      BY <3>1, <3>2, FS_CardinalityType, FS_EmptySet
    <3>6. i \in 0..n
      OBVIOUS
    <3> HIDE DEF valid, ones
    <3> QED BY <2>4, <3>4, <3>5, <3>6 DEF SpanSum
  <2>6. ASSUME NEW i \in 1..n
        PROVE  /\ after[i] \in Int
               /\ IsQuotient(after[i], SpanSum(source, n, i, window), Cardinality(Span(n, i, window)))
    <3>1. /\ valid[i] \in Nat /\ valid[i] > 0 /\ valid[i] = Cardinality(Span(n, i, window))
          /\ sum[i] \in Int /\ sum[i] = SpanSum(source, n, i, window)
      <4>1. i \in 0..n
        OBVIOUS
      <4> HIDE DEF valid, sum, source
      <4> QED BY <2>3, <2>5, <4>1
    <3> HIDE DEF valid, sum, source, after
    <3>2. after[i] = sum[i] \div valid[i]
      BY <1>2, <2>1, <2>2, <3>1
    <3>3. (sum[i] \div valid[i]) \in Int /\ IsQuotient(sum[i] \div valid[i], sum[i], valid[i])
      BY <3>1, DivisionIsQuotient
    <3> QED BY <3>1, <3>2, <3>3
  <2>7. after \in [1..n -> Int] /\ after \in [1..n -> Reading]
    <3> HIDE DEF after, sum, valid, source
    <3>1. after = [i \in 1..n |-> after[i]]
      BY <1>2, <2>1
    <3> QED BY <2>6, <3>1 DEF Reading
  <2>8. IsMovingAverage(column, after, window)
    <3>1. ASSUME NEW i \in 1..n
          PROVE  TotalOf(LAMBDA j : source[j], {j \in 1..n : i - window < j /\ j <= i})
                   = SpanSum(source, n, i, window)
      <4> DEFINE S == Span(n, i, window)
                 f == [j \in S |-> source[j]]
      <4>1. TotalOf(LAMBDA j : source[j], {j \in 1..n : i - window < j /\ j <= i})
              = SumFunctionOnSet(f, S)
        BY Zenon DEF TotalOf, SumFunction, Span
      <4>2. S \subseteq 1..n /\ IsFiniteSet(1..n)
        BY FS_Interval DEF Span
      <4>3. IsFiniteSet(S) /\ \A j \in S : f[j] \in Int /\ source[j] = f[j]
        BY <2>1, <4>2, FS_Subset
      <4> HIDE DEF f, S
      <4>4. SumFunctionOnSet(f, S) = SumFunctionOnSet(source, S)
        BY <4>3, SumsAgree
      <4> QED BY <4>1, <4>4 DEF SpanSum, S
    <3>2. DOMAIN column = 1..n
      OBVIOUS
    <3> HIDE DEF after
    <3> QED BY <2>2, <2>6, <3>1, <3>2, Zenon DEF IsMovingAverage, Span
  <2> QED BY <1>4, <2>7, <2>8
<1> QED BY <1>3, <1>4

-----------------------------------------------------------------------------
(* The diagnosis: no division by zero, and the slope is the one of the pairs. *)

\* The two halves of the series are both looked at, and nothing else.
LEMMA HalvesAddUp ==
  ASSUME NEW values \in Seq(Int), Len(values) >= DiagnosisMinimum
  PROVE  LET n == Len(values)
             middle == n \div 2
             first == SubSeq(values, 1, middle)
             second == SubSeq(values, middle + 1, n)
         IN  /\ Len(first) = middle /\ middle > 0
             /\ Len(second) = n - middle /\ n - middle > 0
             /\ Len(first) + Len(second) = n
             /\ Total(first) + Total(second) = Total(values)
<1> DEFINE n == Len(values)
           middle == n \div 2
           first == SubSeq(values, 1, middle)
           second == SubSeq(values, middle + 1, n)
<1>1. n \in Nat /\ n >= 4 /\ DOMAIN values = 1..n /\ \A i \in 1..n : values[i] \in Int
  BY LenProperties DEF DiagnosisMinimum
<1>2. middle \in Nat /\ middle > 0 /\ n - middle \in Nat /\ n - middle > 0 /\ middle \in 0..n
  <2> HIDE DEF n
  <2> QED BY <1>1
<1> HIDE DEF n, middle
<1>3. /\ Len(first) = middle /\ first \in Seq(Int)
      /\ \A i \in 1..middle : first[i] = values[i]
  <2>1. \A i \in 1..middle : values[i] \in Int
    BY <1>1, <1>2
  <2>2. /\ first \in Seq(Int) /\ Len(first) = IF 1 <= middle THEN middle - 1 + 1 ELSE 0
        /\ \A i \in 1..middle - 1 + 1 : first[i] = values[1 + i - 1]
    BY <1>1, <1>2, <2>1, SubSeqProperties
  <2>3. middle - 1 + 1 = middle /\ 1 <= middle /\ \A i \in 1..middle : 1 + i - 1 = i
    BY <1>2
  <2> HIDE DEF first
  <2> QED BY <2>2, <2>3
<1>4. /\ Len(second) = n - middle /\ second \in Seq(Int)
      /\ \A i \in 1..n - middle : second[i] = values[middle + i]
  <2>1. \A i \in middle + 1..n : values[i] \in Int
    BY <1>1, <1>2
  <2>2. /\ second \in Seq(Int)
        /\ Len(second) = IF middle + 1 <= n THEN n - (middle + 1) + 1 ELSE 0
        /\ \A i \in 1..n - (middle + 1) + 1 : second[i] = values[(middle + 1) + i - 1]
    <3>1. middle + 1 \in Int /\ n \in Int
      BY <1>1, <1>2
    <3> QED BY <2>1, <3>1, SubSeqProperties
  <2>3. /\ n - (middle + 1) + 1 = n - middle /\ middle + 1 <= n
        /\ \A i \in 1..n - middle : (middle + 1) + i - 1 = middle + i
    BY <1>1, <1>2
  <2> HIDE DEF second
  <2> QED BY <2>2, <2>3
<1> HIDE DEF first, second
<1>5. Total(first) = SumFunctionOnSet(values, 1..middle)
  <2>1. DOMAIN first = 1..middle
    BY <1>3, LenProperties
  <2>2. IsFiniteSet(1..middle) /\ \A i \in 1..middle : first[i] \in Int /\ values[i] = first[i]
    <3>1. \A i \in 1..middle : i \in 1..n
      BY <1>1, <1>2
    <3>2. \A i \in 1..middle : first[i] \in Int /\ values[i] = first[i]
      BY <1>1, <1>3, <3>1
    <3> QED BY <1>2, <3>2, FS_Interval
  <2>3. SumFunctionOnSet(first, 1..middle) = SumFunctionOnSet(values, 1..middle)
    BY <2>2, SumsAgree
  <2> QED BY <2>1, <2>3 DEF Total, SumFunction
<1>6. Total(second) = SumFunctionOnSet(values, middle + 1..n)
  <2>1. DOMAIN second = 1..n - middle
    BY <1>4, LenProperties
  <2>2. IsTail(second, values, middle, n - middle)
    <3>1. \A i \in 1..n - middle : second[i] \in Int
      BY <1>4, LenProperties
    <3> QED BY <1>4, <3>1 DEF IsTail
  <2>3. SumFunctionOnSet(values, middle + 1..middle + (n - middle))
          = SumFunctionOnSet(second, 1..n - middle)
    BY <1>2, <2>2, SumOfTail
  <2>4. middle + (n - middle) = n
    BY <1>1, <1>2
  <2> QED BY <2>1, <2>3, <2>4 DEF Total, SumFunction
<1>7. Total(values) = SumFunctionOnSet(values, 1..n)
  BY <1>1 DEF Total, SumFunction
<1>8. SumFunctionOnSet(values, 1..n)
        = SumFunctionOnSet(values, 1..middle) + SumFunctionOnSet(values, middle + 1..n)
  BY <1>1, <1>2, SumOfParts
<1>9. Total(first) + Total(second) = Total(values)
  BY <1>5, <1>6, <1>7, <1>8
<1>10. middle + (n - middle) = n
  BY <1>1, <1>2
<1> QED BY <1>2, <1>3, <1>4, <1>9, <1>10, Zenon DEF n, middle, first, second

\* q holds the squares of y, p its products with itself `lag` places before.
AreSquares(q, y, n) == \A i \in 1..n : y[i] \in Int /\ q[i] = y[i] * y[i]
AreLagged(p, y, lag, n) == \A i \in lag + 1..n : p[i] = y[i] * y[i - lag]

\* Products of a series with itself, shifted, never outweigh its squares.
LEMMA LaggedProducts ==
  ASSUME NEW n \in Nat, NEW lag \in 0..n, NEW y, NEW q, NEW p,
         AreSquares(q, y, n), AreLagged(p, y, lag, n)
  PROVE  LET num == SumFunctionOnSet(p, lag + 1..n)
             den == SumFunctionOnSet(q, 1..n)
         IN  num \in Int /\ den \in Int /\ -den <= num /\ num <= den
<1> DEFINE S == lag + 1..n
           b == [i \in S |-> y[i - lag] * y[i - lag]]
           ab == [i \in S |-> 1 * q[i] + 1 * b[i]]
           plus == [i \in S |-> 1 * ab[i] + 2 * p[i]]
           minus == [i \in S |-> 1 * ab[i] + (-2) * p[i]]
           num == SumFunctionOnSet(p, S)
           den == SumFunctionOnSet(q, 1..n)
           A == SumFunctionOnSet(q, S)
           B == SumFunctionOnSet(b, S)
           AB == SumFunctionOnSet(ab, S)
<1>1. \A i \in 1..n : y[i] \in Int /\ q[i] = y[i] * y[i]
  BY DEF AreSquares
<1>2. \A i \in 1..n : q[i] \in Nat
  BY <1>1, SquareIsNat
<1>3. \A i \in S : i \in 1..n /\ i - lag \in 1..n
  OBVIOUS
<1>4. \A i \in S : p[i] = y[i] * y[i - lag]
  BY DEF AreLagged
<1>5. IsFiniteSet(S)
  BY FS_Interval
<1>6. ASSUME NEW i \in S
      PROVE  /\ q[i] \in Int /\ b[i] \in Int /\ p[i] \in Int /\ ab[i] \in Int
             /\ ab[i] = 1 * q[i] + 1 * b[i]
             /\ plus[i] = 1 * ab[i] + 2 * p[i] /\ plus[i] \in Nat
             /\ minus[i] = 1 * ab[i] + (-2) * p[i] /\ minus[i] \in Nat
  <2> DEFINE u == y[i]
             v == y[i - lag]
  <2>1. u \in Int /\ v \in Int /\ q[i] = u * u
    BY <1>1, <1>3
  <2>2. b[i] = v * v /\ p[i] = u * v
    BY <1>4
  <2>3. /\ ab[i] = 1 * q[i] + 1 * b[i]
        /\ plus[i] = 1 * ab[i] + 2 * p[i] /\ minus[i] = 1 * ab[i] + (-2) * p[i]
    OBVIOUS
  <2> HIDE DEF u, v, b, ab, plus, minus, S
  <2>4. u * u \in Int /\ v * v \in Int /\ u * v \in Int
    BY <2>1
  <2>5. (u + v) * (u + v) = (u * u + v * v) + 2 * (u * v)
    BY <2>1
  <2>6. (u - v) * (u - v) = (u * u + v * v) + (-2) * (u * v)
    BY <2>1
  <2>7. (u + v) * (u + v) \in Nat /\ (u - v) * (u - v) \in Nat
    BY <2>1, SquareIsNat
  <2>8. ab[i] = u * u + v * v /\ ab[i] \in Int
    BY <2>1, <2>2, <2>3, <2>4
  <2>9. 1 * ab[i] = ab[i]
    BY <2>8
  <2> QED BY <2>1, <2>2, <2>3, <2>4, <2>5, <2>6, <2>7, <2>8, <2>9
<1> HIDE DEF b, ab, plus, minus, S
<1>7. num \in Int /\ A \in Int /\ B \in Int /\ AB \in Int
  BY <1>5, <1>6, SumIsInt
<1>8. AB = 1 * A + 1 * B
  <2>1. IsCombination(ab, 1, q, 1, b, S)
    BY <1>6 DEF IsCombination
  <2> QED BY <1>5, <2>1, SumOfCombination
<1>9. 1 * AB + 2 * num \in Nat
  <2>1. IsCombination(plus, 1, ab, 2, p, S)
    BY <1>6 DEF IsCombination
  <2>2. SumFunctionOnSet(plus, S) = 1 * AB + 2 * num
    BY <1>5, <2>1, SumOfCombination
  <2>3. SumFunctionOnSet(plus, S) \in Nat
    BY <1>5, <1>6, SumIsNat
  <2> QED BY <2>2, <2>3
<1>10. 1 * AB + (-2) * num \in Nat
  <2>1. IsCombination(minus, 1, ab, -2, p, S)
    BY <1>6 DEF IsCombination
  <2>2. SumFunctionOnSet(minus, S) = 1 * AB + (-2) * num
    BY <1>5, <2>1, SumOfCombination
  <2>3. SumFunctionOnSet(minus, S) \in Nat
    BY <1>5, <1>6, SumIsNat
  <2> QED BY <2>2, <2>3
<1>11. den \in Int /\ A <= den
  <2>1. den = SumFunctionOnSet(q, 1..lag) + A
    <3>1. \A i \in 1..n : q[i] \in Int
      BY <1>2
    <3> QED BY <3>1, SumOfParts DEF S
  <2>2. SumFunctionOnSet(q, 1..lag) \in Nat
    <3>1. \A i \in 1..lag : q[i] \in Nat
      BY <1>2
    <3>2. IsFiniteSet(1..lag)
      BY FS_Interval
    <3> QED BY <3>1, <3>2, SumIsNat
  <2> HIDE DEF den, A
  <2> QED BY <1>7, <2>1, <2>2
<1>12. B <= den
  <2> DEFINE k == n - lag
             rest == SumFunctionOnSet(q, k + 1..n)
  <2>1. k \in 0..n /\ k \in Nat /\ lag \in Nat /\ lag + k = n
    OBVIOUS
  <2> HIDE DEF k
  <2>2. IsTail(q, b, lag, k)
    <3>1. ASSUME NEW j \in 1..k PROVE q[j] \in Int /\ b[lag + j] = q[j]
      <4>1. j \in 1..n /\ lag + j \in S /\ (lag + j) - lag = j
        BY <2>1 DEF S
      <4>2. b[lag + j] = y[(lag + j) - lag] * y[(lag + j) - lag]
        BY <4>1 DEF b
      <4> QED BY <1>1, <1>2, <4>1, <4>2
    <3> QED BY <3>1 DEF IsTail
  <2>3. SumFunctionOnSet(b, lag + 1..lag + k) = SumFunctionOnSet(q, 1..k)
    BY <2>1, <2>2, SumOfTail
  <2>4. B = SumFunctionOnSet(q, 1..k)
    BY <2>1, <2>3 DEF S
  <2>5. den = B + rest
    <3>1. \A i \in 1..n : q[i] \in Int
      BY <1>2
    <3> QED BY <2>1, <2>4, <3>1, SumOfParts
  <2>6. rest \in Nat
    <3>1. \A i \in k + 1..n : q[i] \in Nat
      BY <1>2, <2>1
    <3>2. IsFiniteSet(k + 1..n)
      BY <2>1, FS_Interval
    <3> QED BY <3>1, <3>2, SumIsNat
  <2> HIDE DEF den, B, rest
  <2> QED BY <1>7, <2>5, <2>6
<1> HIDE DEF num, den, A, B, AB
<1>13. -den <= num /\ num <= den
  BY <1>7, <1>8, <1>9, <1>10, <1>11, <1>12
<1> QED BY <1>7, <1>11, <1>13 DEF num, den, S

\* The lag of an autocorrelation leaves pairs to compare, and the coefficient is
\* one.
LEMMA AutocorrelationIsDefined ==
  ASSUME NEW values \in Seq(Int), Len(values) >= DiagnosisMinimum,
         NEW window \in Nat, window >= 2
  PROVE  LET lag == LagOf(values, window)
             ratio == Autocorrelation(values, lag)
         IN  lag \in 1..Len(values) - 1 /\ ratio.num \in -ratio.den..ratio.den
<1> DEFINE n == Len(values)
           lag == LagOf(values, window)
           ratio == Autocorrelation(values, lag)
           total == Total(values)
           Dy(i) == n * values[i] - total
           y == [i \in 1..n |-> Dy(i)]
           p == [i \in lag + 1..n |-> Dy(i) * Dy(i - lag)]
           q == [i \in 1..n |-> Dy(i) * Dy(i)]
<1>1. n \in Nat /\ n >= 4 /\ DOMAIN values = 1..n /\ \A i \in 1..n : values[i] \in Int
  BY LenProperties DEF DiagnosisMinimum
<1>2. lag \in 1..n - 1
  <2>1. lag = IF window < n \div 2 THEN window ELSE n \div 2
    BY DEF LagOf
  <2> HIDE DEF n, lag
  <2> QED BY <1>1, <2>1
<1>3. total \in Int
  <2>1. IsFiniteSet(1..n) /\ total = SumFunctionOnSet(values, 1..n)
    BY <1>1, FS_Interval DEF Total, SumFunction
  <2> QED BY <1>1, <2>1, SumIsInt
<1> HIDE DEF n, lag, total
<1>4. /\ ratio.num = SumFunctionOnSet(p, lag + 1..n)
      /\ ratio.den = SumFunctionOnSet(q, 1..n)
  <2>1. ratio.num = TotalOf(LAMBDA i : Dy(i) * Dy(i - lag), lag + 1..n)
    BY DEF Autocorrelation, n, total
  <2>2. ratio.den = TotalOf(LAMBDA i : Dy(i) * Dy(i), 1..n)
    BY DEF Autocorrelation, n, total
  <2> QED BY <2>1, <2>2, Zenon DEF TotalOf, SumFunction
<1>5. \A i \in 1..n : Dy(i) \in Int
  BY <1>1, <1>3
<1> HIDE DEF Dy
<1>6. AreSquares(q, y, n)
  BY <1>5 DEF AreSquares
<1>7. AreLagged(p, y, lag, n)
  <2>1. \A i \in lag + 1..n : i \in 1..n /\ i - lag \in 1..n
    BY <1>1, <1>2
  <2> QED BY <2>1 DEF AreLagged
<1> HIDE DEF p, q, y, ratio
<1>8. LET num == SumFunctionOnSet(p, lag + 1..n)
          den == SumFunctionOnSet(q, 1..n)
      IN  num \in Int /\ den \in Int /\ -den <= num /\ num <= den
  <2>1. lag \in 0..n
    BY <1>1, <1>2
  <2> QED BY <1>1, <1>6, <1>7, <2>1, LaggedProducts
<1>9. ratio.num \in -ratio.den..ratio.den
  BY <1>4, <1>8
<1> QED BY <1>2, <1>9 DEF lag, n, ratio

\* The summands of the regression over n positions and the values v there: with
\* both centred, and without.
AreCentred(num, den, v, total, n) ==
    \A i \in 1..n :
      /\ num[i] = (2 * (i - 1) - (n - 1)) * (n * v[i] - total)
      /\ den[i] = (2 * (i - 1) - (n - 1)) * (2 * (i - 1) - (n - 1))

ArePlain(index, product, square, v, n) ==
    \A i \in 1..n :
      /\ v[i] \in Int /\ index[i] = i
      /\ product[i] = i * v[i] /\ square[i] = i * i

\* The centred sums of the regression, as sums over pairs: twice and four times.
LEMMA CentredSums ==
  ASSUME NEW n \in Nat, NEW v, NEW total, total = SumFunctionOnSet(v, 1..n),
         NEW num, NEW den, AreCentred(num, den, v, total, n),
         NEW index, NEW product, NEW square, ArePlain(index, product, square, v, n)
  PROVE  LET S == 1..n
             numbers == SumFunctionOnSet(index, S)
             products == SumFunctionOnSet(product, S)
             squares == SumFunctionOnSet(square, S)
         IN  /\ total \in Int /\ numbers \in Int /\ products \in Int /\ squares \in Int
             /\ SumFunctionOnSet(num, S) = 2 * (n * products - numbers * total)
             /\ n * SumFunctionOnSet(den, S) = 4 * (n * squares - numbers * numbers)
             /\ SumFunctionOnSet(den, S) \in Int
<1> DEFINE S == 1..n
           ones == [i \in S |-> 1]
           a1 == 2 * n
           b1 == -(2 * total)
           a2 == -(n * (n + 1))
           b2 == (n + 1) * total
           u == [i \in S |-> a1 * product[i] + b1 * index[i]]
           w == [i \in S |-> a2 * v[i] + b2 * ones[i]]
           a3 == -(4 * (n + 1))
           b3 == (n + 1) * (n + 1)
           x == [i \in S |-> a3 * index[i] + b3 * ones[i]]
           P == SumFunctionOnSet(product, S)
           N == SumFunctionOnSet(index, S)
           Q == SumFunctionOnSet(square, S)
<1>1. IsFiniteSet(S) /\ Cardinality(S) = n
  BY FS_Interval
<1>2. \A i \in S : i \in Int /\ v[i] \in Int /\ index[i] = i /\ ones[i] = 1
                   /\ product[i] = i * v[i] /\ square[i] = i * i
  BY DEF ArePlain
<1>3. \A i \in S : /\ index[i] \in Int /\ product[i] \in Int /\ square[i] \in Int
                   /\ ones[i] \in Int
  <2> SUFFICES ASSUME NEW i \in S
               PROVE  index[i] \in Int /\ product[i] \in Int /\ square[i] \in Int /\ ones[i] \in Int
    OBVIOUS
  <2> HIDE DEF ones
  <2>1. /\ i \in Int /\ v[i] \in Int /\ index[i] = i /\ ones[i] = 1
        /\ product[i] = i * v[i] /\ square[i] = i * i
    BY <1>2
  <2>2. i * v[i] \in Int /\ i * i \in Int
    BY <2>1
  <2> QED BY <2>1, <2>2
<1>4. total \in Int
  BY <1>1, <1>2, SumIsInt
<1>5. a1 \in Int /\ b1 \in Int /\ a2 \in Int /\ b2 \in Int /\ a3 \in Int /\ b3 \in Int
  BY <1>4
<1>6. ASSUME NEW i \in S
      PROVE  /\ u[i] \in Int /\ w[i] \in Int /\ x[i] \in Int
             /\ u[i] = a1 * product[i] + b1 * index[i]
             /\ w[i] = a2 * v[i] + b2 * ones[i]
             /\ x[i] = a3 * index[i] + b3 * ones[i]
             /\ num[i] = 1 * u[i] + 1 * w[i]
             /\ den[i] = 4 * square[i] + 1 * x[i]
  <2>1. /\ u[i] = a1 * product[i] + b1 * index[i]
        /\ w[i] = a2 * v[i] + b2 * ones[i]
        /\ x[i] = a3 * index[i] + b3 * ones[i]
    OBVIOUS
  <2>2. /\ num[i] = (2 * (i - 1) - (n - 1)) * (n * v[i] - total)
        /\ den[i] = (2 * (i - 1) - (n - 1)) * (2 * (i - 1) - (n - 1))
    BY DEF AreCentred
  <2>3. /\ i \in Int /\ v[i] \in Int /\ index[i] = i /\ ones[i] = 1
        /\ product[i] = i * v[i] /\ square[i] = i * i
    BY <1>2
  <2> HIDE DEF u, w, x, ones
  <2> DEFINE Products(k, j, r, t) ==
               (2 * (j - 1) - (k - 1)) * (k * r - t)
                 = 1 * ((2 * k) * (j * r) + (-(2 * t)) * j)
                     + 1 * ((-(k * (k + 1))) * r + ((k + 1) * t) * 1)
             Squares(k, j) ==
               (2 * (j - 1) - (k - 1)) * (2 * (j - 1) - (k - 1))
                 = 4 * (j * j) + 1 * ((-(4 * (k + 1))) * j + ((k + 1) * (k + 1)) * 1)
  <2>4. \A k, j, r, t \in Int : Products(k, j, r, t)
    OBVIOUS
  <2>5. \A k, j \in Int : Squares(k, j)
    OBVIOUS
  <2>6. Products(n, i, v[i], total) /\ Squares(n, i)
    <3>1. n \in Int
      OBVIOUS
    <3> HIDE DEF Products, Squares
    <3> QED BY <1>4, <2>3, <2>4, <2>5, <3>1
  <2>7. num[i] = 1 * u[i] + 1 * w[i]
    BY <2>1, <2>2, <2>3, <2>6, Zenon
  <2>8. den[i] = 4 * square[i] + 1 * x[i]
    BY <2>1, <2>2, <2>3, <2>6, Zenon
  <2>9. u[i] \in Int /\ w[i] \in Int /\ x[i] \in Int
    <3> HIDE DEF a1, b1, a2, b2, a3, b3
    <3>1. /\ product[i] \in Int /\ index[i] \in Int /\ ones[i] \in Int /\ v[i] \in Int
      BY <1>3, <2>3
    <3>2. \A a, b, j, k \in Int : a * j + b * k \in Int
      OBVIOUS
    <3>3. a1 * product[i] + b1 * index[i] \in Int
      BY <1>5, <3>1, <3>2
    <3>4. a2 * v[i] + b2 * ones[i] \in Int
      BY <1>5, <3>1, <3>2
    <3>5. a3 * index[i] + b3 * ones[i] \in Int
      BY <1>5, <3>1, <3>2
    <3> QED BY <2>1, <3>3, <3>4, <3>5, Zenon
  <2> QED BY <2>1, <2>7, <2>8, <2>9
<1>7. P \in Int /\ N \in Int /\ Q \in Int
  BY <1>1, <1>3, SumIsInt
<1>8. SumFunctionOnSet(ones, S) = n
  <2>1. \A i \in S : ones[i] = 1
    OBVIOUS
  <2> HIDE DEF ones, S
  <2>2. SumFunctionOnSet(ones, S) = 1 * Cardinality(S)
    <3>1. IsFiniteSet(S) /\ 1 \in Int
      BY <1>1
    <3> QED BY <2>1, <3>1, SumOfConstant
  <2>3. Cardinality(S) = n
    BY <1>1
  <2> QED BY <2>2, <2>3
<1>9. 2 * N = n * (n + 1)
  BY <1>2, SumOfNumbers
<1> HIDE DEF ones, u, w, x, a1, b1, a2, b2, a3, b3, S
<1>10. SumFunctionOnSet(u, S) = a1 * P + b1 * N
  <2>1. IsCombination(u, a1, product, b1, index, S)
    BY <1>3, <1>5, <1>6 DEF IsCombination
  <2> QED BY <1>1, <2>1, SumOfCombination
<1>11. SumFunctionOnSet(w, S) = a2 * total + b2 * n
  <2>1. IsCombination(w, a2, v, b2, ones, S)
    BY <1>2, <1>3, <1>5, <1>6 DEF IsCombination
  <2>2. SumFunctionOnSet(w, S) = a2 * SumFunctionOnSet(v, S) + b2 * SumFunctionOnSet(ones, S)
    BY <1>1, <2>1, SumOfCombination
  <2> QED BY <1>8, <2>2 DEF S
<1>12. SumFunctionOnSet(x, S) = a3 * N + b3 * n
  <2>1. IsCombination(x, a3, index, b3, ones, S)
    BY <1>3, <1>5, <1>6 DEF IsCombination
  <2>2. SumFunctionOnSet(x, S) = a3 * N + b3 * SumFunctionOnSet(ones, S)
    BY <1>1, <2>1, SumOfCombination
  <2> QED BY <1>8, <2>2
<1>13. SumFunctionOnSet(num, S) = 1 * SumFunctionOnSet(u, S) + 1 * SumFunctionOnSet(w, S)
  <2>1. IsCombination(num, 1, u, 1, w, S)
    BY <1>6 DEF IsCombination
  <2> QED BY <1>1, <2>1, SumOfCombination
<1>14. SumFunctionOnSet(den, S) = 4 * Q + 1 * SumFunctionOnSet(x, S)
  <2>1. IsCombination(den, 4, square, 1, x, S)
    BY <1>3, <1>6 DEF IsCombination
  <2> QED BY <1>1, <2>1, SumOfCombination
<1> HIDE DEF P, N, Q
<1>15. SumFunctionOnSet(num, S) = 2 * (n * P - N * total)
  <2>1. SumFunctionOnSet(num, S)
          = 1 * ((2 * n) * P + (-(2 * total)) * N)
              + 1 * ((-(n * (n + 1))) * total + ((n + 1) * total) * n)
    BY <1>10, <1>11, <1>13 DEF a1, b1, a2, b2
  <2> DEFINE Collapses(k, p, j, t) ==
               1 * ((2 * k) * p + (-(2 * t)) * j) + 1 * ((-(k * (k + 1))) * t + ((k + 1) * t) * k)
                 = 2 * (k * p - j * t)
  <2>2. \A k, p, j, t \in Int : Collapses(k, p, j, t)
    OBVIOUS
  <2>3. n \in Int
    OBVIOUS
  <2>4. Collapses(n, P, N, total)
    <3> HIDE DEF Collapses
    <3> QED BY <1>4, <1>7, <2>2, <2>3
  <2> QED BY <2>1, <2>4, Zenon
<1>16. n * SumFunctionOnSet(den, S) = 4 * (n * Q - N * N) /\ SumFunctionOnSet(den, S) \in Int
  <2>1. SumFunctionOnSet(den, S)
          = 4 * Q + 1 * ((-(4 * (n + 1))) * N + ((n + 1) * (n + 1)) * n)
    BY <1>12, <1>14 DEF a3, b3
  <2> DEFINE Collapses(k, q, j) ==
               2 * j = k * (k + 1) =>
                 k * (4 * q + 1 * ((-(4 * (k + 1))) * j + ((k + 1) * (k + 1)) * k))
                   = 4 * (k * q - j * j)
  <2>2. \A k, q, j \in Int : Collapses(k, q, j)
    <3> SUFFICES ASSUME NEW k \in Int, NEW q \in Int, NEW j \in Int, 2 * j = k * (k + 1)
                 PROVE  k * (4 * q + 1 * ((-(4 * (k + 1))) * j + ((k + 1) * (k + 1)) * k))
                          = 4 * (k * q - j * j)
      OBVIOUS
    <3>1. k * (4 * q + 1 * ((-(4 * (k + 1))) * j + ((k + 1) * (k + 1)) * k))
            = 4 * (k * q) - 4 * ((k * (k + 1)) * j) + (k * (k + 1)) * (k * (k + 1))
      OBVIOUS
    <3>2. (2 * j) * (2 * j) = 4 * (j * j) /\ (2 * j) * j = 2 * (j * j)
      OBVIOUS
    <3>3. 4 * (k * q) - 4 * ((k * (k + 1)) * j) + (k * (k + 1)) * (k * (k + 1))
            = 4 * (k * q) - 4 * ((2 * j) * j) + (2 * j) * (2 * j)
      OBVIOUS
    <3>4. 4 * (k * q) - 4 * ((2 * j) * j) + (2 * j) * (2 * j) = 4 * (k * q - j * j)
      OBVIOUS
    <3> QED BY <3>1, <3>3, <3>4
  <2>3. n \in Int
    OBVIOUS
  <2>4. SumFunctionOnSet(den, S) \in Int
    BY <1>7, <2>1, <2>3
  <2>5. Collapses(n, Q, N)
    <3> HIDE DEF Collapses
    <3> QED BY <1>7, <2>2, <2>3
  <2>6. 2 * N = n * (n + 1)
    BY <1>9
  <2> QED BY <2>1, <2>4, <2>5, <2>6, Zenon
<1> QED BY <1>4, <1>7, <1>15, <1>16 DEF P, N, Q, S

\* The slope the code computes from centred sums is the least-squares slope.
LEMMA SlopeIsLeastSquares ==
  ASSUME NEW values \in Seq(Int), Len(values) >= DiagnosisMinimum
  PROVE  IsLeastSquares(values, Slope(values))
<1> DEFINE n == Len(values)
           S == 1..n
           total == Total(values)
           Dx(i) == 2 * (i - 1) - (n - 1)
           Dy(i) == n * values[i] - total
           num == [i \in S |-> Dx(i) * Dy(i)]
           den == [i \in S |-> Dx(i) * Dx(i)]
           index == [i \in S |-> i]
           product == [i \in S |-> i * values[i]]
           square == [i \in S |-> i * i]
           N == SumFunctionOnSet(index, S)
           P == SumFunctionOnSet(product, S)
           Q == SumFunctionOnSet(square, S)
           A == SumFunctionOnSet(num, S)
           B == SumFunctionOnSet(den, S)
           rises == [p \in Ascending(S) |-> (p[2] - p[1]) * (values[p[2]] - values[p[1]])]
           runs == [p \in Ascending(S) |-> (p[2] - p[1]) * (p[2] - p[1])]
           slope == Slope(values)
<1>1. n \in Nat /\ n >= 4 /\ DOMAIN values = S /\ \A i \in S : values[i] \in Int
  BY LenProperties DEF DiagnosisMinimum
<1>2. IsFiniteSet(S) /\ Cardinality(S) = n
  <2> HIDE DEF n
  <2> QED BY <1>1, FS_Interval
<1>3. total = SumFunctionOnSet(values, S)
  BY <1>1 DEF Total, SumFunction
<1>4. slope.num = A /\ slope.den = B
  <2>1. slope.num = TotalOf(LAMBDA i : Dx(i) * Dy(i), S)
    BY DEF Slope
  <2>2. slope.den = TotalOf(LAMBDA i : Dx(i) * Dx(i), S)
    BY DEF Slope
  <2> QED BY <2>1, <2>2, Zenon DEF TotalOf, SumFunction
<1> HIDE DEF n, total, slope
<1>5. /\ total \in Int /\ N \in Int /\ P \in Int /\ Q \in Int /\ B \in Int
      /\ A = 2 * (n * P - N * total)
      /\ n * B = 4 * (n * Q - N * N)
  <2>1. AreCentred(num, den, values, total, n)
    BY DEF AreCentred
  <2>2. ArePlain(index, product, square, values, n)
    BY <1>1 DEF ArePlain
  <2>3. total = SumFunctionOnSet(values, 1..n) /\ n \in Nat
    BY <1>1, <1>3
  <2> HIDE DEF num, den, index, product, square
  <2> QED BY <2>1, <2>2, <2>3, CentredSums
<1>6. SumFunctionOnSet(rises, Ascending(S)) = n * P - N * total
  <2>1. AreProducts(product, index, values, S)
    BY <1>1 DEF AreProducts
  <2>2. AreDifferences(rises, index, values, S)
    <3> SUFFICES ASSUME NEW x \in S, NEW y \in S, x < y
                 PROVE  rises[<<x, y>>] = (index[x] - index[y]) * (values[x] - values[y])
      BY DEF AreDifferences
    <3>1. <<x, y>> \in Ascending(S)
      BY DEF Ascending
    <3>2. rises[<<x, y>>] = (y - x) * (values[y] - values[x])
      BY <3>1
    <3>3. index[x] = x /\ index[y] = y /\ x \in Int /\ y \in Int
          /\ values[x] \in Int /\ values[y] \in Int
      BY <1>1
    <3> DEFINE Turns(a, b, c, d) == (b - a) * (d - c) = (a - b) * (c - d)
    <3>4. \A a, b, c, d \in Int : Turns(a, b, c, d)
      OBVIOUS
    <3> HIDE DEF rises, index
    <3>5. Turns(x, y, values[x], values[y])
      <4> HIDE DEF Turns
      <4> QED BY <3>3, <3>4
    <3> QED BY <3>2, <3>3, <3>5, Zenon
  <2>3. S \in SUBSET Int
    BY <1>1
  <2> HIDE DEF rises, product, index, S
  <2>4. PairsAddUp(rises, index, values, product, S)
    BY <1>2, <2>1, <2>2, <2>3, SumOverPairs
  <2> QED BY <1>2, <1>3, <2>4, Zenon DEF PairsAddUp
<1>7. SumFunctionOnSet(runs, Ascending(S)) = n * Q - N * N
  <2>1. AreProducts(square, index, index, S)
    BY <1>1 DEF AreProducts
  <2>2. AreDifferences(runs, index, index, S)
    <3> SUFFICES ASSUME NEW x \in S, NEW y \in S, x < y
                 PROVE  runs[<<x, y>>] = (index[x] - index[y]) * (index[x] - index[y])
      BY DEF AreDifferences
    <3>1. <<x, y>> \in Ascending(S)
      BY DEF Ascending
    <3>2. runs[<<x, y>>] = (y - x) * (y - x)
      BY <3>1
    <3>3. index[x] = x /\ index[y] = y /\ x \in Int /\ y \in Int
      BY <1>1
    <3> DEFINE Turns(a, b) == (b - a) * (b - a) = (a - b) * (a - b)
    <3>4. \A a, b \in Int : Turns(a, b)
      OBVIOUS
    <3> HIDE DEF runs, index
    <3>5. Turns(x, y)
      <4> HIDE DEF Turns
      <4> QED BY <3>3, <3>4
    <3> QED BY <3>2, <3>3, <3>5, Zenon
  <2>3. S \in SUBSET Int
    BY <1>1
  <2> HIDE DEF runs, square, index, S
  <2>4. PairsAddUp(runs, index, index, square, S)
    BY <1>2, <2>1, <2>2, <2>3, SumOverPairs
  <2> QED BY <1>2, <2>4, Zenon DEF PairsAddUp
<1>8. B > 0
  <2>1. ASSUME NEW i \in S PROVE den[i] \in Nat
    <3>1. Dx(i) \in Int /\ den[i] = Dx(i) * Dx(i)
      BY <1>1
    <3> HIDE DEF Dx, den
    <3> QED BY <3>1, SquareIsNat
  <2>2. 1 \in S /\ den[1] > 0
    <3>1. 1 \in S /\ Dx(1) \in Int /\ Dx(1) <= -3 /\ den[1] = Dx(1) * Dx(1)
      BY <1>1
    <3>2. \A x \in Int : x <= -3 => x * x > 0
      OBVIOUS
    <3> HIDE DEF Dx, den, S
    <3> QED BY <3>1, <3>2
  <2> HIDE DEF den
  <2>3. B = den[1] + SumFunctionOnSet(den, S \ {1})
    <3>1. \A i \in S : den[i] \in Int
      BY <2>1
    <3> HIDE DEF S
    <3> QED BY <1>2, <2>2, <3>1, SumOfElement
  <2>4. SumFunctionOnSet(den, S \ {1}) \in Nat
    <3>1. IsFiniteSet(S \ {1}) /\ \A i \in S \ {1} : den[i] \in Nat
      <4> HIDE DEF S
      <4> QED BY <1>2, <2>1, FS_RemoveElement
    <3> HIDE DEF S
    <3> QED BY <3>1, SumIsNat
  <2>5. den[1] \in Nat
    BY <2>1, <2>2
  <2> HIDE DEF B
  <2> QED BY <2>2, <2>3, <2>4, <2>5
<1> HIDE DEF N, P, Q, A, B
<1>9. 2 * A * (n * Q - N * N) = (n * P - N * total) * n * B
  <2> DEFINE r == n * P - N * total
             d == n * Q - N * N
  <2>1. r \in Int /\ d \in Int /\ n \in Int
    BY <1>1, <1>5
  <2>2. A = 2 * r /\ n * B = 4 * d /\ B \in Int
    BY <1>5
  <2> HIDE DEF r, d
  <2>3. 2 * A * d = 4 * (r * d)
    BY <2>1, <2>2
  <2>4. r * n * B = r * (n * B)
    BY <2>1, <2>2
  <2>5. r * (4 * d) = 4 * (r * d)
    BY <2>1
  <2>6. 2 * A * d = r * n * B
    BY <2>2, <2>3, <2>4, <2>5
  <2> QED BY <2>6 DEF r, d
<1>10. IsLeastSquares(values, slope) <=>
         /\ slope.den > 0
         /\ 2 * slope.num * SumFunctionOnSet(runs, Ascending(S))
              = SumFunctionOnSet(rises, Ascending(S)) * n * slope.den
  BY <1>1, Zenon DEF IsLeastSquares, TotalOf, SumFunction, Ascending, n
<1> QED BY <1>4, <1>6, <1>7, <1>8, <1>9, <1>10, Zenon DEF slope

-----------------------------------------------------------------------------
(* The preprocessed rows.                                                    *)

\* Whatever the diagnostic and the number of values, what is reported exists.
LEMMA DiagnosisExists ==
  ASSUME NEW values \in Seq(Int), NEW window \in Nat, window >= 2, NEW diagnostic
  PROVE  DiagnosisIsDefined(Diagnosis(diagnostic, window, values), values)
<1> DEFINE d == Diagnosis(diagnostic, window, values)
           n == Len(values)
           middle == n \div 2
           first == SubSeq(values, 1, middle)
           second == SubSeq(values, middle + 1, n)
<1>1. n \in Nat
  BY LenProperties
<1>2. CASE n < DiagnosisMinimum
  <2>1. d.metric = "none"
    BY <1>2 DEF Diagnosis
  <2> QED BY <1>2, <2>1 DEF DiagnosisIsDefined
<1>3. CASE n >= DiagnosisMinimum /\ diagnostic = "trend"
  <2>1. ~(n < DiagnosisMinimum)
    BY <1>1, <1>3 DEF DiagnosisMinimum
  <2>2. d.metric = "trend" /\ d.slope = Slope(values)
    BY <1>3, <2>1 DEF Diagnosis
  <2>3. IsLeastSquares(values, Slope(values))
    BY <1>3, SlopeIsLeastSquares
  <2> HIDE DEF d
  <2> QED BY <2>2, <2>3 DEF DiagnosisIsDefined, d
<1>4. CASE n >= DiagnosisMinimum /\ diagnostic = "seasonality"
  <2>1. ~(n < DiagnosisMinimum)
    BY <1>1, <1>4 DEF DiagnosisMinimum
  <2>2. /\ d.metric = "seasonality" /\ d.lag = LagOf(values, window)
        /\ d.ratio = Autocorrelation(values, LagOf(values, window))
    BY <1>4, <2>1 DEF Diagnosis
  <2>3. /\ LagOf(values, window) \in 1..n - 1
        /\ Autocorrelation(values, LagOf(values, window)).num
             \in -Autocorrelation(values, LagOf(values, window)).den
                   ..Autocorrelation(values, LagOf(values, window)).den
    BY <1>4, AutocorrelationIsDefined, Zenon
  <2> HIDE DEF d
  <2>4. d.ratio.num \in -d.ratio.den..d.ratio.den /\ d.lag \in 1..n - 1
    BY <2>2, <2>3, Zenon
  <2> QED BY <2>2, <2>4 DEF DiagnosisIsDefined, d
<1>5. CASE n >= DiagnosisMinimum /\ diagnostic \notin {"trend", "seasonality"}
  <2>1. ~(n < DiagnosisMinimum)
    BY <1>1, <1>5 DEF DiagnosisMinimum
  <2>2. /\ d.metric = "stationarity"
        /\ d.first.n = Len(first) /\ d.first.total = Total(first)
        /\ d.second.n = Len(second) /\ d.second.total = Total(second)
    BY <1>5, <2>1 DEF Diagnosis
  <2>3. /\ Len(first) = middle /\ middle > 0
        /\ Len(second) = n - middle /\ n - middle > 0
        /\ Len(first) + Len(second) = n
        /\ Total(first) + Total(second) = Total(values)
    BY <1>5, HalvesAddUp, Zenon
  <2> HIDE DEF d, first, second, middle
  <2> QED BY <2>2, <2>3 DEF DiagnosisIsDefined, d
<1>6. n < DiagnosisMinimum \/ n >= DiagnosisMinimum
  BY <1>1 DEF DiagnosisMinimum
<1> QED BY <1>2, <1>3, <1>4, <1>5, <1>6

\* An operation fills every gap or none, and the statistics say so.
LEMMA PreprocessedColumn ==
  ASSUME NEW n \in Nat, NEW column \in [1..n -> Reading],
         NEW window \in Nat, window > 0, NEW operation
  PROVE  IsPreprocessed(operation, window, column, Preprocess(operation, window, column),
           FeatureStatistics(column, Preprocess(operation, window, column)), n)
<1> DEFINE after == Preprocess(operation, window, column)
           stats == FeatureStatistics(column, after)
<1>1. /\ after \in [1..n -> Reading]
      /\ after = column \/ after \in [1..n -> Int]
      /\ CASE operation = "missing" -> IsInterpolation(column, after)
           [] operation = "smooth"  -> IsMovingAverage(column, after, window)
           [] OTHER                 -> after = column
  <2>1. CASE operation = "missing"
    <3>1. after = Interpolate(column)
      BY <2>1 DEF Preprocess
    <3> HIDE DEF after
    <3>2. /\ after \in [1..n -> Reading] /\ IsInterpolation(column, after)
          /\ after = column \/ after \in [1..n -> Int]
      BY <3>1, InterpolatedColumn
    <3> QED BY <2>1, <3>2
  <2>2. CASE operation = "smooth"
    <3>1. after = Smooth(Interpolate(column), window)
      BY <2>2 DEF Preprocess
    <3> HIDE DEF after
    <3>2. /\ after \in [1..n -> Reading] /\ IsMovingAverage(column, after, window)
          /\ after = column \/ after \in [1..n -> Int]
      BY <3>1, SmoothedColumn
    <3> QED BY <2>2, <3>2
  <2>3. CASE operation \notin {"missing", "smooth"}
    <3>1. after = column
      BY <2>3 DEF Preprocess
    <3> HIDE DEF after
    <3> QED BY <2>3, <3>1
  <2> QED BY <2>1, <2>2, <2>3
<1>2. /\ stats.filled = MissingIn(column) - MissingIn(after)
      /\ stats.missing_after = MissingIn(after) /\ stats.missing_before = MissingIn(column)
  BY Zenon DEF FeatureStatistics
<1> HIDE DEF after, stats
<1> DEFINE gaps(c) == {i \in 1..n : c[i] = Missing}
           filled == {i \in 1..n : column[i] = Missing /\ after[i] # Missing}
<1>3. MissingIn(column) = Cardinality(gaps(column)) /\ MissingIn(column) \in Nat
  BY MissingIsCounted
<1>4. MissingIn(after) = Cardinality(gaps(after)) /\ MissingIn(after) \in Nat
  BY <1>1, MissingIsCounted
<1>5. ASSUME after = column
      PROVE  /\ stats.filled = Cardinality(filled)
             /\ stats.missing_after = stats.missing_before
  <2>1. filled = {} /\ MissingIn(after) = MissingIn(column)
    BY <1>5
  <2>2. MissingIn(column) - MissingIn(after) = 0
    BY <1>3, <2>1
  <2> HIDE DEF filled
  <2>3. Cardinality(filled) = 0
    BY <2>1, FS_EmptySet
  <2> QED BY <1>2, <2>1, <2>2, <2>3
<1>6. ASSUME after \in [1..n -> Int]
      PROVE  stats.filled = Cardinality(filled) /\ stats.missing_after = 0
  <2>1. \A i \in 1..n : after[i] # Missing
    BY <1>6, DomainAssumption
  <2>2. gaps(after) = {} /\ filled = gaps(column)
    BY <2>1
  <2>3. MissingIn(column) = Cardinality(filled)
    BY <1>3, <2>2
  <2>4. Cardinality(gaps(after)) = 0
    BY <2>2, FS_EmptySet
  <2>5. MissingIn(after) = 0
    BY <1>4, <2>4
  <2> HIDE DEF gaps, filled
  <2>6. MissingIn(column) - MissingIn(after) = MissingIn(column)
    BY <1>3, <2>5
  <2> QED BY <1>2, <2>3, <2>5, <2>6
<1> HIDE DEF filled
<1>7. /\ stats.filled = Cardinality(filled)
      /\ stats.missing_after \in {0, stats.missing_before}
  BY <1>1, <1>5, <1>6
<1> QED BY <1>1, <1>7, Zenon DEF IsPreprocessed, filled, after, stats

\* Every column of the rows an analysis is given is preprocessed by its own values.
LEMMA RowsArePreprocessed ==
  ASSUME NEW r, r.window \in Nat, r.window >= 2, r.horizon \in Nat, r.horizon > 0,
         r.feature \in Features, NEW found \in Seq(SampleRows), found # <<>>
  PROVE  IsPreprocessedResult(r, found, AnalyzeForecastData(r, found))
<1> DEFINE analysis == AnalyzeForecastData(r, found)
           n == Len(found)
           before == [f \in DOMAIN found[1].values |-> Column(found, f)]
           after == [f \in DOMAIN before |-> Preprocess(r.operation, r.window, before[f])]
<1>1. /\ n \in Nat /\ n > 0 /\ DOMAIN found = 1..n
      /\ \A i \in 1..n : found[i] \in SampleRows
  BY LenProperties, EmptySeq
<1>2. \A i \in 1..n : found[i].values \in [Features -> Reading]
  BY <1>1, ReadingsOfRows DEF SampleRows
<1>3. DOMAIN found[1].values = Features
  BY <1>1, <1>2
<1>4. ASSUME NEW f \in Features
      PROVE  Column(found, f) \in [1..n -> Reading]
  BY <1>1, <1>2 DEF Column
<1>5. /\ analysis.features = [f \in DOMAIN before |-> FeatureStatistics(before[f], after[f])]
      /\ analysis.after = after
      /\ r.operation = "window" => analysis.windows = WindowCount(n, r.horizon)
      /\ r.operation = "diagnosis" =>
           analysis.diagnosis = Diagnosis(r.diagnostic, r.window, Known(after[r.feature]))
  BY DEF AnalyzeForecastData
<1>6. DOMAIN before = Features
  BY <1>3
<1>7. ASSUME NEW f \in Features
      PROVE  /\ before[f] = Column(found, f)
             /\ after[f] = Preprocess(r.operation, r.window, Column(found, f))
  BY <1>3
<1> HIDE DEF analysis, before, after, n
<1>8. DOMAIN analysis.features = Features
  BY <1>5, <1>6
<1>9. ASSUME NEW f \in Features
      PROVE  IsPreprocessed(r.operation, r.window, Column(found, f),
               analysis.after[f], analysis.features[f], n)
  <2> DEFINE was == Column(found, f)
             is == Preprocess(r.operation, r.window, was)
             stats == FeatureStatistics(was, is)
  <2>1. was \in [1..n -> Reading]
    BY <1>4
  <2>2. analysis.after[f] = is /\ analysis.features[f] = stats
    BY <1>5, <1>6, <1>7
  <2> HIDE DEF was
  <2>3. r.window > 0
    OBVIOUS
  <2>4. IsPreprocessed(r.operation, r.window, was, is, stats, n)
    BY <1>1, <2>1, <2>3, PreprocessedColumn
  <2> HIDE DEF is, stats
  <2> QED BY <2>2, <2>4 DEF was
<1>10. r.operation = "window" => analysis.windows = WindowsOf(n, r.horizon)
  BY <1>1, <1>5, WindowsAreCounted
<1>11. ASSUME r.operation = "diagnosis"
       PROVE  DiagnosisIsDefined(analysis.diagnosis, Known(Column(found, r.feature)))
  <2> DEFINE values == Known(Column(found, r.feature))
  <2>1. after[r.feature] = Column(found, r.feature)
    BY <1>7, <1>11 DEF Preprocess
  <2>2. values \in Seq(Int)
    BY <1>1, <1>4, KnownIsSequence
  <2>3. analysis.diagnosis = Diagnosis(r.diagnostic, r.window, values)
    BY <1>5, <1>11, <2>1
  <2> HIDE DEF values
  <2>4. DiagnosisIsDefined(Diagnosis(r.diagnostic, r.window, values), values)
    BY <2>2, DiagnosisExists
  <2> QED BY <2>3, <2>4 DEF values
<1>12. ChartCoversTheSeries(n)
  BY <1>1, ChartCovers
<1>13. \A f \in DOMAIN analysis.features :
         IsPreprocessed(r.operation, r.window, Column(found, f),
           analysis.after[f], analysis.features[f], n)
  BY <1>8, <1>9
<1> QED BY <1>1, <1>10, <1>11, <1>12, <1>13, Zenon DEF IsPreprocessedResult, analysis, n

-----------------------------------------------------------------------------
(* The correlation: ranks, and coefficients that are at most 1.               *)

\* n times the covariance of two series, as a sum over pairs.
LEMMA CovarianceOverPairs ==
  ASSUME NEW n \in Nat, NEW x \in [1..n -> Int], NEW y \in [1..n -> Int]
  PROVE  n * Total([i \in 1..n |-> x[i] * y[i]]) - Total(x) * Total(y)
           = SumFunctionOnSet([p \in Ascending(1..n) |->
               (x[p[1]] - x[p[2]]) * (y[p[1]] - y[p[2]])], Ascending(1..n))
<1> DEFINE S == 1..n
           xy == [i \in S |-> x[i] * y[i]]
           d == [p \in Ascending(S) |-> (x[p[1]] - x[p[2]]) * (y[p[1]] - y[p[2]])]
<1>1. IsFiniteSet(S) /\ Cardinality(S) = n /\ S \in SUBSET Int
  BY FS_Interval
<1>2. AreProducts(xy, x, y, S)
  BY DEF AreProducts
<1>3. AreDifferences(d, x, y, S)
  BY DEF AreDifferences, Ascending
<1>4. Total(xy) = SumFunctionOnSet(xy, S) /\ Total(x) = SumFunctionOnSet(x, S)
      /\ Total(y) = SumFunctionOnSet(y, S)
  BY DEF Total, SumFunction
<1> HIDE DEF xy, d, S
<1>5. PairsAddUp(d, x, y, xy, S)
  BY <1>1, <1>2, <1>3, SumOverPairs
<1>6. SumFunctionOnSet(d, Ascending(S)) = n * Total(xy) - Total(x) * Total(y)
  BY <1>1, <1>4, <1>5 DEF PairsAddUp
<1> QED BY <1>6 DEF S, xy, d

\* A correlation is at most 1 in absolute value.
LEMMA PearsonIsBounded ==
  ASSUME NEW n \in Nat, NEW x \in [1..n -> Int], NEW y \in [1..n -> Int],
         Pearson(x, y).defined
  PROVE  Pearson(x, y).covariance * Pearson(x, y).covariance <= Pearson(x, y).scale
<1> DEFINE S == Ascending(1..n)
           a == [p \in S |-> x[p[1]] - x[p[2]]]
           b == [p \in S |-> y[p[1]] - y[p[2]]]
           aa == [p \in S |-> (x[p[1]] - x[p[2]]) * (x[p[1]] - x[p[2]])]
           bb == [p \in S |-> (y[p[1]] - y[p[2]]) * (y[p[1]] - y[p[2]])]
           ab == [p \in S |-> (x[p[1]] - x[p[2]]) * (y[p[1]] - y[p[2]])]
           covariance == n * Total([i \in 1..n |-> x[i] * y[i]]) - Total(x) * Total(y)
<1>1. IsFiniteSet(S)
  <2>1. 1..n \in SUBSET Int /\ IsFiniteSet(1..n)
    BY FS_Interval
  <2> DEFINE none == [p \in S |-> 0]
             zero == [i \in 1..n |-> 0]
  <2>2. AreProducts(zero, zero, zero, 1..n) /\ AreDifferences(none, zero, zero, 1..n)
    BY DEF AreProducts, AreDifferences, Ascending
  <2> HIDE DEF none, zero
  <2> QED BY <2>1, <2>2, SumOverPairs
<1>2. AreSummands(a, b, aa, bb, ab, S)
  BY DEF AreSummands, Ascending
<1>3. Len(x) = n /\ DOMAIN x = 1..n /\ DOMAIN y = 1..n /\ Len(y) = n
  OBVIOUS
<1>4. covariance = SumFunctionOnSet(ab, S)
  BY CovarianceOverPairs
<1>5. Spread(x) = SumFunctionOnSet(aa, S)
  BY <1>3, CovarianceOverPairs, Zenon DEF Spread
<1>6. Spread(y) = SumFunctionOnSet(bb, S)
  BY <1>3, CovarianceOverPairs, Zenon DEF Spread
<1>7. Pearson(x, y) = IF n < 2 \/ Spread(x) <= 0 \/ Spread(y) <= 0 THEN [defined |-> FALSE]
                      ELSE [defined |-> TRUE, covariance |-> covariance,
                            scale |-> Spread(x) * Spread(y)]
  BY <1>3, Zenon DEF Pearson
<1> HIDE DEF S, a, b, aa, bb, ab, covariance
<1>8. ~(Spread(y) <= 0) /\ Pearson(x, y).covariance = covariance
      /\ Pearson(x, y).scale = Spread(x) * Spread(y)
  BY <1>7
<1>9. SumFunctionOnSet(bb, S) \in Int
  <2>1. \A p \in S : bb[p] \in Int
    <3>1. \A p \in S : b[p] \in Int /\ bb[p] = b[p] * b[p]
      BY <1>2 DEF AreSummands
    <3> QED BY <3>1
  <2> QED BY <1>1, <2>1, SumIsInt
<1>10. SumFunctionOnSet(bb, S) > 0
  BY <1>6, <1>8, <1>9
<1>11. covariance * covariance <= Spread(x) * Spread(y)
  BY <1>1, <1>2, <1>4, <1>5, <1>6, <1>10, ProductsAreBounded, Zenon
<1> QED BY <1>8, <1>11

\* Which of the two series comes first makes no difference.
LEMMA PearsonIsSymmetric ==
  ASSUME NEW n \in Nat, NEW x \in [1..n -> Int], NEW y \in [1..n -> Int]
  PROVE  Pearson(x, y) = Pearson(y, x)
<1>1. Len(x) = n /\ Len(y) = n
  OBVIOUS
<1>2. [i \in 1..n |-> x[i] * y[i]] = [i \in 1..n |-> y[i] * x[i]]
  <2>1. ASSUME NEW i \in 1..n PROVE x[i] * y[i] = y[i] * x[i]
    <3>1. x[i] \in Int /\ y[i] \in Int
      OBVIOUS
    <3> QED BY <3>1
  <2> QED BY <2>1
<1>3. Total(x) \in Int /\ Total(y) \in Int
  <2>1. IsFiniteSet(1..n) /\ \A i \in 1..n : x[i] \in Int /\ y[i] \in Int
    BY FS_Interval
  <2>2. Total(x) = SumFunctionOnSet(x, 1..n) /\ Total(y) = SumFunctionOnSet(y, 1..n)
    BY DEF Total, SumFunction
  <2> QED BY <2>1, <2>2, SumIsInt
<1>4. Total(x) * Total(y) = Total(y) * Total(x)
  BY <1>3
<1>5. \A v : v \in [1..n -> Int] => Spread(v) \in Int
  <2> SUFFICES ASSUME NEW v \in [1..n -> Int] PROVE Spread(v) \in Int
    OBVIOUS
  <2> DEFINE squares == [i \in DOMAIN v |-> v[i] * v[i]]
  <2>1. IsFiniteSet(1..n) /\ \A i \in 1..n : v[i] \in Int /\ squares[i] \in Int
    BY FS_Interval
  <2>2. Total(v) = SumFunctionOnSet(v, 1..n) /\ Total(squares) = SumFunctionOnSet(squares, 1..n)
    BY DEF Total, SumFunction
  <2>3. Len(v) = n /\ Spread(v) = Len(v) * Total(squares) - Total(v) * Total(v)
    BY DEF Spread
  <2> HIDE DEF squares
  <2>4. Total(v) \in Int /\ Total(squares) \in Int
    BY <2>1, <2>2, SumIsInt
  <2> QED BY <2>3, <2>4
<1>6. Spread(x) * Spread(y) = Spread(y) * Spread(x)
  BY <1>5
<1> QED BY <1>1, <1>2, <1>4, <1>6 DEF Pearson

\* How many of s lie before x in ascending order and how many up to it.
Smaller(v, s, x) == {j \in s : v[j] < v[x]}
NotLarger(v, s, x) == {j \in s : v[j] <= v[x]}

Places(v, s, D) ==
    [x \in D |-> Cardinality(Smaller(v, s, x)) + Cardinality(NotLarger(v, s, x))]

\* Another element moves up those above it and is moved up by those below.
LEMMA PlacesWithOneMore ==
  ASSUME NEW D, NEW v, \A y \in D : v[y] \in Int,
         NEW s \in SUBSET D, IsFiniteSet(s), NEW x \in D, x \notin s
  PROVE  /\ \A y \in s : Places(v, s \cup {x}, D)[y]
                = Places(v, s, D)[y] + (IF v[x] < v[y] THEN 1 ELSE 0)
                                     + (IF v[x] <= v[y] THEN 1 ELSE 0)
         /\ Places(v, s \cup {x}, D)[x]
              = Cardinality(Smaller(v, s, x)) + Cardinality(NotLarger(v, s, x)) + 1
         /\ \A y \in s : Places(v, s, D)[y] \in Nat
         /\ Places(v, s \cup {x}, D)[x] \in Nat
<1> DEFINE t == s \cup {x}
<1>1. ASSUME NEW y \in D
      PROVE  /\ Places(v, t, D)[y]
                  = Cardinality(Smaller(v, t, y)) + Cardinality(NotLarger(v, t, y))
             /\ Places(v, s, D)[y]
                  = Cardinality(Smaller(v, s, y)) + Cardinality(NotLarger(v, s, y))
  BY DEF Places
<1>2. ASSUME NEW y \in D
      PROVE  /\ Cardinality(Smaller(v, t, y))
                  = Cardinality(Smaller(v, s, y)) + (IF v[x] < v[y] THEN 1 ELSE 0)
             /\ Cardinality(NotLarger(v, t, y))
                  = Cardinality(NotLarger(v, s, y)) + (IF v[x] <= v[y] THEN 1 ELSE 0)
             /\ Cardinality(Smaller(v, s, y)) \in Nat
             /\ Cardinality(NotLarger(v, s, y)) \in Nat
  <2> DEFINE A == Smaller(v, t, y)
             B == NotLarger(v, t, y)
  <2>1. A \ {x} = Smaller(v, s, y) /\ (x \in A <=> v[x] < v[y])
    BY DEF Smaller
  <2>2. B \ {x} = NotLarger(v, s, y) /\ (x \in B <=> v[x] <= v[y])
    BY DEF NotLarger
  <2>3. IsFiniteSet(A) /\ IsFiniteSet(B)
    <3>1. IsFiniteSet(t)
      BY FS_AddElement
    <3>2. A \subseteq t /\ B \subseteq t
      BY DEF Smaller, NotLarger
    <3> HIDE DEF A, B, t
    <3> QED BY <3>1, <3>2, FS_Subset
  <2> HIDE DEF A, B
  <2>4. /\ Cardinality(A) = Cardinality(A \ {x}) + (IF x \in A THEN 1 ELSE 0)
        /\ Cardinality(A \ {x}) \in Nat
    BY <2>3, CountWithout
  <2>5. /\ Cardinality(B) = Cardinality(B \ {x}) + (IF x \in B THEN 1 ELSE 0)
        /\ Cardinality(B \ {x}) \in Nat
    BY <2>3, CountWithout
  <2> QED BY <2>1, <2>2, <2>4, <2>5 DEF A, B
<1> HIDE DEF t
<1>3. ASSUME NEW y \in s
      PROVE  /\ Places(v, t, D)[y] = Places(v, s, D)[y] + (IF v[x] < v[y] THEN 1 ELSE 0)
                                                        + (IF v[x] <= v[y] THEN 1 ELSE 0)
             /\ Places(v, s, D)[y] \in Nat
  <2>1. y \in D
    OBVIOUS
  <2> QED BY <1>1, <1>2, <2>1
<1>4. /\ Places(v, t, D)[x]
           = Cardinality(Smaller(v, s, x)) + Cardinality(NotLarger(v, s, x)) + 1
      /\ Places(v, t, D)[x] \in Nat
  <2>1. v[x] \in Int /\ ~(v[x] < v[x]) /\ v[x] <= v[x]
    OBVIOUS
  <2> QED BY <1>1, <1>2, <2>1
<1> QED BY <1>3, <1>4 DEF t

\* Each pair of elements counts twice and each element once: n * n together.
LEMMA PlacesAddUp ==
  ASSUME NEW D, IsFiniteSet(D), NEW v, \A x \in D : v[x] \in Int
  PROVE  SumFunctionOnSet(Places(v, D, D), D) = Cardinality(D) * Cardinality(D)
<1> DEFINE T == {s \in SUBSET D :
                   SumFunctionOnSet(Places(v, s, D), s) = Cardinality(s) * Cardinality(s)}
<1>1. {} \in T
  <2>1. SumFunctionOnSet(Places(v, {}, D), {}) = 0 /\ Cardinality({}) = 0
    BY SumOfNone, FS_EmptySet
  <2> QED BY <2>1
<1>2. ASSUME NEW s \in T, NEW x \in D \ s PROVE s \cup {x} \in T
  <2> DEFINE t == s \cup {x}
             c == Cardinality(s)
             P == {y \in s : v[x] < v[y]}
             Q == {y \in s : v[x] <= v[y]}
             old == Places(v, s, D)
             new == Places(v, t, D)
             up == [y \in s |-> IF y \in P THEN 1 ELSE 0]
             upto == [y \in s |-> IF y \in Q THEN 1 ELSE 0]
             half == [y \in s |-> 1 * old[y] + 1 * up[y]]
  <2>1. s \in SUBSET D /\ SumFunctionOnSet(old, s) = c * c
    OBVIOUS
  <2>2. IsFiniteSet(s) /\ c \in Nat /\ Cardinality(t) = c + 1
    <3>1. IsFiniteSet(s)
      BY <2>1, FS_Subset
    <3> QED BY <3>1, FS_CardinalityType, FS_AddElement
  <2>3. /\ \A y \in s : new[y] = old[y] + (IF v[x] < v[y] THEN 1 ELSE 0)
                                        + (IF v[x] <= v[y] THEN 1 ELSE 0)
        /\ new[x] = Cardinality(Smaller(v, s, x)) + Cardinality(NotLarger(v, s, x)) + 1
        /\ \A y \in s : old[y] \in Nat
        /\ new[x] \in Nat
    <3> HIDE DEF T
    <3> QED BY <2>1, <2>2, PlacesWithOneMore
  <2> HIDE DEF T, old, new
  <2>4. \A y \in s : up[y] \in Int /\ upto[y] \in Int /\ old[y] \in Int
    BY <2>3
  <2>5. \A y \in s : /\ half[y] = 1 * old[y] + 1 * up[y] /\ half[y] \in Int
                     /\ new[y] = 1 * half[y] + 1 * upto[y] /\ new[y] \in Int
    BY <2>3
  <2>6. IsCombination(half, 1, old, 1, up, s) /\ IsCombination(new, 1, half, 1, upto, s)
    <3> HIDE DEF half, up, upto
    <3> QED BY <2>4, <2>5 DEF IsCombination
  <2>7. SumFunctionOnSet(up, s) = Cardinality(P) /\ SumFunctionOnSet(upto, s) = Cardinality(Q)
    <3>1. P \in SUBSET s /\ Q \in SUBSET s
      OBVIOUS
    <3>2. /\ \A y \in s : up[y] = IF y \in P THEN 1 ELSE 0
          /\ \A y \in s : upto[y] = IF y \in Q THEN 1 ELSE 0
      OBVIOUS
    <3> HIDE DEF up, upto, P, Q
    <3>3. SumFunctionOnSet(up, s) = Cardinality(P)
      BY <2>2, <3>1, <3>2, IndicatorCounts
    <3>4. SumFunctionOnSet(upto, s) = Cardinality(Q)
      BY <2>2, <3>1, <3>2, IndicatorCounts
    <3> QED BY <3>3, <3>4
  <2>8. /\ Cardinality(Smaller(v, s, x)) + Cardinality(Q) = c
        /\ Cardinality(NotLarger(v, s, x)) + Cardinality(P) = c
        /\ Cardinality(Smaller(v, s, x)) \in Nat /\ Cardinality(Q) \in Nat
        /\ Cardinality(NotLarger(v, s, x)) \in Nat /\ Cardinality(P) \in Nat
    <3> DEFINE A == Smaller(v, s, x)
               B == NotLarger(v, s, x)
    <3>1. \A y \in s : v[y] \in Int
      BY <2>1
    <3>2. A \in SUBSET s /\ s \ A = Q
      BY <2>1, <3>1 DEF Smaller
    <3>3. B \in SUBSET s /\ s \ B = P
      BY <2>1, <3>1 DEF NotLarger
    <3> HIDE DEF A, B, P, Q
    <3>4. Cardinality(A) + Cardinality(Q) = c /\ Cardinality(A) \in Nat /\ Cardinality(Q) \in Nat
      BY <2>2, <3>2, CountOfRest
    <3>5. Cardinality(B) + Cardinality(P) = c /\ Cardinality(B) \in Nat /\ Cardinality(P) \in Nat
      BY <2>2, <3>3, CountOfRest
    <3> QED BY <3>4, <3>5 DEF A, B
  <2> HIDE DEF half, up, upto, P, Q, t
  <2>9. SumFunctionOnSet(new, s) = c * c + Cardinality(P) + Cardinality(Q)
    <3>1. SumFunctionOnSet(half, s) = 1 * SumFunctionOnSet(old, s) + 1 * SumFunctionOnSet(up, s)
      BY <2>2, <2>6, SumOfCombination
    <3>2. SumFunctionOnSet(new, s) = 1 * SumFunctionOnSet(half, s) + 1 * SumFunctionOnSet(upto, s)
      BY <2>2, <2>6, SumOfCombination
    <3>3. c * c \in Int
      BY <2>2
    <3> DEFINE square == c * c
    <3>4. square \in Int /\ SumFunctionOnSet(old, s) = square
      BY <2>1, <3>3
    <3> HIDE DEF square, c
    <3>5. SumFunctionOnSet(new, s) = square + Cardinality(P) + Cardinality(Q)
      BY <2>7, <2>8, <3>1, <3>2, <3>4
    <3> QED BY <3>5 DEF square
  <2>10. SumFunctionOnSet(new, t) = new[x] + SumFunctionOnSet(new, s)
    BY <2>2, <2>3, <2>5, SumGrows DEF t
  <2>11. SumFunctionOnSet(new, t) = (c + 1) * (c + 1)
    <3> DEFINE square == c * c
    <3>1. square \in Int /\ (c + 1) * (c + 1) = square + 2 * c + 1
      BY <2>2
    <3>2. SumFunctionOnSet(new, t) = new[x] + (square + Cardinality(P) + Cardinality(Q))
      BY <2>9, <2>10
    <3> DEFINE sm == Cardinality(Smaller(v, s, x))
               nl == Cardinality(NotLarger(v, s, x))
               p == Cardinality(P)
               q == Cardinality(Q)
    <3>3. /\ sm + q = c /\ nl + p = c /\ sm \in Nat /\ q \in Nat /\ nl \in Nat /\ p \in Nat
          /\ new[x] = sm + nl + 1
      BY <2>3, <2>8
    <3>4. SumFunctionOnSet(new, t) = new[x] + (square + p + q)
      BY <3>2
    <3>5. (c + 1) * (c + 1) = square + 2 * c + 1 /\ square \in Int /\ c \in Nat
      BY <2>2, <3>1
    <3> HIDE DEF square, c, sm, nl, p, q
    <3>6. sm + nl + 1 + (square + p + q) = square + 2 * c + 1
      BY <3>3, <3>5
    <3> QED BY <3>3, <3>4, <3>5, <3>6
  <2>12. t \in SUBSET D
    BY <2>1 DEF t
  <2> QED BY <2>2, <2>11, <2>12 DEF T, t, new
<1>3. D \in T
  <2> HIDE DEF T
  <2> QED BY <1>1, <1>2, FiniteInduction
<1> QED BY <1>3

\* Ranks of equal values are the mean of their places, whatever the ties.
LEMMA RanksAreRanks ==
  ASSUME NEW values \in Seq(Int)
  PROVE  /\ Ranks(values) \in [1..Len(values) -> Int]
         /\ AreRanks(Ranks(values), values)
<1> DEFINE n == Len(values)
           D == DOMAIN values
           ranks == Ranks(values)
           places == Places(values, D, D)
           ones == [i \in D |-> 1]
<1>1. n \in Nat /\ D = 1..n /\ \A i \in D : values[i] \in Int
  BY LenProperties
<1>2. IsFiniteSet(D) /\ Cardinality(D) = n
  BY <1>1, FS_Interval
<1>3. ranks = [i \in D |-> Cardinality(Smaller(values, D, i))
                             + Cardinality(NotLarger(values, D, i)) + 1]
  BY DEF Ranks, Smaller, NotLarger
<1> HIDE DEF n, D, ranks
<1>4. ASSUME NEW i \in D
      PROVE  /\ IsFiniteSet(Smaller(values, D, i)) /\ IsFiniteSet(NotLarger(values, D, i))
             /\ Cardinality(Smaller(values, D, i)) \in Nat
             /\ Cardinality(NotLarger(values, D, i)) \in Nat
             /\ ranks[i] = Cardinality(Smaller(values, D, i))
                             + Cardinality(NotLarger(values, D, i)) + 1
  <2>1. Smaller(values, D, i) \subseteq D /\ NotLarger(values, D, i) \subseteq D
    BY DEF Smaller, NotLarger
  <2>2. IsFiniteSet(Smaller(values, D, i)) /\ IsFiniteSet(NotLarger(values, D, i))
    BY <1>2, <2>1, FS_Subset
  <2> QED BY <1>3, <2>2, FS_CardinalityType
<1>5. ranks \in [1..n -> Int]
  <2>1. \A i \in D : ranks[i] \in Int
    BY <1>4
  <2>2. ranks = [i \in D |-> ranks[i]]
    BY <1>3
  <2> QED BY <1>1, <2>1, <2>2
<1>6. Total(ranks) = n * (n + 1)
  <2>1. \A i \in D : places[i] \in Int /\ ones[i] = 1 /\ ranks[i] = 1 * places[i] + 1 * ones[i]
    <3> SUFFICES ASSUME NEW i \in D
                 PROVE  places[i] \in Int /\ ones[i] = 1 /\ ranks[i] = 1 * places[i] + 1 * ones[i]
      OBVIOUS
    <3>1. places[i] = Cardinality(Smaller(values, D, i)) + Cardinality(NotLarger(values, D, i))
      BY DEF Places
    <3> HIDE DEF places
    <3> QED BY <1>4, <3>1
  <2> HIDE DEF places, ones
  <2>2. IsCombination(ranks, 1, places, 1, ones, D)
    BY <2>1 DEF IsCombination
  <2>3. SumFunctionOnSet(ranks, D) = 1 * SumFunctionOnSet(places, D) + 1 * SumFunctionOnSet(ones, D)
    BY <1>2, <2>2, SumOfCombination
  <2>4. SumFunctionOnSet(ones, D) = 1 * Cardinality(D)
    BY <1>2, <2>1, SumOfConstant
  <2>5. SumFunctionOnSet(places, D) = n * n
    BY <1>1, <1>2, PlacesAddUp DEF places
  <2>6. Total(ranks) = SumFunctionOnSet(ranks, D)
    BY <1>1, <1>5 DEF Total, SumFunction
  <2>7. n * n \in Int /\ n * (n + 1) = n * n + n
    BY <1>1
  <2> DEFINE square == n * n
  <2>8. square \in Int /\ Total(ranks) = 1 * square + 1 * (1 * n) /\ n * (n + 1) = square + n
    BY <1>2, <2>3, <2>4, <2>5, <2>6, <2>7
  <2> HIDE DEF square
  <2> QED BY <1>1, <2>8
<1>7. ASSUME NEW i \in D, NEW j \in D
      PROVE  values[i] < values[j] <=> ranks[i] < ranks[j]
  <2>1. ASSUME NEW a \in D, NEW b \in D, values[a] <= values[b]
        PROVE  /\ Cardinality(Smaller(values, D, a)) <= Cardinality(Smaller(values, D, b))
               /\ Cardinality(NotLarger(values, D, a)) <= Cardinality(NotLarger(values, D, b))
    <3>1. /\ Smaller(values, D, a) \subseteq Smaller(values, D, b)
          /\ NotLarger(values, D, a) \subseteq NotLarger(values, D, b)
      BY <1>1, <2>1 DEF Smaller, NotLarger
    <3> QED BY <1>4, <3>1, FS_Subset
  <2>2. CASE values[i] < values[j]
    <3>1. values[i] <= values[j]
      BY <1>1, <2>2
    <3>2. /\ Smaller(values, D, i) \subseteq Smaller(values, D, j)
          /\ i \in Smaller(values, D, j) /\ i \notin Smaller(values, D, i)
      BY <1>1, <2>2 DEF Smaller
    <3>3. Cardinality(Smaller(values, D, i)) # Cardinality(Smaller(values, D, j))
      BY <1>4, <3>2, FS_Subset
    <3>4. ranks[i] < ranks[j]
      BY <1>4, <2>1, <3>1, <3>3
    <3> QED BY <2>2, <3>4
  <2>3. CASE ~(values[i] < values[j])
    <3>1. values[j] <= values[i]
      BY <1>1, <2>3
    <3>2. ~(ranks[i] < ranks[j])
      BY <1>4, <2>1, <3>1
    <3> QED BY <2>3, <3>2
  <2> QED BY <2>2, <2>3
<1>8. AreRanks(ranks, values)
  BY <1>6, <1>7 DEF AreRanks, n, D
<1> QED BY <1>5, <1>8 DEF n, ranks

\* Two series of the rows in which both features are known.
LEMMA PairsAreKnown ==
  ASSUME NEW found \in Seq(SampleRows), NEW f \in Features, NEW g \in Features
  PROVE  /\ Pairs(found, f, g) = Pairs(found, g, f)
         /\ Len(Pairs(found, f, g)) \in Nat /\ DOMAIN Pairs(found, f, g) = 1..Len(Pairs(found, f, g))
         /\ \A i \in DOMAIN Pairs(found, f, g) :
              Pairs(found, f, g)[i].values[f] \in Int /\ Pairs(found, f, g)[i].values[g] \in Int
<1> DEFINE I == {i \in DOMAIN found : found[i].values[f] # Missing /\ found[i].values[g] # Missing}
           J == {i \in DOMAIN found : found[i].values[g] # Missing /\ found[i].values[f] # Missing}
           S == {row \in SampleRows : row.values[f] \in Int /\ row.values[g] \in Int}
           n == Len(found)
<1>1. n \in Nat /\ DOMAIN found = 1..n /\ \A i \in 1..n : found[i] \in SampleRows
  BY LenProperties
<1>2. \A row \in SampleRows : row.values \in [Features -> Reading]
  BY ReadingsOfRows DEF SampleRows
<1>3. I \in SUBSET Int /\ IsFiniteSet(I) /\ I = J
  <2>1. I \subseteq 1..n /\ IsFiniteSet(1..n)
    BY <1>1, FS_Interval
  <2>2. I = J
    OBVIOUS
  <2>3. IsFiniteSet(I)
    BY <2>1, FS_Subset
  <2> QED BY <2>1, <2>2, <2>3
<1>4. \A i \in I : found[i] \in S
  BY <1>1, <1>2 DEF Reading
<1>5. Pairs(found, f, g) = AtPositions(found, I) /\ Pairs(found, g, f) = AtPositions(found, J)
  BY DEF Pairs
<1> HIDE DEF I, J, S
<1>6. AtPositions(found, I) \in Seq(S)
  BY <1>3, <1>4, AtPositionsIsSequence
<1> DEFINE complete == Pairs(found, f, g)
<1>7. complete \in Seq(S) /\ complete = Pairs(found, g, f)
  BY <1>3, <1>5, <1>6
<1> HIDE DEF complete
<1>8. Len(complete) \in Nat /\ DOMAIN complete = 1..Len(complete)
      /\ \A i \in DOMAIN complete : complete[i] \in S
  BY <1>7, LenProperties
<1>9. \A i \in DOMAIN complete : complete[i].values[f] \in Int /\ complete[i].values[g] \in Int
  BY <1>8 DEF S
<1> QED BY <1>7, <1>8, <1>9 DEF complete

\* A cell of the correlation matrix.
LEMMA CorrelationCell ==
  ASSUME NEW found \in Seq(SampleRows), NEW f \in Features, NEW g \in Features, NEW method
  PROVE  /\ Correlate(method, found, f, g) = Correlate(method, found, g, f)
         /\ IsCoefficient(Correlate(method, found, f, g).coefficient)
<1> DEFINE complete == Pairs(found, f, g)
           n == Len(complete)
           x == [i \in DOMAIN complete |-> complete[i].values[f]]
           y == [i \in DOMAIN complete |-> complete[i].values[g]]
           one == IF method = "spearman" THEN Pearson(Ranks(x), Ranks(y)) ELSE Pearson(x, y)
           other == IF method = "spearman" THEN Pearson(Ranks(y), Ranks(x)) ELSE Pearson(y, x)
<1>1. /\ complete = Pairs(found, g, f) /\ n \in Nat /\ DOMAIN complete = 1..n
      /\ \A i \in DOMAIN complete : complete[i].values[f] \in Int /\ complete[i].values[g] \in Int
  BY PairsAreKnown
<1>2. x \in [1..n -> Int] /\ y \in [1..n -> Int]
  BY <1>1
<1>3. Correlate(method, found, f, g)
        = [count |-> n, coefficient |-> one,
           high  |-> /\ f # g
                     /\ one.defined
                     /\ 100 * one.covariance * one.covariance
                          > HighTenths * HighTenths * one.scale]
  BY Zenon DEF Correlate
<1>4. Correlate(method, found, g, f)
        = [count |-> n, coefficient |-> other,
           high  |-> /\ g # f
                     /\ other.defined
                     /\ 100 * other.covariance * other.covariance
                          > HighTenths * HighTenths * other.scale]
  BY <1>1, Zenon DEF Correlate
<1> HIDE DEF complete, n, x, y
<1>5. x \in Seq(Int) /\ y \in Seq(Int) /\ Len(x) = n /\ Len(y) = n
  BY <1>1, <1>2, SequenceOfLength
<1>6. Ranks(x) \in [1..n -> Int] /\ Ranks(y) \in [1..n -> Int]
  BY <1>5, RanksAreRanks
<1>7. one = other
  BY <1>1, <1>2, <1>6, PearsonIsSymmetric
<1>8. IsCoefficient(one)
  <2>1. CASE method = "spearman"
    <3>1. one = Pearson(Ranks(x), Ranks(y))
      BY <2>1
    <3> HIDE DEF one
    <3> QED BY <1>1, <1>6, <3>1, PearsonIsBounded DEF IsCoefficient
  <2>2. CASE method # "spearman"
    <3>1. one = Pearson(x, y)
      BY <2>2
    <3> HIDE DEF one
    <3> QED BY <1>1, <1>2, <3>1, PearsonIsBounded DEF IsCoefficient
  <2> QED BY <2>1, <2>2
<1> HIDE DEF one, other
<1>9. (f # g) <=> (g # f)
  OBVIOUS
<1>10. Correlate(method, found, f, g) = Correlate(method, found, g, f)
  BY <1>3, <1>4, <1>7, <1>9
<1>11. Correlate(method, found, f, g).coefficient = one
  BY <1>3
<1> QED BY <1>8, <1>10, <1>11

-----------------------------------------------------------------------------
(* The distribution: the bins, the whiskers and the groups.                   *)

\* Where a number is with respect to a quotient, without the division.
LEMMA QuotientBounds ==
  ASSUME NEW q \in Int, NEW a \in Int, NEW w \in Nat, w > 0, IsQuotient(q, a, w), NEW m \in Int
  PROVE  m <= q <=> m * w <= a
<1>1. q * w <= a /\ a < (q + 1) * w
  BY DEF IsQuotient
<1>2. q * w \in Int /\ (q + 1) * w \in Int /\ m * w \in Int
  OBVIOUS
<1>3. ASSUME m <= q PROVE m * w <= a
  <2>1. m * w <= q * w
    BY <1>3, ProductsKeepOrder
  <2> QED BY <1>1, <1>2, <2>1
<1>4. ASSUME m * w <= a PROVE m <= q
  <2> SUFFICES ASSUME q + 1 <= m PROVE FALSE
    OBVIOUS
  <2>1. (q + 1) * w <= m * w
    BY ProductsKeepOrder
  <2> QED BY <1>1, <1>2, <1>4, <2>1
<1> QED BY <1>3, <1>4

\* A value lies between the edges of the k-th bin; the last one has its top edge.
InBin(v, k, low, high, count) ==
    /\ low * count + (high - low) * (k - 1) <= v * count
    /\ v * count < low * count + (high - low) * k \/ k = count

\* The index the code computes is that of the only bin a value lies in.
LEMMA BinIsWhereTheValueIs ==
  ASSUME NEW low \in Int, NEW high \in Int, NEW v \in Int, low <= v, v <= high,
         NEW count \in Nat, count > 0, low = high => count = 1
  PROVE  /\ BinOf(v, low, high, count) \in 1..count
         /\ \A k \in 1..count :
              BinOf(v, low, high, count) = k <=> InBin(v, k, low, high, count)
<1>1. CASE low = high
  <2>1. v = low /\ count = 1 /\ BinOf(v, low, high, count) = 1
    BY <1>1 DEF BinOf
  <2>2. InBin(v, 1, low, high, count)
    <3>1. low * 1 + (high - low) * (1 - 1) <= v * 1
      BY <1>1, <2>1
    <3> QED BY <2>1, <3>1 DEF InBin
  <2>3. \A k \in 1..count : k = 1
    BY <2>1
  <2>4. 1 \in 1..count
    OBVIOUS
  <2> QED BY <2>1, <2>2, <2>3, <2>4
<1>2. CASE low # high
  <2> DEFINE w == high - low
             a == (v - low) * count
             q == a \div w
  <2>1. w \in Nat /\ w > 0 /\ a \in Int /\ v - low \in Nat /\ v - low <= w
    BY <1>2
  <2>2. q \in Int /\ IsQuotient(q, a, w)
    <3> HIDE DEF a, w
    <3> QED BY <2>1, DivisionIsQuotient
  <2>3. BinOf(v, low, high, count) = IF q < count THEN q + 1 ELSE count
    BY <1>2 DEF BinOf
  <2>4. v * count = low * count + a /\ low * count \in Int
    OBVIOUS
  <2>5. 0 <= q /\ ~(count + 1 <= q)
    <3>1. 0 * count <= a /\ a <= w * count
      <4> HIDE DEF w
      <4> QED BY <2>1, ProductsKeepOrder
    <3> HIDE DEF a, w, q
    <3>2. 0 * w <= a
      BY <2>1, <3>1
    <3>3. (count + 1) * w = w * count + w /\ w * count \in Int
      BY <2>1
    <3>4. ~((count + 1) * w <= a)
      BY <2>1, <3>1, <3>3
    <3>5. 0 <= q <=> 0 * w <= a
      <4> DEFINE zero == 0
      <4>1. zero \in Int
        OBVIOUS
      <4> HIDE DEF zero
      <4>2. zero <= q <=> zero * w <= a
        BY <2>1, <2>2, <4>1, QuotientBounds
      <4> QED BY <4>2 DEF zero
    <3>6. count + 1 \in Int
      OBVIOUS
    <3>7. count + 1 <= q <=> (count + 1) * w <= a
      BY <2>1, <2>2, <3>6, QuotientBounds
    <3> QED BY <3>2, <3>4, <3>5, <3>7
  <2>6. ASSUME NEW k \in 1..count
        PROVE  /\ k - 1 <= q <=> low * count + w * (k - 1) <= v * count
               /\ ~(k <= q) <=> v * count < low * count + w * k
    <3> HIDE DEF a, w, q
    <3>1. k - 1 \in Int /\ k \in Int
      OBVIOUS
    <3>2. k - 1 <= q <=> (k - 1) * w <= a
      BY <2>1, <2>2, <3>1, QuotientBounds
    <3>3. k <= q <=> k * w <= a
      BY <2>1, <2>2, <3>1, QuotientBounds
    <3> DEFINE l == low * count
               x == (k - 1) * w
               y == k * w
    <3>4. l \in Int /\ x \in Int /\ y \in Int /\ w * (k - 1) = x /\ w * k = y
      BY <2>1, <2>4
    <3>5. v * count = l + a
      BY <2>4
    <3> HIDE DEF l, x, y
    <3>6. l + x <= l + a <=> x <= a
      BY <2>1, <3>4
    <3>7. l + a < l + y <=> ~(y <= a)
      BY <2>1, <3>4
    <3> QED BY <3>2, <3>3, <3>4, <3>5, <3>6, <3>7 DEF l, x, y
  <2> HIDE DEF a, q
  <2>7. BinOf(v, low, high, count) \in 1..count
    BY <2>2, <2>3, <2>5
  <2>8. ASSUME NEW k \in 1..count
        PROVE  BinOf(v, low, high, count) = k <=> InBin(v, k, low, high, count)
    <3>1. InBin(v, k, low, high, count) <=> k - 1 <= q /\ (~(k <= q) \/ k = count)
      BY <2>6 DEF InBin
    <3> QED BY <2>2, <2>3, <2>5, <3>1
  <2> QED BY <2>7, <2>8
<1> QED BY <1>1, <1>2

\* The histogram of a group over the bins common to all groups.
LEMMA HistogramAddsUp ==
  ASSUME NEW group \in Seq(Int), NEW all \in Seq(Int), NEW bins \in Nat, bins > 0,
         all # <<>> => \A i \in DOMAIN group : Head(all) <= group[i] /\ group[i] <= Last(all),
         all # <<>> => Head(all) \in Int /\ Last(all) \in Int /\ Head(all) <= Last(all),
         NEW low, NEW high, all # <<>> => low = Head(all) /\ high = Last(all)
  PROVE  DescribesBins(Histogram(group, all, bins), group, low, high)
<1> DEFINE h == Histogram(group, all, bins)
           D == DOMAIN group
<1>1. IsFiniteSet(D) /\ Cardinality(D) = Len(group) /\ \A i \in D : group[i] \in Int
  <2>1. Len(group) \in Nat /\ D = 1..Len(group) /\ \A i \in D : group[i] \in Int
    BY LenProperties
  <2> DEFINE n == Len(group)
  <2>2. n \in Nat /\ D = 1..n
    BY <2>1
  <2> HIDE DEF n, D
  <2>3. IsFiniteSet(1..n) /\ Cardinality(1..n) = n
    BY <2>2, FS_Interval
  <2> QED BY <2>1, <2>2, <2>3 DEF n
<1>2. CASE all = <<>>
  <2>1. h = <<>> /\ DOMAIN h = {}
    BY <1>2 DEF Histogram
  <2> HIDE DEF h
  <2> QED BY <2>1 DEF DescribesBins, h
<1>3. CASE all # <<>>
  <2> DEFINE count == IF low = high THEN 1 ELSE bins
             B == [i \in D |-> BinOf(group[i], low, high, count)]
             c == [k \in 1..count |-> Cardinality({i \in D : BinOf(group[i], low, high, count) = k})]
  <2>1. /\ low \in Int /\ high \in Int /\ low <= high /\ low = Head(all) /\ high = Last(all)
        /\ \A i \in D : low <= group[i] /\ group[i] <= high
    BY <1>3
  <2>2. count \in Nat /\ count > 0 /\ (low = high => count = 1)
    OBVIOUS
  <2>3. h = [k \in 1..count |->
               [lower |-> low * count + (high - low) * (k - 1),
                upper |-> low * count + (high - low) * k,
                count |-> Cardinality({i \in D : BinOf(group[i], low, high, count) = k})]]
    <3> HIDE DEF D
    <3> QED BY <1>3, <2>1, Zenon DEF Histogram, D
  <2> HIDE DEF h, D, count
  <2>4. /\ DOMAIN h = 1..count
        /\ \A k \in 1..count :
             /\ h[k].lower = low * count + (high - low) * (k - 1)
             /\ h[k].upper = low * count + (high - low) * k
             /\ h[k].count = c[k]
    BY <2>3
  <2>5. Len(h) = count /\ h # <<>>
    <3>1. h \in [1..count -> {h[k] : k \in 1..count}]
      BY <2>3
    <3>2. Len(h) = count
      BY <2>2, <3>1, SequenceOfLength
    <3> QED BY <2>2, <2>4, <3>2
  <2>6. ASSUME NEW i \in D
        PROVE  /\ BinOf(group[i], low, high, count) \in 1..count
               /\ \A k \in 1..count : BinOf(group[i], low, high, count) = k
                                        <=> InBin(group[i], k, low, high, count)
    <3> DEFINE v == group[i]
    <3>1. v \in Int /\ low <= v /\ v <= high
      BY <1>1, <2>1
    <3> HIDE DEF v
    <3>2. /\ BinOf(v, low, high, count) \in 1..count
          /\ \A k \in 1..count : BinOf(v, low, high, count) = k <=> InBin(v, k, low, high, count)
      BY <2>1, <2>2, <3>1, BinIsWhereTheValueIs
    <3> QED BY <3>2 DEF v
  <2>7. ASSUME NEW k \in 1..count
        PROVE  h[k].count = Cardinality({i \in D :
                 /\ h[k].lower <= group[i] * count
                 /\ group[i] * count < h[k].upper \/ k = count})
    <3>1. {i \in D : BinOf(group[i], low, high, count) = k}
            = {i \in D : /\ h[k].lower <= group[i] * count
                         /\ group[i] * count < h[k].upper \/ k = count}
      BY <2>4, <2>6 DEF InBin
    <3> QED BY <2>4, <3>1
  <2>8. SumFunctionOnSet(c, 1..count) = Cardinality(D)
    <3>1. \A i \in D : B[i] = BinOf(group[i], low, high, count) /\ B[i] \in 1..count
      BY <2>6
    <3>2. \A k \in 1..count : c[k] = Cardinality({i \in D : B[i] = k})
      BY <3>1
    <3> HIDE DEF B, c
    <3> QED BY <1>1, <2>2, <3>1, <3>2, PartitionAddsUp
  <2>9. Total([k \in DOMAIN h |-> h[k].count]) = Len(group)
    <3>1. [k \in DOMAIN h |-> h[k].count] = c
      BY <2>4
    <3>2. Total(c) = SumFunctionOnSet(c, 1..count)
      BY DEF Total, SumFunction
    <3> QED BY <1>1, <2>8, <3>1, <3>2
  <2>10. h[1].lower = low * count /\ h[count].upper = high * count
    <3>1. 1 \in 1..count /\ count \in 1..count
      BY <2>2
    <3>2. low * count + (high - low) * (1 - 1) = low * count
      BY <2>1, <2>2
    <3>3. low * count + (high - low) * count = high * count
      BY <2>1, <2>2
    <3> QED BY <2>4, <3>1, <3>2, <3>3
  <2> HIDE DEF c
  <2> QED BY <2>4, <2>5, <2>7, <2>9, <2>10, Zenon DEF DescribesBins, h, D
<1> QED BY <1>2, <1>3

\* A quantile is not beyond a value its place is not beyond.
LEMMA QuantileAround ==
  ASSUME NEW n \in Nat, n > 0, NEW s, IsAscending(s, n), NEW p \in 0..20, NEW m \in 1..n
  PROVE  /\ Quantile(s, p) \in Int
         /\ p * (n - 1) <= 20 * (m - 1) => Quantile(s, p) <= 20 * s[m]
         /\ p * (n - 1) >= 20 * (m - 1) => Quantile(s, p) >= 20 * s[m]
<1> DEFINE position == p * (n - 1)
           left == position \div 20 + 1
           right == IF left < n THEN left + 1 ELSE left
           f == position % 20
<1>1. s \in [1..n -> Int] /\ Len(s) = n /\ \A i, j \in 1..n : i <= j => s[i] <= s[j]
  BY DEF IsAscending
<1>2. position \in Nat /\ position <= 20 * (n - 1)
  <2>1. n - 1 \in Nat /\ p <= 20 /\ p \in Nat
    OBVIOUS
  <2>2. p * (n - 1) <= 20 * (n - 1)
    BY <2>1, ProductsKeepOrder
  <2> QED BY <2>1, <2>2
<1>3. Quantile(s, p) = (20 - f) * s[left] + f * s[right]
  BY <1>1 DEF Quantile
<1> HIDE DEF position
<1>4. /\ left \in 1..n /\ right \in 1..n /\ left <= right
      /\ f \in 0..19 /\ position = 20 * (left - 1) + f
      /\ f > 0 => right = left + 1
  BY <1>2
<1> HIDE DEF left, right, f
<1>5. s[left] \in Int /\ s[right] \in Int /\ s[m] \in Int /\ 20 - f \in Nat /\ f \in Nat
  BY <1>1, <1>4
<1>6. (20 - f) * s[left] \in Int /\ f * s[right] \in Int
      /\ (20 - f) * s[m] \in Int /\ f * s[m] \in Int
      /\ (20 - f) * s[m] + f * s[m] = 20 * s[m]
  BY <1>5
<1>7. /\ (20 - f) * s[left] = s[left] * (20 - f) /\ (20 - f) * s[m] = s[m] * (20 - f)
      /\ f * s[right] = s[right] * f /\ f * s[m] = s[m] * f
  BY <1>5
<1>8. ASSUME position <= 20 * (m - 1) PROVE Quantile(s, p) <= 20 * s[m]
  <2>1. left <= m
    BY <1>4, <1>8
  <2>2. s[left] * (20 - f) <= s[m] * (20 - f)
    BY <1>1, <1>4, <1>5, <2>1, ProductsKeepOrder
  <2>3. s[right] * f <= s[m] * f
    <3>1. CASE f = 0
      BY <1>5, <3>1
    <3>2. CASE f > 0
      <4>1. right <= m
        BY <1>4, <1>8, <3>2
      <4> QED BY <1>1, <1>4, <1>5, <4>1, ProductsKeepOrder
    <3> QED BY <1>4, <3>1, <3>2
  <2> QED BY <1>3, <1>6, <1>7, <2>2, <2>3
<1>9. ASSUME position >= 20 * (m - 1) PROVE Quantile(s, p) >= 20 * s[m]
  <2>1. m <= left /\ m <= right
    BY <1>4, <1>9
  <2>2. s[m] * (20 - f) <= s[left] * (20 - f)
    BY <1>1, <1>4, <1>5, <2>1, ProductsKeepOrder
  <2>3. s[m] * f <= s[right] * f
    BY <1>1, <1>4, <1>5, <2>1, ProductsKeepOrder
  <2> QED BY <1>3, <1>6, <1>7, <2>2, <2>3
<1>10. Quantile(s, p) \in Int
  BY <1>3, <1>6
<1> QED BY <1>8, <1>9, <1>10 DEF position

\* Some value is no outlier: one in the middle is between the quartiles.
LEMMA SomeValueIsInside ==
  ASSUME NEW n \in Nat, n > 0, NEW s, IsAscending(s, n)
  PROVE  \E m \in 1..n : ~IsTukeyOutlier(s, s[m])
<1> DEFINE q25 == Quantile(s, 5)
           q75 == Quantile(s, 15)
<1>1. s \in [1..n -> Int] /\ Len(s) = n /\ \A i, j \in 1..n : i <= j => s[i] <= s[j]
  BY DEF IsAscending
<1>2. CASE n = 2
  <2>1. q25 = 15 * s[1] + 5 * s[2]
    <3>1. 5 * (n - 1) = 5 /\ 5 \div 20 + 1 = 1 /\ 5 % 20 = 5
      BY <1>2
    <3> QED BY <1>1, <1>2, <3>1 DEF Quantile
  <2>2. q75 = 5 * s[1] + 15 * s[2]
    <3>1. 15 * (n - 1) = 15 /\ 15 \div 20 + 1 = 1 /\ 15 % 20 = 15
      BY <1>2
    <3> QED BY <1>1, <1>2, <3>1 DEF Quantile
  <2>3. s[1] \in Int /\ s[2] \in Int /\ s[1] <= s[2]
    BY <1>1, <1>2
  <2>4. ~(40 * s[1] < 2 * q25 - 3 * (q75 - q25)) /\ ~(40 * s[1] > 2 * q75 + 3 * (q75 - q25))
    <3> HIDE DEF q25, q75
    <3> QED BY <2>1, <2>2, <2>3
  <2>5. ~IsTukeyOutlier(s, s[1])
    BY <2>4, Zenon DEF IsTukeyOutlier
  <2>6. 1 \in 1..n
    BY <1>2
  <2> QED BY <2>5, <2>6
<1>3. CASE n # 2
  <2> DEFINE m == n \div 2 + 1
  <2>1. m \in 1..n /\ 5 * (n - 1) <= 20 * (m - 1) /\ 15 * (n - 1) >= 20 * (m - 1)
    BY <1>3
  <2> HIDE DEF m
  <2>2. q25 \in Int /\ q25 <= 20 * s[m]
    <3>1. 5 \in 0..20
      OBVIOUS
    <3> QED BY <2>1, <3>1, QuantileAround
  <2>3. q75 \in Int /\ q75 >= 20 * s[m]
    <3>1. 15 \in 0..20
      OBVIOUS
    <3> QED BY <2>1, <3>1, QuantileAround
  <2>4. ~(40 * s[m] < 2 * q25 - 3 * (q75 - q25)) /\ ~(40 * s[m] > 2 * q75 + 3 * (q75 - q25))
    <3>1. s[m] \in Int
      BY <1>1, <2>1
    <3> HIDE DEF q25, q75
    <3> QED BY <2>2, <2>3, <3>1
  <2>5. ~IsTukeyOutlier(s, s[m])
    BY <2>4, Zenon DEF IsTukeyOutlier
  <2> QED BY <2>1, <2>5
<1> QED BY <1>2, <1>3

\* The whiskers are values, and the outliers those beyond them.
LEMMA WhiskersBound ==
  ASSUME NEW n \in Nat, n > 0, NEW group, IsAscending(group, n),
         NEW inside, inside = AtPositions(group,
                       {i \in DOMAIN group : ~IsTukeyOutlier(group, group[i])})
  PROVE  /\ inside # <<>>
         /\ n - Len(inside) = Cardinality({i \in DOMAIN group :
              group[i] < Head(inside) \/ group[i] > Last(inside)})
<1> DEFINE D == 1..n
           P == {i \in D : ~IsTukeyOutlier(group, group[i])}
           order == Arranged(P, Ascending(P))
           c == Cardinality(P)
           q25 == Quantile(group, 5)
           q75 == Quantile(group, 15)
           lower == 2 * q25 - 3 * (q75 - q25)
           upper == 2 * q75 + 3 * (q75 - q25)
<1>1. group \in [D -> Int] /\ \A i, j \in D : i <= j => group[i] <= group[j]
  BY DEF IsAscending
<1>2. lower \in Int /\ upper \in Int
  <2>1. 5 \in 0..20 /\ 15 \in 0..20 /\ 1 \in 1..n
    OBVIOUS
  <2>2. q25 \in Int /\ q75 \in Int
    BY <2>1, QuantileAround
  <2> HIDE DEF q25, q75
  <2> QED BY <2>2
<1>3. \A i \in D : i \notin P <=> 40 * group[i] < lower \/ 40 * group[i] > upper
  BY Zenon DEF IsTukeyOutlier
<1>4. IsFiniteSet(D) /\ Cardinality(D) = n
  BY FS_Interval
<1>5. P \in SUBSET D /\ P \in SUBSET Int
  OBVIOUS
<1>6. P # {}
  BY SomeValueIsInside
<1>7. inside = AtPositions(group, P)
  BY <1>1
<1> HIDE DEF P, lower, upper
<1>8. IsFiniteSet(P)
  BY <1>4, <1>5, FS_Subset
<1>9. /\ c \in Nat /\ order \in [1..c -> P]
      /\ \A i \in P : \E k \in 1..c : order[k] = i
      /\ \A k, l \in 1..c : k < l => <<order[k], order[l]>> \in Ascending(P)
  <2>1. Orders(Ascending(P), P)
    BY <1>5, AscendingOrders
  <2> QED BY <1>8, <2>1, ArrangedIsSorted
<1>10. c > 0
  <2>1. PICK i \in P : TRUE
    BY <1>6
  <2>2. PICK k \in 1..c : order[k] = i
    BY <1>9
  <2> HIDE DEF c, order
  <2> QED BY <1>9, <2>2
<1>11. inside \in Seq(Int) /\ Len(inside) = c
  <2>1. \A i \in P : group[i] \in Int
    BY <1>1, <1>5
  <2> QED BY <1>5, <1>7, <1>8, <2>1, AtPositionsIsSequence
<1>12. \A k \in 1..c : inside[k] = group[order[k]] /\ order[k] \in P /\ order[k] \in D
  <2>1. inside = [k \in DOMAIN order |-> group[order[k]]]
    BY <1>7 DEF AtPositions
  <2> HIDE DEF order
  <2> QED BY <1>5, <1>9, <2>1
<1> HIDE DEF order, c
<1>13. inside # <<>> /\ Head(inside) = inside[1] /\ Last(inside) = inside[c]
       /\ 1 \in 1..c /\ c \in 1..c
  BY <1>9, <1>10, <1>11, EmptySeq DEF Last
<1>14. ASSUME NEW i \in P
       PROVE  inside[1] <= group[i] /\ group[i] <= inside[c]
  <2>1. PICK k \in 1..c : order[k] = i
    BY <1>9
  <2>2. /\ 1 = k \/ 1 < k
        /\ k = c \/ k < c
    BY <1>9
  <2>3. order[1] \in D /\ order[c] \in D /\ i \in D
    BY <1>5, <1>12, <1>13
  <2>4. order[1] <= i
    <3>1. 1 < k => order[1] < i
      BY <1>9, <1>13, <2>1 DEF Ascending
    <3> QED BY <2>1, <2>2, <2>3, <3>1
  <2>5. i <= order[c]
    <3>1. k < c => i < order[c]
      BY <1>9, <1>13, <2>1 DEF Ascending
    <3> QED BY <2>1, <2>2, <2>3, <3>1
  <2> QED BY <1>1, <1>12, <1>13, <2>3, <2>4, <2>5
<1>15. ASSUME NEW i \in D
       PROVE  i \in D \ P <=> group[i] < inside[1] \/ group[i] > inside[c]
  <2>1. /\ order[1] \in D /\ order[1] \in P /\ inside[1] = group[order[1]]
        /\ order[c] \in D /\ order[c] \in P /\ inside[c] = group[order[c]]
    BY <1>12, <1>13
  <2>2. inside[1] \in Int /\ inside[c] \in Int /\ group[i] \in Int
    BY <1>1, <2>1
  <2>3. /\ ~(40 * inside[1] < lower) /\ ~(40 * inside[1] > upper)
        /\ ~(40 * inside[c] < lower) /\ ~(40 * inside[c] > upper)
    BY <1>3, <2>1
  <2>4. CASE i \in P
    BY <1>14, <2>2, <2>4
  <2>5. CASE i \notin P
    <3>1. 40 * group[i] < lower \/ 40 * group[i] > upper
      BY <1>3, <2>5
    <3>2. group[i] < inside[1] \/ group[i] > inside[c]
      BY <1>2, <2>2, <2>3, <3>1
    <3> QED BY <2>5, <3>2
  <2> QED BY <2>4, <2>5
<1>16. {i \in DOMAIN group : group[i] < Head(inside) \/ group[i] > Last(inside)} = D \ P
  <2>1. DOMAIN group = D
    BY <1>1
  <2> QED BY <1>13, <1>15, <2>1
<1> HIDE DEF D
<1>17. /\ Cardinality(P) + Cardinality(D \ P) = n
       /\ Cardinality(P) \in Nat /\ Cardinality(D \ P) \in Nat
  BY <1>4, <1>5, CountOfRest
<1>18. n - Len(inside) = Cardinality(D \ P)
  BY <1>11, <1>17 DEF c
<1> QED BY <1>13, <1>16, <1>18

\* The known values of a column, in ascending order: all of them and no other.
LEMMA SortedColumn ==
  ASSUME NEW n \in Nat, NEW column \in [1..n -> Reading],
         NEW sorted, sorted = Sorted(Known(column))
  PROVE  /\ sorted \in Seq(Int) /\ IsAscending(sorted, Len(sorted))
         /\ \A k \in DOMAIN sorted : \E i \in 1..n : column[i] = sorted[k]
         /\ \A i \in 1..n : column[i] # Missing => \E k \in DOMAIN sorted : sorted[k] = column[i]
<1> DEFINE known == Known(column)
           size == Len(known)
           K == KnownAt(column)
<1>1. /\ known \in Seq(Int) /\ size \in Nat /\ K \in SUBSET Int /\ K \subseteq 1..n
      /\ IsFiniteSet(K) /\ size = Cardinality(K)
  BY KnownIsSequence
<1>2. /\ \A k \in 1..size : \E i \in K : known[k] = column[i]
      /\ \A i \in K : \E k \in 1..size : known[k] = column[i]
  <2>1. known = AtPositions(column, K)
    BY DEF Known
  <2> HIDE DEF known, K
  <2>2. /\ \A k \in 1..Cardinality(K) : \E i \in K : AtPositions(column, K)[k] = column[i]
        /\ \A i \in K : \E k \in 1..Cardinality(K) : AtPositions(column, K)[k] = column[i]
    BY <1>1, AtPositionsIsSelection
  <2> QED BY <1>1, <2>1, <2>2
<1>3. /\ sorted \in Seq(Int) /\ Len(sorted) = size
      /\ \A i, j \in 1..size : i <= j => sorted[i] <= sorted[j]
      /\ \E order \in Bijection(1..size, 1..size) :
           \A k \in 1..size : sorted[k] = known[order[k]]
  BY <1>1, SortedIsSequence
<1>4. PICK order \in Bijection(1..size, 1..size) : \A k \in 1..size : sorted[k] = known[order[k]]
  BY <1>3
<1>5. /\ \A k \in 1..size : order[k] \in 1..size
      /\ \A l \in 1..size : \E k \in 1..size : order[k] = l
  BY DEF Bijection, Injection, Surjection
<1> HIDE DEF known, size
<1>6. DOMAIN sorted = 1..size /\ sorted \in [1..size -> Int]
  BY <1>1, <1>3, LenProperties
<1>7. IsAscending(sorted, size)
  BY <1>3, <1>6 DEF IsAscending
<1>8. ASSUME NEW k \in 1..size PROVE \E i \in 1..n : column[i] = sorted[k]
  <2>1. order[k] \in 1..size /\ sorted[k] = known[order[k]]
    BY <1>4, <1>5
  <2>2. PICK i \in K : known[order[k]] = column[i]
    BY <1>2, <2>1
  <2> QED BY <1>1, <2>1, <2>2
<1>9. ASSUME NEW i \in 1..n, column[i] # Missing
      PROVE  \E k \in 1..size : sorted[k] = column[i]
  <2>1. i \in K
    BY <1>9 DEF KnownAt
  <2>2. PICK l \in 1..size : known[l] = column[i]
    BY <1>2, <2>1
  <2>3. PICK k \in 1..size : order[k] = l
    BY <1>5
  <2> QED BY <1>4, <2>2, <2>3
<1> QED BY <1>3, <1>6, <1>7, <1>8, <1>9

\* A feature of the rows is a column of readings.
LEMMA ColumnOfRows ==
  ASSUME NEW found \in Seq(SampleRows), NEW f \in Features
  PROVE  /\ Len(found) \in Nat /\ DOMAIN found = 1..Len(found)
         /\ Column(found, f) \in [1..Len(found) -> Reading]
         /\ \A i \in 1..Len(found) : Column(found, f)[i] = found[i].values[f]
<1>1. /\ Len(found) \in Nat /\ DOMAIN found = 1..Len(found)
      /\ \A i \in 1..Len(found) : found[i] \in SampleRows
  BY LenProperties
<1>2. \A i \in 1..Len(found) : found[i].values \in [Features -> Reading]
  BY <1>1, ReadingsOfRows DEF SampleRows
<1> QED BY <1>1, <1>2 DEF Column

\* The rows of a company are rows of the table.
LEMMA GroupIsPart ==
  ASSUME NEW found \in Seq(SampleRows), NEW company
  PROVE  /\ GroupRows(found, company) \in Seq(SampleRows)
         /\ \A k \in DOMAIN GroupRows(found, company) :
              \E i \in DOMAIN found : GroupRows(found, company)[k] = found[i]
<1> DEFINE I == {i \in DOMAIN found : found[i].company_id = company}
           n == Len(found)
           group == GroupRows(found, company)
<1>1. n \in Nat /\ DOMAIN found = 1..n /\ \A i \in 1..n : found[i] \in SampleRows
  BY LenProperties
<1>2. I \in SUBSET Int /\ IsFiniteSet(I) /\ I \subseteq 1..n
  <2>1. I \subseteq 1..n /\ IsFiniteSet(1..n)
    BY <1>1, FS_Interval
  <2>2. IsFiniteSet(I)
    BY <2>1, FS_Subset
  <2> QED BY <2>1, <2>2
<1>3. \A i \in I : found[i] \in SampleRows
  BY <1>1, <1>2
<1>4. group = AtPositions(found, I)
  BY DEF GroupRows
<1> HIDE DEF I, group, n
<1>5. group \in Seq(SampleRows)
  BY <1>2, <1>3, <1>4, AtPositionsIsSequence
<1>6. \A k \in DOMAIN group : \E i \in I : group[k] = found[i]
  BY <1>2, <1>4, AtPositionsIsSelection
<1> QED BY <1>1, <1>2, <1>5, <1>6 DEF group

\* What a company measured lies between the smallest and the largest value of all.
LEMMA GroupIsWithinAll ==
  ASSUME NEW found \in Seq(SampleRows), NEW company, NEW f \in Features,
         NEW all, all = Sorted(Known(Column(found, f))),
         NEW group, group = GroupValues(found, company, f)
  PROVE  /\ all \in Seq(Int) /\ group \in Seq(Int) /\ IsAscending(group, Len(group))
         /\ all # <<>> =>
              /\ Head(all) \in Int /\ Last(all) \in Int /\ Head(all) <= Last(all)
              /\ \A i \in DOMAIN group : Head(all) <= group[i] /\ group[i] <= Last(all)
<1> DEFINE rowsOf == GroupRows(found, company)
           column == Column(found, f)
           part == Column(rowsOf, f)
           n == Len(found)
           m == Len(rowsOf)
           size == Len(all)
<1>1. /\ rowsOf \in Seq(SampleRows)
      /\ \A k \in DOMAIN rowsOf : \E i \in DOMAIN found : rowsOf[k] = found[i]
  BY GroupIsPart
<1>2. /\ n \in Nat /\ DOMAIN found = 1..n /\ column \in [1..n -> Reading]
      /\ \A i \in 1..n : column[i] = found[i].values[f]
  BY ColumnOfRows
<1>3. /\ m \in Nat /\ DOMAIN rowsOf = 1..m /\ part \in [1..m -> Reading]
      /\ \A i \in 1..m : part[i] = rowsOf[i].values[f]
  <2> HIDE DEF rowsOf
  <2> QED BY <1>1, ColumnOfRows
<1>4. group = Sorted(Known(part)) /\ all = Sorted(Known(column))
  <2>1. part = [i \in DOMAIN rowsOf |-> rowsOf[i].values[f]]
    BY DEF Column
  <2> HIDE DEF part
  <2> QED BY <2>1, Zenon DEF GroupValues
<1> HIDE DEF rowsOf, column, part, n, m
<1>5. /\ all \in Seq(Int) /\ IsAscending(all, size)
      /\ \A i \in 1..n : column[i] # Missing => \E k \in DOMAIN all : all[k] = column[i]
  BY <1>2, <1>4, SortedColumn
<1>6. /\ group \in Seq(Int) /\ IsAscending(group, Len(group))
      /\ \A k \in DOMAIN group : \E i \in 1..m : part[i] = group[k]
  BY <1>3, <1>4, SortedColumn
<1>7. size \in Nat /\ DOMAIN all = 1..size /\ (all # <<>> => size > 0)
  BY <1>5, LenProperties, EmptySeq
<1>8. /\ \A k \in 1..size : all[k] \in Int
      /\ \A i, j \in 1..size : i <= j => all[i] <= all[j]
  BY <1>5 DEF IsAscending
<1>9. ASSUME all # <<>>
      PROVE  /\ Head(all) = all[1] /\ Last(all) = all[size]
             /\ 1 \in 1..size /\ size \in 1..size
  BY <1>5, <1>7, <1>9 DEF Last
<1>10. ASSUME NEW k \in DOMAIN group
       PROVE  \E l \in 1..size : all[l] = group[k]
  <2>1. PICK j \in 1..m : part[j] = group[k]
    BY <1>6
  <2>2. PICK i \in 1..n : rowsOf[j] = found[i]
    BY <1>1, <1>2, <1>3
  <2>3. column[i] = group[k]
    BY <1>2, <1>3, <2>1, <2>2
  <2>4. group[k] \in Int
    BY <1>6, LenProperties
  <2>5. column[i] # Missing
    BY <2>3, <2>4, DomainAssumption
  <2> QED BY <1>5, <1>7, <2>3, <2>5
<1>11. ASSUME all # <<>>, NEW k \in DOMAIN group
       PROVE  Head(all) <= group[k] /\ group[k] <= Last(all)
  <2>1. PICK l \in 1..size : all[l] = group[k]
    BY <1>10
  <2>2. 1 <= l /\ l <= size
    BY <1>7
  <2> QED BY <1>8, <1>9, <1>11, <2>1, <2>2
<1>12. all # <<>> => /\ Head(all) \in Int /\ Last(all) \in Int /\ Head(all) <= Last(all)
  <2> SUFFICES ASSUME all # <<>>
               PROVE  Head(all) \in Int /\ Last(all) \in Int /\ Head(all) <= Last(all)
    OBVIOUS
  <2> QED BY <1>7, <1>8, <1>9
<1> QED BY <1>5, <1>6, <1>11, <1>12

\* A distribution describes every company of the rows it is made of.
LEMMA RowsAreDistributed ==
  ASSUME NEW r, r.bins \in Nat, r.bins > 0, r.feature \in Features,
         NEW found \in Seq(SampleRows)
  PROVE  DescribesDistribution(r, found, Distribution(r, found))
<1> DEFINE f == r.feature
           all == Sorted(Known(Column(found, f)))
           low == IF all = <<>> THEN 0 ELSE Head(all)
           high == IF all = <<>> THEN 0 ELSE Last(all)
           groups == Distribution(r, found)
           companies == {found[i].company_id : i \in DOMAIN found}
<1>1. ASSUME NEW company \in companies
      PROVE  DescribesGroup(groups[company], GroupValues(found, company, f), low, high)
  <2> DEFINE group == GroupValues(found, company, f)
             inside == AtPositions(group, {i \in DOMAIN group : ~IsTukeyOutlier(group, group[i])})
             box == groups[company]
             n == Len(group)
  <2>1. all = Sorted(Known([i \in DOMAIN found |-> found[i].values[f]]))
    BY Zenon DEF Column
  <2>2. box = [valid     |-> Len(group),
               missing   |-> Len(GroupRows(found, company)) - Len(group),
               outliers  |-> Len(group) - Len(inside),
               whiskers  |-> IF inside = <<>> THEN <<>> ELSE <<Head(inside), Last(inside)>>,
               histogram |-> Histogram(group, all, r.bins)]
    <3> HIDE DEF all
    <3> QED BY <2>1, Zenon DEF Distribution
  <2>3. /\ all \in Seq(Int) /\ group \in Seq(Int) /\ IsAscending(group, n)
        /\ all # <<>> =>
             /\ Head(all) \in Int /\ Last(all) \in Int /\ Head(all) <= Last(all)
             /\ \A i \in DOMAIN group : Head(all) <= group[i] /\ group[i] <= Last(all)
    <3> HIDE DEF all, group, f
    <3> QED BY GroupIsWithinAll DEF all, group, f
  <2> HIDE DEF groups, companies
  <2>4. all # <<>> => low = Head(all) /\ high = Last(all)
    OBVIOUS
  <2> HIDE DEF all, group, low, high
  <2>5. DescribesBins(Histogram(group, all, r.bins), group, low, high)
    BY <2>3, <2>4, HistogramAddsUp
  <2>6. DescribesWhiskers(box, group)
    <3> SUFFICES ASSUME group # <<>>
                 PROVE  /\ box.whiskers # <<>>
                        /\ box.outliers = Cardinality({i \in DOMAIN group :
                                            \/ group[i] < box.whiskers[1]
                                            \/ group[i] > box.whiskers[2]})
      BY DEF DescribesWhiskers
    <3>1. n \in Nat /\ n > 0
      BY <2>3, LenProperties, EmptySeq
    <3> DEFINE beyond == {i \in DOMAIN group : group[i] < Head(inside) \/ group[i] > Last(inside)}
    <3> HIDE DEF n
    <3>2. inside # <<>> /\ n - Len(inside) = Cardinality(beyond)
      BY <2>3, <3>1, WhiskersBound
    <3> HIDE DEF inside
    <3>3. box.whiskers = <<Head(inside), Last(inside)>> /\ box.outliers = n - Len(inside)
      BY <2>2, <3>2 DEF n
    <3>4. box.whiskers[1] = Head(inside) /\ box.whiskers[2] = Last(inside) /\ box.whiskers # <<>>
      BY <3>3
    <3> HIDE DEF box
    <3>5. beyond = {i \in DOMAIN group : \/ group[i] < box.whiskers[1]
                                         \/ group[i] > box.whiskers[2]}
      BY <3>4
    <3> QED BY <3>2, <3>3, <3>4, <3>5
  <2>7. box.valid = Len(group) /\ box.histogram = Histogram(group, all, r.bins)
    <3> HIDE DEF inside
    <3> QED BY <2>2
  <2> HIDE DEF box
  <2> QED BY <2>5, <2>6, <2>7 DEF DescribesGroup, box, group
<1>2. DOMAIN groups = companies
  BY DEF Distribution
<1> HIDE DEF groups, companies
<1>3. \A company \in DOMAIN groups :
        DescribesGroup(groups[company], GroupValues(found, company, r.feature), low, high)
  BY <1>1, <1>2
<1> QED BY <1>2, <1>3, Zenon DEF DescribesDistribution, groups, companies

\* The matrix of a correlation over the rows found.
LEMMA RowsAreCorrelated ==
  ASSUME NEW found \in Seq(SampleRows), NEW method,
         NEW matrix, matrix = [f \in Features |-> [g \in Features |->
                                  Correlate(method, found, f, g)]]
  PROVE  DescribesCorrelation(found, matrix)
<1> SUFFICES ASSUME NEW f \in Features, NEW g \in Features
             PROVE  /\ matrix[f][g] = matrix[g][f]
                    /\ IsCoefficient(matrix[f][g].coefficient)
                    /\ AreRanks(Ranks(Known(Column(found, f))), Known(Column(found, f)))
  BY DEF DescribesCorrelation
<1>1. matrix[f][g] = Correlate(method, found, f, g) /\ matrix[g][f] = Correlate(method, found, g, f)
  OBVIOUS
<1>2. /\ Correlate(method, found, f, g) = Correlate(method, found, g, f)
      /\ IsCoefficient(Correlate(method, found, f, g).coefficient)
  BY CorrelationCell
<1> DEFINE column == Column(found, f)
           known == Known(column)
           n == Len(found)
<1>3. n \in Nat /\ column \in [1..n -> Reading]
  BY ColumnOfRows
<1> HIDE DEF column, n
<1>4. known \in Seq(Int)
  BY <1>3, KnownIsSequence
<1> HIDE DEF known
<1>5. AreRanks(Ranks(known), known)
  BY <1>4, RanksAreRanks
<1> QED BY <1>1, <1>2, <1>5 DEF known, column

-----------------------------------------------------------------------------
(* Both, in an analysis of the rows that were read.                          *)

\* Nothing is repaired for a distribution or a correlation.
LEMMA NothingIsRepaired ==
  ASSUME NEW r, r.operation \notin {"missing", "clean"},
         NEW found \in Seq(SampleRows), found # <<>>
  PROVE  /\ AnalyzeClassificationData(r, found).processed = found
         /\ DOMAIN found[1].values = Features
<1> DEFINE n == Len(found)
           features == DOMAIN found[1].values
           before == [f \in features |-> [i \in DOMAIN found |-> found[i].values[f]]]
           after == [f \in features |-> CleanColumn(r, before[f])]
           processed == [i \in DOMAIN found |->
                          [found[i] EXCEPT !.values = [f \in features |-> after[f][i]]]]
<1>1. /\ n \in Nat /\ n > 0 /\ DOMAIN found = 1..n
      /\ \A i \in 1..n : found[i] \in SampleRows
  BY LenProperties, EmptySeq
<1>2. \A i \in 1..n : found[i].values \in [Features -> Reading]
  BY <1>1, ReadingsOfRows DEF SampleRows
<1>3. features = Features
  BY <1>1, <1>2
<1>4. AnalyzeClassificationData(r, found).processed = processed
  BY DEF AnalyzeClassificationData
<1> HIDE DEF features, n
<1>5. ASSUME NEW f \in features, NEW i \in 1..n
      PROVE  after[f][i] = found[i].values[f]
  <2>1. after[f] = CleanColumn(r, before[f])
    OBVIOUS
  <2>2. before[f][i] = found[i].values[f]
    BY <1>1
  <2> HIDE DEF before, after
  <2>3. CleanColumn(r, before[f]) = before[f]
    BY Zenon DEF CleanColumn
  <2> QED BY <2>1, <2>2, <2>3
<1> HIDE DEF after, before
<1>6. ASSUME NEW i \in 1..n PROVE processed[i] = found[i]
  <2> DEFINE values == [f \in features |-> after[f][i]]
  <2>1. found[i] \in SampleRows /\ found[i].values \in [Features -> Reading]
    BY <1>1, <1>2
  <2>2. values = found[i].values
    BY <1>3, <1>5, <2>1
  <2>3. processed[i] = [found[i] EXCEPT !.values = values]
    BY <1>1
  <2> HIDE DEF values, processed
  <2> QED BY <2>1, <2>2, <2>3 DEF SampleRows
<1>7. processed = found
  <2>1. DOMAIN processed = 1..n /\ processed = [i \in 1..n |-> processed[i]]
    BY <1>1
  <2>2. found = [i \in 1..n |-> found[i]]
    BY <1>1
  <2> HIDE DEF processed
  <2> QED BY <1>6, <2>1, <2>2
<1> QED BY <1>3, <1>4, <1>7 DEF features

\* What DistributionAddsUp says of an analysis of the rows found: each group
\* and each coefficient describes those rows and no others.
IsDescribedResult(req, found, analysis) ==
    /\ req.operation = "distribution" =>
         DescribesDistribution(req, found, analysis.groups)
    /\ req.operation = "correlation" =>
         DescribesCorrelation(found, analysis.correlation)

\* An analysis of classification rows keeps that, whatever its operation.
LEMMA RowsAreDescribed ==
  ASSUME NEW r, r.bins \in Nat, r.bins > 0, r.feature \in Features,
         NEW found \in Seq(SampleRows), found # <<>>
  PROVE  IsDescribedResult(r, found, AnalyzeClassificationData(r, found))
<1> DEFINE analysis == AnalyzeClassificationData(r, found)
           processed == analysis.processed
           features == DOMAIN found[1].values
<1>1. analysis.groups = IF r.operation = "distribution" THEN Distribution(r, processed) ELSE <<>>
  BY DEF AnalyzeClassificationData
<1>2. analysis.correlation =
        IF r.operation = "correlation"
        THEN [f \in features |-> [g \in features |-> Correlate(r.method, processed, f, g)]]
        ELSE <<>>
  BY DEF AnalyzeClassificationData
<1>3. r.operation \notin {"missing", "clean"} => processed = found /\ features = Features
  <2> HIDE DEF analysis
  <2> QED BY NothingIsRepaired DEF analysis
<1> HIDE DEF analysis, features
<1>4. ASSUME r.operation = "distribution"
      PROVE  DescribesDistribution(r, found, analysis.groups)
  <2>1. analysis.groups = Distribution(r, found)
    BY <1>1, <1>3, <1>4
  <2> QED BY <2>1, RowsAreDistributed
<1>5. ASSUME r.operation = "correlation"
      PROVE  DescribesCorrelation(found, analysis.correlation)
  <2>1. analysis.correlation = [f \in Features |-> [g \in Features |->
                                  Correlate(r.method, found, f, g)]]
    BY <1>2, <1>3, <1>5
  <2> QED BY <2>1, RowsAreCorrelated
<1> QED BY <1>4, <1>5 DEF IsDescribedResult, analysis

-----------------------------------------------------------------------------
(* The invariant.                                                            *)

StoreIsSound ==
    /\ DOMAIN store = {"companies", "samples", "runs", "models"}
    /\ SamplesAreSound(store.samples)
    /\ VersionsAreSound(store)

NotAnsweredYet == stage = "arrived" => answer = Unanswered

RequestIsParsed ==
    stage \in {"accepted", "loaded", "saving"} =>
      /\ Parse(Route(message), message).ok
      /\ request = Parse(Route(message), message).request

\* What the worker may rely on of the rows it is handed.
RowsAreLoaded ==
    stage \in {"loaded", "saving"} =>
      /\ rows \in Seq(SampleRows)
      /\ request.kind = "classification" =>
           /\ rows # <<>> /\ Len(rows) <= ClassificationRowLimit
           /\ request.cleaning_run_id > 0 => VersionFits(store, request)
      /\ request.kind = "trace" /\ request.cleaning_run_id # 0 => IsComplete(rows[1])

\* What is about to be saved.
ResultIsReady ==
    stage = "saving" =>
      /\ request.kind = "classification" /\ request.persist
      /\ result.processed \in Seq(SampleRows)
      /\ Len(result.processed) = Len(rows)
      /\ \A i \in DOMAIN rows :
           /\ result.processed[i].id = rows[i].id
           /\ result.processed[i].company_id = rows[i].company_id
           /\ rows[i].company_id = request.company_id
           /\ IsComplete(result.processed[i])

ServerInv ==
    /\ message \in Messages
    /\ StoreIsSound
    /\ NotAnsweredYet
    /\ RequestIsParsed
    /\ RowsAreLoaded
    /\ ResultIsReady
    /\ RowsAreInScope
    /\ FailuresAreExplained
    /\ SavedVersionsAreUsable

LEMMA RequestFacts ==
  ASSUME ServerInv, stage \in {"accepted", "loaded", "saving"}
  PROVE  /\ request.kind = "overview" => request.dataset \in Datasets
         /\ request.kind = "forecast" =>
              /\ request.dataset \in Datasets /\ request.operation \in ForecastOperations
              /\ request.window \in Nat /\ request.window >= 2
              /\ request.horizon \in Nat /\ request.horizon > 0
              /\ request.feature \in Features
         /\ request.kind = "trace" =>
              request.dataset \in Datasets /\ request.cleaning_run_id \in Nat
         /\ request.kind = "predict" =>
              request.dataset \in Datasets /\ request.end_sample_id \in Nat
         /\ request.kind = "classification" =>
              /\ request.dataset \in Datasets
              /\ request.company_id \in Int
              /\ request.cleaning_run_id \in Nat
              /\ request.window \in Nat /\ request.window >= 2
              /\ request.bins \in Nat /\ request.bins > 0 /\ request.feature \in Features
              /\ request.persist => request.operation \in {"missing", "clean"}
              /\ IsComparison(request) => request.cleaning_run_id = 0
<1> DEFINE handler == Route(message)
<1>1. FieldsAreTyped(message)
  BY MessagesAssumption DEF ServerInv
<1>2. /\ Parse(handler, message).ok
      /\ request = Parse(handler, message).request
      /\ request.kind = handler
  BY ParsedKind DEF ServerInv, RequestIsParsed
<1>3. ASSUME request.kind = "overview" PROVE request.dataset \in Datasets
  <2>1. Parse("overview", message).ok /\ request = Parse("overview", message).request
    BY <1>2, <1>3
  <2> QED BY <2>1, OverviewRequest
<1>4. ASSUME request.kind = "forecast"
      PROVE  /\ request.dataset \in Datasets /\ request.operation \in ForecastOperations
             /\ request.window \in Nat /\ request.window >= 2
             /\ request.horizon \in Nat /\ request.horizon > 0
             /\ request.feature \in Features
  <2>1. Parse("forecast", message).ok /\ request = Parse("forecast", message).request
    BY <1>2, <1>4
  <2>2. Route(message) = "forecast"
    BY <1>2, <1>4
  <2> QED BY <2>1, <2>2, ForecastRequest, ForecastOperation
<1>5. ASSUME request.kind = "trace"
      PROVE  request.dataset \in Datasets /\ request.cleaning_run_id \in Nat
  <2>1. Parse("trace", message).ok /\ request = Parse("trace", message).request
    BY <1>2, <1>5
  <2> QED BY <1>1, <2>1, TraceRequest
<1>6. ASSUME request.kind = "predict"
      PROVE  request.dataset \in Datasets /\ request.end_sample_id \in Nat
  <2>1. Parse("predict", message).ok /\ request = Parse("predict", message).request
    BY <1>2, <1>6
  <2> QED BY <1>1, <2>1, PredictionRequest
<1>7. ASSUME request.kind = "classification"
      PROVE  /\ request.dataset \in Datasets
             /\ request.company_id \in Int
             /\ request.cleaning_run_id \in Nat
             /\ request.window \in Nat /\ request.window >= 2
             /\ request.bins \in Nat /\ request.bins > 0 /\ request.feature \in Features
             /\ request.persist => request.operation \in {"missing", "clean"}
             /\ IsComparison(request) => request.cleaning_run_id = 0
  <2>1. /\ Parse("classification", message).ok
        /\ request = Parse("classification", message).request
    BY <1>2, <1>7
  <2> QED BY <1>1, <2>1, ClassificationRequest
<1> QED BY <1>3, <1>4, <1>5, <1>6, <1>7

LEMMA InitInv == Init => ServerInv
<1> SUFFICES ASSUME Init PROVE ServerInv
  OBVIOUS
<1>1. PICK m \in FirstMessages : message = m /\ store \in StoresFor(m)
  BY DEF Init
<1>2. message \in Messages
  BY <1>1, MessagesAssumption
<1>3. /\ DOMAIN store = {"companies", "samples", "runs", "models"}
      /\ SamplesAreSound(store.samples)
      /\ store.runs = <<>>
  BY <1>1, StoresAssumption
<1>4. DOMAIN store.runs = {} /\ store.runs \in Seq(Versions)
  BY <1>3, EmptySeq
<1>5. VersionsAreSound(store) /\ \A id \in DOMAIN store.runs : VersionIsUsable(store, id)
  BY <1>4 DEF VersionsAreSound
<1>6. stage = "arrived" /\ answer.status = 0 /\ answer.error = "none"
  BY DEF Init, Unanswered
<1>7. NotAnsweredYet
  BY DEF Init, NotAnsweredYet
<1> QED BY <1>2, <1>3, <1>5, <1>6, <1>7
        DEF ServerInv, StoreIsSound, RequestIsParsed, RowsAreLoaded, ResultIsReady,
            RowsAreInScope, FailuresAreExplained, SavedVersionsAreUsable

\* An answer ends the work on a request.
LEMMA AnsweringKeepsInv ==
  ASSUME ServerInv, store' = store, message' = message, stage' = "answered",
         answer'.status = 500 => answer'.error = "INFERENCE_ERROR",
         answer'.error = "INVALID_TRACE_SAMPLE" => request'.cleaning_run_id = 0
  PROVE  ServerInv'
<1>1. stage' \notin {"accepted", "loaded", "saving"}
  OBVIOUS
<1>2. RequestIsParsed' /\ RowsAreLoaded' /\ ResultIsReady' /\ RowsAreInScope'
  BY <1>1 DEF RequestIsParsed, RowsAreLoaded, ResultIsReady, RowsAreInScope
<1>3. (message \in Messages)' /\ StoreIsSound' /\ NotAnsweredYet'
  BY DEF ServerInv, StoreIsSound, NotAnsweredYet
<1>4. FailuresAreExplained'
  BY DEF FailuresAreExplained
<1>5. SavedVersionsAreUsable'
  BY DEF ServerInv, SavedVersionsAreUsable
<1> QED BY <1>2, <1>3, <1>4, <1>5 DEF ServerInv

\* The worker gets its rows.
LEMMA HandingOverKeepsInv ==
  ASSUME ServerInv, stage = "accepted", stage' = "loaded",
         UNCHANGED <<store, message, request, answer>>,
         rows' \in Seq(SampleRows), AreWhatWasAsked(store, request, rows'),
         request.kind = "classification" =>
           /\ rows' # <<>> /\ Len(rows') <= ClassificationRowLimit
           /\ request.cleaning_run_id > 0 => VersionFits(store, request),
         request.kind = "trace" /\ request.cleaning_run_id # 0 => IsComplete(rows'[1])
  PROVE  ServerInv'
<1>1. RequestIsParsed'
  BY DEF ServerInv, RequestIsParsed
<1>2. RowsAreLoaded'
  BY DEF RowsAreLoaded
<1>3. ResultIsReady'
  BY DEF ResultIsReady
<1>4. RowsAreInScope'
  BY DEF RowsAreInScope, AreWhatWasAsked
<1>5. (message \in Messages)' /\ StoreIsSound' /\ NotAnsweredYet'
  BY DEF ServerInv, StoreIsSound, NotAnsweredYet
<1>6. FailuresAreExplained' /\ SavedVersionsAreUsable'
  BY DEF ServerInv, FailuresAreExplained, SavedVersionsAreUsable
<1> QED BY <1>1, <1>2, <1>3, <1>4, <1>5, <1>6 DEF ServerInv

LEMMA FailureIsAnswered ==
  ASSUME ServerInv, NEW error, error # "invalid_argument",
         error \in {"length_error", "out_of_range", "invalid_argument"},
         AnswerFailure(error), store' = store, message' = message
  PROVE  ServerInv'
<1>1. Answer(413, "DATASET_TOO_LARGE") \/ Answer(404, "DATA_NOT_FOUND")
  BY DEF AnswerFailure
<1> QED BY <1>1, AnsweringKeepsInv DEF Answer

LEMMA LoadPreviewKeepsInv ==
  ASSUME ServerInv, LoadPreview
  PROVE  ServerInv'
<1> DEFINE found == LoadOverview(store, request)
<1>1. request.dataset \in DOMAIN SplitOf
  BY RequestFacts, EveryDatasetHasASplit DEF LoadPreview
<1>2. ~found.ok => found.error = "out_of_range"
  BY <1>1 DEF LoadOverview, Found, Failed
<1>3. CASE found.ok
  <2>1. Answer(200, "none") /\ store' = store /\ message' = message
    BY <1>3 DEF LoadPreview
  <2> QED BY <2>1, AnsweringKeepsInv DEF Answer
<1>4. CASE ~found.ok
  <2>1. AnswerFailure(found.error) /\ store' = store /\ message' = message
    BY <1>4 DEF LoadPreview
  <2> QED BY <1>2, <1>4, <2>1, FailureIsAnswered
<1> QED BY <1>3, <1>4

LEMMA LoadForForecastKeepsInv ==
  ASSUME ServerInv, LoadForAnalysis, request.kind = "forecast"
  PROVE  ServerInv'
<1> DEFINE found == LoadForecastSamples(store, request)
<1>1. /\ request.dataset \in DOMAIN SplitOf
      /\ request.operation \in ForecastOperations
  BY RequestFacts, EveryDatasetHasASplit DEF LoadForAnalysis
<1>2. found.ok
  BY <1>1 DEF LoadForecastSamples, Found, Failed
<1>3. /\ stage = "accepted"
      /\ UNCHANGED <<store, message, request, result>>
      /\ \/ Answer(404, "COMPANY_NOT_FOUND")
         \/ Len(found.rows) > ForecastRowLimit /\ Answer(413, "DATASET_TOO_LARGE")
         \/ ~(Len(found.rows) > ForecastRowLimit) /\ HandOver(found.rows)
  BY <1>2 DEF LoadForAnalysis
<1>4. CASE Answer(404, "COMPANY_NOT_FOUND") \/ Answer(413, "DATASET_TOO_LARGE")
  BY <1>3, <1>4, AnsweringKeepsInv DEF Answer
<1>5. CASE ~(Len(found.rows) > ForecastRowLimit) /\ HandOver(found.rows)
  <2>1. SamplesAreSound(store.samples)
    BY DEF ServerInv, StoreIsSound
  <2>2. found.rows \in Seq(SampleRows) /\ AreWhatWasAsked(store, request, found.rows)
    BY <1>1, <1>2, <1>5, <2>1, ForecastLoad
  <2>3. rows' = found.rows /\ stage' = "loaded" /\ answer' = answer
    BY <1>5 DEF HandOver
  <2>4. request.kind # "classification" /\ request.kind # "trace"
    OBVIOUS
  <2> HIDE DEF found
  <2> QED BY <1>3, <2>2, <2>3, <2>4, HandingOverKeepsInv
<1> QED BY <1>3, <1>4, <1>5

LEMMA LoadForClassificationKeepsInv ==
  ASSUME ServerInv, LoadForAnalysis, request.kind = "classification"
  PROVE  ServerInv'
<1> DEFINE found == LoadClassificationSamples(store, request)
<1>1. /\ request.dataset \in DOMAIN SplitOf
      /\ request.cleaning_run_id \in Nat
      /\ IsComparison(request) => request.cleaning_run_id = 0
  BY RequestFacts, EveryDatasetHasASplit DEF LoadForAnalysis
<1>2. ~found.ok => found.error \in {"out_of_range", "length_error"}
  BY <1>1 DEF LoadClassificationSamples, Found, Failed
<1>3. /\ stage = "accepted"
      /\ UNCHANGED <<store, message, request, result>>
      /\ \/ Answer(404, "COMPANY_NOT_FOUND")
         \/ ~found.ok /\ AnswerFailure(found.error)
         \/ found.ok /\ HandOver(found.rows)
  BY DEF LoadForAnalysis
<1>4. CASE Answer(404, "COMPANY_NOT_FOUND")
  BY <1>3, <1>4, AnsweringKeepsInv DEF Answer
<1>5. CASE ~found.ok /\ AnswerFailure(found.error)
  BY <1>2, <1>3, <1>5, FailureIsAnswered
<1>6. CASE found.ok /\ HandOver(found.rows)
  <2>1. SamplesAreSound(store.samples) /\ VersionsAreSound(store)
    BY DEF ServerInv, StoreIsSound
  <2>2. /\ found.rows \in Seq(SampleRows)
        /\ AreWhatWasAsked(store, request, found.rows)
        /\ found.rows # <<>> /\ Len(found.rows) <= ClassificationRowLimit
        /\ request.cleaning_run_id > 0 => VersionFits(store, request)
    BY <1>1, <1>6, <2>1, ClassificationLoad
  <2>3. rows' = found.rows /\ stage' = "loaded" /\ answer' = answer
    BY <1>6 DEF HandOver
  <2>4. request.kind # "trace"
    OBVIOUS
  <2> HIDE DEF found
  <2> QED BY <1>3, <2>2, <2>3, <2>4, HandingOverKeepsInv
<1> QED BY <1>3, <1>4, <1>5, <1>6

LEMMA LoadSampleKeepsInv ==
  ASSUME ServerInv, LoadSample
  PROVE  ServerInv'
<1> DEFINE found == IF request.cleaning_run_id = 0 THEN FindSample(store, request)
                    ELSE FindCleanedSample(store, request)
<1>1. /\ request.kind = "trace" /\ request.dataset \in Datasets
      /\ request.cleaning_run_id \in Nat
  BY RequestFacts DEF LoadSample
<1>2. found.ok
  BY <1>1, EveryDatasetHasASplit DEF FindSample, FindCleanedSample, Found, Failed
<1>3. /\ stage = "accepted"
      /\ UNCHANGED <<store, message, request, result>>
      /\ \/ Answer(404, "TRACE_SAMPLE_NOT_FOUND")
         \/ found.rows # <<>> /\ HandOver(found.rows)
  BY <1>2 DEF LoadSample
<1>4. CASE Answer(404, "TRACE_SAMPLE_NOT_FOUND")
  BY <1>3, <1>4, AnsweringKeepsInv DEF Answer
<1>5. CASE found.rows # <<>> /\ HandOver(found.rows)
  <2>1. SamplesAreSound(store.samples) /\ VersionsAreSound(store)
    BY DEF ServerInv, StoreIsSound
  <2>2. /\ found.rows \in Seq(SampleRows)
        /\ AreWhatWasAsked(store, request, found.rows)
        /\ request.cleaning_run_id # 0 => IsComplete(found.rows[1])
    <3>1. CASE request.cleaning_run_id = 0
      <4>1. found = FindSample(store, request)
        BY <3>1
      <4> HIDE DEF found
      <4> QED BY <1>1, <1>5, <2>1, <3>1, <4>1, TableSample
    <3>2. CASE request.cleaning_run_id # 0
      <4>1. found = FindCleanedSample(store, request)
        BY <3>2
      <4> HIDE DEF found
      <4> QED BY <1>1, <1>5, <2>1, <3>2, <4>1, VersionSample
    <3> QED BY <3>1, <3>2
  <2>3. rows' = found.rows /\ stage' = "loaded" /\ answer' = answer
    BY <1>5 DEF HandOver
  <2>4. request.kind # "classification"
    BY <1>1
  <2> HIDE DEF found
  <2> QED BY <1>3, <2>2, <2>3, <2>4, HandingOverKeepsInv
<1> QED BY <1>3, <1>4, <1>5

LEMMA LoadHistoryKeepsInv ==
  ASSUME ServerInv, LoadHistory
  PROVE  ServerInv'
<1> DEFINE found == LoadForecastWindow(store, request)
<1>1. /\ request.kind = "predict" /\ request.dataset \in Datasets
      /\ request.end_sample_id \in Nat
  BY RequestFacts DEF LoadHistory
<1>2. found.ok
  BY <1>1, EveryDatasetHasASplit DEF LoadForecastWindow, Found, Failed
<1>3. /\ stage = "accepted"
      /\ UNCHANGED <<store, message, request, result>>
      /\ \/ Answer(404, "COMPANY_NOT_FOUND")
         \/ Answer(404, "FORECAST_SAMPLE_NOT_FOUND")
         \/ Answer(422, "INSUFFICIENT_HISTORY")
         \/ /\ request.end_sample_id > 0 => Last(found.rows).id = request.end_sample_id
            /\ Len(found.rows) = Lookback
            /\ HandOver(found.rows)
  BY <1>2 DEF LoadHistory
<1>4. CASE \/ Answer(404, "COMPANY_NOT_FOUND")
           \/ Answer(404, "FORECAST_SAMPLE_NOT_FOUND")
           \/ Answer(422, "INSUFFICIENT_HISTORY")
  BY <1>3, <1>4, AnsweringKeepsInv DEF Answer
<1>5. CASE /\ request.end_sample_id > 0 => Last(found.rows).id = request.end_sample_id
           /\ Len(found.rows) = Lookback
           /\ HandOver(found.rows)
  <2>1. SamplesAreSound(store.samples)
    BY DEF ServerInv, StoreIsSound
  <2>2. /\ found.rows \in Seq(SampleRows)
        /\ AreWhatWasAsked(store, request, found.rows)
    BY <1>1, <1>5, <2>1, HistoryLoad
  <2>3. rows' = found.rows /\ stage' = "loaded" /\ answer' = answer
    BY <1>5 DEF HandOver
  <2>4. request.kind # "classification" /\ request.kind # "trace"
    BY <1>1
  <2> HIDE DEF found
  <2> QED BY <1>3, <2>2, <2>3, <2>4, HandingOverKeepsInv
<1> QED BY <1>3, <1>4, <1>5

LEMMA AcceptKeepsInv ==
  ASSUME ServerInv, Accept
  PROVE  ServerInv'
<1>1. /\ Parse(Route(message), message).ok
      /\ request' = Parse(Route(message), message).request
      /\ stage' = "accepted"
      /\ UNCHANGED <<store, message, rows, result, answer, served>>
      /\ stage = "arrived"
  BY DEF Accept
<1>2. RequestIsParsed' /\ RowsAreLoaded' /\ ResultIsReady' /\ RowsAreInScope'
  BY <1>1 DEF RequestIsParsed, RowsAreLoaded, ResultIsReady, RowsAreInScope
<1>3. /\ (message \in Messages)' /\ StoreIsSound' /\ FailuresAreExplained'
      /\ NotAnsweredYet'
  BY <1>1 DEF ServerInv, StoreIsSound, FailuresAreExplained, NotAnsweredYet
<1>4. answer.error # "INVALID_TRACE_SAMPLE"
  BY <1>1 DEF ServerInv, NotAnsweredYet, Unanswered
<1>5. SavedVersionsAreUsable'
  BY <1>1, <1>4 DEF ServerInv, SavedVersionsAreUsable
<1> QED BY <1>2, <1>3, <1>5 DEF ServerInv

\* The analysis of a classification request is answered, refused, or saved when
\* every column is complete.
LEMMA AnalyzeClassificationKeepsInv ==
  ASSUME ServerInv, AnalyzeClassification
  PROVE  ServerInv'
<1>1. /\ stage = "loaded" /\ request.kind = "classification"
      /\ ClassificationRowsAreValid(request, rows)
      /\ result' = AnalyzeClassificationData(request, rows)
      /\ UNCHANGED <<store, message, request, rows, served>>
      /\ \/ Answer(200, "none")
         \/ Answer(422, "UNRESOLVED_MISSING_VALUES")
         \/ /\ request.persist /\ ~Unresolved(result')
            /\ stage' = "saving" /\ UNCHANGED answer
  BY DEF AnalyzeClassification
<1>2. CASE Answer(200, "none") \/ Answer(422, "UNRESOLVED_MISSING_VALUES")
  BY <1>1, <1>2, AnsweringKeepsInv DEF Answer
<1>3. CASE /\ request.persist /\ ~Unresolved(result')
           /\ stage' = "saving" /\ UNCHANGED answer
  <2>1. /\ rows \in Seq(SampleRows) /\ rows # <<>>
        /\ request.window \in Nat /\ request.window >= 2
        /\ request.operation \in {"missing", "clean"}
    BY <1>1, <1>3, RequestFacts DEF ServerInv, RowsAreLoaded
  <2>2. /\ result'.processed \in Seq(SampleRows)
        /\ Len(result'.processed) = Len(rows)
        /\ \A i \in DOMAIN rows :
             /\ result'.processed[i].id = rows[i].id
             /\ result'.processed[i].company_id = rows[i].company_id
             /\ IsComplete(result'.processed[i])
    BY <1>1, <1>3, <2>1, ProcessedRows
  <2>3. ~IsComparison(request)
    BY <2>1 DEF IsComparison
  <2>4. \A i \in DOMAIN rows : rows[i].company_id = request.company_id
    BY <1>1, <2>3 DEF ClassificationRowsAreValid
  <2>5. ResultIsReady'
    BY <1>1, <1>3, <2>2, <2>4 DEF ResultIsReady
  <2>6. RequestIsParsed'
    BY <1>1, <1>3 DEF ServerInv, RequestIsParsed
  <2>7. RowsAreLoaded'
    BY <1>1, <1>3 DEF ServerInv, RowsAreLoaded
  <2>8. RowsAreInScope'
    BY <1>1, <1>3 DEF ServerInv, RowsAreInScope
  <2>9. /\ (message \in Messages)' /\ StoreIsSound' /\ FailuresAreExplained'
        /\ NotAnsweredYet'
    BY <1>1, <1>3 DEF ServerInv, StoreIsSound, FailuresAreExplained, NotAnsweredYet
  <2>10. SavedVersionsAreUsable'
    BY <1>1, <1>3 DEF ServerInv, SavedVersionsAreUsable
  <2> QED BY <2>5, <2>6, <2>7, <2>8, <2>9, <2>10 DEF ServerInv
<1> QED BY <1>1, <1>2, <1>3

\* A sample of a version is complete, so that only a raw one can be refused.
LEMMA ClassifyKeepsInv ==
  ASSUME ServerInv, Classify
  PROVE  ServerInv'
<1>1. /\ stage = "loaded" /\ request.kind = "trace"
      /\ UNCHANGED <<store, message, request, rows, served>>
      /\ \/ ~IsComplete(rows[1]) /\ Answer(422, "INVALID_TRACE_SAMPLE")
         \/ Answer(200, "none")
         \/ Answer(500, "INFERENCE_ERROR")
  BY DEF Classify
<1>2. ~IsComplete(rows[1]) => request.cleaning_run_id = 0
  BY <1>1 DEF ServerInv, RowsAreLoaded
<1> QED BY <1>1, <1>2, AnsweringKeepsInv DEF Answer

LEMMA PredictKeepsInv ==
  ASSUME ServerInv, Predict
  PROVE  ServerInv'
<1>1. /\ UNCHANGED <<store, message, request, rows, served>>
      /\ \/ Answer(422, "INVALID_FORECAST_HISTORY")
         \/ Answer(200, "none")
         \/ Answer(500, "INFERENCE_ERROR")
  BY DEF Predict
<1> QED BY <1>1, AnsweringKeepsInv DEF Answer

LEMMA NextMessageKeepsInv ==
  ASSUME ServerInv, NextMessage
  PROVE  ServerInv'
<1>1. /\ message' \in FollowUps(message)
      /\ stage' = "arrived" /\ store' = store /\ answer' = Unanswered
      /\ answer'.status = 0 /\ answer'.error = "none"
  BY DEF NextMessage, Unanswered
<1>2. message' \in Messages
  BY <1>1, MessagesAssumption DEF ServerInv
<1>3. RequestIsParsed' /\ RowsAreLoaded' /\ ResultIsReady' /\ RowsAreInScope'
  BY <1>1 DEF RequestIsParsed, RowsAreLoaded, ResultIsReady, RowsAreInScope
<1>4. /\ StoreIsSound' /\ FailuresAreExplained' /\ SavedVersionsAreUsable'
      /\ NotAnsweredYet'
  BY <1>1 DEF ServerInv, StoreIsSound, FailuresAreExplained, SavedVersionsAreUsable,
              NotAnsweredYet
<1> QED BY <1>2, <1>3, <1>4 DEF ServerInv

\* The snapshot a request hands to the repository is never refused, and what is
\* stored can be read by every later request.
LEMMA SaveKeepsInv ==
  ASSUME ServerInv, Save
  PROVE  ServerInv'
<1> DEFINE processed == result.processed
           n == Len(rows)
           size == Len(store.runs)
           changed == {i \in DOMAIN processed : processed[i].values # rows[i].values}
           version == [company_id |-> request.company_id,
                       split |-> SplitOf[request.dataset],
                       parent |-> request.cleaning_run_id, rows |-> processed,
                       changed |-> Cardinality(changed)]
<1>1. /\ stage = "saving"
      /\ UNCHANGED <<message, request, rows, result, served>>
  BY DEF Save
<1>2. /\ request.kind = "classification"
      /\ processed \in Seq(SampleRows) /\ Len(processed) = n
      /\ rows \in Seq(SampleRows) /\ rows # <<>>
      /\ n <= ClassificationRowLimit
      /\ request.persist
      /\ request.cleaning_run_id > 0 => VersionFits(store, request)
  BY <1>1 DEF ServerInv, RowsAreLoaded, ResultIsReady
<1>3. /\ request.operation \in {"missing", "clean"}
      /\ request.dataset \in DOMAIN SplitOf
      /\ request.company_id \in Int /\ request.cleaning_run_id \in Nat
  BY <1>1, <1>2, RequestFacts, EveryDatasetHasASplit
<1>4. /\ n \in Nat /\ n > 0
      /\ DOMAIN rows = 1..n /\ DOMAIN processed = 1..n
      /\ \A i \in 1..n : rows[i] \in SampleRows
  BY <1>2, LenProperties, EmptySeq
<1>5. \A i \in 1..n :
        /\ processed[i].id = rows[i].id
        /\ processed[i].company_id = rows[i].company_id
        /\ rows[i].company_id = request.company_id
        /\ IsComplete(processed[i])
  BY <1>1, <1>4 DEF ServerInv, ResultIsReady
<1>6. \A i \in 1..n : processed[i].id > 0
  <2>1. \A i \in 1..n : rows[i].id \in Nat \ {0}
    BY <1>4 DEF SampleRows
  <2> HIDE DEF n, processed
  <2> QED BY <1>5, <2>1
<1>7. SnapshotIsValid(request, rows, processed)
  <2>1. processed # <<>>
    BY <1>2, <1>4
  <2> HIDE DEF processed
  <2> QED BY <1>2, <1>3, <1>4, <1>5, <1>6, <2>1 DEF SnapshotIsValid
<1>8. /\ store' = SaveVersion(store, request, rows, processed)
      /\ Answer(200, "none")
  BY <1>7 DEF Save
<1>9. /\ DOMAIN store = {"companies", "samples", "runs", "models"}
      /\ SamplesAreSound(store.samples)
      /\ store.runs \in Seq(Versions)
      /\ \A id \in DOMAIN store.runs :
           VersionIsUsable(store, id) /\ IsOrderedVersion(store.runs[id])
  BY DEF ServerInv, StoreIsSound, VersionsAreSound
<1>10. /\ DOMAIN store' = DOMAIN store
       /\ store'.samples = store.samples
       /\ store'.runs = Append(store.runs, version)
  <2>1. store' = [store EXCEPT !.runs = Append(store.runs, version)]
    BY <1>8 DEF SaveVersion
  <2> HIDE DEF version
  <2> QED BY <1>9, <2>1
<1>11. version \in Versions
  <2>1. IsFiniteSet(1..n)
    <3> HIDE DEF n
    <3> QED BY <1>4, FS_Interval
  <2>2. changed \subseteq 1..n
    BY <1>4
  <2> HIDE DEF changed, n
  <2>3. Cardinality(changed) \in Nat
    BY <2>1, <2>2, FS_Subset, FS_CardinalityType
  <2>4. SplitOf[request.dataset] \in Range(SplitOf)
    BY <1>3 DEF Range
  <2> HIDE DEF processed
  <2> QED BY <1>2, <1>3, <2>3, <2>4 DEF Versions
<1> HIDE DEF version
<1>12. /\ size \in Nat /\ DOMAIN store.runs = 1..size
       /\ store'.runs \in Seq(Versions)
       /\ DOMAIN store'.runs = 1..size + 1
       /\ \A id \in 1..size : store'.runs[id] = store.runs[id]
       /\ store'.runs[size + 1] = version
  BY <1>9, <1>10, <1>11, AppendProperties, LenProperties
<1>13. ASSUME NEW id \in 1..size
       PROVE  VersionIsUsable(store', id)
  <2>1. VersionIsUsable(store, id) /\ store'.runs[id] = store.runs[id]
    BY <1>9, <1>12
  <2>2. store.runs[id] \in Versions
    BY <1>9, <1>12, ElementOfSeq
  <2>3. store.runs[id].parent \in Nat
    BY <2>2 DEF Versions
  <2>4. store.runs[id].parent > 0 =>
          store'.runs[store.runs[id].parent] = store.runs[store.runs[id].parent]
    <3> SUFFICES ASSUME store.runs[id].parent > 0
                 PROVE  store.runs[id].parent \in 1..size
      BY <1>12
    <3>1. store.runs[id].parent < id
      BY <2>1 DEF VersionIsUsable
    <3> QED BY <1>12, <2>3, <3>1
  <2>5. IdsOf(store', store.runs[id]) = IdsOf(store, store.runs[id])
    BY <1>10 DEF IdsOf
  <2> QED BY <2>1, <2>4, <2>5 DEF VersionIsUsable
<1>14. VersionIsUsable(store', size + 1)
  <2>1. version.rows = processed /\ version.parent = request.cleaning_run_id
        /\ version.company_id = request.company_id
        /\ version.split = SplitOf[request.dataset]
    BY DEF version
  <2>2. {processed[i].id : i \in 1..n} = {rows[i].id : i \in 1..n}
    <3> HIDE DEF processed, n
    <3> QED BY <1>5
  <2>3. {rows[i].id : i \in DOMAIN rows} = IdsInScope(store, request)
    <3>1. IsInScope(store, request, rows)
      BY <1>1 DEF ServerInv, RowsAreInScope
    <3>2. ~IsComparison(request)
      BY <1>3 DEF IsComparison
    <3>3. request.kind # "trace" /\ request.kind # "predict"
      BY <1>2
    <3> QED BY <3>1, <3>2, <3>3, Zenon DEF IsInScope
  <2>4. IdsInScope(store, request) = IdsOf(store', version)
    <3>1. request.kind # "trace"
      BY <1>2
    <3> QED BY <1>10, <2>1, <3>1 DEF IdsInScope, IdsOf
  <2>5. {processed[i].id : i \in DOMAIN processed} = IdsOf(store', version)
    <3> HIDE DEF processed, n
    <3> QED BY <1>4, <2>2, <2>3, <2>4
  <2>6. ASSUME version.parent > 0
        PROVE  /\ version.parent < size + 1
               /\ store'.runs[version.parent].company_id = version.company_id
               /\ store'.runs[version.parent].split = version.split
    <3>1. VersionFits(store, request)
      BY <1>2, <2>1, <2>6
    <3>2. version.parent \in 1..size
      BY <1>12, <2>1, <3>1 DEF VersionFits
    <3> QED BY <1>12, <2>1, <3>1, <3>2 DEF VersionFits
  <2>7. \A i \in DOMAIN processed : IsComplete(processed[i])
    BY <1>4, <1>5
  <2> HIDE DEF processed
  <2> QED BY <1>12, <2>1, <2>5, <2>6, <2>7 DEF VersionIsUsable
<1>15. VersionsAreSound(store')
  <2>1. ASSUME NEW id \in 1..size + 1
        PROVE  VersionIsUsable(store', id) /\ IsOrderedVersion(store'.runs[id])
    <3>1. id \in 1..size \/ id = size + 1
      BY <1>12
    <3>2. ASSUME id \in 1..size
          PROVE  IsOrderedVersion(store'.runs[id])
      BY <1>9, <1>12, <3>2
    <3>3. IsOrderedVersion(version)
      <4>1. version.rows = processed /\ version.company_id = request.company_id
        BY DEF version
      <4>2. AreInOrder(request, rows)
        BY <1>1 DEF ServerInv, RowsAreInScope
      <4>3. \A i, j \in 1..n : i < j => rows[i].id < rows[j].id
        <5>1. \A i \in 1..n : rows[i].company_id \in Int /\ rows[i].company_id = request.company_id
          BY <1>4, <1>5 DEF SampleRows
        <5> QED BY <1>2, <1>4, <4>2, <5>1 DEF AreInOrder
      <4> HIDE DEF processed, n
      <4> QED BY <1>4, <1>5, <4>1, <4>3 DEF IsOrderedVersion
    <3> QED BY <1>12, <1>13, <1>14, <3>1, <3>2, <3>3
  <2> QED BY <1>12, <2>1 DEF VersionsAreSound
<1>16. StoreIsSound'
  BY <1>9, <1>10, <1>15 DEF StoreIsSound
<1>17. stage' = "answered" /\ answer'.status = 200 /\ answer'.error = "none"
  BY <1>8 DEF Answer
<1>18. RequestIsParsed' /\ RowsAreLoaded' /\ ResultIsReady' /\ RowsAreInScope'
  BY <1>17 DEF RequestIsParsed, RowsAreLoaded, ResultIsReady, RowsAreInScope
<1>19. FailuresAreExplained' /\ SavedVersionsAreUsable'
  BY <1>15, <1>17 DEF FailuresAreExplained, SavedVersionsAreUsable, VersionsAreSound
<1>20. message' \in Messages /\ NotAnsweredYet'
  BY <1>1, <1>17 DEF ServerInv, NotAnsweredYet
<1> QED BY <1>16, <1>18, <1>19, <1>20 DEF ServerInv

LEMMA NextInv == ServerInv /\ [Next]_vars => ServerInv'
<1> SUFFICES ASSUME ServerInv, [Next]_vars PROVE ServerInv'
  OBVIOUS
<1>1. CASE NotRouted
  BY <1>1, AnsweringKeepsInv DEF NotRouted, Answer
<1>2. CASE AnswerDirectly
  BY <1>2, AnsweringKeepsInv DEF AnswerDirectly, Answer
<1>3. CASE Refuse
  <2>1. /\ store' = store /\ message' = message
        /\ Answer(400, "INVALID_ARGUMENT") \/ Answer(503, "INFERENCE_UNAVAILABLE")
    BY <1>3 DEF Refuse
  <2> QED BY <2>1, AnsweringKeepsInv DEF Answer
<1>4. CASE Accept
  BY <1>4, AcceptKeepsInv
<1>5. CASE LoadList
  BY <1>5, AnsweringKeepsInv DEF LoadList, Answer
<1>6. CASE LoadPreview
  BY <1>6, LoadPreviewKeepsInv
<1>7. CASE LoadForAnalysis
  <2>1. request.kind \in {"forecast", "classification"}
    BY <1>7 DEF LoadForAnalysis
  <2> QED BY <1>7, <2>1, LoadForForecastKeepsInv, LoadForClassificationKeepsInv
<1>8. CASE LoadSample
  BY <1>8, LoadSampleKeepsInv
<1>9. CASE LoadHistory
  BY <1>9, LoadHistoryKeepsInv
<1>10. CASE RejectForecast
  BY <1>10, AnsweringKeepsInv DEF RejectForecast, Answer
<1>11. CASE RejectClassification
  <2>1. /\ store' = store /\ message' = message
        /\ Answer(413, "DATASET_TOO_LARGE") \/ Answer(422, "INVALID_CLASSIFICATION_DATA")
    BY <1>11 DEF RejectClassification
  <2> QED BY <2>1, AnsweringKeepsInv DEF Answer
<1>12. CASE AnalyzeForecast
  BY <1>12, AnsweringKeepsInv DEF AnalyzeForecast, Answer
<1>13. CASE AnalyzeClassification
  BY <1>13, AnalyzeClassificationKeepsInv
<1>14. CASE Save
  BY <1>14, SaveKeepsInv
<1>15. CASE Classify
  BY <1>15, ClassifyKeepsInv
<1>16. CASE Predict
  BY <1>16, PredictKeepsInv
<1>17. CASE NextMessage
  BY <1>17, NextMessageKeepsInv
<1>18. CASE UNCHANGED vars
  BY <1>18 DEF vars, ServerInv, StoreIsSound, NotAnsweredYet, RequestIsParsed, RowsAreLoaded,
                ResultIsReady, RowsAreInScope, FailuresAreExplained, SavedVersionsAreUsable
<1> QED BY <1>1, <1>2, <1>3, <1>4, <1>5, <1>6, <1>7, <1>8, <1>9, <1>10, <1>11, <1>12,
           <1>13, <1>14, <1>15, <1>16, <1>17, <1>18 DEF Next

LEMMA ServerInvHolds == Spec => []ServerInv
BY InitInv, NextInv, PTL DEF Spec

\* Whatever is stored and asked: an analysis, a trace or a prediction works on
\* the rows of its company and split that were asked for, none missing, none
\* twice, in order, with the values of the table or of the version it names.
THEOREM RequestsReadTheirScope == Spec => []RowsAreInScope
<1>1. ServerInv => RowsAreInScope
  BY DEF ServerInv
<1> QED BY <1>1, ServerInvHolds, PTL

\* Only an invalid output of a model is answered 500.
THEOREM FailuresHaveReasons == Spec => []FailuresAreExplained
<1>1. ServerInv => FailuresAreExplained
  BY DEF ServerInv
<1> QED BY <1>1, ServerInvHolds, PTL

\* What was saved can be cleaned again, analysed and classified.
THEOREM VersionsStayUsable == Spec => []SavedVersionsAreUsable
<1>1. ServerInv => SavedVersionsAreUsable
  BY DEF ServerInv
<1> QED BY <1>1, ServerInvHolds, PTL

-----------------------------------------------------------------------------
(* The results.                                                             *)

\* Nothing is reported before it is computed, and what is reported is what the
\* rows say.
AnalysisInv ==
    /\ stage \in {"arrived", "accepted", "loaded"} => result.kind = "none"
    /\ ForecastIsReference
    /\ CleaningIsReference
    /\ DistributionAddsUp

\* Steps that compute no analysis, or a failure.
LEMMA NoAnalysisKeepsInv ==
  ASSUME AnalysisInv, stage \in {"arrived", "accepted", "loaded"},
         \/ result' = result
         \/ result'.kind \notin {"forecast", "classification"} /\ stage' = "answered"
  PROVE  AnalysisInv'
<1>1. result.kind = "none"
  BY DEF AnalysisInv
<1>2. result'.kind \notin {"forecast", "classification"}
  BY <1>1
<1>3. ForecastIsReference' /\ CleaningIsReference' /\ DistributionAddsUp'
  BY <1>2 DEF ForecastIsReference, CleaningIsReference, DistributionAddsUp, Analysed
<1>4. stage' \in {"arrived", "accepted", "loaded"} => result'.kind = "none"
  BY <1>1
<1> QED BY <1>3, <1>4 DEF AnalysisInv

LEMMA NextAnalysis == ServerInv /\ AnalysisInv /\ [Next]_vars => AnalysisInv'
<1> SUFFICES ASSUME ServerInv, AnalysisInv, [Next]_vars PROVE AnalysisInv'
  OBVIOUS
<1>1. CASE NotRouted
  <2>1. stage = "arrived" /\ result' = result
    BY <1>1 DEF NotRouted
  <2> QED BY <2>1, NoAnalysisKeepsInv
<1>2. CASE AnswerDirectly
  <2>1. stage = "arrived" /\ result' = result
    BY <1>2 DEF AnswerDirectly
  <2> QED BY <2>1, NoAnalysisKeepsInv
<1>3. CASE Refuse
  <2>1. stage = "arrived" /\ result' = result
    BY <1>3 DEF Refuse
  <2> QED BY <2>1, NoAnalysisKeepsInv
<1>4. CASE Accept
  <2>1. stage = "arrived" /\ result' = result
    BY <1>4 DEF Accept
  <2> QED BY <2>1, NoAnalysisKeepsInv
<1>5. CASE LoadList
  <2>1. stage = "accepted" /\ result' = result
    BY <1>5 DEF LoadList
  <2> QED BY <2>1, NoAnalysisKeepsInv
<1>6. CASE LoadPreview
  <2>1. stage = "accepted" /\ result' = result
    BY <1>6 DEF LoadPreview
  <2> QED BY <2>1, NoAnalysisKeepsInv
<1>7. CASE LoadForAnalysis
  <2>1. stage = "accepted" /\ result' = result
    BY <1>7 DEF LoadForAnalysis
  <2> QED BY <2>1, NoAnalysisKeepsInv
<1>8. CASE LoadSample
  <2>1. stage = "accepted" /\ result' = result
    BY <1>8 DEF LoadSample
  <2> QED BY <2>1, NoAnalysisKeepsInv
<1>9. CASE LoadHistory
  <2>1. stage = "accepted" /\ result' = result
    BY <1>9 DEF LoadHistory
  <2> QED BY <2>1, NoAnalysisKeepsInv
<1>10. CASE RejectForecast
  <2>1. stage = "loaded" /\ result' = result
    BY <1>10 DEF RejectForecast
  <2> QED BY <2>1, NoAnalysisKeepsInv
<1>11. CASE RejectClassification
  <2>1. stage = "loaded" /\ result' = result
    BY <1>11 DEF RejectClassification
  <2> QED BY <2>1, NoAnalysisKeepsInv
<1>12. CASE AnalyzeForecast
  <2>1. /\ stage = "loaded" /\ request.kind = "forecast" /\ rows # <<>>
        /\ result' = AnalyzeForecastData(request, rows)
        /\ request' = request /\ rows' = rows /\ stage' = "answered"
    BY <1>12 DEF AnalyzeForecast, Answer
  <2>2. /\ rows \in Seq(SampleRows)
        /\ request.window \in Nat /\ request.window >= 2
        /\ request.horizon \in Nat /\ request.horizon > 0 /\ request.feature \in Features
    BY <2>1, RequestFacts DEF ServerInv, RowsAreLoaded
  <2>3. IsPreprocessedResult(request', rows', result')
    BY <2>1, <2>2, RowsArePreprocessed
  <2>4. ForecastIsReference'
    BY <2>3 DEF ForecastIsReference
  <2>5. result'.kind = "forecast"
    BY <2>1 DEF AnalyzeForecastData
  <2>6. CleaningIsReference' /\ DistributionAddsUp'
    BY <2>5 DEF CleaningIsReference, DistributionAddsUp, Analysed
  <2> QED BY <2>1, <2>4, <2>6 DEF AnalysisInv
<1>13. CASE AnalyzeClassification
  <2>1. /\ stage = "loaded" /\ request.kind = "classification"
        /\ result' = AnalyzeClassificationData(request, rows)
        /\ request' = request /\ rows' = rows
    BY <1>13 DEF AnalyzeClassification
  <2>2. stage' \in {"answered", "saving"}
    BY <1>13 DEF AnalyzeClassification, Answer
  <2>3. /\ rows \in Seq(SampleRows) /\ rows # <<>>
        /\ request.window \in Nat /\ request.window >= 2
        /\ request.bins \in Nat /\ request.bins > 0 /\ request.feature \in Features
    BY <2>1, RequestFacts DEF ServerInv, RowsAreLoaded
  <2>4. IsCleanedResult(request', rows', result')
    BY <2>1, <2>3, RowsAreCleaned
  <2>5. CleaningIsReference'
    BY <2>4, Zenon DEF CleaningIsReference, IsCleanedResult
  <2>6. result'.kind = "classification"
    BY <2>1 DEF AnalyzeClassificationData
  <2>7. ForecastIsReference'
    BY <2>6 DEF ForecastIsReference, Analysed
  <2>8. IsDescribedResult(request', rows', result')
    BY <2>1, <2>3, RowsAreDescribed
  <2>9. DistributionAddsUp'
    BY <2>8, Zenon DEF DistributionAddsUp, IsDescribedResult
  <2> QED BY <2>2, <2>5, <2>7, <2>9 DEF AnalysisInv
<1>14. CASE Save
  <2>1. /\ stage = "saving" /\ stage' = "answered"
        /\ UNCHANGED <<request, rows, result>>
    BY <1>14 DEF Save, Answer
  <2> QED BY <2>1 DEF AnalysisInv, ForecastIsReference, CleaningIsReference,
         DistributionAddsUp, Analysed
<1>15. CASE Classify
  BY <1>15, NoAnalysisKeepsInv DEF Classify, Answer
<1>16. CASE Predict
  BY <1>16, NoAnalysisKeepsInv DEF Predict, Answer
<1>17. CASE NextMessage
  BY <1>17 DEF NextMessage, AnalysisInv, ForecastIsReference, CleaningIsReference,
         DistributionAddsUp, Analysed, Nothing
<1>18. CASE UNCHANGED vars
  BY <1>18 DEF vars, AnalysisInv, ForecastIsReference, CleaningIsReference,
         DistributionAddsUp, Analysed
<1> QED BY <1>1, <1>2, <1>3, <1>4, <1>5, <1>6, <1>7, <1>8, <1>9, <1>10, <1>11, <1>12,
           <1>13, <1>14, <1>15, <1>16, <1>17, <1>18 DEF Next

LEMMA AnalysisInvHolds == Spec => []AnalysisInv
<1>1. Init => AnalysisInv
  BY DEF Init, AnalysisInv, ForecastIsReference, CleaningIsReference,
         DistributionAddsUp, Analysed, Nothing
<1> QED BY <1>1, NextAnalysis, ServerInvHolds, PTL DEF Spec

\* What the forecast page shows of a series is what a reader would compute by
\* hand: repaired cells on the lines between their neighbours, smoothed ones the
\* means of their windows, the windows that fit, a slope of least squares.
THEOREM ForecastKeepsItsWord == Spec => []ForecastIsReference
<1>1. AnalysisInv => ForecastIsReference
  BY DEF AnalysisInv
<1> QED BY <1>1, AnalysisInvHolds, PTL

\* No sample is lost in the bins or beyond the whiskers of a distribution, and a
\* correlation is symmetric, at most 1 and over ranks that add up, whatever the
\* readings, their ties and the number of bins.
THEOREM DistributionKeepsItsWord == Spec => []DistributionAddsUp
<1>1. AnalysisInv => DistributionAddsUp
  BY DEF AnalysisInv
<1> QED BY <1>1, AnalysisInvHolds, PTL

\* A cleaned column is the one a reader would compute by hand, whatever the
\* readings, the window and the threshold.
THEOREM CleaningKeepsItsWord == Spec => []CleaningIsReference
<1>1. AnalysisInv => CleaningIsReference
  BY DEF AnalysisInv
<1> QED BY <1>1, AnalysisInvHolds, PTL

===========================================================================
