---------------------------- MODULE WaterStore ----------------------------
(***************************************************************************)
(* repository/water_repository.cpp: what each query selects from the        *)
(* database and in which order.  A store is                                 *)
(*   companies  a set of [id, task]                                         *)
(*   samples    a set of [id, company_id, split, sample_index, sampled_at,  *)
(*              values], the water_samples table behind the three views     *)
(*   runs       the sequence of processing runs with their processed        *)
(*              samples; a run's id is its position                         *)
(* An outcome is [ok, rows] or, for an exception, [ok, error].  How queries *)
(* fail with the connection is DbSession's subject, not this module's.      *)
(***************************************************************************)
EXTENDS WaterDomain, Ordering, SequencesExt

Failed(error) == [ok |-> FALSE, error |-> error]
Found(rows) == [ok |-> TRUE, rows |-> rows]

\* datasetSplit() and datasetTable(): a name outside the domain throws
\* invalid_argument.
SplitOf == [train_data |-> "train", test_data |-> "test", val_data |-> "validation"]

\* The sensor columns of a row, NULL where nothing was measured.
Readings == [Features -> Int \cup {Missing}]

SampleRows == [id : Nat \ {0}, company_id : Int, sample_index : Int,
               sampled_at : Int \cup {Missing}, values : Readings]

\* What the keys of water_samples keep: a sample has its id for itself, and its
\* place in the sequence of its company and split.
SamplesAreSound(samples) ==
    /\ IsFiniteSet(samples)
    /\ samples \subseteq [id : Nat \ {0}, company_id : Int, split : Range(SplitOf),
                         sample_index : Int, sampled_at : Int \cup {Missing},
                         values : Readings]
    /\ \A r, s \in samples : r.id = s.id => r = s
    /\ \A r, s \in samples :
         r.company_id = s.company_id /\ r.split = s.split
           /\ r.sample_index = s.sample_index => r = s

ById(rows) == Arranged(rows, {p \in rows \X rows : p[1].id < p[2].id})

BySampleIndex(rows) ==
    Arranged(rows, {p \in rows \X rows : p[1].sample_index < p[2].sample_index})

ByCompanyAndId(rows) ==
    Arranged(rows, {p \in rows \X rows :
                      \/ p[1].company_id < p[2].company_id
                      \/ p[1].company_id = p[2].company_id /\ p[1].id < p[2].id})

\* toSample() of a query that does not select sample_index and sampled_at.
WithoutSequence(row) ==
    [id |-> row.id, company_id |-> row.company_id, sample_index |-> row.id,
     sampled_at |-> Missing, values |-> row.values]

WithSequence(row) ==
    [id |-> row.id, company_id |-> row.company_id,
     sample_index |-> row.sample_index, sampled_at |-> row.sampled_at,
     values |-> row.values]

AllWithoutSequence(rows) == [i \in DOMAIN rows |-> WithoutSequence(rows[i])]

AllWithSequence(rows) == [i \in DOMAIN rows |-> WithSequence(rows[i])]

FirstOf(rows, limit) ==
    SubSeq(rows, 1, IF Len(rows) < limit THEN Len(rows) ELSE limit)

LastOf(rows, limit) ==
    SubSeq(rows, IF Len(rows) < limit THEN 1 ELSE Len(rows) - limit + 1, Len(rows))

RawRows(store, company, dataset) ==
    {row \in store.samples : row.company_id = company /\ row.split = SplitOf[dataset]}

\* findCompany(): none or one.
FindCompany(store, id) == {company \in store.companies : company.id = id}

LoadOverview(store, request) ==
    IF FindCompany(store, request.company_id) = {} THEN Failed("out_of_range")
    ELSE IF request.dataset \notin DOMAIN SplitOf THEN Failed("invalid_argument")
    ELSE LET rows == RawRows(store, request.company_id, request.dataset)
         IN  IF rows = {} THEN Failed("out_of_range")
             ELSE Found(AllWithSequence(FirstOf(ById(rows), request.limit)))

RowsUpTo(store, request) ==
    {row \in RawRows(store, request.company_id, request.dataset) :
       request.end_sample_id > 0 => row.id <= request.end_sample_id}

\* Ascending by id: the newest `Lookback` rows up to the end sample.
LoadForecastWindow(store, request) ==
    IF request.dataset \notin DOMAIN SplitOf THEN Failed("invalid_argument")
    ELSE Found(AllWithoutSequence(LastOf(ById(RowsUpTo(store, request)), Lookback)))

LoadForecastSamples(store, request) ==
    IF request.dataset \notin DOMAIN SplitOf THEN Failed("invalid_argument")
    ELSE Found(AllWithSequence(
           FirstOf(BySampleIndex(RawRows(store, request.company_id, request.dataset)),
                   ForecastRowLimit + 1)))

VersionFitsAnySplit(store, request) ==
    /\ request.cleaning_run_id \in DOMAIN store.runs
    /\ store.runs[request.cleaning_run_id].company_id = request.company_id

\* A version only for the company and the split it was computed for, the raw
\* table of one company otherwise, of all of them for a comparison.
VersionFits(store, request) ==
    /\ request.cleaning_run_id \in DOMAIN store.runs
    /\ store.runs[request.cleaning_run_id].company_id = request.company_id
    /\ store.runs[request.cleaning_run_id].split = SplitOf[request.dataset]

LatestVersionRows(store, request) == Last(store.runs).rows

\* The processed samples of the version a request names, in the order of their
\* ids: they are stored in it, and (run_id, source_sample_id) is their key.
VersionRows(store, request) == store.runs[request.cleaning_run_id].rows

RowsToClassify(store, request) ==
    {row \in store.samples :
       /\ row.split = SplitOf[request.dataset]
       /\ \/ row.company_id = request.company_id
          \/ request.operation = "distribution" /\ request.view = "comparison"}

LoadClassificationSamples(store, request) ==
    LET ordered == IF request.cleaning_run_id > 0
                   THEN VersionRows(store, request)
                   ELSE AllWithoutSequence(ByCompanyAndId(RowsToClassify(store, request)))
    IN  IF request.dataset \notin DOMAIN SplitOf THEN Failed("invalid_argument")
        ELSE IF request.cleaning_run_id > 0 /\ ~VersionFits(store, request)
        THEN Failed("out_of_range")
        ELSE IF Len(ordered) > ClassificationRowLimit THEN Failed("length_error")
        ELSE IF ordered = <<>> THEN Failed("out_of_range")
        ELSE Found(ordered)

\* findSampleById() and findCleanedSampleById(): none or one row.
FindSample(store, request) ==
    IF request.dataset \notin DOMAIN SplitOf THEN Failed("invalid_argument")
    ELSE Found(AllWithoutSequence(ById({row \in store.samples :
                                          /\ row.id = request.sample_id
                                          /\ row.split = SplitOf[request.dataset]})))

FindCleanedSample(store, request) ==
    IF request.dataset \notin DOMAIN SplitOf THEN Failed("invalid_argument")
    ELSE Found(IF /\ request.cleaning_run_id \in DOMAIN store.runs
                  /\ store.runs[request.cleaning_run_id].split = SplitOf[request.dataset]
               THEN LET saved == VersionRows(store, request)
                    IN  AtPositions(saved, {i \in DOMAIN saved :
                                              saved[i].id = request.sample_id})
               ELSE <<>>)

\* saveClassificationVersion(): the snapshot in one transaction, refused when a
\* row left its place or its company.
SnapshotIsValid(request, before, after) ==
    /\ Len(before) = Len(after) /\ after # <<>>
    /\ Len(after) <= ClassificationRowLimit
    /\ request.operation \in {"missing", "clean"}
    /\ \A i \in DOMAIN after :
         /\ after[i].id = before[i].id /\ after[i].id > 0
         /\ after[i].company_id = request.company_id
         /\ before[i].company_id = request.company_id

SaveVersion(store, request, before, after) ==
    [store EXCEPT !.runs = Append(@,
        [company_id |-> request.company_id, split |-> SplitOf[request.dataset],
         parent |-> request.cleaning_run_id, rows |-> after,
         changed |-> Cardinality({i \in DOMAIN after :
                                    after[i].values # before[i].values})])]
===========================================================================
