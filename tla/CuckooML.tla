------------------------------ MODULE CuckooML ------------------------------
(* CuckooML (modules/processing/cuckooml.py): the reports of a directory are loaded and
   labelled, turned into features and clustered; the fit is written down and put back into
   the reports.  HDBSCAN and DBSCAN are external: any fit of the samples may come out.

   A string that is taken apart is the sequence of its letters, and a feature is named by
   a tuple, <<"count", "tcp">> for ":count:tcp".                                     *)
EXTENDS Integers, Sequences, FiniteSets, SequencesExt, FiniteSetsExt, Folds, TLC

CONSTANTS Samples,    \* the reports of the data directory: [file -> report]
          Settings,   \* the values of cuckooml.conf that are tried
          Fits,       \* what a sample may be given: [label, probability, score] in percent
          Packers,    \* PATTERNS, each the set of the packer names it finds
          NewSamples, \* the reports that may be compared with the clustering
          MaxMlRuns   \* bound on the runs of CuckooML

ASSUME CuckooMLAssumption ==
    /\ \A cfg \in Settings : {"clustering", "algorithm", "directory", "current"} \subseteq DOMAIN cfg
    /\ \A f \in DOMAIN Samples : {"clustering", "torn"} \subseteq DOMAIN Samples[f]

VARIABLES reports,    \* the directories: [directory -> [file -> report]]
          ml,         \* one run: where it is, and what Loader and ML hold
          assessed,   \* the fit last written to clustering_results.csv, by file
          inPlace,    \* [algorithm -> the fit the reports of the data directory should hold]
          mlruns
mlvars == <<reports, ml, assessed, inPlace, mlruns>>

Absent == "none"    \* a name that a report does not give
Missing == -1       \* for a number

-----------------------------------------------------------------------------
(* Instance: the label and the features of one report. *)

(* label_sample: the label most vendors give, if five do. *)
Significance == 5
Hits(r, l) == Cardinality({v \in DOMAIN r.scans : l \in r.scans[v]})
LabelSample(r) ==
    LET all == UNION {r.scans[v] : v \in DOMAIN r.scans}
        top == {l \in all : \A k \in all : Hits(r, k) <= Hits(r, l)}
    IN  IF \E l \in top : Hits(r, l) >= Significance THEN CHOOSE l \in top : TRUE ELSE "none"

Names(seq) == ToSet(seq) \ {Absent}
InSummary(r, cat) == IF cat \in DOMAIN r.summary THEN r.summary[cat] ELSE {}

Exif(r, tokens) == Restrict(r.versioninfo, DOMAIN r.versioninfo \cap tokens)
FeatureStaticMetadata(r) ==
    [size |-> r.size, timestamp |-> r.timestamp, about |-> Exif(r, {"FileDescription", "OriginalFilename"}) @@ r.magic]
FeatureStaticSignature(r) ==
    [signed |-> r.signature # {},
     owner |-> Exif(r, {"Comments", "ProductName", "LegalCopyright", "InternalName", "CompanyName"})]
FeatureStaticPacker(r) == [packer |-> r.peid]
(* Main and sub languages, each once and without its prefix. *)
FeatureStaticPef(r) == [languages |-> Names([i \in DOMAIN r.resources |-> r.resources[i][1]])
                                      \union Names([i \in DOMAIN r.resources |-> r.resources[i][2]])]
(* A DLL imported twice keeps the functions of its last entry. *)
FeatureStaticImports(r) ==
    [dllCount |-> r.dllCount,
     dlls |-> FoldLeft(LAMBDA f, d : IF d[1] = Absent THEN f ELSE (d[1] :> d[2] \ {Absent}) @@ f, << >>, r.imports)]
FeatureDynamicImports(r) ==
    [mutex |-> InSummary(r, "mutex"), mutexKnown |-> "mutex" \in DOMAIN r.summary, processes |-> Names(r.processes), loaded |-> InSummary(r, "dll_loaded")]

(* feature_dynamic_filesystem: a copied or moved file is a pair, and counts for its two
   paths, but that copies are counted by pairs. *)
Flatten(pairs) == UNION {{p[1], p[2]} : p \in pairs}
FeatureDynamicFilesystem(r) ==
    LET of(cat) == InSummary(r, cat)
        copied == Flatten(of("file_copied"))  moved == Flatten(of("file_moved"))
        touched == of("file_read") \union of("file_written") \union of("file_deleted") \union copied \union moved
    IN  [touched |-> touched,
         ops |-> [all |-> Cardinality(touched \union of("file_recreated") \union of("file_opened")
                                      \union of("file_exists") \union of("file_failed")),
                  read |-> Cardinality(of("file_read")), written |-> Cardinality(of("file_written")),
                  deleted |-> Cardinality(of("file_deleted")), copied |-> Cardinality(of("file_copied")),
                  renamed |-> 2 * Cardinality(of("file_moved")), opened |-> Cardinality(of("file_opened")),
                  exists |-> Cardinality(of("file_exists")), failed |-> Cardinality(of("file_failed"))]]
(* A request that is repeated replaces its answers. *)
FeatureDynamicNetwork(r) ==
    [tcp |-> Names(r.tcp), udp |-> Names(r.udp),
     dns |-> FoldLeft(LAMBDA f, q : IF q[1] = Absent THEN f ELSE (q[1] :> q[2]) @@ f, << >>, r.dns),
     http |-> FoldLeft(LAMBDA f, q : IF q[1] = Absent THEN f ELSE (q[1] :> q[2]) @@ f, << >>, r.http)]
FeatureDynamicRegistry(r) == [regWritten |-> InSummary(r, "regkey_written"), regDeleted |-> InSummary(r, "regkey_deleted")]
(* The calls of all processes together. *)
FeatureDynamicWindowsapi(r) ==
    LET apis == UNION {DOMAIN r.apistats[p] : p \in DOMAIN r.apistats}
        by(a) == {p \in DOMAIN r.apistats : a \in DOMAIN r.apistats[p]}
    IN  [apis |-> [a \in apis |-> MapThenSumSet(LAMBDA p : r.apistats[p][a], by(a))]]
FeaturesStatic(r) == FeatureStaticMetadata(r) @@ FeatureStaticSignature(r) @@ FeatureStaticPacker(r)
                     @@ FeatureStaticPef(r) @@ FeatureStaticImports(r)
FeaturesDynamic(r) == FeatureDynamicImports(r) @@ FeatureDynamicFilesystem(r) @@ FeatureDynamicNetwork(r)
                      @@ FeatureDynamicRegistry(r) @@ FeatureDynamicWindowsapi(r)
FeaturesOf(r) == FeaturesStatic(r) @@ FeaturesDynamic(r)
BasicFeatures(r) == {IF s[1] # Absent THEN s[1] ELSE s[2] : s \in r.matched} \ {Absent}

-----------------------------------------------------------------------------
(* ML: the rows of the data frames. *)

(* The floor of log3(value + 2); the floating point logarithm of 243 is just below 5, so
   that 241 is put in bin 4. *)
LogBin(v) == IF v = 241 THEN 4 ELSE CHOOSE k \in 0..v + 1 : 3^k <= v + 2 /\ v + 2 < 3^(k + 1)
Bin(v) == IF v = Missing THEN 0 ELSE LogBin(v)

(* Letters, small and capital, and digits each become one; strings of up to three are kept
   whole.  A string that is missing gives nothing. *)
Digits == {"0", "1", "2", "3", "4", "5", "6", "7", "8", "9"}
Punctuation == {" ", ".", "_", "-", "(", ")", "/", "\\"}
Simplify(s) == [i \in DOMAIN s |-> CASE s[i] \in Digits -> "0" [] s[i] \in Punctuation -> s[i] [] OTHER -> "a"]
NGrams(s) == IF Len(s) <= 3 THEN {s} ELSE {SubSeq(s, i, i + 2) : i \in 1..Len(s) - 2}
HandleString(s) == NGrams(Simplify(s))

(* extract_features, its groups one by one: pairs of a name and a value. *)
Having(prefix, names) == {<<prefix \o <<n>>, 1>> : n \in names}
MetaColumns(f) == {<<<<"meta", "size">>, Bin(f.size)>>, <<<<"meta", "timestamp">>, Bin(f.timestamp)>>}
                  \union UNION {Having(<<"meta", "gram">>, HandleString(f.about[a])) : a \in DOMAIN f.about}
SignColumns(f) == {<<<<"sign", "signed">>, IF f.signed THEN 1 ELSE 0>>}
                  \union UNION {Having(<<"sign", "gram">>, HandleString(f.owner[a])) : a \in DOMAIN f.owner}
PackColumns(f) == Having(<<"pack">>, {p \in Packers : p \cap f.packer # {}})
ImportColumns(f) == Having(<<"pef", "lang">>, f.languages) \union Having(<<"simp">>, DOMAIN f.dlls)
                    \union {<<<<"simp", "count">>, f.dllCount>>}
LoadColumns(f) == Having(<<"dimp", "proc">>, f.processes) \union Having(<<"dimp">>, f.loaded)
                  \union Having(<<"dimp", "mutex">>, UNION {HandleString(m) : m \in f.mutex})
FileColumns(f) == Having(<<"file", "touch">>, f.touched) \union {<<<<"file", "count", o>>, LogBin(f.ops[o])>> : o \in DOMAIN f.ops}
(* Without a host, an HTTP request has no feature to be named by: KeyError. *)
NetColumns(f) == Having(<<"net">>, f.tcp \union f.udp \union DOMAIN f.dns \union UNION {f.dns[q] : q \in DOMAIN f.dns}
                                   \union {f.http[q] : q \in DOMAIN f.http})
OtherColumns(f) == Having(<<"reg", "write">>, f.regWritten) \union Having(<<"reg", "del">>, f.regDeleted)
                   \union {<<<<"win", a>>, LogBin(f.apis[a])>> : a \in DOMAIN f.apis}
CountColumns(f) ==
    {<<<<"count", "file", o>>, f.ops[o]>> : o \in DOMAIN f.ops} \union
    {<<<<"count", "mutex">>, Cardinality(f.mutex)>> : k \in {TRUE} \cap {f.mutexKnown}} \union
    {<<<<"count", "lang">>, Cardinality(f.languages)>>, <<<<"count", "simp">>, Cardinality(DOMAIN f.dlls)>>,
     <<<<"count", "proc">>, Cardinality(f.processes)>>,
     <<<<"count", "dimp">>, Cardinality(f.loaded)>>, <<<<"count", "tcp">>, Cardinality(f.tcp)>>,
     <<<<"count", "udp">>, Cardinality(f.udp)>>, <<<<"count", "dns">>, Cardinality(DOMAIN f.dns)>>,
     <<<<"count", "http">>, Cardinality(DOMAIN f.http)>>, <<<<"count", "wapi">>, Cardinality(DOMAIN f.apis)>>,
     <<<<"count", "reg", "write">>, Cardinality(f.regWritten)>>, <<<<"count", "reg", "del">>, Cardinality(f.regDeleted)>>}
Columns(f) == MetaColumns(f) \union SignColumns(f) \union PackColumns(f) \union ImportColumns(f) \union LoadColumns(f)
              \union FileColumns(f) \union NetColumns(f) \union OtherColumns(f) \union CountColumns(f)
Nameable(f) == Absent \notin {f.http[q] : q \in DOMAIN f.http}

(* A data frame: a row for each sample, 0 where it has no such feature. *)
Frame(cells) ==
    LET cols == UNION {{x[1] : x \in cells[s]} : s \in DOMAIN cells}
    IN  [s \in DOMAIN cells |-> [c \in cols |-> IF \E x \in cells[s] : x[1] = c
                                                THEN (CHOOSE x \in cells[s] : x[1] = c)[2] ELSE 0]]
FrameColumns(frame) == UNION {DOMAIN frame[s] : s \in DOMAIN frame}
OnlyColumns(frame, cols) == [s \in DOMAIN frame |-> Restrict(frame[s], cols \cap DOMAIN frame[s])]
SimpleFrame(bs) == Frame([s \in DOMAIN bs |-> {<<<<n>>, 1>> : n \in BasicFeatures(bs[s])}])
FeatureFrame(bs) == Frame([s \in DOMAIN bs |-> Columns(FeaturesOf(bs[s]))])

(* feature_category(":count:") and its complement. *)
FeatureCategory(frame, complement) == OnlyColumns(frame, {c \in FrameColumns(frame) : (c[1] = "count") # complement})

(* filter_dataset: "complement != x < coverage" is a chain of two comparisons, so that a
   feature no sample has is not pruned. *)
FilterDataset(frame) ==
    LET with(c) == Cardinality({s \in DOMAIN frame : frame[s][c] # 0})
    IN  OnlyColumns(frame, {c \in FrameColumns(frame) : with(c) = 0 \/ 10 * with(c) >= Cardinality(DOMAIN frame)})

(* detect_abnormal_behaviour: quantiles, by linear interpolation, are counted in quarters. *)
Quantile4(values, k) ==
    LET pos == k * (Len(values) - 1)  i == pos \div 4 + 1  part == pos % 4
    IN  4 * values[i] + IF part = 0 THEN 0 ELSE part * (values[i + 1] - values[i])
Abnormal(frame, c) ==
    LET values == SortSeq(SetToSeq({<<frame[s][c], s>> : s \in DOMAIN frame}), LAMBDA a, b : a[1] < b[1])
        q(k) == Quantile4([i \in DOMAIN values |-> values[i][1]], k)
        far(s, n) == 2 * (4 * frame[s][c]) > 2 * q(3) + n * (q(3) - q(1))
                     \/ 2 * (4 * frame[s][c]) < 2 * q(1) - n * (q(3) - q(1))
        out == {s \in DOMAIN frame : far(s, 6)}
    IN  [outliers |-> out, suspects |-> {s \in DOMAIN frame : far(s, 3)} \ out]

(* anomaly_detection.  A label is rare in a cluster if less than a fifth have it. *)
Noise == -1
InCluster(fit, c) == {s \in DOMAIN fit : fit[s].label = c}
Anomalies(fit, labels) ==
    LET rare(s) == 5 * Cardinality({t \in InCluster(fit, fit[s].label) : labels[t] = labels[s]})
                       < Cardinality(InCluster(fit, fit[s].label))
    IN  [outliers |-> InCluster(fit, Noise),
         lowProbability |-> {s \in DOMAIN fit \ InCluster(fit, Noise) : fit[s].probability < 90},
         highScore |-> {s \in DOMAIN fit \ InCluster(fit, Noise) : fit[s].score > 50},
         suspects |-> {s \in DOMAIN fit : rare(s)}]
LabelDistribution(fit, labels) ==
    [c \in {fit[s].label : s \in DOMAIN fit} |->
        [l \in {labels[s] : s \in DOMAIN labels} |-> Cardinality({s \in InCluster(fit, c) : labels[s] = l})]]
(* What the fit is measured on: all samples, or those that are no noise. *)
Assessed(fit, discardNoise) == IF discardNoise THEN DOMAIN fit \ InCluster(fit, Noise) ELSE DOMAIN fit

-----------------------------------------------------------------------------
(* Loader and init_cuckooml. *)

Replaced(f, x, v) == [y \in DOMAIN f \union {x} |-> IF y = x THEN v ELSE f[y]]

(* Instance.update, for each of some cells below the root of an algorithm: the nodes on the
   way are made when they are missing, and other cells stay. *)
Overlaid(node, cells) == [k \in DOMAIN node \union DOMAIN cells |-> IF k \in DOMAIN cells THEN cells[k] ELSE node[k]]
NodeOf(r, alg) == IF alg \in DOMAIN r.clustering THEN r.clustering[alg] ELSE << >>
UpdateAnew(r, alg, cells) == [r EXCEPT !.clustering = Replaced(<< >>, alg, Overlaid(NodeOf(r, alg), cells))]
Update(r, alg, cells) == [r EXCEPT !.clustering = Replaced(@, alg, Overlaid(NodeOf(r, alg), cells))]
(* hdbscan_paths and dbscan_paths *)
Located(alg, x) ==
    IF alg = "hdbscan" THEN [clusterID |-> x.label, clusterProbability |-> x.probability, outlierScore |-> x.score]
    ELSE [clusterID |-> x.label]
Algorithms == {"hdbscan", "dbscan"}
(* update_binaries with the rows of a fit, then with the parameters. *)
UpdateBinaries(bs, alg, fit, parameter) ==
    [f \in DOMAIN bs |-> Update(Update(bs[f], alg, Located(alg, fit[f])), alg, [min_samples |-> parameter])]

MlOver == [stage |-> "idle", cfg |-> << >>, binaries |-> << >>, updated |-> FALSE, labels |-> << >>,
           simple |-> << >>, features |-> << >>, data |-> << >>, clustering |-> << >>,
           written |-> << >>, unsaved |-> {}]

CuckooMLInit ==
    /\ reports = [data |-> Samples, results |-> << >>]
    /\ ml = MlOver /\ assessed = << >> /\ inPlace = << >> /\ mlruns = 0

Step(m) == ml' = m /\ UNCHANGED <<reports, assessed, inPlace, mlruns>>
(* sys.exit, or an exception that nobody catches. *)
Exit == Step(MlOver)

StartMl(cfg) ==
    /\ ml.stage = "idle" /\ mlruns < MaxMlRuns
    /\ ml' = [MlOver EXCEPT !.stage = "load", !.cfg = cfg]
    /\ mlruns' = mlruns + 1
    /\ UNCHANGED <<reports, assessed, inPlace>>

(* load_json: a file that is no JSON ends the program, a report without VirusTotal fails. *)
Loadable(r) == ~ r.torn /\ r.virustotal
LoadBinaries ==
    /\ ml.stage = "load"
    /\ IF \A f \in DOMAIN reports.data : Loadable(reports.data[f])
       THEN Step([ml EXCEPT !.stage = "features", !.binaries = reports.data])
       ELSE Exit

LoadFeatures ==
    /\ ml.stage = "features"
    /\ IF \A f \in DOMAIN ml.binaries : Nameable(FeaturesOf(ml.binaries[f]))
       THEN Step([ml EXCEPT !.stage = IF ml.cfg.clustering THEN "select" ELSE "abnormal",
                            !.labels = [f \in DOMAIN ml.binaries |-> LabelSample(ml.binaries[f])],
                            !.simple = SimpleFrame(ml.binaries), !.features = FeatureFrame(ml.binaries)])
       ELSE Exit

(* The features are taken in this order, whatever that of the setting; the filters are
   paired with them.  ml.__log_bin is no attribute outside of the class, a filter of
   another name drops its features. *)
Kinds == <<"simple", "nominal", "numerical">>
Selected == SelectSeq(Kinds, LAMBDA k : k \in ml.cfg.features)
Chosen(k) == CASE k = "simple" -> ml.simple
               [] k = "nominal" -> FeatureCategory(ml.features, TRUE)
               [] k = "numerical" -> FeatureCategory(ml.features, FALSE)
Filtered(k, filter) == IF filter = "filter_dataset" THEN FilterDataset(Chosen(k)) ELSE Chosen(k)
Row(f, used) ==
    FoldLeft(LAMBDA row, i : row @@ Filtered(Selected[i], ml.cfg.filters[i])[f], << >>, SetToSeq(used))
SelectData ==
    /\ ml.stage = "select"
    /\ LET filters == ml.cfg.filters
           used == {i \in DOMAIN filters : filters[i] \in {"filter_dataset", "none"}} IN
       IF Len(filters) # Len(Selected) \/ "log_bin" \in ToSet(filters) \/ used = {}
       THEN Exit
       ELSE Step([ml EXCEPT !.stage = "cluster", !.data = [f \in DOMAIN ml.binaries |-> Row(f, used)]])

(* cluster_hdbscan and cluster_dbscan: the labels come out of the library, in any way. *)
Hdbscan(rows) == [rows -> Fits]
Dbscan(rows) == [rows -> {[x EXCEPT !.probability = 100, !.score = 0] : x \in Fits}]
Cluster ==
    /\ ml.stage = "cluster"
    /\ IF ml.cfg.algorithm \in Algorithms
       THEN \E fit \in IF ml.cfg.algorithm = "hdbscan" THEN Hdbscan(DOMAIN ml.data) ELSE Dbscan(DOMAIN ml.data) :
               Step([ml EXCEPT !.stage = "assess", !.clustering = [a \in {ml.cfg.algorithm} |-> fit]])
       ELSE Exit

Assess ==
    /\ ml.stage = "assess"
    /\ LET fit == ml.clustering[ml.cfg.algorithm] IN
       /\ assessed' = fit
       /\ ml' = [ml EXCEPT !.stage = "abnormal",
                    !.written = [fit |-> [all |-> Assessed(fit, FALSE), apart |-> Assessed(fit, TRUE)],
                                 distribution |-> LabelDistribution(fit, ml.labels)]]
    /\ UNCHANGED <<reports, inPlace, mlruns>>

Both(w, more) == w @@ more
AbnormalBehaviour ==
    /\ ml.stage = "abnormal"
    /\ LET counts == FeatureCategory(ml.features, FALSE) IN
       Step([ml EXCEPT !.stage = "anomalies",
                !.written = IF ml.cfg.abnormal
                            THEN Both(@, [abnormal |-> [c \in FrameColumns(counts) |-> Abnormal(counts, c)]]) ELSE @])

(* Without a clustering there is no cls_alg; for DBSCAN there are no anomalies to go over. *)
DetectAnomalies ==
    /\ ml.stage = "anomalies"
    /\ IF ml.cfg.anomalies /\ "hdbscan" \notin DOMAIN ml.clustering THEN Exit
       ELSE Step([ml EXCEPT !.stage = "compare",
                     !.written = IF ml.cfg.anomalies
                                 THEN Both(@, [anomalies |-> Anomalies(ml.clustering.hdbscan, ml.labels)]) ELSE @])

(* A directory of new samples is loaded and no more; one new sample is clustered with the
   others, and the new clustering is not kept. *)
CompareSample ==
    /\ ml.stage = "compare"
    /\ \/ /\ ml.cfg.test = "file" /\ \E r \in NewSamples : ~ (Loadable(r) /\ Nameable(FeaturesOf(r)))
          /\ Exit
       \/ /\ ml.cfg.test = "file" => \E r \in NewSamples : Loadable(r) /\ Nameable(FeaturesOf(r))
          /\ Step(IF ml.cfg.clustering /\ ml.cfg.save THEN [ml EXCEPT !.stage = "update"] ELSE MlOver)

(* save_clustering_results: every report in memory is updated, then all are written. *)
UpdateAll ==
    /\ ml.stage = "update"
    /\ Step([ml EXCEPT !.stage = "save", !.updated = TRUE, !.unsaved = DOMAIN ml.binaries,
                !.binaries = UpdateBinaries(@, ml.cfg.algorithm, ml.clustering[ml.cfg.algorithm], ml.cfg.parameter)])

Location == IF ml.cfg.directory THEN "results" ELSE "data"
PutReport(f, r) == reports' = [reports EXCEPT ![Location] = Replaced(@, f, r)]
(* open(..., "w") empties the file before json.dump writes it. *)
OpenReport(f) ==
    /\ ml.stage = "save" /\ ml.updated /\ f \in ml.unsaved
    /\ PutReport(f, [ml.binaries[f] EXCEPT !.torn = TRUE])
    /\ ml' = [ml EXCEPT !.stage = "dump", !.unsaved = @ \ {f}, !.cfg.current = f]
    /\ UNCHANGED <<assessed, inPlace, mlruns>>
DumpReport ==
    /\ ml.stage = "dump"
    /\ PutReport(ml.cfg.current, ml.binaries[ml.cfg.current])
    /\ ml' = [ml EXCEPT !.stage = "save"]
    /\ UNCHANGED <<assessed, inPlace, mlruns>>
Saved ==
    /\ ml.stage = "save" /\ ml.unsaved = {}
    /\ ml' = MlOver
    /\ inPlace' = IF Location = "data" THEN Replaced(inPlace, ml.cfg.algorithm, assessed) ELSE inPlace
    /\ UNCHANGED <<reports, assessed, mlruns>>

(* The program is ended while it saves: nothing is known of these results any more. *)
Killed ==
    /\ ml.stage \in {"save", "dump"}
    /\ ml' = MlOver
    /\ inPlace' = IF Location = "data" THEN Restrict(inPlace, DOMAIN inPlace \ {ml.cfg.algorithm}) ELSE inPlace
    /\ UNCHANGED <<reports, assessed, mlruns>>

CuckooMLNext ==
    \/ \E cfg \in Settings : StartMl(cfg)
    \/ LoadBinaries \/ LoadFeatures \/ SelectData \/ Cluster \/ Assess
    \/ AbnormalBehaviour \/ DetectAnomalies \/ CompareSample \/ UpdateAll
    \/ \E f \in ml.unsaved : OpenReport(f)
    \/ DumpReport \/ Saved \/ Killed

CuckooMLSpec == CuckooMLInit /\ [][CuckooMLNext]_mlvars

-----------------------------------------------------------------------------
(* The reports of the data directory hold, for each algorithm, the clustering that was last
   assessed and saved in place with it: the comparison with new samples between the
   two, and a later run with the other algorithm, have not touched it. *)
ResultsKept ==
    ml.stage \notin {"save", "dump"} =>
        \A alg \in DOMAIN inPlace : \A f \in DOMAIN inPlace[alg] :
            LET r == reports.data[f]
                kept == Located(alg, inPlace[alg][f]) IN
            ~ r.torn => /\ alg \in DOMAIN r.clustering
                        /\ \A cell \in DOMAIN kept : r.clustering[alg][cell] = kept[cell]
=============================================================================
