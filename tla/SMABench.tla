------------------------------- MODULE SMABench -------------------------------
(***************************************************************************)
(* `aegisgraph smabench`: generates the Ring 1 corpora and scores the      *)
(* extraction graphs, twice; writes the results and what changed since     *)
(* the run before under the run's date; then makes `latest` show them.     *)
(* aegisgraph/smabench.py, smabench/ring1/_common.py, smabench/ring2.      *)
(***************************************************************************)
EXTENDS Absent, Integers, Sequences, FiniteSets

CONSTANTS
  Generators,       \* RING1_GENERATORS, as a sequence of corpus names
  Contents,         \* what a corpus may hold: it depends on the libraries installed
  BenchTargets,     \* the targets of Ring 2
  BenchGraphs,      \* the extraction graphs considered, see GraphSummary
  PathClassTotal,   \* how many path classes there are
  Dates,            \* what AEGISGRAPH_SMABENCH_RUN_DATE may be
  BenchBudget       \* bound of the model: how often each of BenchKinds may happen

BenchKinds == {"run", "change"}
BenchFiles == <<"results", "repeatability", "delta", "recommendations", "dashboard">>
BenchFile == {BenchFiles[i] : i \in DOMAIN BenchFiles}
Corpus == {Generators[i] : i \in DOMAIN Generators}

(* The names of the generators differ.                                     *)
ASSUME BenchAssumption ==
  /\ Generators \in Seq(Corpus)
  /\ \A i, j \in DOMAIN Generators : Generators[i] = Generators[j] => i = j
  /\ BenchBudget \in [BenchKinds -> Nat]
  /\ PathClassTotal \in Nat \ {0}
  /\ None \in BenchGraphs

VARIABLES
  content,          \* what each generator would generate now
  graphs,           \* by target, its graph.json, or None
  corpora,          \* by corpus, the content of its items and of its metadata
  dated,            \* by date and file, the number of the run it is of, 0 or Torn
  latest,           \* results/latest: its kind, the date it links to, its own files
  bench,            \* the run under way, or None
  finished,         \* by run, what it computed: history
  usedDates,        \* by run, its date: history
  benchLeft

benchVars == <<content, graphs, corpora, dated, latest, bench, finished, usedDates, benchLeft>>

Torn == -1       \* cut short
NoFiles == [f \in BenchFile |-> 0]

BenchInit ==
  /\ content \in [Corpus -> Contents]
  /\ graphs \in [BenchTargets -> BenchGraphs]
  /\ corpora = [c \in Corpus |-> [items |-> None, metadata |-> None]]
  /\ dated = [d \in Dates |-> NoFiles]
  /\ latest = [kind |-> "absent", date |-> None, files |-> NoFiles]
  /\ bench = None /\ finished = <<>> /\ usedDates = <<>>
  /\ benchLeft = BenchBudget

Charge(kind) == benchLeft[kind] > 0 /\ benchLeft' = [benchLeft EXCEPT ![kind] = @ - 1]

-----------------------------------------------------------------------------
(* Ring 2.  A graph is summarised by its counts; a ratio is in thousandths.*)

Ratio(part, whole) == IF whole = 0 THEN 0 ELSE (2000 * part + whole) \div (2 * whole)

GraphSummary(g) ==
  IF g = None THEN [status |-> "missing_extraction_output", passing_ratio |-> 0, score |-> 0]
  ELSE
    [ status |->
        IF g.real = 0 /\ g.passing = 0 /\ g.classes <= 1 THEN "extraction_phase0_only"
        ELSE IF g.real > 0 /\ g.passing > 0 THEN "ring2_real_evidence_present"
        ELSE "ring2_partial",
      passing_ratio |-> Ratio(g.passing, g.tasks),
      score |-> (Ratio(g.real, g.nodes) + Ratio(g.passing, g.tasks) + Ratio(g.classes, PathClassTotal)) \div 3 ]

Ring2Run ==
  LET present == {t \in BenchTargets : graphs[t] # None}
      summary == [t \in BenchTargets |-> GraphSummary(graphs[t])]
  IN [ status |->
         IF present = {} THEN "ring2_pending_extraction"
         ELSE IF present # BenchTargets THEN "ring2_partial_extraction"
         ELSE IF \A t \in BenchTargets : summary[t].status = "ring2_real_evidence_present"
           THEN "ring2_real_evidence_present"
         ELSE "ring2_extraction_phase0",
       targets |-> summary ]

(* A target that scores well and still has tasks that do not pass.         *)
ComputeRecommendations(results) ==
  {t \in BenchTargets : results.ring2.targets[t].score >= 700 /\ results.ring2.targets[t].passing_ratio < 1000}

-----------------------------------------------------------------------------
(* run.                                                                    *)

LatestFile(f) ==
  CASE latest.kind = "link" -> dated[latest.date][f]
    [] latest.kind = "directory" -> latest.files[f]
    [] OTHER -> 0

(* A results.json that is not there or does not parse is no previous run.  *)
PreviousResults ==
  LET n == LatestFile("results") IN IF n \in {0, Torn} THEN None ELSE finished[n]

StartBench(date) ==
  /\ bench = None /\ Charge("run")
  /\ bench' = [at |-> "generate", date |-> date, previous |-> PreviousResults,
               iterations |-> <<>>, generated |-> <<>>, run |-> Len(finished) + 1, next |-> 1]
  /\ usedDates' = Append(usedDates, date)
  /\ finished' = Append(finished, None)
  /\ UNCHANGED <<content, graphs, corpora, dated, latest>>

(* A generator and write_corpus, which removes the items of before, writes *)
(* the new ones and then the metadata.  It raises before that, when it     *)
(* finds too few items, or in the middle, when two names collide or the    *)
(* disk is full.                                                           *)
Generate(outcome) ==
  LET c == Generators[Len(bench.generated) + 1]
  IN /\ bench # None /\ bench.at = "generate" /\ Len(bench.generated) < Len(Generators)
     /\ corpora' = CASE outcome = "passing" -> [corpora EXCEPT ![c] = [items |-> content[c], metadata |-> content[c]]]
                     [] outcome = "collides" -> [corpora EXCEPT ![c].items = "some"]
                     [] OTHER -> corpora
     /\ bench' = [bench EXCEPT !.generated = Append(@, IF outcome = "passing" THEN content[c] ELSE None)]
     /\ UNCHANGED <<content, graphs, dated, latest, finished, usedDates, benchLeft>>

(* _build_results, once its generators are through: a corpus whose         *)
(* generator raised is not among the corpora.                              *)
BuildResults ==
  [ ring1 |-> [c \in Corpus |-> bench.generated[CHOOSE i \in DOMAIN Generators : Generators[i] = c]],
    ring1_status |-> IF \A i \in DOMAIN Generators : bench.generated[i] # None THEN "passing"
                     ELSE IF \E i \in DOMAIN Generators : bench.generated[i] # None THEN "partial"
                     ELSE "failed",
    ring2 |-> Ring2Run ]

EndIteration ==
  /\ bench # None /\ bench.at = "generate" /\ Len(bench.generated) = Len(Generators)
  /\ bench' = [bench EXCEPT
       !.iterations = Append(@, BuildResults), !.generated = <<>>,
       !.at = IF Len(bench.iterations) = 1 THEN "compute" ELSE "generate"]
  /\ UNCHANGED <<content, graphs, corpora, dated, latest, finished, usedDates, benchLeft>>

Listed(results) == {c \in Corpus : results.ring1[c] # None}

\* Seeded fault: a corpus that is in both runs is taken to be unchanged.
DeltaOfNames(previous, current) ==
  IF previous = None THEN [baseline |-> None]
  ELSE [ baseline |-> previous, changed |-> {},
         added |-> Listed(current) \ Listed(previous), removed |-> Listed(previous) \ Listed(current) ]

ComputeDelta(previous, current) ==
  IF previous = None THEN [baseline |-> None]
  ELSE [ baseline |-> previous,
         added    |-> Listed(current) \ Listed(previous),
         removed  |-> Listed(previous) \ Listed(current),
         changed  |-> {c \in Listed(current) \cap Listed(previous) : current.ring1[c] # previous.ring1[c]} ]

\* Seeded fault: only what the corpora hold is compared, when there is something.
HashOfHits(iterations) ==
  \A c \in Listed(iterations[1]) \cap Listed(iterations[2]) : iterations[1].ring1[c] = iterations[2].ring1[c]

(* _stable_hash of both iterations.                                        *)
ByteIdentical(iterations) == iterations[1] = iterations[2]

ComputeBench ==
  /\ bench # None /\ bench.at = "compute"
  /\ LET first == bench.iterations[1]
     IN finished' = [finished EXCEPT ![bench.run] =
          [ ring1 |-> first.ring1, ring2 |-> first.ring2, ring1_status |-> first.ring1_status,
            byte_identical |-> ByteIdentical(bench.iterations),
            delta |-> ComputeDelta(bench.previous, first),
            recommendations |-> ComputeRecommendations(first) ]]
  /\ bench' = [bench EXCEPT !.at = "write", !.iterations = <<>>, !.previous = None]
  /\ UNCHANGED <<content, graphs, corpora, dated, latest, usedDates, benchLeft>>

WriteBenchFile ==
  /\ bench # None /\ bench.at = "write"
  /\ dated' = [dated EXCEPT ![bench.date][BenchFiles[bench.next]] = bench.run]
  /\ bench' = [bench EXCEPT !.next = @ + 1, !.at = IF bench.next = Len(BenchFiles) THEN "clear" ELSE @]
  /\ UNCHANGED <<content, graphs, corpora, latest, finished, usedDates, benchLeft>>

(* _set_latest_pointer: the link is removed, or the files of the copy, one *)
(* after the other and in no order that is known.                          *)
Unlink ==
  /\ bench # None /\ bench.at = "clear" /\ latest.kind = "link"
  /\ latest' = [latest EXCEPT !.kind = "absent", !.date = None]
  /\ UNCHANGED <<content, graphs, corpora, dated, bench, finished, usedDates, benchLeft>>

\* Seeded fault: a file is missing in the list of those to remove.
RemovedButRepeatability == BenchFile \ {"repeatability"}

RemovedFiles == BenchFile

RemoveLatestFile(f) ==
  /\ bench # None /\ bench.at = "clear" /\ latest.kind = "directory"
  /\ f \in RemovedFiles /\ latest.files[f] # 0
  /\ latest' = [latest EXCEPT !.files[f] = 0]
  /\ UNCHANGED <<content, graphs, corpora, dated, bench, finished, usedDates, benchLeft>>

(* The directory goes only when it is empty, and is left in place if not.  *)
RemoveLatest ==
  /\ bench # None /\ bench.at = "clear" /\ latest.kind # "link"
  /\ \A f \in RemovedFiles : latest.files[f] = 0
  /\ latest' = IF latest.files = NoFiles THEN [latest EXCEPT !.kind = "absent"] ELSE latest
  /\ bench' = [bench EXCEPT !.at = "point", !.next = 1]
  /\ UNCHANGED <<content, graphs, corpora, dated, finished, usedDates, benchLeft>>

PointLatest ==
  /\ bench # None /\ bench.at = "point" /\ latest.kind = "absent"
  /\ latest' = [kind |-> "link", date |-> bench.date, files |-> NoFiles]
  /\ bench' = None
  /\ UNCHANGED <<content, graphs, corpora, dated, finished, usedDates, benchLeft>>

(* Where links cannot be made, the files are copied; latest.txt is last.   *)
CopyLatestFile ==
  /\ bench # None /\ bench.at = "point" /\ (bench.next = 1 \/ latest.kind = "directory")
  /\ IF bench.next <= Len(BenchFiles)
     THEN /\ latest' = [latest EXCEPT !.kind = "directory",
                                      !.files[BenchFiles[bench.next]] = dated[bench.date][BenchFiles[bench.next]]]
          /\ bench' = [bench EXCEPT !.next = @ + 1]
     ELSE bench' = None /\ UNCHANGED latest
  /\ UNCHANGED <<content, graphs, corpora, dated, finished, usedDates, benchLeft>>

(* The run is killed: in a generator, in the middle of a file, or between. *)
BenchDies ==
  /\ bench # None
  /\ bench' = None
  /\ \/ UNCHANGED <<corpora, dated>>
     \/ /\ bench.at = "generate" /\ Len(bench.generated) < Len(Generators)
        /\ corpora' = [corpora EXCEPT ![Generators[Len(bench.generated) + 1]].items = "some"]
        /\ UNCHANGED dated
     \/ /\ bench.at = "write"
        /\ dated' = [dated EXCEPT ![bench.date][BenchFiles[bench.next]] = Torn]
        /\ UNCHANGED corpora
  /\ UNCHANGED <<content, graphs, latest, finished, usedDates, benchLeft>>

(* An extraction, or another library, between two runs or while one still  *)
(* reads its inputs: a change later in it is as one after it.              *)
InputsChange ==
  /\ (bench # None => bench.at = "generate") /\ Charge("change")
  /\ \/ \E c \in Corpus, x \in Contents : content' = [content EXCEPT ![c] = x] /\ UNCHANGED graphs
     \/ \E t \in BenchTargets, g \in BenchGraphs : graphs' = [graphs EXCEPT ![t] = g] /\ UNCHANGED content
  /\ UNCHANGED <<corpora, dated, latest, bench, finished, usedDates>>

BenchNext ==
  \/ \E date \in Dates : StartBench(date)
  \/ \E outcome \in {"passing", "raises", "collides"} : Generate(outcome)
  \/ EndIteration
  \/ ComputeBench
  \/ WriteBenchFile
  \/ Unlink
  \/ \E f \in BenchFile : RemoveLatestFile(f)
  \/ RemoveLatest
  \/ PointLatest
  \/ CopyLatestFile
  \/ BenchDies
  \/ InputsChange

BenchSpec == BenchInit /\ [][BenchNext]_benchVars

-----------------------------------------------------------------------------

(* Whoever reads `latest` sees the files of one run, wherever the runs     *)
(* before were killed, by link or by copy, unless a date was used twice.   *)
LatestOfOneRun ==
  (\A i, j \in DOMAIN usedDates : usedDates[i] = usedDates[j] => i = j)
    => \A f, g \in BenchFile : {LatestFile(f), LatestFile(g)} \subseteq Nat \ {0} => LatestFile(f) = LatestFile(g)

(* The delta of a run leads from the corpora of its baseline to its own:   *)
(* what is neither added, removed nor changed is in both, the same.        *)
DeltaReplays ==
  \A n \in DOMAIN finished :
    finished[n] # None /\ finished[n].delta.baseline # None =>
      LET delta == finished[n].delta
      IN \A c \in Corpus \ (delta.added \cup delta.removed \cup delta.changed) :
           finished[n].ring1[c] = delta.baseline.ring1[c]

(* A run that says it is byte identical has left the corpora it lists, as  *)
(* it lists them, with their metadata: a generator that failed in the      *)
(* second iteration only, and spoiled what the first one made, shows.      *)
IdenticalMeansWhole ==
  bench # None /\ bench.at \in {"write", "clear", "point"} /\ finished[bench.run].byte_identical =>
    \A c \in Listed(finished[bench.run]) :
      corpora[c] = [items |-> finished[bench.run].ring1[c], metadata |-> finished[bench.run].ring1[c]]

=============================================================================
