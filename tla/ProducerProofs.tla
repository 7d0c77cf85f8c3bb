-------------------------- MODULE ProducerProofs ---------------------------
(***************************************************************************)
(* The commands that produce evidence, for any inputs, tools and failures: *)
(* theorems of SeedCorpus, HarnessGen, InvariantRunners, UrlFuzzer and     *)
(* BaselineDelta.  Each has an invariant that says what the files left by  *)
(* earlier, failed or killed commands may still be taken for.              *)
(***************************************************************************)
EXTENDS SeedCorpus, HarnessGen, InvariantRunners, UrlFuzzer, BaselineDelta,
        FiniteSetTheorems, SequenceTheorems, TLAPS

(* The seed corpus.                                                        *)

(* While a seeding runs, every entry counts as seen, and the entry it is   *)
(* about to write is not there: only this seeding writes entries.          *)
SeedInv ==
  seedingRun # None =>
    /\ seedingRun = [todo |-> seedingRun.todo, seen |-> seedingRun.seen, digest |-> seedingRun.digest,
                     scanned |-> seedingRun.scanned, written |-> seedingRun.written,
                     deduped |-> seedingRun.deduped]
    /\ DOMAIN entries \subseteq seedingRun.seen
    /\ seedingRun.digest # None => seedingRun.digest \in seedingRun.seen \ DOMAIN entries

(* A seeding that has not started holds nothing.                           *)
LEMMA SeedInitially == SeedInit => SeedInv
BY DEF SeedInit, SeedInv

(* Every step keeps the entries seen.                                      *)
LEMMA SeedStep == SeedInv /\ [SeedNext]_seedVars => SeedInv'
<1>. SUFFICES ASSUME SeedInv, [SeedNext]_seedVars
              PROVE  SeedInv'
  OBVIOUS
<1>. USE DEF SeedInv
<1>1. CASE SourceChanges
  BY <1>1 DEF SourceChanges
<1>2. CASE StartSeeding
  BY <1>2 DEF StartSeeding, Seen
<1>3. CASE HashSeed
  <2>. DEFINE content == source[Head(seedingRun.todo)]
              digest == ContentHash(content)
              counted == [seedingRun EXCEPT !.scanned = @ + 1]
  <2>1. seedingRun # None /\ seedingRun.digest = None /\ UNCHANGED entries
    BY <1>3 DEF HashSeed
  <2>2. CASE content = None
    BY <1>3, <2>1, <2>2 DEF HashSeed
  <2>3. CASE content # None /\ Duplicate(digest)
    <3>1. seedingRun' = [counted EXCEPT !.deduped = @ + 1, !.todo = Tail(@)]
      BY <1>3, <2>3 DEF HashSeed
    <3>. QED  BY <3>1, <2>1
  <2>4. CASE content # None /\ ~Duplicate(digest)
    <3>1. seedingRun' = [counted EXCEPT !.digest = digest, !.seen = @ \cup {digest}]
      BY <1>3, <2>4 DEF HashSeed
    <3>2. digest \notin DOMAIN entries
      BY <2>1, <2>4 DEF Duplicate
    <3>. HIDE DEF digest
    <3>. QED  BY <3>1, <3>2, <2>1
  <2>. QED  BY <2>2, <2>3, <2>4
<1>4. CASE WriteSeed
  <2>. DEFINE content == source[Head(seedingRun.todo)]
  <2>1. seedingRun # None /\ seedingRun.digest # None
    BY <1>4 DEF WriteSeed
  <2>2. CASE content = None
    BY <1>4, <2>2 DEF WriteSeed
  <2>3. CASE content # None
    <3>1. /\ entries' = PutEntry(seedingRun.digest, content)
          /\ seedingRun' = [seedingRun EXCEPT !.digest = None, !.todo = Tail(@), !.written = @ + 1]
      BY <1>4, <2>3 DEF WriteSeed
    <3>2. DOMAIN entries' = DOMAIN entries \cup {seedingRun.digest}
      BY <3>1 DEF PutEntry
    <3>. QED  BY <3>1, <3>2, <2>1
  <2>. QED  BY <2>2, <2>3
<1>5. CASE EndSeeding
  BY <1>5 DEF EndSeeding
<1>6. CASE SeedingDies
  BY <1>6 DEF SeedingDies
<1>7. CASE UNCHANGED seedVars
  BY <1>7 DEF seedVars
<1>. QED  BY <1>1, <1>2, <1>3, <1>4, <1>5, <1>6, <1>7 DEF SeedNext

(* An entry is written only under a hash that has none yet.                *)
LEMMA SeedKeeps ==
  ASSUME SeedInv, [SeedNext]_seedVars
  PROVE  \A n \in DOMAIN entries : n \in DOMAIN entries' /\ entries'[n] = entries[n]
<1>1. CASE entries' = entries
  BY <1>1
<1>2. CASE WriteSeed /\ source[Head(seedingRun.todo)] # None
  <2>1. seedingRun.digest \notin DOMAIN entries
    BY <1>2 DEF WriteSeed, SeedInv
  <2>2. entries' = PutEntry(seedingRun.digest, source[Head(seedingRun.todo)])
    BY <1>2 DEF WriteSeed
  <2>. QED  BY <2>1, <2>2 DEF PutEntry
<1>3. CASE SeedingDies /\ seedingRun.digest # None /\ entries' = PutEntry(seedingRun.digest, TornEntry)
  <2>1. seedingRun.digest \notin DOMAIN entries
    BY <1>3 DEF SeedingDies, SeedInv
  <2>. QED  BY <1>3, <2>1 DEF PutEntry
<1>4. \/ entries' = entries
      \/ WriteSeed /\ source[Head(seedingRun.todo)] # None
      \/ SeedingDies /\ seedingRun.digest # None /\ entries' = PutEntry(seedingRun.digest, TornEntry)
  BY DEF SeedNext, seedVars, SourceChanges, StartSeeding, HashSeed, WriteSeed, EndSeeding, SeedingDies
<1>. QED  BY <1>1, <1>2, <1>3, <1>4

(* No entry of the corpus is removed or rewritten, for any sources,        *)
(* however often a seeding dies: seed_from_smabench.py names an entry by   *)
(* the hash of its content and skips those there are.                      *)
THEOREM SeedsStableHolds == SeedSpec => SeedsStable
<1>1. SeedInv /\ [SeedNext]_seedVars
      => [\A n \in DOMAIN entries : n \in DOMAIN entries' /\ entries'[n] = entries[n]]_seedVars
  BY SeedKeeps
<1>. QED  BY <1>1, SeedInitially, SeedStep, PTL DEF SeedSpec, SeedsStable

-----------------------------------------------------------------------------
(* The harness catalogue and its crash records.                            *)

(* A catalogue entry is a source, a build file and a manifest.             *)
HarnessShape ==
  /\ harness = [p \in Path |-> harness[p]]
  /\ \A p \in Path : harness[p] = [source |-> harness[p].source, build |-> harness[p].build,
                                   manifest |-> harness[p].manifest]

(* While a harness is being generated and nobody has disturbed its path,   *)
(* the files already written are the ones its manifest will describe.      *)
GenerationInv ==
  Generating =>
    /\ generation = [path |-> generation.path, version |-> generation.version,
                     at |-> generation.at, source |-> generation.source]
    /\ generation.path \in Path
    /\ generation.path \notin touched =>
         /\ generation.at \in {"build", "manifest"} =>
              harness[generation.path].source = generation.source
         /\ generation.at = "manifest" =>
              harness[generation.path].build = Text("build", generation.path, generation.version)

HarnessInv == HarnessShape /\ GenerationInv /\ HarnessDescribed

(* The catalogue is empty at first.                                        *)
LEMMA HarnessInitially == HarnessInit => HarnessInv
BY DEF HarnessInit, HarnessInv, HarnessShape, GenerationInv, HarnessDescribed, Generating, Idle

(* Every write of a generation keeps its harness described.                *)
LEMMA HarnessStep == HarnessInv /\ [HarnessNext]_harnessVars => HarnessInv'
<1>. SUFFICES ASSUME HarnessInv, [HarnessNext]_harnessVars
              PROVE  HarnessInv'
  OBVIOUS
<1>. USE DEF HarnessInv, HarnessShape, GenerationInv, HarnessDescribed, Generating, Idle
<1>1. CASE ShipSource
  BY <1>1 DEF ShipSource
<1>2. CASE Upgrade
  BY <1>2 DEF Upgrade
<1>3. ASSUME NEW p \in Path, GenerateHarness(p)
      PROVE  HarnessInv'
  <2>2. CASE Engine[p] = "native_static"
    <3>1. generation' = [path |-> p, version |-> version, at |-> "build", source |-> harness[p].source]
      BY <1>3, <2>2 DEF GenerateHarness
    <3>2. generation'.path = p /\ generation'.at = "build" /\ generation'.source = harness[p].source
      BY <3>1
    <3>3. touched' = touched \ {p} /\ harness' = harness
      BY <1>3 DEF GenerateHarness
    <3>4. ~Generating
      BY <1>3 DEF GenerateHarness
    <3>5. HarnessShape' /\ GenerationInv'
      BY <3>1, <3>2, <3>3
    <3>6. HarnessDescribed'
      BY <3>1, <3>2, <3>3, <3>4
    <3>. QED  BY <3>5, <3>6
  <2>3. CASE Engine[p] # "native_static"
    <3>1. generation' = [path |-> p, version |-> version, at |-> "source", source |-> Text("source", p, version)]
      BY <1>3, <2>3 DEF GenerateHarness
    <3>2. generation'.path = p /\ generation'.at = "source"
      BY <3>1
    <3>3. touched' = touched \ {p} /\ harness' = harness
      BY <1>3 DEF GenerateHarness
    <3>4. ~Generating
      BY <1>3 DEF GenerateHarness
    <3>5. HarnessShape' /\ GenerationInv'
      BY <3>1, <3>2, <3>3
    <3>6. HarnessDescribed'
      BY <3>1, <3>2, <3>3, <3>4
    <3>. QED  BY <3>5, <3>6
  <2>. QED  BY <2>2, <2>3
<1>4. CASE WriteHarnessSource
  <2>. DEFINE q == generation.path
  <2>1. /\ Generating /\ generation.at = "source" /\ q \in Path /\ touched' = touched
        /\ harness' = [harness EXCEPT ![q].source = generation.source]
        /\ generation' = [generation EXCEPT !.at = "build"]
    BY <1>4 DEF WriteHarnessSource
  <2>2. /\ generation'.path = q /\ generation'.at = "build" /\ generation'.source = generation.source
        /\ generation' = [path |-> q, version |-> generation.version, at |-> "build", source |-> generation.source]
    BY <2>1
  <2>3. /\ harness'[q] = [source |-> generation.source, build |-> harness[q].build, manifest |-> harness[q].manifest]
        /\ \A p \in Path : p # q => harness'[p] = harness[p]
        /\ harness' = [p \in Path |-> harness'[p]]
    BY <2>1
  <2>4. HarnessShape'
    BY <2>1, <2>2, <2>3
  <2>5. GenerationInv'
    BY <2>1, <2>2, <2>3
  <2>6. HarnessDescribed'
    BY <2>1, <2>2, <2>3
  <2>. QED  BY <2>4, <2>5, <2>6
<1>5. CASE WriteBuildFile
  <2>. DEFINE q == generation.path
  <2>1. /\ Generating /\ generation.at = "build" /\ q \in Path /\ touched' = touched
        /\ harness' = [harness EXCEPT ![q].build = Text("build", q, generation.version)]
        /\ generation' = [generation EXCEPT !.at = "manifest"]
    BY <1>5 DEF WriteBuildFile, NextText
  <2>2. generation' = [path |-> q, version |-> generation.version, at |-> "manifest", source |-> generation.source]
    BY <2>1
  <2>3. /\ harness'[q] = [source |-> harness[q].source, build |-> Text("build", q, generation.version),
                           manifest |-> harness[q].manifest]
        /\ \A p \in Path : p # q => harness'[p] = harness[p]
        /\ harness' = [p \in Path |-> harness'[p]]
    BY <2>1
  <2>4. HarnessShape'
    BY <2>1, <2>2, <2>3
  <2>5. GenerationInv'
    BY <2>1, <2>2, <2>3
  <2>6. HarnessDescribed'
    BY <2>1, <2>2, <2>3
  <2>. QED  BY <2>4, <2>5, <2>6
<1>6. CASE WriteHarnessManifest
  <2>. DEFINE q == generation.path
  <2>1. /\ Generating /\ generation.at = "manifest" /\ q \in Path /\ touched' = touched
        /\ harness' = [harness EXCEPT ![q].manifest = HarnessManifest(generation)] /\ generation' = Idle
    BY <1>6 DEF WriteHarnessManifest
  <2>2. /\ harness'[q] = [source |-> harness[q].source, build |-> harness[q].build,
                           manifest |-> HarnessManifest(generation)]
        /\ \A p \in Path : p # q => harness'[p] = harness[p]
        /\ harness' = [p \in Path |-> harness'[p]]
    BY <2>1
  <2>3. q \notin touched => HarnessManifest(generation) =
                             [source |-> Digest(harness[q].source), build |-> Digest(harness[q].build)]
    BY <2>1 DEF HarnessManifest
  <2>4. HarnessShape'
    BY <2>1, <2>2, <2>3
  <2>5. GenerationInv'
    BY <2>1, <2>2, <2>3
  <2>6. HarnessDescribed'
    BY <2>1, <2>2, <2>3
  <2>. QED  BY <2>4, <2>5, <2>6
<1>7. CASE GenerationDies
  <2>1. /\ Generating /\ generation' = Idle
        /\ touched' = touched \cup {generation.path}
    BY <1>7 DEF GenerationDies
  <2>2. \A p \in Path : p # generation.path => harness'[p] = harness[p]
    BY <1>7 DEF GenerationDies
  <2>3. harness' = [p \in Path |-> [source |-> harness'[p].source, build |-> harness'[p].build,
                                    manifest |-> harness'[p].manifest]]
    BY <1>7 DEF GenerationDies
  <2>4. HarnessShape'
    BY <2>1, <2>2, <2>3
  <2>5. GenerationInv'
    BY <2>1, <2>2, <2>3
  <2>6. HarnessDescribed'
    BY <2>1, <2>2, <2>3
  <2>. QED  BY <2>4, <2>5, <2>6
<1>8. ASSUME NEW report \in CrashReports, BuildCrashRecord(report)
      PROVE  HarnessInv'
  BY <1>8 DEF BuildCrashRecord
<1>9. CASE UNCHANGED harnessVars
  BY <1>9 DEF harnessVars
<1>. QED  BY <1>1, <1>2, <1>3, <1>4, <1>5, <1>6, <1>7, <1>8, <1>9 DEF HarnessNext

(* A manifest no one disturbed describes the source and the build file     *)
(* beside it, wherever generations die: harnessgen.py writes it last.      *)
THEOREM HarnessDescribedHolds == HarnessSpec => []HarnessDescribed
<1>1. HarnessInv => HarnessDescribed
  BY DEF HarnessInv
<1>. QED  BY <1>1, HarnessInitially, HarnessStep, PTL DEF HarnessSpec

(* The words that Stripped keeps.                                          *)
Kept(category) == {i \in UpToSeparator(category) : category[i] \in LineNumbers => i + 1 \in UpToSeparator(category)}

(* What a report says, with its place behind it.                           *)
LEMMA CategoryOf ==
  ASSUME NEW report \in CrashReports
  PROVE  LET says == report.says
             category == says \o report.place
         IN /\ Len(says) \in Nat /\ Len(report.place) \in Nat
            /\ DOMAIN says = 1..Len(says) /\ DOMAIN report.place = 1..Len(report.place)
            /\ DOMAIN category = 1..(Len(says) + Len(report.place))
            /\ \A i \in 1..Len(says) : category[i] = says[i]
            /\ \A i \in 1..Len(report.place) : category[Len(says) + i] = report.place[i]
<1>. DEFINE says == report.says
            place == report.place
<1>1. says \in Seq(Words) /\ place \in Seq(Words)
  BY HarnessAssumption
<1>. HIDE DEF says, place
<1>2. /\ Len(says) \in Nat /\ Len(place) \in Nat
      /\ DOMAIN says = 1..Len(says) /\ DOMAIN place = 1..Len(place)
  BY <1>1, LenProperties
<1>3. /\ says \o place \in Seq(Words) /\ Len(says \o place) = Len(says) + Len(place)
      /\ \A i \in 1..(Len(says) + Len(place)) :
           (says \o place)[i] = IF i <= Len(says) THEN says[i] ELSE place[i - Len(says)]
  BY <1>1, ConcatProperties
<1>4. DOMAIN (says \o place) = 1..(Len(says) + Len(place))
  BY <1>3, LenProperties
<1>5. \A i \in 1..Len(says) : (says \o place)[i] = says[i]
  BY <1>2, <1>3
<1>6. ASSUME NEW i \in 1..Len(place) PROVE (says \o place)[Len(says) + i] = place[i]
  <2>1. Len(says) + i \in 1..(Len(says) + Len(place)) /\ ~(Len(says) + i <= Len(says)) /\ (Len(says) + i) - Len(says) = i
    BY <1>2
  <2>. QED  BY <1>3, <2>1
<1>. QED  BY <1>2, <1>4, <1>5, <1>6 DEF says, place

(* The names found in it are those of either part.                         *)
LEMMA KnownInEither ==
  ASSUME NEW report \in CrashReports
  PROVE  KnownIn(report.says \o report.place) = KnownIn(report.says) \cup KnownIn(report.place)
<1>. DEFINE says == report.says
            category == says \o report.place
<1>1. /\ Len(says) \in Nat /\ Len(report.place) \in Nat
      /\ DOMAIN says = 1..Len(says) /\ DOMAIN report.place = 1..Len(report.place)
      /\ DOMAIN category = 1..(Len(says) + Len(report.place))
      /\ \A i \in 1..Len(says) : category[i] = says[i]
      /\ \A i \in 1..Len(report.place) : category[Len(says) + i] = report.place[i]
  BY CategoryOf
<1>. HIDE DEF category, says
<1>2. ASSUME NEW i \in DOMAIN category
      PROVE  (\E j \in DOMAIN says : category[i] = says[j]) \/ (\E j \in DOMAIN report.place : category[i] = report.place[j])
  <2>1. CASE i <= Len(says)
    BY <1>1, <2>1
  <2>2. CASE ~(i <= Len(says))
    <3>1. i - Len(says) \in 1..Len(report.place) /\ category[Len(says) + (i - Len(says))] = report.place[i - Len(says)]
      BY <1>1, <2>2
    <3>2. Len(says) + (i - Len(says)) = i
      BY <1>1
    <3>. QED  BY <1>1, <3>1, <3>2
  <2>. QED  BY <2>1, <2>2
<1>3. ASSUME NEW i \in DOMAIN says
      PROVE  \E j \in DOMAIN category : category[j] = says[i]
  <2>1. i \in DOMAIN category /\ category[i] = says[i]
    BY <1>1
  <2>. QED  BY <2>1
<1>4. ASSUME NEW i \in DOMAIN report.place
      PROVE  \E j \in DOMAIN category : category[j] = report.place[i]
  <2>1. Len(says) + i \in 1..(Len(says) + Len(report.place))
    BY <1>1
  <2>2. Len(says) + i \in DOMAIN category /\ category[Len(says) + i] = report.place[i]
    BY <1>1, <2>1
  <2>. QED  BY <2>2
<1>5. KnownIn(category) = KnownIn(says) \cup KnownIn(report.place)
  BY <1>2, <1>3, <1>4 DEF KnownIn
<1>. QED  BY <1>5 DEF category, says

(* A place that can be told apart is taken off: what is left is what would *)
(* be left of what the report says.                                        *)
LEMMA PlaceIsStripped ==
  ASSUME NEW report \in CrashReports, PlaceApart(report)
  PROVE  Stripped(report.says \o report.place) = Stripped(report.says)
<1>. DEFINE says == report.says
            place == report.place
            category == says \o place
            n == Len(says)
<1>1. /\ n \in Nat /\ Len(place) \in Nat
      /\ DOMAIN says = 1..n /\ DOMAIN category = 1..(n + Len(place))
      /\ \A i \in 1..n : category[i] = says[i]
      /\ \A i \in 1..Len(place) : category[n + i] = place[i]
  BY CategoryOf
<1>a. /\ says \in Seq(Words) /\ place \in Seq(Words)
      /\ says # <<>> => says[n] \notin LineNumbers
      /\ \/ place = <<>>
         \/ place[1] \in Separators
         \/ Len(place) = 1 /\ place[1] \in LineNumbers
  BY HarnessAssumption DEF PlaceApart
<1>. HIDE DEF category, says, place
<1>b. (place # <<>> => Len(place) > 0) /\ (n # 0 => says # <<>>)
  BY <1>a, EmptySeq
<1>. HIDE DEF n
<1>2. /\ n # 0 => says[n] \notin LineNumbers
      /\ \/ Len(place) = 0
         \/ Len(place) > 0 /\ category[n + 1] \in Separators
         \/ Len(place) = 1 /\ category[n + 1] \in LineNumbers
  <2>1. place # <<>> => category[n + 1] = place[1]
    BY <1>1, <1>b
  <2>. QED  BY <1>a, <1>b, <2>1
<1>3. UpToSeparator(says) = UpToSeparator(category) \cap 1..n
  BY <1>1 DEF UpToSeparator
<1>4. ASSUME NEW i \in UpToSeparator(category), i \notin 1..n
      PROVE  i = n + 1 /\ category[i] \in LineNumbers /\ i + 1 \notin UpToSeparator(category)
  <2>1. i \in 1..(n + Len(place)) /\ n + 1 \in 1..i /\ \A j \in 1..i : category[j] \notin Separators
    BY <1>1, <1>4 DEF UpToSeparator
  <2>2. Len(place) = 1 /\ category[n + 1] \in LineNumbers
    BY <1>1, <1>2, <2>1
  <2>3. i = n + 1
    BY <1>1, <2>1, <2>2
  <2>4. i + 1 \notin DOMAIN category
    BY <1>1, <2>2, <2>3
  <2>. QED  BY <2>2, <2>3, <2>4 DEF UpToSeparator
<1>5. Kept(category) = Kept(says)
  <2>1. ASSUME NEW i \in Kept(category) PROVE i \in Kept(says)
    <3>1. i \in UpToSeparator(says) /\ i \in 1..n /\ category[i] = says[i]
      BY <1>1, <1>3, <1>4 DEF Kept
    <3>2. says[i] \in LineNumbers => i + 1 \in UpToSeparator(category) /\ i # n
      BY <1>1, <1>2, <3>1 DEF Kept
    <3>. QED  BY <1>1, <1>3, <3>1, <3>2 DEF Kept
  <2>2. ASSUME NEW i \in Kept(says) PROVE i \in Kept(category)
    BY <1>1, <1>3 DEF Kept
  <2>. QED  BY <2>1, <2>2
<1>6. Kept(says) \subseteq 1..n
  BY <1>3 DEF Kept
<1>7. [i \in Kept(category) |-> category[i]] = [i \in Kept(says) |-> says[i]]
  BY <1>1, <1>5, <1>6
<1>8. Stripped(category) = Stripped(says)
  BY <1>5, <1>7 DEF Stripped, Kept
<1>. QED  BY <1>8 DEF category, says, place

(* Every crash record was built from its report, with one of the classes   *)
(* its category may be given.                                              *)
CrashInv ==
  \A x \in crashRecords :
    \E report \in CrashReports : \E class \in NormalizedCrashClasses(report.says \o report.place) :
      x = <<report, CrashRecord(report, class)>>

(* Records are only ever added by build_crash_record.                      *)
LEMMA CrashInvInductive ==
  /\ HarnessInit => CrashInv
  /\ CrashInv /\ [HarnessNext]_harnessVars => CrashInv'
<1>1. HarnessInit => CrashInv
  BY DEF HarnessInit, CrashInv
<1>2. ASSUME CrashInv, NEW report \in CrashReports, BuildCrashRecord(report)
      PROVE  CrashInv'
  BY <1>2 DEF CrashInv, BuildCrashRecord
<1>3. ASSUME CrashInv, crashRecords' = crashRecords
      PROVE  CrashInv'
  BY <1>3 DEF CrashInv
<1>4. [HarnessNext]_harnessVars
      => crashRecords' = crashRecords \/ \E report \in CrashReports : BuildCrashRecord(report)
  BY DEF HarnessNext, harnessVars, ShipSource, Upgrade, GenerateHarness, WriteHarnessSource,
         WriteBuildFile, WriteHarnessManifest, GenerationDies
<1>. QED  BY <1>1, <1>2, <1>3, <1>4

(* When one name at most is found, the class is that of what is said.      *)
LEMMA ClassOfWhatIsSaid ==
  ASSUME NEW report \in CrashReports, OneNameAtMost(report), PlaceApart(report),
         NEW class \in NormalizedCrashClasses(report.says \o report.place)
  PROVE  class = IF KnownIn(report.says) = {} THEN Stripped(report.says)
                 ELSE <<CHOOSE known \in KnownIn(report.says) : TRUE>>
<1>1. KnownIn(report.says \o report.place) = KnownIn(report.says)
  BY KnownInEither DEF OneNameAtMost
<1>2. CASE KnownIn(report.says) = {}
  BY <1>1, <1>2, PlaceIsStripped DEF NormalizedCrashClasses
<1>3. CASE KnownIn(report.says) # {}
  <2>1. PICK known \in KnownIn(report.says) : class = <<known>>
    BY <1>1, <1>3 DEF NormalizedCrashClasses
  <2>2. known = CHOOSE k \in KnownIn(report.says) : TRUE
    BY DEF OneNameAtMost
  <2>. QED  BY <1>3, <2>1, <2>2
<1>. QED  BY <1>2, <1>3

(* Two records of one crash differ at most in their class, and not in that *)
(* when one name at most is found.                                         *)
LEMMA CrashInvStable == CrashInv => CrashStable
<1>. SUFFICES ASSUME CrashInv, NEW a \in crashRecords, NEW b \in crashRecords,
                     \A field \in {"harness", "input", "says", "frames"} : a[1][field] = b[1][field]
              PROVE  /\ [a[2] EXCEPT !.crash_class = None] = [b[2] EXCEPT !.crash_class = None]
                     /\ (\A report \in {a[1], b[1]} : OneNameAtMost(report) /\ PlaceApart(report)) =>
                          a[2].crash_class = b[2].crash_class
  BY DEF CrashStable
<1>1. PICK r \in CrashReports : \E class \in NormalizedCrashClasses(r.says \o r.place) : a = <<r, CrashRecord(r, class)>>
  BY DEF CrashInv
<1>2. PICK c \in NormalizedCrashClasses(r.says \o r.place) : a = <<r, CrashRecord(r, c)>>
  BY <1>1
<1>3. PICK s \in CrashReports : \E class \in NormalizedCrashClasses(s.says \o s.place) : b = <<s, CrashRecord(s, class)>>
  BY DEF CrashInv
<1>4. PICK d \in NormalizedCrashClasses(s.says \o s.place) : b = <<s, CrashRecord(s, d)>>
  BY <1>3
<1>5. a[1] = r /\ b[1] = s /\ a[2] = CrashRecord(r, c) /\ b[2] = CrashRecord(s, d)
  BY <1>2, <1>4
<1>6. r.harness = s.harness /\ r.input = s.input /\ r.says = s.says /\ r.frames = s.frames
  BY <1>5
<1>7. [a[2] EXCEPT !.crash_class = None] = [b[2] EXCEPT !.crash_class = None]
  BY <1>5, <1>6 DEF CrashRecord, CanonicalizeStackTrace
<1>8. a[2].crash_class = c /\ b[2].crash_class = d
  BY <1>5 DEF CrashRecord
<1>9. OneNameAtMost(r) /\ OneNameAtMost(s) /\ PlaceApart(r) /\ PlaceApart(s) => c = d
  BY <1>6, ClassOfWhatIsSaid
<1>. QED  BY <1>5, <1>7, <1>8, <1>9

(* A crash has one identity however often it is recorded, at whatever      *)
(* addresses, and one class whatever line or path follows what it says and *)
(* in whatever order harnessgen.py tries the names, unless it says two     *)
(* names, or the place holds one or cannot be told from what it says.      *)
THEOREM CrashStableHolds == HarnessSpec => []CrashStable
BY CrashInvInductive, CrashInvStable, PTL DEF HarnessSpec

-----------------------------------------------------------------------------
(* The invariant runners.                                                  *)

(* A run that says "ran" and wrote the file has reported what is in it: no *)
(* later run of the engine writes the file and leaves the result.          *)
SarifInv ==
  /\ DOMAIN engineRun = Engines /\ DOMAIN sarif = Engines
  /\ \A e \in Engines :
       engineRun[e] # None /\ engineRun[e].status = "ran" /\ engineRun[e].wrote =>
         \A r \in sarif[e] : <<e, engineRun[e].of, r>> \in reported

(* No engine has run at first.                                             *)
LEMMA RunnersInitially == RunnersInit => SarifInv /\ ViolationsWitnessed
BY DEF RunnersInit, SarifInv, ViolationsWitnessed

(* A run of one engine says nothing of the others.                         *)
LEMMA EngineEnds ==
  ASSUME SarifInv, NEW e \in Engines, NEW scanned, NEW status, NEW wrote, RunResult(e, scanned, status, wrote),
         NEW file, sarif' = sarif \/ sarif' = [sarif EXCEPT ![e] = file], reported \subseteq reported',
         status = "ran" /\ wrote => \A r \in sarif'[e] : <<e, scanned, r>> \in reported'
  PROVE  SarifInv'
<1>1. /\ engineRun'[e].of = scanned /\ engineRun'[e].status = status /\ engineRun'[e].wrote = wrote
      /\ DOMAIN engineRun' = Engines /\ DOMAIN sarif' = Engines
      /\ \A f \in Engines : f # e => engineRun'[f] = engineRun[f] /\ sarif'[f] = sarif[f]
  BY DEF RunResult, SarifInv
<1>. QED  BY <1>1 DEF SarifInv

(* What is made of a file is the results that are in it.                   *)
LEMMA ConsolidatedFrom ==
  ASSUME NEW results, NEW e, NEW v \in ConsolidateSarif(results, e)
  PROVE  v[1] = engineRun[e].of /\ v[2] \in results /\ v[3] = engineRun[e].wrote /\ v[4].rule_engine = e
BY DEF ConsolidateSarif, OurResults

(* Every run leaves a result that has reported what is in its file.        *)
LEMMA RunnersStep ==
  SarifInv /\ ViolationsWitnessed /\ [RunnersNext]_engineVars => (SarifInv /\ ViolationsWitnessed)'
<1>. SUFFICES ASSUME SarifInv, ViolationsWitnessed, [RunnersNext]_engineVars
              PROVE  (SarifInv /\ ViolationsWitnessed)'
  OBVIOUS
<1>1. CASE MachineChanges
  BY <1>1 DEF MachineChanges, SarifInv, ViolationsWitnessed
<1>2. ASSUME NEW e \in Engines, NEW scanned \in Scanned, SkippedPendingToolchain(e, scanned)
      PROVE  (SarifInv /\ ViolationsWitnessed)'
  BY <1>2, EngineEnds DEF SkippedPendingToolchain, ViolationsWitnessed
<1>3. ASSUME NEW e \in Engines, NEW scanned \in Scanned, InputNotFound(e, scanned)
      PROVE  (SarifInv /\ ViolationsWitnessed)'
  BY <1>3, EngineEnds DEF InputNotFound, ViolationsWitnessed
<1>4. ASSUME NEW e \in Engines, NEW scanned \in Scanned, EngineTimesOut(e, scanned)
      PROVE  (SarifInv /\ ViolationsWitnessed)'
  BY <1>4, EngineEnds DEF EngineTimesOut, ViolationsWitnessed
<1>5. ASSUME NEW e \in Engines, NEW scanned \in Scanned, RunCodeqlOrSemgrep(e, scanned)
      PROVE  (SarifInv /\ ViolationsWitnessed)'
  <2>1. PICK exit \in 0..2, wrote \in BOOLEAN, R \in Reports :
          /\ RunResult(e, scanned, IF AcceptedExit(e, exit) THEN "ran" ELSE "failed", wrote)
          /\ sarif' = IF wrote THEN [sarif EXCEPT ![e] = R] ELSE sarif
          /\ reported' = IF wrote /\ Succeeds(e, exit) THEN reported \cup {<<e, scanned, r>> : r \in R}
                         ELSE reported
    BY <1>5 DEF RunCodeqlOrSemgrep
  <2>2. reported \subseteq reported' /\ violations' = violations
    BY <1>5, <2>1 DEF RunCodeqlOrSemgrep
  <2>3. AcceptedExit(e, exit) => Succeeds(e, exit)
    BY DEF AcceptedExit, Succeeds
  <2>4. AcceptedExit(e, exit) /\ wrote => \A r \in sarif'[e] : <<e, scanned, r>> \in reported'
    <3>1. wrote => sarif'[e] = R
      BY <2>1 DEF SarifInv
    <3>. QED  BY <2>1, <2>3, <3>1
  <2>5. SarifInv'
    BY <2>1, <2>2, <2>4, EngineEnds
  <2>. QED  BY <2>2, <2>5 DEF ViolationsWitnessed
<1>6. ASSUME NEW e \in Engines, Consolidate(e)
      PROVE  (SarifInv /\ ViolationsWitnessed)'
  <2>1. SarifInv'
    BY <1>6 DEF Consolidate, SarifInv
  <2>2. ASSUME NEW v \in violations', v[3]
        PROVE  <<v[4].rule_engine, v[1], v[2]>> \in reported
    <3>1. CASE v \in violations
      BY <2>2, <3>1 DEF ViolationsWitnessed
    <3>2. CASE v \notin violations
      <4>1. engineRun[e] # None /\ engineRun[e].status = "ran" /\ v \in ConsolidateSarif(sarif[e], e)
        BY <1>6, <2>2, <3>2 DEF Consolidate
      <4>. QED  BY <2>2, <4>1, ConsolidatedFrom DEF SarifInv
    <3>. QED  BY <3>1, <3>2
  <2>3. reported' = reported
    BY <1>6 DEF Consolidate
  <2>. QED  BY <2>1, <2>2, <2>3 DEF ViolationsWitnessed
<1>7. CASE UNCHANGED engineVars
  BY <1>7 DEF engineVars, SarifInv, ViolationsWitnessed
<1>. QED  BY <1>1, <1>2, <1>3, <1>4, <1>5, <1>6, <1>7 DEF RunnersNext

(* Whatever toolchains come and go, and whichever runs fail, are killed or *)
(* write nothing: a violation made of a run that wrote the file is of a    *)
(* result the engine reported in a run that ended in success, of that      *)
(* target at that commit (codeql_runner.py and semgrep_runner.py).         *)
THEOREM ViolationsWitnessedHolds == RunnersSpec => []ViolationsWitnessed
BY RunnersInitially, RunnersStep, PTL DEF RunnersSpec

-----------------------------------------------------------------------------
(* The differential fuzzer.                                                *)

(* What an input has shown was seen by the driver, and every kept input    *)
(* brought at least one axis that no input before it had shown.            *)
FuzzInv ==
  /\ fuzz = [queue |-> fuzz.queue, base |-> fuzz.base, mutations |-> fuzz.mutations, seen |-> fuzz.seen,
             interesting |-> fuzz.interesting, total |-> fuzz.total, crashes |-> fuzz.crashes,
             left |-> fuzz.left, summary |-> fuzz.summary]
  /\ fuzzShown = [i \in FuzzInputs |-> fuzzShown[i]]
  /\ fuzzCorpus \subseteq FuzzInputs
  /\ \A i \in FuzzInputs : fuzzShown[i] \subseteq fuzz.seen
  /\ fuzz.seen = UNION {fuzzShown[i] : i \in fuzzCorpus}
  /\ IsFiniteSet(fuzz.seen) /\ IsFiniteSet(fuzzCorpus)
  /\ Cardinality(fuzzCorpus) <= Cardinality(fuzz.seen)

(* Nothing has been seen at first.                                         *)
LEMMA FuzzInitially == FuzzInit => FuzzInv
BY FS_EmptySet DEF FuzzInit, FuzzInv

(* A set that something is added to has more elements.                     *)
LEMMA MoreSeen ==
  ASSUME NEW S, NEW T, IsFiniteSet(S), IsFiniteSet(T), T \ S # {}
  PROVE  IsFiniteSet(S \cup T) /\ Cardinality(S \cup T) >= Cardinality(S) + 1
<1>1. PICK x \in T : x \notin S
  OBVIOUS
<1>2. IsFiniteSet(S \cup T)
  BY FS_Union
<1>3. IsFiniteSet(S \cup {x}) /\ Cardinality(S \cup {x}) = Cardinality(S) + 1
  BY <1>1, FS_AddElement
<1>4. Cardinality(S \cup {x}) <= Cardinality(S \cup T)
  BY <1>1, <1>2, FS_Subset
<1>5. Cardinality(S) \in Nat /\ Cardinality(S \cup T) \in Nat
  BY <1>2, FS_CardinalityType
<1>. QED  BY <1>2, <1>3, <1>4, <1>5

(* An input is kept only if it shows an axis for the first time.           *)
LEMMA FuzzStep == FuzzInv /\ [FuzzNext]_fuzzVars => FuzzInv'
<1>. SUFFICES ASSUME FuzzInv, [FuzzNext]_fuzzVars
              PROVE  FuzzInv'
  OBVIOUS
<1>. USE DEF FuzzInv
<1>1. CASE PopBase
  <2>1. UNCHANGED <<fuzzCorpus, fuzzShown>> /\ fuzz'.seen = fuzz.seen
    BY <1>1 DEF PopBase
  <2>2. fuzz' = [queue |-> fuzz'.queue, base |-> fuzz'.base, mutations |-> fuzz'.mutations, seen |-> fuzz'.seen,
                 interesting |-> fuzz'.interesting, total |-> fuzz'.total, crashes |-> fuzz'.crashes,
                 left |-> fuzz'.left, summary |-> fuzz'.summary]
    BY <1>1 DEF PopBase
  <2>. QED  BY <2>1, <2>2
<1>2. ASSUME NEW input \in FuzzInputs, NEW axes \in FuzzAxes, NEW again \in BOOLEAN,
             TryMutation(input, axes, again)
      PROVE  FuzzInv'
  <2>. DEFINE new == axes \ fuzz.seen
  <2>1. /\ fuzz'.seen = fuzz.seen \cup axes
        /\ fuzzCorpus' = IF new # {} THEN fuzzCorpus \cup {input} ELSE fuzzCorpus
        /\ fuzzShown' = [fuzzShown EXCEPT ![input] = @ \cup axes]
    BY <1>2 DEF TryMutation, NewAxes
  <2>2. fuzz' = [queue |-> fuzz'.queue, base |-> fuzz'.base, mutations |-> fuzz'.mutations, seen |-> fuzz'.seen,
                 interesting |-> fuzz'.interesting, total |-> fuzz'.total, crashes |-> fuzz'.crashes,
                 left |-> fuzz'.left, summary |-> fuzz'.summary]
    BY <1>2 DEF TryMutation
  <2>3. /\ fuzzShown' = [i \in FuzzInputs |-> fuzzShown'[i]]
        /\ fuzzShown'[input] = fuzzShown[input] \cup axes
        /\ \A i \in FuzzInputs : i # input => fuzzShown'[i] = fuzzShown[i]
    BY <2>1
  <2>4. fuzzCorpus' \subseteq FuzzInputs /\ \A i \in FuzzInputs : fuzzShown'[i] \subseteq fuzz'.seen
    BY <2>1, <2>3
  <2>5. fuzz'.seen \subseteq UNION {fuzzShown'[i] : i \in fuzzCorpus'}
    <3>1. fuzz.seen \subseteq UNION {fuzzShown'[i] : i \in fuzzCorpus'}
      <4>1. \A i \in fuzzCorpus : i \in fuzzCorpus' /\ fuzzShown[i] \subseteq fuzzShown'[i]
        BY <2>1, <2>3
      <4>. QED  BY <4>1
    <3>2. new \subseteq UNION {fuzzShown'[i] : i \in fuzzCorpus'}
      <4>1. new # {} => input \in fuzzCorpus' /\ new \subseteq fuzzShown'[input]
        BY <2>1, <2>3
      <4>. QED  BY <4>1
    <3>. QED  BY <2>1, <3>1, <3>2
  <2>6. IsFiniteSet(axes)
    BY FuzzAssumption
  <2>7. /\ IsFiniteSet(fuzz'.seen) /\ IsFiniteSet(fuzzCorpus')
        /\ Cardinality(fuzzCorpus') <= Cardinality(fuzz'.seen)
    <3>1. CASE new = {}
      <4>1. fuzz'.seen = fuzz.seen /\ fuzzCorpus' = fuzzCorpus
        BY <2>1, <3>1
      <4>. QED  BY <4>1
    <3>2. CASE new # {}
      <4>1. fuzzCorpus' = fuzzCorpus \cup {input}
        BY <2>1, <3>2
      <4>2. IsFiniteSet(fuzzCorpus') /\ Cardinality(fuzzCorpus') <= Cardinality(fuzzCorpus) + 1
        <5>1. /\ IsFiniteSet(fuzzCorpus \cup {input})
              /\ Cardinality(fuzzCorpus \cup {input}) = Cardinality(fuzzCorpus)
                 \/ Cardinality(fuzzCorpus \cup {input}) = Cardinality(fuzzCorpus) + 1
          BY FS_AddElement
        <5>2. Cardinality(fuzzCorpus) \in Nat
          BY FS_CardinalityType
        <5>. QED  BY <4>1, <5>1, <5>2
      <4>3. IsFiniteSet(fuzz'.seen) /\ Cardinality(fuzz'.seen) >= Cardinality(fuzz.seen) + 1
        <5>1. axes \ fuzz.seen # {} /\ IsFiniteSet(fuzz.seen)
          BY <3>2
        <5>2. /\ IsFiniteSet(fuzz.seen \cup axes)
              /\ Cardinality(fuzz.seen \cup axes) >= Cardinality(fuzz.seen) + 1
          BY <2>6, <5>1, MoreSeen
        <5>. QED  BY <2>1, <5>2
      <4>4. Cardinality(fuzzCorpus') \in Nat /\ Cardinality(fuzzCorpus) \in Nat
            /\ Cardinality(fuzz'.seen) \in Nat /\ Cardinality(fuzz.seen) \in Nat
        BY <4>2, <4>3, FS_CardinalityType
      <4>. QED  BY <4>2, <4>3, <4>4
    <3>. QED  BY <3>1, <3>2
  <2>8. fuzz'.seen = UNION {fuzzShown'[i] : i \in fuzzCorpus'}
    BY <2>4, <2>5
  <2>. QED  BY <2>2, <2>3, <2>4, <2>7, <2>8
<1>3. CASE MutationCrashes
  <2>1. PICK counted \in {0, 1} :
          fuzz' = [fuzz EXCEPT
            !.total = @ + counted, !.left = @ - 1, !.mutations = @ + 1, !.crashes = @ + 1,
            !.base = IF fuzz.mutations + 1 = MutationsPerBase THEN None ELSE @]
    BY <1>3 DEF MutationCrashes
  <2>2. /\ UNCHANGED <<fuzzCorpus, fuzzShown>> /\ fuzz'.seen = fuzz.seen
        /\ fuzz' = [queue |-> fuzz'.queue, base |-> fuzz'.base, mutations |-> fuzz'.mutations, seen |-> fuzz'.seen,
                    interesting |-> fuzz'.interesting, total |-> fuzz'.total, crashes |-> fuzz'.crashes,
                    left |-> fuzz'.left, summary |-> fuzz'.summary]
    BY <1>3, <2>1 DEF MutationCrashes
  <2>. QED  BY <2>2
<1>4. CASE FuzzDeadline
  BY <1>4 DEF FuzzDeadline
<1>5. CASE UNCHANGED fuzzVars
  BY <1>5 DEF fuzzVars
<1>. QED  BY <1>1, <1>2, <1>3, <1>4, <1>5 DEF FuzzNext

(* The kept inputs show every axis the driver ever saw, and are no more    *)
(* than the axes: fuzzer.py, for any inputs and any behaviour of the       *)
(* parsers.                                                                *)
THEOREM AxesKeptHolds == FuzzSpec => []AxesKept
<1>1. FuzzInv => AxesKept
  BY DEF FuzzInv, AxesKept
<1>. QED  BY <1>1, FuzzInitially, FuzzStep, PTL DEF FuzzSpec

-----------------------------------------------------------------------------
(* The comparison with other tools.                                        *)

(* What a run of the comparison looks like.                                *)
IsDelta(d) ==
  /\ d = [target |-> d.target, tool |-> d.tool, at |-> d.at, envelopes |-> d.envelopes,
          silent |-> d.silent, findings |-> d.findings]
  /\ d.target \in 1..Len(DeltaTargets) /\ d.tool \in 1..4
  /\ d.envelopes = [t \in DeltaTarget |-> [tool \in Tools |-> d.envelopes[t][tool]]]

(* An envelope with a path is that of a tool that ran in this run, and the *)
(* file is what it left, unless the tool was silent.                       *)
EnvelopesCurrent(d, files, run) ==
  \A t \in DeltaTarget, tool \in Tools :
    d.envelopes[t][tool].findings_path /\ files[t][tool] # None =>
      /\ files[t][tool].run = run \/ <<t, tool>> \in d.silent
      /\ d.envelopes[t][tool].status = "ran" \/ files[t][tool].found = {}

(* The findings gathered are those of tools that ran in this run.          *)
FindingsCurrent(d, run) ==
  \A f \in d.findings :
    /\ f.run = run \/ <<f.target, f.tool>> \in d.silent
    /\ f.target \in DeltaTarget /\ f.tool \in Tools
    /\ d.envelopes[f.target][f.tool].status = "ran"

(* The inductive invariant of the comparison.                              *)
DeltaInv ==
  /\ findingsFile = [t \in DeltaTarget |-> [tool \in Tools |-> findingsFile[t][tool]]]
  /\ delta # None => /\ IsDelta(delta)
                     /\ EnvelopesCurrent(delta, findingsFile, deltaRuns)
                     /\ delta.at \in {"tool", "coverage", "gather"} => delta.findings = {}
                     /\ FindingsCurrent(delta, deltaRuns)
  /\ NoStaleFindings

(* The run stands at a tool and a target.                                  *)
LEMMA ToolPlace ==
  ASSUME IsDelta(delta)
  PROVE  Target \in DeltaTarget /\ Tool \in Tools
<1>1. Target \in DeltaTarget
  BY DEF IsDelta, Target, DeltaTarget
<1>2. DOMAIN ToolOrder = 1..4
  BY DEF ToolOrder
<1>. QED  BY <1>1, <1>2 DEF IsDelta, Tool, Tools

(* Going on to the next tool leaves what was gathered alone.               *)
LEMMA NextPlace ==
  ASSUME NEW d, IsDelta(d)
  PROVE  /\ IsDelta(NextTool(d))
         /\ NextTool(d).envelopes = d.envelopes /\ NextTool(d).silent = d.silent
         /\ NextTool(d).findings = d.findings
<1>. USE DEF IsDelta
<1>1. Len(ToolOrder) = 4
  BY DEF ToolOrder
<1>2. CASE d.tool < 4
  <2>1. NextTool(d) = [d EXCEPT !.tool = @ + 1, !.at = "tool"]
    BY <1>1, <1>2 DEF NextTool
  <2>2. NextTool(d) = [target |-> d.target, tool |-> d.tool + 1, at |-> "tool", envelopes |-> d.envelopes,
                       silent |-> d.silent, findings |-> d.findings]
    BY <2>1
  <2>3. d.tool + 1 \in 1..4
    BY <1>2
  <2>. QED  BY <2>2, <2>3
<1>3. CASE ~(d.tool < 4) /\ d.target < Len(DeltaTargets)
  <2>1. NextTool(d) = [d EXCEPT !.target = @ + 1, !.tool = 1, !.at = "tool"]
    BY <1>1, <1>3 DEF NextTool
  <2>2. NextTool(d) = [target |-> d.target + 1, tool |-> 1, at |-> "tool", envelopes |-> d.envelopes,
                       silent |-> d.silent, findings |-> d.findings]
    BY <2>1
  <2>3. d.target + 1 \in 1..Len(DeltaTargets)
    BY <1>3, DeltaAssumption
  <2>. QED  BY <2>2, <2>3
<1>4. CASE ~(d.tool < 4) /\ ~(d.target < Len(DeltaTargets))
  <2>1. NextTool(d) = [d EXCEPT !.at = "gather"]
    BY <1>1, <1>4 DEF NextTool
  <2>. QED  BY <1>4, <2>1, DeltaAssumption
<1>. QED  BY <1>2, <1>3, <1>4

(* No run is under way at first.                                           *)
LEMMA DeltaInitially == DeltaInit => DeltaInv
BY DEF DeltaInit, DeltaInv, PerTool, NoStaleFindings

(* What setting one envelope does to the record of a run.                  *)
LEMMA EnvelopeSet ==
  ASSUME NEW r, r = [target |-> r.target, tool |-> r.tool, at |-> r.at, envelopes |-> r.envelopes,
                     silent |-> r.silent, findings |-> r.findings],
         NEW t, NEW u, NEW e, NEW at, NEW silent,
         NEW d, d = [r EXCEPT !.at = at, !.envelopes[t][u] = e, !.silent = silent]
  PROVE  /\ d = [target |-> r.target, tool |-> r.tool, at |-> d.at, envelopes |-> d.envelopes,
                 silent |-> silent, findings |-> r.findings]
         /\ d.envelopes = [r.envelopes EXCEPT ![t][u] = e]
OBVIOUS

(* A tool has ended with this envelope and these files.                    *)
LEMMA ToolEnds ==
  ASSUME DeltaInv, delta # None, delta.at = "tool",
         NEW envelope, NEW d,
         findingsFile' = [t \in DeltaTarget |-> [tool \in Tools |-> findingsFile'[t][tool]]],
         \A t \in DeltaTarget, tool \in Tools :
           ~(t = Target /\ tool = Tool) => findingsFile'[t][tool] = findingsFile[t][tool],
         envelope.findings_path =>
           /\ findingsFile'[Target][Tool].run = deltaRuns \/ <<Target, Tool>> \in d.silent
           /\ envelope.status = "ran" \/ findingsFile'[Target][Tool].found = {},
         d = [target |-> delta.target, tool |-> delta.tool, at |-> d.at, envelopes |-> d.envelopes,
              silent |-> d.silent, findings |-> delta.findings],
         delta.silent \subseteq d.silent,
         d.envelopes = [delta.envelopes EXCEPT ![Target][Tool] = envelope]
  PROVE  IsDelta(d) /\ EnvelopesCurrent(d, findingsFile', deltaRuns) /\ d.findings = {}
<1>1. IsDelta(delta) /\ EnvelopesCurrent(delta, findingsFile, deltaRuns) /\ delta.findings = {}
  BY DEF DeltaInv
<1>2. Target \in DeltaTarget /\ Tool \in Tools
  BY <1>1, ToolPlace
<1>3. /\ delta.silent \subseteq d.silent /\ d.findings = {}
      /\ d.target = delta.target /\ d.tool = delta.tool
      /\ d = [target |-> d.target, tool |-> d.tool, at |-> d.at, envelopes |-> d.envelopes,
              silent |-> d.silent, findings |-> d.findings]
  BY <1>1
<1>4. /\ d.envelopes = [t \in DeltaTarget |-> [tool \in Tools |-> d.envelopes[t][tool]]]
      /\ d.envelopes[Target][Tool] = envelope
      /\ \A t \in DeltaTarget, tool \in Tools :
           ~(t = Target /\ tool = Tool) => d.envelopes[t][tool] = delta.envelopes[t][tool]
  <2>. DEFINE x == delta.envelopes
              y == d.envelopes
  <2>1. y = [x EXCEPT ![Target][Tool] = envelope]
    OBVIOUS
  <2>2. x = [t \in DeltaTarget |-> [tool \in Tools |-> x[t][tool]]]
    BY <1>1 DEF IsDelta
  <2>. HIDE DEF x, y
  <2>3. /\ y = [t \in DeltaTarget |-> [tool \in Tools |-> y[t][tool]]]
        /\ y[Target][Tool] = envelope
        /\ \A t \in DeltaTarget, tool \in Tools :
             ~(t = Target /\ tool = Tool) => y[t][tool] = x[t][tool]
    BY <1>2, <2>1, <2>2
  <2>. QED  BY <2>3 DEF x, y
<1>5. IsDelta(d)
  BY <1>1, <1>3, <1>4 DEF IsDelta
<1>6. ASSUME NEW t \in DeltaTarget, NEW tool \in Tools,
             d.envelopes[t][tool].findings_path, findingsFile'[t][tool] # None
      PROVE  /\ findingsFile'[t][tool].run = deltaRuns \/ <<t, tool>> \in d.silent
             /\ d.envelopes[t][tool].status = "ran" \/ findingsFile'[t][tool].found = {}
  <2>1. CASE t = Target /\ tool = Tool
    BY <1>3, <1>4, <1>6, <2>1
  <2>2. CASE ~(t = Target /\ tool = Tool)
    BY <1>1, <1>3, <1>4, <1>6, <2>2 DEF EnvelopesCurrent
  <2>. QED  BY <2>1, <2>2
<1>. QED  BY <1>3, <1>5, <1>6 DEF EnvelopesCurrent

(* A tool has ended and left this findings file.                           *)
LEMMA FileWritten ==
  ASSUME DeltaInv, delta # None, NEW file,
         findingsFile' = [findingsFile EXCEPT ![Target][Tool] = file]
  PROVE  /\ findingsFile' = [t \in DeltaTarget |-> [tool \in Tools |-> findingsFile'[t][tool]]]
         /\ \A t \in DeltaTarget, tool \in Tools :
              ~(t = Target /\ tool = Tool) => findingsFile'[t][tool] = findingsFile[t][tool]
         /\ findingsFile'[Target][Tool] = file
<1>1. Target \in DeltaTarget /\ Tool \in Tools
  BY ToolPlace DEF DeltaInv
<1>2. findingsFile = [t \in DeltaTarget |-> [tool \in Tools |-> findingsFile[t][tool]]]
  BY DEF DeltaInv
<1>. QED  BY <1>1, <1>2

(* A tool has ended without findings of its own.                           *)
LEMMA ToolEndsEmpty ==
  ASSUME DeltaInv, delta # None, delta.at = "tool",
         NEW envelope, ~envelope.findings_path, findingsFile' = findingsFile,
         NEW d, d = [delta EXCEPT !.envelopes[Target][Tool] = envelope]
  PROVE  /\ IsDelta(d) /\ EnvelopesCurrent(d, findingsFile', deltaRuns) /\ d.findings = {}
         /\ findingsFile' = [t \in DeltaTarget |-> [tool \in Tools |-> findingsFile'[t][tool]]]
<1>1. /\ findingsFile' = [t \in DeltaTarget |-> [tool \in Tools |-> findingsFile'[t][tool]]]
      /\ \A t \in DeltaTarget, tool \in Tools :
           ~(t = Target /\ tool = Tool) => findingsFile'[t][tool] = findingsFile[t][tool]
  BY DEF DeltaInv
<1>2. delta = [target |-> delta.target, tool |-> delta.tool, at |-> delta.at,
               envelopes |-> delta.envelopes, silent |-> delta.silent, findings |-> delta.findings]
  BY DEF DeltaInv, IsDelta
<1>3. /\ d = [target |-> delta.target, tool |-> delta.tool, at |-> d.at, envelopes |-> d.envelopes,
              silent |-> d.silent, findings |-> delta.findings]
      /\ delta.silent \subseteq d.silent
      /\ d.envelopes = [delta.envelopes EXCEPT ![Target][Tool] = envelope]
  BY <1>2
<1>4. IsDelta(d) /\ EnvelopesCurrent(d, findingsFile', deltaRuns) /\ d.findings = {}
  BY <1>1, <1>3, ToolEnds
<1>. QED  BY <1>1, <1>4

(* The run goes on after a tool.                                           *)
LEMMA RunGoesOn ==
  ASSUME DeltaInv, NEW d, IsDelta(d), EnvelopesCurrent(d, findingsFile', deltaRuns), d.findings = {},
         findingsFile' = [t \in DeltaTarget |-> [tool \in Tools |-> findingsFile'[t][tool]]],
         deltaRuns' = deltaRuns, deltaReport' = deltaReport,
         delta' = d \/ delta' = NextTool(d)
  PROVE  DeltaInv'
<1>1. /\ IsDelta(delta') /\ delta'.envelopes = d.envelopes /\ delta'.silent = d.silent
      /\ delta'.findings = {}
  BY NextPlace
<1>2. EnvelopesCurrent(delta', findingsFile', deltaRuns')
  BY <1>1 DEF EnvelopesCurrent
<1>3. FindingsCurrent(delta', deltaRuns')
  BY <1>1 DEF FindingsCurrent
<1>4. NoStaleFindings'
  BY DEF DeltaInv, NoStaleFindings
<1>. QED  BY <1>1, <1>2, <1>3, <1>4 DEF DeltaInv

(* Every step of a run keeps its envelopes and findings current.           *)
LEMMA DeltaStep == DeltaInv /\ [DeltaNext]_deltaVars => DeltaInv'
<1>. SUFFICES ASSUME DeltaInv, [DeltaNext]_deltaVars
              PROVE  DeltaInv'
  OBVIOUS
<1>1. CASE StartDelta
  <2>1. delta' = [target |-> 1, tool |-> 1, at |-> "tool", envelopes |-> PerTool(NoEnvelope),
                  silent |-> {}, findings |-> {}] /\ UNCHANGED <<findingsFile, deltaReport>>
    BY <1>1 DEF StartDelta
  <2>2. delta'.envelopes = [t \in DeltaTarget |-> [tool \in Tools |-> NoEnvelope]] /\ delta'.findings = {}
    BY <2>1 DEF PerTool
  <2>3. IsDelta(delta')
    BY <2>1, <2>2, DeltaAssumption DEF IsDelta
  <2>4. EnvelopesCurrent(delta', findingsFile', deltaRuns') /\ FindingsCurrent(delta', deltaRuns')
    BY <2>2 DEF EnvelopesCurrent, FindingsCurrent, NoEnvelope
  <2>. QED  BY <2>1, <2>2, <2>3, <2>4 DEF DeltaInv, NoStaleFindings
<1>2. ASSUME NEW status, ToolMissing(status)
      PROVE  DeltaInv'
  <2>. DEFINE envelope == EmptyEnvelopeOf(status)
              d == [delta EXCEPT !.envelopes[Target][Tool] = envelope]
  <2>1. /\ delta # None /\ delta.at = "tool" /\ delta' = NextTool(d)
        /\ UNCHANGED <<findingsFile, deltaReport, deltaRuns>>
    BY <1>2 DEF ToolMissing
  <2>2. ~envelope.findings_path
    BY DEF EmptyEnvelopeOf, Envelope
  <2>3. d = [delta EXCEPT !.envelopes[Target][Tool] = envelope]
    OBVIOUS
  <2>. HIDE DEF envelope, d
  <2>4. /\ IsDelta(d) /\ EnvelopesCurrent(d, findingsFile', deltaRuns) /\ d.findings = {}
        /\ findingsFile' = [t \in DeltaTarget |-> [tool \in Tools |-> findingsFile'[t][tool]]]
    BY <2>1, <2>2, <2>3, ToolEndsEmpty
  <2>. QED  BY <2>1, <2>4, RunGoesOn
<1>3. ASSUME NEW exit, NEW found, NEW silent \in BOOLEAN, ToolRuns(exit, found, silent)
      PROVE  DeltaInv'
  <2>. DEFINE output == IF silent THEN raw[Target][Tool] ELSE [run |-> deltaRuns, found |-> found]
              file == IF output = None THEN [run |-> deltaRuns, found |-> {}] ELSE output
              quiet == IF silent THEN delta.silent \cup {<<Target, Tool>>} ELSE delta.silent
  <2>1. delta # None /\ delta.at = "tool" /\ UNCHANGED <<deltaReport, deltaRuns>>
    BY <1>3 DEF ToolRuns
  <2>2. CASE Accepts(exit, output)
    <3>. DEFINE d == [delta EXCEPT !.at = "coverage", !.envelopes[Target][Tool] = Envelope("ran", TRUE),
                                   !.silent = IF silent THEN @ \cup {<<Target, Tool>>} ELSE @]
    <3>1. findingsFile' = [findingsFile EXCEPT ![Target][Tool] = file] /\ delta' = d
      BY <1>3, <2>2 DEF ToolRuns
    <3>2. delta = [target |-> delta.target, tool |-> delta.tool, at |-> delta.at,
                   envelopes |-> delta.envelopes, silent |-> delta.silent, findings |-> delta.findings]
      BY <2>1 DEF DeltaInv, IsDelta
    <3>3. Envelope("ran", TRUE).status = "ran"
      BY DEF Envelope
    <3>4. d = [delta EXCEPT !.at = "coverage", !.envelopes[Target][Tool] = Envelope("ran", TRUE),
                            !.silent = quiet]
      OBVIOUS
    <3>7. delta.silent \subseteq quiet /\ (file.run = deltaRuns \/ <<Target, Tool>> \in quiet)
      OBVIOUS
    <3>. HIDE DEF d, file, quiet
    <3>8. /\ d = [target |-> delta.target, tool |-> delta.tool, at |-> d.at, envelopes |-> d.envelopes,
                  silent |-> quiet, findings |-> delta.findings]
          /\ d.envelopes = [delta.envelopes EXCEPT ![Target][Tool] = Envelope("ran", TRUE)]
      BY <3>2, <3>4, EnvelopeSet
    <3>9. d.silent = quiet
      BY <3>8
    <3>5. /\ findingsFile' = [t \in DeltaTarget |-> [tool \in Tools |-> findingsFile'[t][tool]]]
          /\ \A t \in DeltaTarget, tool \in Tools :
               ~(t = Target /\ tool = Tool) => findingsFile'[t][tool] = findingsFile[t][tool]
          /\ findingsFile'[Target][Tool] = file
      BY <2>1, <3>1, FileWritten
    <3>6. IsDelta(d) /\ EnvelopesCurrent(d, findingsFile', deltaRuns) /\ d.findings = {}
      BY <2>1, <3>3, <3>5, <3>7, <3>8, <3>9, ToolEnds
    <3>. QED  BY <2>1, <3>1, <3>5, <3>6, RunGoesOn
  <2>3. CASE ~Accepts(exit, output)
    <3>. DEFINE envelope == EmptyEnvelopeOf("failed")
                d == [delta EXCEPT !.envelopes[Target][Tool] = envelope]
    <3>1. findingsFile' = findingsFile /\ delta' = NextTool(d)
      BY <1>3, <2>3 DEF ToolRuns
    <3>2. ~envelope.findings_path
      BY DEF EmptyEnvelopeOf, Envelope
    <3>3. d = [delta EXCEPT !.envelopes[Target][Tool] = envelope]
      OBVIOUS
    <3>. HIDE DEF envelope, d
    <3>4. /\ IsDelta(d) /\ EnvelopesCurrent(d, findingsFile', deltaRuns) /\ d.findings = {}
          /\ findingsFile' = [t \in DeltaTarget |-> [tool \in Tools |-> findingsFile'[t][tool]]]
      BY <2>1, <3>1, <3>2, <3>3, ToolEndsEmpty
    <3>. QED  BY <2>1, <3>1, <3>4, RunGoesOn
  <2>. QED  BY <2>2, <2>3
<1>4. ASSUME NEW found, AegisgraphRuns(found)
      PROVE  DeltaInv'
  <2>. DEFINE envelope == Envelope(IF found = None THEN "scaffold_pending" ELSE "ran", TRUE)
              file == [run |-> deltaRuns, found |-> IF found = None THEN {} ELSE found]
              d == [delta EXCEPT !.at = "coverage", !.envelopes[Target][Tool] = envelope]
  <2>1. /\ delta # None /\ delta.at = "tool" /\ delta' = d
        /\ UNCHANGED <<deltaReport, deltaRuns>>
        /\ findingsFile' = [findingsFile EXCEPT ![Target][Tool] = file]
    BY <1>4 DEF AegisgraphRuns
  <2>2. /\ envelope.findings_path /\ file.run = deltaRuns
        /\ envelope.status = "ran" \/ file.found = {}
    BY DEF Envelope
  <2>. DEFINE quiet == delta.silent
  <2>3. delta = [target |-> delta.target, tool |-> delta.tool, at |-> delta.at,
                 envelopes |-> delta.envelopes, silent |-> delta.silent, findings |-> delta.findings]
    BY <2>1 DEF DeltaInv, IsDelta
  <2>7. d = [delta EXCEPT !.at = "coverage", !.envelopes[Target][Tool] = envelope, !.silent = quiet]
    BY <2>3
  <2>9. delta.silent = quiet
    OBVIOUS
  <2>. HIDE DEF envelope, d, file, quiet
  <2>8. /\ d = [target |-> delta.target, tool |-> delta.tool, at |-> d.at, envelopes |-> d.envelopes,
                silent |-> quiet, findings |-> delta.findings]
        /\ d.envelopes = [delta.envelopes EXCEPT ![Target][Tool] = envelope]
    BY <2>3, <2>7, EnvelopeSet
  <2>10. /\ d = [target |-> delta.target, tool |-> delta.tool, at |-> d.at, envelopes |-> d.envelopes,
                 silent |-> d.silent, findings |-> delta.findings]
         /\ delta.silent \subseteq d.silent
    BY <2>8, <2>9
  <2>4. /\ findingsFile' = [t \in DeltaTarget |-> [tool \in Tools |-> findingsFile'[t][tool]]]
        /\ \A t \in DeltaTarget, tool \in Tools :
             ~(t = Target /\ tool = Tool) => findingsFile'[t][tool] = findingsFile[t][tool]
        /\ findingsFile'[Target][Tool] = file
    BY <2>1, FileWritten
  <2>5. envelope.findings_path =>
          /\ findingsFile'[Target][Tool].run = deltaRuns \/ <<Target, Tool>> \in d.silent
          /\ envelope.status = "ran" \/ findingsFile'[Target][Tool].found = {}
    BY <2>2, <2>4
  <2>6. IsDelta(d) /\ EnvelopesCurrent(d, findingsFile', deltaRuns) /\ d.findings = {}
    BY <2>1, <2>4, <2>5, <2>8, <2>10, ToolEnds
  <2>. QED  BY <2>1, <2>4, <2>6, RunGoesOn
<1>5. CASE WriteCoverage
  <2>1. /\ delta # None /\ delta.at = "coverage" /\ delta' = NextTool(delta)
        /\ UNCHANGED <<findingsFile, deltaReport, deltaRuns>>
    BY <1>5 DEF WriteCoverage
  <2>2. /\ IsDelta(delta) /\ EnvelopesCurrent(delta, findingsFile', deltaRuns) /\ delta.findings = {}
        /\ findingsFile' = [t \in DeltaTarget |-> [tool \in Tools |-> findingsFile'[t][tool]]]
    BY <2>1 DEF DeltaInv
  <2>. QED  BY <2>1, <2>2, RunGoesOn
<1>6. CASE Gather
  <2>. DEFINE named == {n \in DeltaTarget \X Tools :
                          delta.envelopes[n[1]][n[2]].findings_path /\ findingsFile[n[1]][n[2]] # None}
              all == UNION {{[target |-> n[1], tool |-> n[2], category |-> f.category, location |-> f.location,
                   run |-> findingsFile[n[1]][n[2]].run] : f \in findingsFile[n[1]][n[2]].found} : n \in named}
  <2>1. /\ delta # None /\ delta.at = "gather" /\ delta' = [delta EXCEPT !.at = "report", !.findings = all]
        /\ UNCHANGED <<findingsFile, deltaReport, deltaRuns>>
    BY <1>6 DEF Gather
  <2>2. IsDelta(delta) /\ EnvelopesCurrent(delta, findingsFile, deltaRuns)
    BY <2>1 DEF DeltaInv
  <2>3. /\ IsDelta(delta') /\ delta'.envelopes = delta.envelopes /\ delta'.silent = delta.silent
        /\ delta'.findings = all /\ delta'.at = "report"
    BY <2>1, <2>2 DEF IsDelta
  <2>4. ASSUME NEW f \in all
        PROVE  /\ f.run = deltaRuns \/ <<f.target, f.tool>> \in delta.silent
               /\ f.target \in DeltaTarget /\ f.tool \in Tools
               /\ delta.envelopes[f.target][f.tool].status = "ran"
    <3>1. PICK n \in named : \E g \in findingsFile[n[1]][n[2]].found :
            f = [target |-> n[1], tool |-> n[2], category |-> g.category, location |-> g.location,
                 run |-> findingsFile[n[1]][n[2]].run]
      BY <2>4
    <3>2. /\ n[1] \in DeltaTarget /\ n[2] \in Tools
          /\ delta.envelopes[n[1]][n[2]].findings_path /\ findingsFile[n[1]][n[2]] # None
      OBVIOUS
    <3>3. /\ f.target = n[1] /\ f.tool = n[2] /\ f.run = findingsFile[n[1]][n[2]].run
          /\ findingsFile[n[1]][n[2]].found # {}
      BY <3>1
    <3>. QED  BY <2>2, <3>2, <3>3 DEF EnvelopesCurrent
  <2>. HIDE DEF all
  <2>5. FindingsCurrent(delta', deltaRuns')
    BY <2>1, <2>3, <2>4 DEF FindingsCurrent
  <2>6. EnvelopesCurrent(delta', findingsFile', deltaRuns')
    BY <2>1, <2>2, <2>3 DEF EnvelopesCurrent
  <2>. QED  BY <2>1, <2>3, <2>5, <2>6 DEF DeltaInv, NoStaleFindings
<1>7. CASE WriteDeltaReport
  <2>1. /\ delta # None /\ delta.at = "report" /\ delta' = [delta EXCEPT !.at = "checksums"]
        /\ deltaReport' = DeltaReportOf(delta.envelopes, delta.findings)
        /\ UNCHANGED <<findingsFile, deltaRuns>>
    BY <1>7 DEF WriteDeltaReport
  <2>2. /\ IsDelta(delta) /\ EnvelopesCurrent(delta, findingsFile, deltaRuns) /\ FindingsCurrent(delta, deltaRuns)
    BY <2>1 DEF DeltaInv
  <2>3. /\ IsDelta(delta') /\ delta'.envelopes = delta.envelopes /\ delta'.silent = delta.silent
        /\ delta'.findings = delta.findings /\ delta'.at = "checksums"
    BY <2>1, <2>2 DEF IsDelta
  <2>4. /\ deltaReport'.findings = delta.findings /\ deltaReport'.run = deltaRuns
        /\ deltaReport'.silent = delta.silent
        /\ deltaReport'.status = [t \in DeltaTarget |-> [tool \in Tools |-> delta.envelopes[t][tool].status]]
    BY <2>1 DEF DeltaReportOf
  <2>5. NoStaleFindings'
    <3>1. ASSUME NEW f \in delta.findings
          PROVE  /\ f.run = deltaRuns \/ <<f.target, f.tool>> \in delta.silent
                 /\ deltaReport'.status[f.target][f.tool] = "ran"
      <4>1. f.target \in DeltaTarget /\ f.tool \in Tools
        BY <2>2 DEF FindingsCurrent
      <4>2. deltaReport'.status[f.target][f.tool] = delta.envelopes[f.target][f.tool].status
        BY <2>4, <4>1
      <4>. QED  BY <2>2, <4>2 DEF FindingsCurrent
    <3>. QED  BY <2>4, <3>1 DEF NoStaleFindings
  <2>6. EnvelopesCurrent(delta', findingsFile', deltaRuns') /\ FindingsCurrent(delta', deltaRuns')
    BY <2>1, <2>2, <2>3 DEF EnvelopesCurrent, FindingsCurrent
  <2>. QED  BY <2>1, <2>3, <2>5, <2>6 DEF DeltaInv
<1>8. CASE RegenerateChecksums \/ DeltaDies
  BY <1>8 DEF RegenerateChecksums, DeltaDies, DeltaInv, NoStaleFindings
<1>9. CASE UNCHANGED deltaVars
  BY <1>9 DEF deltaVars, DeltaInv, NoStaleFindings
<1>. QED  BY <1>1, <1>2, <1>3, <1>4, <1>5, <1>6, <1>7, <1>8, <1>9 DEF DeltaNext

(* No report takes up what a tool found in an earlier run, although its    *)
(* files are never removed: runner.py gathers by the envelopes of this     *)
(* run, for any targets and findings.                                      *)
THEOREM NoStaleFindingsHolds == DeltaSpec => []NoStaleFindings
<1>1. DeltaInv => NoStaleFindings
  BY DEF DeltaInv
<1>. QED  BY <1>1, DeltaInitially, DeltaStep, PTL DEF DeltaSpec

(* The report is that of findings of the four tools.                       *)
ReportInv ==
  deltaReport # None =>
    /\ deltaReport.shared = SharedLocations(deltaReport.findings)
    /\ deltaReport.added = AddedByAegisgraph(deltaReport.findings)
    /\ \A f \in deltaReport.findings : f.tool \in Tools

(* The report is written from findings gathered by tool.                   *)
LEMMA ReportStep == DeltaInv /\ ReportInv /\ [DeltaNext]_deltaVars => ReportInv'
<1>. SUFFICES ASSUME DeltaInv, ReportInv, [DeltaNext]_deltaVars
              PROVE  ReportInv'
  OBVIOUS
<1>1. CASE deltaReport' = deltaReport
  BY <1>1 DEF ReportInv
<1>2. CASE WriteDeltaReport
  <2>1. delta # None /\ deltaReport' = DeltaReportOf(delta.envelopes, delta.findings)
    BY <1>2 DEF WriteDeltaReport
  <2>2. /\ deltaReport'.findings = delta.findings
        /\ deltaReport'.shared = SharedLocations(delta.findings)
        /\ deltaReport'.added = AddedByAegisgraph(delta.findings)
    BY <2>1 DEF DeltaReportOf
  <2>3. \A f \in delta.findings : f.tool \in Tools
    BY <2>1 DEF DeltaInv, FindingsCurrent
  <2>. QED  BY <2>2, <2>3 DEF ReportInv
<1>3. deltaReport' = deltaReport \/ WriteDeltaReport
  BY DEF DeltaNext, deltaVars, StartDelta, ToolMissing, ToolRuns, AegisgraphRuns, WriteCoverage, Gather,
         RegenerateChecksums, DeltaDies
<1>. QED  BY <1>1, <1>2, <1>3

(* Two tools at a coordinate are at least two.                             *)
LEMMA SharedIsTwo ==
  ASSUME NEW T \in SUBSET Tools, NEW a \in T
  PROVE  Cardinality(T) >= 2 <=> T # {a}
<1>1. IsFiniteSet(Tools)
  <2>1. Tools = {"codeql", "semgrep", "mobsf", "aegisgraph"}
    BY DEF Tools, ToolOrder
  <2>2. IsFiniteSet({"codeql"})
    BY FS_Singleton
  <2>3. IsFiniteSet({"codeql"} \cup {"semgrep"})
    BY <2>2, FS_AddElement
  <2>4. IsFiniteSet(({"codeql"} \cup {"semgrep"}) \cup {"mobsf"})
    BY <2>3, FS_AddElement
  <2>5. IsFiniteSet((({"codeql"} \cup {"semgrep"}) \cup {"mobsf"}) \cup {"aegisgraph"})
    BY <2>4, FS_AddElement
  <2>6. Tools = (({"codeql"} \cup {"semgrep"}) \cup {"mobsf"}) \cup {"aegisgraph"}
    BY <2>1
  <2>. QED  BY <2>5, <2>6
<1>2. IsFiniteSet(T) /\ Cardinality(T) \in Nat
  BY <1>1, FS_Subset, FS_CardinalityType
<1>3. CASE T = {a}
  <2>1. Cardinality(T) = 1
    BY <1>3, FS_Singleton
  <2>. QED  BY <1>3, <2>1
<1>4. CASE T # {a}
  <2>1. PICK b \in T : b # a
    BY <1>4
  <2>2. /\ IsFiniteSet({a}) /\ Cardinality({a}) = 1
        /\ IsFiniteSet({a} \cup {b}) /\ Cardinality({a} \cup {b}) = 2
    <3>1. IsFiniteSet({a}) /\ Cardinality({a}) = 1
      BY FS_Singleton
    <3>2. b \notin {a}
      BY <2>1
    <3>3. IsFiniteSet({a} \cup {b}) /\ Cardinality({a} \cup {b}) = Cardinality({a}) + 1
      BY <3>1, <3>2, FS_AddElement
    <3>. QED  BY <3>1, <3>3
  <2>3. Cardinality({a} \cup {b}) <= Cardinality(T)
    BY <1>2, <2>1, FS_Subset
  <2>. QED  BY <1>2, <1>4, <2>2, <2>3
<1>. QED  BY <1>3, <1>4

(* Every coordinate AegisGraph reports is counted once, as added or as     *)
(* shared: renderer.py, for all findings of all targets.                   *)
THEOREM CoordinatesAccountedHolds == DeltaSpec => []CoordinatesAccounted
<1>1. ASSUME ReportInv PROVE CoordinatesAccounted
  <2>. SUFFICES ASSUME deltaReport # None
                PROVE  LET ours == {Coordinate(f) : f \in {g \in deltaReport.findings : g.tool = "aegisgraph"}}
                           others == {Coordinate(f) : f \in {g \in deltaReport.findings : g.tool # "aegisgraph"}}
                       IN /\ deltaReport.added = ours \ others
                          /\ ours \cap others = ours \cap deltaReport.shared
    BY DEF CoordinatesAccounted
  <2>. DEFINE all == deltaReport.findings
              ours == {Coordinate(f) : f \in {g \in all : g.tool = "aegisgraph"}}
              others == {Coordinate(f) : f \in {g \in all : g.tool # "aegisgraph"}}
  <2>1. /\ deltaReport.shared = SharedLocations(all) /\ deltaReport.added = AddedByAegisgraph(all)
        /\ \A f \in all : f.tool \in Tools
    BY <1>1 DEF ReportInv
  <2>. HIDE DEF all
  <2>2. ASSUME NEW c
        PROVE  /\ ToolsAt(all, c) \in SUBSET Tools
               /\ c \in ours <=> "aegisgraph" \in ToolsAt(all, c)
               /\ c \in others <=> \E tool \in ToolsAt(all, c) : tool # "aegisgraph"
               /\ c \in {Coordinate(f) : f \in all} <=> ToolsAt(all, c) # {}
    BY <2>1 DEF ToolsAt
  <2>3. ASSUME NEW c
        PROVE  c \in ours => (Cardinality(ToolsAt(all, c)) >= 2 <=> c \in others)
    <3>1. CASE c \in ours
      <4>1. Cardinality(ToolsAt(all, c)) >= 2 <=> ToolsAt(all, c) # {"aegisgraph"}
        BY <2>2, <3>1, SharedIsTwo
      <4>. QED  BY <2>2, <3>1, <4>1
    <3>. QED  BY <3>1
  <2>. HIDE DEF ours, others
  <2>4. AddedByAegisgraph(all) = ours \ others
    <3>1. ASSUME NEW c PROVE c \in AddedByAegisgraph(all) <=> c \in ours \ others
      <4>1. c \in AddedByAegisgraph(all) <=>
              c \in {Coordinate(f) : f \in all} /\ ToolsAt(all, c) = {"aegisgraph"}
        BY DEF AddedByAegisgraph
      <4>. QED  BY <2>2, <4>1
    <3>. QED  BY <3>1
  <2>5. ours \cap others = ours \cap SharedLocations(all)
    <3>1. ASSUME NEW c \in ours PROVE c \in others <=> c \in SharedLocations(all)
      <4>1. c \in SharedLocations(all) <=>
              c \in {Coordinate(f) : f \in all} /\ Cardinality(ToolsAt(all, c)) >= 2
        BY DEF SharedLocations
      <4>2. c \in {Coordinate(f) : f \in all}
        BY <2>2
      <4>. QED  BY <2>3, <4>1, <4>2
    <3>. QED  BY <3>1
  <2>. QED  BY <2>1, <2>4, <2>5 DEF ours, others, all
<1>2. DeltaInit => ReportInv
  BY DEF DeltaInit, ReportInv
<1>. QED  BY <1>1, <1>2, ReportStep, DeltaInitially, DeltaStep, PTL DEF DeltaSpec

=============================================================================
