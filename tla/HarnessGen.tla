------------------------------ MODULE HarnessGen ------------------------------
(***************************************************************************)
(* `harnessgen generate-harness <path>` and build_crash_record of          *)
(* aegisgraph/harnessgen/harnessgen.py: a fuzz harness is a source, a      *)
(* build file and a manifest with the hashes of both, written one after    *)
(* the other into the directory of the path; a crash of one becomes a      *)
(* record that must be the same wherever the crash is reproduced.          *)
(***************************************************************************)
EXTENDS Absent, Naturals, Sequences, FiniteSets

CONSTANTS
  Versions,         \* the versions of the templates, and of the source that is shipped
  CrashReports,     \* the crashes considered: harness, input, frames, addresses, and the
                    \* words of its category: what it says, and the place after it
  Words,            \* the words these are made of
  LineNumbers,      \* those of them that are numbers
  HarnessBudget     \* bound of the model: generations, upgrades and shipments together

VARIABLES
  version,          \* the version of the templates installed
  harness,          \* by path, its files
  generation,       \* the command under way
  touched,          \* paths that were disturbed since their last generation began: history
  crashRecords,     \* <<the report, its record>>: the report is history
  harnessLeft

harnessVars == <<version, harness, generation, touched, crashRecords, harnessLeft>>

(* _PATH_SPECS: the engine of each path.                                   *)
Engine ==
  [ libwebp |-> "native", signal_linkpreview |-> "jvm", element_x_media |-> "jvm",
    libavif |-> "native_static" ]
Path == DOMAIN Engine

(* What a template renders for a path, and its SHA-256.                    *)
Text(file, path, v) == <<file, path, v>>
Digest(text) == <<"sha256", text>>
TornText(text) == <<"torn", text>>

NoManifest == [source |-> None, build |-> None]

Idle == [path |-> None, version |-> None, at |-> "idle", source |-> None]
Generating == generation.at # "idle"

-----------------------------------------------------------------------------

HarnessInit ==
  /\ version \in Versions
  /\ harness = [p \in Path |-> [source |-> None, build |-> None, manifest |-> NoManifest]]
  /\ generation = Idle /\ touched = {} /\ crashRecords = {}
  /\ harnessLeft = HarnessBudget

SpendHarness == harnessLeft > 0 /\ harnessLeft' = harnessLeft - 1

(* The static source of a path is committed, or edited, by a person.       *)
ShipSource ==
  /\ SpendHarness
  /\ \E p \in {q \in Path : Engine[q] = "native_static"}, v \in Versions :
       /\ harness' = [harness EXCEPT ![p].source = Text("shipped", p, v)]
       /\ touched' = touched \cup {p}
  /\ UNCHANGED <<version, generation, crashRecords>>

Upgrade ==
  /\ SpendHarness
  /\ version' \in Versions
  /\ UNCHANGED <<harness, generation, touched, crashRecords>>

(* native and jvm render the source; native_static reads the one there is, *)
(* and raises when there is none.                                          *)
GenerateHarness(p) ==
  /\ ~Generating /\ SpendHarness
  /\ Engine[p] = "native_static" => harness[p].source # None
  /\ generation' =
       IF Engine[p] = "native_static"
       THEN [path |-> p, version |-> version, at |-> "build", source |-> harness[p].source]
       ELSE [path |-> p, version |-> version, at |-> "source", source |-> Text("source", p, version)]
  /\ touched' = touched \ {p}
  /\ UNCHANGED <<version, harness, crashRecords>>

\* Seeded fault: the manifest has the hash of what the template would render.
ManifestOfTemplate(g) ==
  [source |-> Digest(Text("source", g.path, g.version)), build |-> Digest(Text("build", g.path, g.version))]

HarnessManifest(g) ==
  [source |-> Digest(g.source), build |-> Digest(Text("build", g.path, g.version))]

NextText(g) == IF g.at = "source" THEN g.source ELSE Text("build", g.path, g.version)

WriteHarnessSource ==
  /\ generation.at = "source"
  /\ harness' = [harness EXCEPT ![generation.path].source = generation.source]
  /\ generation' = [generation EXCEPT !.at = "build"]
  /\ UNCHANGED <<version, touched, crashRecords, harnessLeft>>

WriteBuildFile ==
  /\ generation.at = "build"
  /\ harness' = [harness EXCEPT ![generation.path].build = NextText(generation)]
  /\ generation' = [generation EXCEPT !.at = "manifest"]
  /\ UNCHANGED <<version, touched, crashRecords, harnessLeft>>

WriteHarnessManifest ==
  /\ generation.at = "manifest"
  /\ harness' = [harness EXCEPT ![generation.path].manifest = HarnessManifest(generation)]
  /\ generation' = Idle
  /\ UNCHANGED <<version, touched, crashRecords, harnessLeft>>

(* The command is killed between two writes, or inside one.                *)
GenerationDies ==
  /\ Generating
  /\ generation' = Idle
  /\ touched' = touched \cup {generation.path}
  /\ \/ UNCHANGED harness
     \/ /\ generation.at = "source"
        /\ harness' = [harness EXCEPT ![generation.path].source = TornText(NextText(generation))]
     \/ /\ generation.at = "build"
        /\ harness' = [harness EXCEPT ![generation.path].build = TornText(NextText(generation))]
     \/ /\ generation.at = "manifest"
        /\ harness' = [harness EXCEPT ![generation.path].manifest = NoManifest]
  /\ UNCHANGED <<version, crashRecords, harnessLeft>>

-----------------------------------------------------------------------------
(* The crash records.                                                      *)

KnownCategories ==
  { "heap-buffer-overflow", "stack-buffer-overflow", "use-after-free", "global-buffer-overflow",
    "heap-use-after-free", "double-free", "memcpy-param-overlap", "negative-size-param",
    "alloc-dealloc-mismatch", "SIGSEGV", "SIGBUS", "SIGABRT", "ArrayIndexOutOfBoundsException",
    "NullPointerException", "StringIndexOutOfBoundsException", "IllegalArgumentException",
    "OutOfMemoryError", "StackOverflowError" }

Separators == {":", "(", "/"}

ASSUME HarnessAssumption ==
  /\ Separators \subseteq Words /\ LineNumbers \subseteq Words \ Separators
  /\ \A report \in CrashReports : report.says \in Seq(Words) /\ report.place \in Seq(Words)

(* A category is found wherever its name is a part of a word.              *)
PartOf(known, word) == known = word \/ (known = "use-after-free" /\ word = "heap-use-after-free")
KnownIn(raw) == {known \in KnownCategories : \E i \in DOMAIN raw : PartOf(known, raw[i])}

UpToSeparator(raw) == {i \in DOMAIN raw : \A j \in 1..i : raw[j] \notin Separators}

\* Seeded fault: the number behind the last word is not taken off.
StrippedOfPath(raw) ==
  LET kept == UpToSeparator(raw)
  IN IF kept = {} THEN <<"unknown">> ELSE [i \in kept |-> raw[i]]

(* The words before the first separator, without a number at their end.    *)
Stripped(raw) ==
  LET kept == {i \in UpToSeparator(raw) : raw[i] \in LineNumbers => i + 1 \in UpToSeparator(raw)}
  IN IF kept = {} THEN <<"unknown">> ELSE [i \in kept |-> raw[i]]

(* The known categories are tried in the order of a Python set of strings, *)
(* which differs from process to process: any that is found may be taken.  *)
NormalizedCrashClasses(raw) ==
  IF KnownIn(raw) # {} THEN {<<known>> : known \in KnownIn(raw)} ELSE {Stripped(raw)}

(* Addresses differ from run to run and are replaced.                      *)
CanonicalizeStackTrace(report) == <<report.frames, "0xADDR">>

CrashRecord(report, class) ==
  [ crash_id         |-> <<report.harness, report.input>>,
    crash_sha256     |-> Digest(report.input),
    stack_trace_hash |-> Digest(CanonicalizeStackTrace(report)),
    crash_class      |-> class ]

BuildCrashRecord(report) ==
  /\ \E class \in NormalizedCrashClasses(report.says \o report.place) :
       crashRecords' = crashRecords \cup {<<report, CrashRecord(report, class)>>}
  /\ UNCHANGED <<version, harness, generation, touched, harnessLeft>>

HarnessNext ==
  \/ ShipSource
  \/ Upgrade
  \/ \E p \in Path : GenerateHarness(p)
  \/ WriteHarnessSource
  \/ WriteBuildFile
  \/ WriteHarnessManifest
  \/ GenerationDies
  \/ \E report \in CrashReports : BuildCrashRecord(report)

HarnessSpec == HarnessInit /\ [][HarnessNext]_harnessVars

-----------------------------------------------------------------------------

(* A manifest has the hashes of the files beside it, whatever versions     *)
(* wrote them: unless a generation was killed there, or a person changed   *)
(* the source, after the last one had begun.                               *)
HarnessDescribed ==
  \A p \in Path :
    harness[p].manifest # NoManifest /\ p \notin touched /\ ~(Generating /\ generation.path = p) =>
      harness[p].manifest = [source |-> Digest(harness[p].source), build |-> Digest(harness[p].build)]

OneNameAtMost(report) == KnownIn(report.place) = {} /\ \A k, l \in KnownIn(report.says) : k = l

(* The place is one line number, or a separator with a line, a path or     *)
(* anything else behind it, and what is said does not end with a number.   *)
PlaceApart(report) ==
  /\ report.says # <<>> => report.says[Len(report.says)] \notin LineNumbers
  /\ \/ report.place = <<>>
     \/ report.place[1] \in Separators
     \/ Len(report.place) = 1 /\ report.place[1] \in LineNumbers

(* The same crash, seen again at other addresses, with another line or     *)
(* path behind what it says, and by another process, has the same record:  *)
(* only where it says the names of two categories, one as a part of the    *)
(* other's, say, or where the place holds one or cannot be told from what  *)
(* is said, may the class be another.                                      *)
CrashStable ==
  \A a, b \in crashRecords :
    (\A field \in {"harness", "input", "says", "frames"} : a[1][field] = b[1][field]) =>
      /\ [a[2] EXCEPT !.crash_class = None] = [b[2] EXCEPT !.crash_class = None]
      /\ (\A report \in {a[1], b[1]} : OneNameAtMost(report) /\ PlaceApart(report)) =>
           a[2].crash_class = b[2].crash_class

=============================================================================
