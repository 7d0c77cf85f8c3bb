------------------------------ MODULE MCEvidence ------------------------------
(***************************************************************************)
(* The producers of evidence, each over its own files: no two of them      *)
(* share a variable, so a behaviour lets one of them run and leaves the    *)
(* others where they are.  That is the sum of their state spaces and not   *)
(* the product, and loses no behaviour of any of them.                     *)
(***************************************************************************)
EXTENDS ReproChain, PolyFamilies, UrlRegression, UrlFuzzer, SMABench, BaselineDelta,
        HarnessGen, SeedCorpus, InvariantRunners, Traceability

(* Two targets and one fuzzer each, built twice: again after a failure.    *)
MCTargets == <<"messenger", "calls">>
MCChainBudget == [build |-> 2, run |-> 1, map |-> 1, extraction |-> 1]

(* Every family with decoders that always run, one that a machine may lack *)
(* and, where the family has one, a stub; image with two cases as well.    *)
ACase(impls) == [id |-> impls, implementations |-> impls, historical |-> FALSE, targets |-> {"signal_android"}]
MCCorpora ==
  [ image |-> {<<ACase(<<"libwebp", "libavif", "libheif">>)>>, <<ACase(<<"libwebp">>), ACase(<<"jpegli", "libheif">>)>>},
    opengraph |-> {<<ACase(<<"facebook_og", "twitter_card", "oembed">>)>>},
    deeplink |-> {<<ACase(<<"android_intent_uri", "web_url_fallback", "custom_scheme_parser">>)>>},
    qr |-> {<<ACase(<<"zxing_cli", "zbar_cli", "ios_detector_stub">>)>>},
    proto |-> {<<ACase(<<"protoc_python", "msgpack_python", "protoc_gogofaster_stub">>)>>,
               <<ACase(<<"protoc_python", "protoc_gogofaster_stub">>)>>} ]
Changed(axis) == [x \in {axis} |-> "other"]
EndedWith(statuses) == {[x \in {"decode_outcome"} |-> <<s, 0>>] : s \in statuses}
AnswersOn(axes, statuses) == {<<>>} \cup {Changed(a) : a \in axes} \cup EndedWith(statuses)
MCAnswers ==
  [ image |-> AnswersOn({"dimensions", "first_pixel_rgba", "color_space", "frame_count", "alpha_premultiplied"},
                        {"crash", "oom", "decode_error"}),
    opengraph |-> AnswersOn({"og_url", "og_type", "og_title"}, {"crash", "oom", "decode_error"}),
    deeplink |-> AnswersOn({"intent_action", "host", "query_params"}, {"parse_error", "malformed", "scheme_unknown"}),
    qr |-> AnswersOn({"detected_text", "mode", "version"}, {"decode_error", "parse_error", "no_qr_found"}),
    proto |-> AnswersOn({"field_unknown_count", "field_count", "declared_schema_version"},
                        {"parse_error", "decode_error", "schema_mismatch"}) ]

(* Three readings of a URL: they differ on every axis that is compared.    *)
MCReadings ==
  { [scheme |-> "https", host |-> "evil.example", port |-> None, path |-> "/",
     user |-> None, password |-> None, acted |-> {}],
    [scheme |-> "https", host |-> "127.0.0.1", port |-> 80, path |-> "/a",
     user |-> "user", password |-> "", acted |-> {"tab", "zero octet", "percent in host"}],
    [scheme |-> "http", host |-> None, port |-> None, path |-> None,
     user |-> "", password |-> None, acted |-> {"backslash", "tab"}] }
Baseline == [id |-> "Userinfo-Both", axes |-> {}, tags |-> {}, features |-> {}, historical |-> FALSE]
SnykCase == CHOOSE c \in HistoricalCases : c.id = "Snyk-2022-host-3"
MCUrlCorpora == {<<c>> : c \in HistoricalCases} \cup {<<SnykCase, Baseline>>}

MCFuzzSeeds == <<"a">>
MCFuzzAxes == {{}, {"host"}, {"host", "path"}, {"parsed"}}

MCGenerators == <<"qr-corpus">>
MCBenchGraphs == {None, [real |-> 4, nodes |-> 4, passing |-> 1, tasks |-> 2, classes |-> 3]}
MCBenchBudget == [run |-> 2, change |-> 1]

(* One location that two tools report, one that has two categories.        *)
MCDeltaTargets == <<"signal">>
MCToolFindings ==
  LET At(c, l) == [category |-> c, location |-> l]
  IN [ codeql |-> {{At("webview", "A:1")}}, semgrep |-> {{At("intent", "A:1")}}, mobsf |-> {{At("intent", "C:3")}},
       aegisgraph |-> {{At("webview", "A:1"), At("intent", "C:3"), At("webview", "C:3")}} ]

(* Crashes seen at two addresses: of a category that is known, of one that *)
(* is part of another's name, of two, of none with a line or a path behind *)
(* it, of one whose name is in the path only, and of one with two numbers. *)
ACrash(input, says, place, addresses) ==
  [harness |-> "WebPDecodeRGB", input |-> input, frames |-> "ReadHuffmanCodes",
   says |-> says, place |-> place, addresses |-> addresses]
MCWords == {"SIGSEGV", "SIGABRT", "heap-use-after-free", "deadlock", "172", "webp_dec.c", ":", "(", "/"}
MCCrashReports ==
  { ACrash("in1", <<"SIGSEGV">>, <<>>, "0x1"), ACrash("in1", <<"SIGSEGV">>, <<":", "172">>, "0x2"),
    ACrash("in2", <<"heap-use-after-free">>, <<>>, "0x1"),
    ACrash("in3", <<"SIGSEGV", "SIGABRT">>, <<>>, "0x1"),
    ACrash("in4", <<"deadlock">>, <<"172">>, "0x1"),
    ACrash("in4", <<"deadlock">>, <<":", "webp_dec.c", ":", "172">>, "0x2"),
    ACrash("in4", <<"deadlock">>, <<"/", "SIGABRT">>, "0x2"),
    ACrash("in4", <<"deadlock">>, <<"172", "172">>, "0x2") }

MCSeedFiles == <<"a", "b", "c">>

(* Two targets at two commits; a result of ours, one at a level SARIF does *)
(* not know, one without a place, and one of another pack.                 *)
MCScanned == {[target |-> "signal", commit |-> 1], [target |-> "elementx", commit |-> 2]}
AResult(rule, place, level) == [rule |-> rule, place |-> place, level |-> level]
MCResults ==
  { AResult("r1", "File.java:7", "error"), AResult("r1", "File.java:7", "high"),
    AResult("r1", None, "error"), AResult("foreign", "File.java:7", "error") }

(* Claims with two artifacts, with one, with none, and without an id, which *)
(* is the only one to name the results.                                    *)
AClaim(id, artifacts, planned, requirement) ==
  [id |-> id, artifacts |-> artifacts, planned |-> planned, requirement |-> requirement]
MCProposalClaims ==
  << AClaim("c1", <<"mapping", "report">>, FALSE, "req1"), AClaim("c2", <<"mapping">>, FALSE, None),
     AClaim("c3", <<>>, TRUE, None), AClaim(None, <<"mapping", "results">>, FALSE, None) >>
MCSectionArtifacts == <<"mapping", "results", "graph">>

VARIABLE active

Producers ==
  { "reprochain", "families", "url", "fuzzer", "bench", "baseline",
    "harness", "crashes", "seeding", "invariants", "traceability" }

(* The producers that are not active begin in one state of their Init.     *)
(* Harnesses and crash records are of one module and share nothing either. *)
(* Both engines are there at first; the machine may change.                *)
Init ==
  /\ active \in Producers
  /\ ChainInit
  /\ phase["calls"] = "codeql"
  /\ phase["messenger"] = IF active = "reprochain" /\ seeds THEN "blocked_pending_extraction" ELSE "codeql"
  /\ active # "reprochain" => seeds /\ \A t \in TargetSet : phase[t] = "codeql"
  /\ FamilyInit
  /\ active # "families" => family = "image" /\ corpus = CHOOSE c \in MCCorpora.image : TRUE
  /\ UrlInit
  /\ active # "url" => urlCorpus = <<SnykCase>> /\ \A p \in DOMAIN urlStatus : urlStatus[p] = "built"
  /\ FuzzInit
  /\ BenchInit
  /\ \A c \in Corpus : content[c] = "placeholder_png"
  /\ \A t \in BenchTargets : graphs[t] # None
  /\ DeltaInit
  /\ HarnessInit
  /\ active # "harness" => version = 1
  /\ SeedInit
  /\ active # "seeding" => \A p \in SeedPath : source[p] = None
  /\ RunnersInit
  /\ installed = Engines
  /\ TraceInit
  /\ active # "traceability" => artifactsOnDisk = {}

(* What goes on beside the commands shows to one reader, and there is one  *)
(* run and one map here: an extraction outside the map is one at its start *)
(* or comes too late, and a compiler that outlived its build writes under  *)
(* the run as well, which finds what was written last.  Without seeds no   *)
(* fuzzer is executed, and one is like the other.                          *)
UnderTheirReaders ==
  /\ phase' # phase => InStep({"map"})
  /\ compiling \ compiling' # {} \/ (binaries' # binaries /\ ~InStep(InScript)) => InStep(Labels)
  /\ ~seeds => compiling' = {} /\ \A l \in Labels : binaries'[l] # "crashes and hangs"

Next ==
  /\ UNCHANGED active
  /\ \/ active = "reprochain" /\ ChainNext /\ UnderTheirReaders
        /\ UNCHANGED <<familyVars, urlVars, fuzzVars, benchVars, deltaVars, harnessVars, seedVars, engineVars, matrixVars>>
     \/ active = "families" /\ FamilyNext
        /\ UNCHANGED <<chainVars, urlVars, fuzzVars, benchVars, deltaVars, harnessVars, seedVars, engineVars, matrixVars>>
     \/ active = "url" /\ UrlNext
        /\ UNCHANGED <<chainVars, familyVars, fuzzVars, benchVars, deltaVars, harnessVars, seedVars, engineVars, matrixVars>>
     \/ active = "fuzzer" /\ FuzzNext
        /\ UNCHANGED <<chainVars, familyVars, urlVars, benchVars, deltaVars, harnessVars, seedVars, engineVars, matrixVars>>
     \/ active = "bench" /\ BenchNext
        /\ UNCHANGED <<chainVars, familyVars, urlVars, fuzzVars, deltaVars, harnessVars, seedVars, engineVars, matrixVars>>
     \/ active = "baseline" /\ DeltaNext
        /\ UNCHANGED <<chainVars, familyVars, urlVars, fuzzVars, benchVars, harnessVars, seedVars, engineVars, matrixVars>>
     \/ active \in {"harness", "crashes"} /\ HarnessNext
        /\ (active = "harness" <=> UNCHANGED crashRecords)
        /\ UNCHANGED <<chainVars, familyVars, urlVars, fuzzVars, benchVars, deltaVars, seedVars, engineVars, matrixVars>>
     \/ active = "seeding" /\ SeedNext
        /\ UNCHANGED <<chainVars, familyVars, urlVars, fuzzVars, benchVars, deltaVars, harnessVars, engineVars, matrixVars>>
     \/ active = "invariants" /\ RunnersNext
        /\ UNCHANGED <<chainVars, familyVars, urlVars, fuzzVars, benchVars, deltaVars, harnessVars, seedVars, matrixVars>>
     \/ active = "traceability" /\ TraceNext
        /\ UNCHANGED <<chainVars, familyVars, urlVars, fuzzVars, benchVars, deltaVars, harnessVars, seedVars, engineVars>>

evidenceVars ==
  <<active, chainVars, familyVars, urlVars, fuzzVars, benchVars, deltaVars, harnessVars, seedVars, engineVars, matrixVars>>

Spec == Init /\ [][Next]_evidenceVars

===============================================================================
