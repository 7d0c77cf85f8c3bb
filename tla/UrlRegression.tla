----------------------------- MODULE UrlRegression -----------------------------
(***************************************************************************)
(* `make polydiff-regression`: the URL corpus is put through every parser  *)
(* that is built, and a historical case on whose axes and tags they differ *)
(* counts as rediscovered.  aegisgraph/polydiff/families/url.              *)
(***************************************************************************)
EXTENDS UrlParsers

CONSTANTS
  UrlCorpora,       \* the corpora considered: sequences of cases
  Readings          \* what a parser may make of a URL

VARIABLES
  urlCorpus,        \* the corpus of this run
  urlStatus,        \* by profile, PARSER_STATUS.json
  urlRun            \* the run so far, and the files it has written

urlVars == <<urlCorpus, urlStatus, urlRun>>

(* The cases of build_corpus.py that name a published bug, with the axes   *)
(* and tags its parsers are to differ in.                                  *)
Historical(id, axes, tags, features) ==
  [id |-> id, axes |-> axes, tags |-> tags, features |-> features, historical |-> TRUE]

HistoricalCases ==
  { Historical("Snyk-2022-host-3", {"host", "path"}, {"origin-confusion"}, {}),
    Historical("Snyk-2022-host-5", {"host_lowercased", "backslash_treated_as_slash"},
               {"origin-confusion", "path-confusion"}, {"backslash"}),
    Historical("Backslash-IE-legacy", {"host_lowercased", "backslash_treated_as_slash"},
               {"origin-confusion", "path-confusion"}, {"backslash"}),
    Historical("IPv4-leading-zeroes",
               {"host", "host_is_loopback", "host_is_private_or_link_local", "leading_zeroes_in_octets_stripped"},
               {"ssrf-loopback-bypass", "ssrf-private-network"}, {"zero octet"}),
    Historical("IPv4-Decimal", {"host", "host_is_loopback"}, {"ssrf-loopback-bypass"}, {}),
    Historical("IPv4-Hex", {"host", "host_is_loopback"}, {"ssrf-loopback-bypass"}, {}),
    Historical("127-Variant", {"host", "host_is_loopback"}, {"ssrf-loopback-bypass"}, {}),
    Historical("Percent-In-Host", {"host_lowercased", "percent_decoding_applied_in_host"},
               {"host-injection"}, {"percent in host"}),
    Historical("Path-Encoded-Dotdot", {"path", "path_normalized"}, {"path-normalization-confusion"},
               {"percent in path"}),
    Historical("CRLF-Injection", {"path_normalized", "tab_or_newline_stripped", "control_chars_in_host_rejected"},
               {"header-injection", "link-preview-bypass"}, {"tab"}),
    Historical("CVE-2020-7793", {"query_raw", "control_chars_in_host_rejected"}, {"header-injection"}, {"tab"}),
    Historical("CVE-2021-23336", {"query_raw"}, {"parser-behavior-difference"}, {}),
    Historical("CVE-2022-0391", {"host_lowercased", "tab_or_newline_stripped"}, {"link-preview-bypass"}, {"tab"}) }

ASSUME UrlAssumption ==
  \A c \in UrlCorpora :
    /\ c \in Seq({c[i] : i \in DOMAIN c})
    /\ \A i \in DOMAIN c : c[i].historical => c[i] \in HistoricalCases
    /\ \A i, j \in DOMAIN c : c[i].id = c[j].id => i = j

-----------------------------------------------------------------------------

UrlInit ==
  /\ urlCorpus \in UrlCorpora
  /\ urlStatus \in [{Profiles[i] : i \in DOMAIN Profiles} -> {"built", "not_built_in_current_env"}]
  /\ urlRun = [case |-> 1, profile |-> 1, vectors |-> <<>>, outcomes |-> <<>>, records |-> <<>>,
               failures |-> {}, matched |-> {}, witnesses |-> {}, report |-> None, evidence |-> None]

UrlCase == urlCorpus[urlRun.case]
Dispatching == urlRun.case <= Len(urlCorpus) /\ urlRun.profile <= Len(Profiles)

(* fact_vectors_for: a profile without a command has no vector.            *)
SkipProfile ==
  /\ Dispatching
  /\ ~WrapperCommand(Profiles[urlRun.profile], urlStatus[Profiles[urlRun.profile]])
  /\ urlRun' = [urlRun EXCEPT !.profile = @ + 1]
  /\ UNCHANGED <<urlCorpus, urlStatus>>

RunProfile(outcome) ==
  LET profile == Profiles[urlRun.profile]
      vector == Normalize(RunUrlWrapper(profile, UrlCase.features, outcome))
  IN /\ Dispatching /\ WrapperCommand(profile, urlStatus[profile]) /\ CanEnd(profile, outcome)
     /\ urlRun' = [urlRun EXCEPT
          !.profile = @ + 1,
          !.vectors = Append(@, <<profile, vector>>),
          !.outcomes = Append(@, outcome.kind),
          !.failures = IF outcome.kind \in WrapperFailures THEN @ \cup {<<UrlCase.id, profile>>} ELSE @]
     /\ UNCHANGED <<urlCorpus, urlStatus>>

MatchesExpected(disagreements, case) ==
  \/ case.axes = {}
  \/ /\ case.axes \subseteq DOMAIN disagreements
     /\ case.tags \subseteq UNION {disagreements[a] : a \in DOMAIN disagreements}

FindingRecord(case, disagreements, previous) ==
  [ id            |-> case.id,
    axes          |-> DOMAIN disagreements,
    claim_state   |-> "reviewed",
    profiles      |-> {p \in DOMAIN urlStatus : WrapperCommand(p, urlStatus[p])},
    previous_hash |-> previous ]

(* The rest of the loop's body, once every profile had its turn.           *)
CloseCase ==
  /\ urlRun.case <= Len(urlCorpus) /\ urlRun.profile > Len(Profiles)
  /\ LET disagreements == Detect(urlRun.vectors)
         records == urlRun.records
         previous == IF records = <<>> THEN None ELSE <<"sha256", records[Len(records)]>>
         parsed == {urlRun.vectors[i][1] : i \in {j \in DOMAIN urlRun.outcomes : urlRun.outcomes[j] = "parsed"}}
     IN urlRun' = [urlRun EXCEPT
          !.case = @ + 1, !.profile = 1, !.vectors = <<>>, !.outcomes = <<>>,
          !.matched = IF MatchesExpected(disagreements, UrlCase) THEN @ \cup {UrlCase.id} ELSE @,
          !.witnesses = @ \cup {<<UrlCase.id, p>> : p \in parsed},
          !.records = IF DOMAIN disagreements = {} THEN @
                      ELSE Append(@, FindingRecord(UrlCase, disagreements, previous))]
  /\ UNCHANGED <<urlCorpus, urlStatus>>

RediscoveredHistorical ==
  {urlCorpus[i].id : i \in {j \in DOMAIN urlCorpus : urlCorpus[j].historical /\ urlCorpus[j].id \in urlRun.matched}}

WriteUrlReport ==
  /\ urlRun.case > Len(urlCorpus) /\ urlRun.report = None
  /\ urlRun' = [urlRun EXCEPT !.report =
       [ records |-> urlRun.records, failures |-> urlRun.failures, rediscovered |-> RediscoveredHistorical,
         tier_p1_status |-> IF Cardinality(RediscoveredHistorical) >= 3 THEN "pass" ELSE "fail" ]]
  /\ UNCHANGED <<urlCorpus, urlStatus>>

WriteUrlEvidence ==
  /\ urlRun.report # None /\ urlRun.evidence = None
  /\ urlRun' = [urlRun EXCEPT !.evidence = urlRun.records]
  /\ UNCHANGED <<urlCorpus, urlStatus>>

UrlNext ==
  \/ SkipProfile
  \/ \E outcome \in Outcomes(Readings) : RunProfile(outcome)
  \/ CloseCase
  \/ WriteUrlReport
  \/ WriteUrlEvidence

UrlSpec == UrlInit /\ [][UrlNext]_urlVars

-----------------------------------------------------------------------------

(* A historical case counts as rediscovered, for tier P1, only when two    *)
(* parsers parsed its URL: one that was not built, failed, was stopped,    *)
(* rejected the URL or lacks its package never makes the difference,       *)
(* although each of these leaves a vector that differs from a good one.    *)
RediscoveryWitnessed ==
  urlRun.report # None =>
    \A id \in urlRun.report.rediscovered :
      Cardinality({w \in urlRun.witnesses : w[1] = id}) >= 2

=============================================================================
