------------------------------ MODULE UrlParsers ------------------------------
(***************************************************************************)
(* The URL parsers that are run side by side, each as a subprocess, and    *)
(* the detector that compares them: polydiff/parsers, polydiff/factvec,    *)
(* polydiff/disagreement, polydiff/triage.                                 *)
(*                                                                         *)
(* A fact vector is a function on the axes its parser has an opinion on:   *)
(* an axis that is null in the code is not in its domain.  A reading is    *)
(* what a parser made of the URL, acted the set of the URL's features that *)
(* its serialisation no longer shows.                                      *)
(***************************************************************************)
EXTENDS Absent, Naturals, Sequences, FiniteSets

(* polydiff/parsers/PARSER_STATUS.json, sorted, and the wrappers that the  *)
(* dispatcher has a command for.                                           *)
Profiles == <<"jdk_uri", "python_urllib", "whatwg_url_py">>
PythonWrappers == {"python_urllib", "whatwg_url_py"}

WrapperCommand(profile, status) == status = "built" /\ profile \in PythonWrappers

-----------------------------------------------------------------------------
(* wrapper.py.                                                             *)

Opinions(values) == [a \in {b \in DOMAIN values : values[b] # None} |-> values[a]]

If(condition, value) == IF condition THEN value ELSE None

IsIpv4(host) == host \in {"127.0.0.1", "192.0.2.1"}
IsLoopback(host) == host \in {"127.0.0.1", "localhost"}
IsPrivate(host) == IsIpv4(host)

(* Both wrappers: an axis about a feature is null when the URL has none.   *)
Common(features, r) ==
  LET shown(feature) == If(feature \in features, feature \in r.acted)
  IN [ parsed                            |-> TRUE,
       scheme                            |-> r.scheme,
       scheme_lowercased                 |-> r.scheme,
       host                              |-> r.host,
       host_lowercased                   |-> r.host,
       host_decoded                      |-> r.host,
       host_is_ip_literal                |-> If(r.host # None, IsIpv4(r.host)),
       host_is_ipv4                      |-> If(r.host # None, IsIpv4(r.host)),
       host_is_loopback                  |-> If(r.host # None, IsLoopback(r.host)),
       host_is_private_or_link_local     |-> IsPrivate(r.host),
       port                              |-> r.port,
       port_value                        |-> r.port,
       path                              |-> r.path,
       path_traversal_resolved           |-> shown("dotdot"),
       percent_decoding_applied_in_host  |-> shown("percent in host"),
       percent_decoding_applied_in_path  |-> If("percent in path" \in features, FALSE),
       leading_zeroes_in_octets_stripped |-> shown("zero octet"),
       tab_or_newline_stripped           |-> shown("tab"),
       backslash_treated_as_slash        |-> shown("backslash"),
       control_chars_in_host_rejected    |-> If("tab" \in features, FALSE) ]

UserinfoPresent(r) == r.user \notin {None, ""} \/ r.password \notin {None, ""}

UrllibParse(features, r) ==
  Opinions(Completed(
    [ host_is_ipv6                      |-> FALSE,
      path_normalized                   |-> IF r.path = None THEN "" ELSE r.path,
      userinfo_present                  |-> UserinfoPresent(r),
      userinfo_raw                      |-> If({r.user, r.password} # {None}, <<r.user, r.password>>),
      username                          |-> r.user,
      password_present                  |-> r.password # None,
      scheme_authority_separator_strict |-> TRUE ], Common(features, r)))

WhatwgParse(features, r) ==
  Opinions(Completed(
    [ host_is_ipv6     |-> If(r.host # None, FALSE),
      host_has_idn     |-> r.host = "xn--idn.example",
      host_punycode    |-> If(r.host = "xn--idn.example", r.host),
      path_normalized  |-> r.path,
      userinfo_present |-> UserinfoPresent(r),
      userinfo_raw     |-> If(UserinfoPresent(r), <<r.user, r.password>>),
      username         |-> If(r.user # "", r.user),
      password_present |-> r.password \notin {None, ""} ], Common(features, r)))

(* _empty_envelope: the parser's own verdict, an error.                    *)
EmptyEnvelope(error) ==
  [ parsed |-> FALSE, userinfo_present |-> FALSE, password_present |-> FALSE,
    host_is_private_or_link_local |-> FALSE, parse_error |-> error ]

(* run_wrapper's _crash_envelope: the wrapper gave no verdict.             *)
CrashEnvelope(reason) ==
  [ parsed |-> FALSE, userinfo_present |-> FALSE,
    host_is_private_or_link_local |-> FALSE, parse_error |-> reason ]

WrapperFailures == {"timeout", "not found", "exit code", "no stdout", "invalid JSON"}

(* What becomes of a wrapper: it parses, with a reading; it rejects, also  *)
(* when the package it wraps is missing; or it fails.  Only the text of a  *)
(* bad exit names the wrapper.                                             *)
Outcomes(readings) ==
  {[kind |-> "parsed", reading |-> r] : r \in readings}
    \cup {[kind |-> k, reading |-> None] : k \in WrapperFailures \cup {"rejected", "no package"}}

RunUrlWrapper(profile, features, outcome) ==
  CASE outcome.kind = "parsed" /\ profile = "python_urllib" -> UrllibParse(features, outcome.reading)
    [] outcome.kind = "parsed" /\ profile = "whatwg_url_py" -> WhatwgParse(features, outcome.reading)
    [] outcome.kind \in {"rejected", "no package"} -> EmptyEnvelope(<<profile, outcome.kind>>)
    [] outcome.kind = "exit code" -> CrashEnvelope(<<profile, outcome.kind>>)
    [] OTHER -> CrashEnvelope(<<outcome.kind>>)

CanEnd(profile, outcome) == outcome.kind = "no package" => profile = "whatwg_url_py"

Normalize(envelope) ==
  Completed(envelope,
            [ parsed |-> FALSE, userinfo_present |-> FALSE, host_is_private_or_link_local |-> FALSE ])

-----------------------------------------------------------------------------
(* detector.py, rules.yml and classifier.py.  A vector is <<profile, its   *)
(* axes>>.                                                                 *)

COMPARABLE_AXES ==
  { "scheme", "scheme_lowercased", "host", "host_lowercased", "host_decoded", "host_is_ip_literal",
    "host_is_ipv4", "host_is_ipv6", "host_is_loopback", "host_is_private_or_link_local", "host_has_idn",
    "host_punycode", "port", "port_value", "path", "path_normalized", "path_traversal_resolved",
    "userinfo_present", "userinfo_raw", "username", "password_present",
    "percent_decoding_applied_in_host", "percent_decoding_applied_in_path", "trailing_slash_normalized",
    "leading_zeroes_in_octets_stripped", "tab_or_newline_stripped", "backslash_treated_as_slash",
    "control_chars_in_host_rejected", "scheme_authority_separator_strict", "parsed", "parse_error" }

\* Seeded fault: no opinion is an opinion of its own.
ValuesWithNull(vectors, axis) ==
  {IF axis \in DOMAIN vectors[i][2] THEN vectors[i][2][axis] ELSE None : i \in DOMAIN vectors}

Values(vectors, axis) ==
  {vectors[i][2][axis] : i \in {j \in DOMAIN vectors : axis \in DOMAIN vectors[j][2]}}

Rules ==
  { <<"host_lowercased", "any", "origin-confusion">>,
    <<"host", "any", "origin-confusion">>,
    <<"host_is_loopback", "boolean", "ssrf-loopback-bypass">>,
    <<"host_is_private_or_link_local", "boolean", "ssrf-private-network">>,
    <<"host_has_idn", "boolean", "idn-spoof">>,
    <<"host_punycode", "any", "idn-spoof">>,
    <<"userinfo_present", "boolean", "userinfo-host-confusion">>,
    <<"userinfo_raw", "any", "userinfo-host-confusion">>,
    <<"path_traversal_resolved", "boolean", "path-traversal">>,
    <<"path_normalized", "any", "path-normalization-confusion">>,
    <<"percent_decoding_applied_in_host", "boolean", "host-injection">>,
    <<"percent_decoding_applied_in_path", "boolean", "path-decode-confusion">>,
    <<"control_chars_in_host_rejected", "boolean", "header-injection">>,
    <<"backslash_treated_as_slash", "boolean", "path-confusion">>,
    <<"tab_or_newline_stripped", "boolean", "link-preview-bypass">>,
    <<"leading_zeroes_in_octets_stripped", "boolean", "ssrf-private-network">>,
    <<"parsed", "boolean", "gating-bypass">>,
    <<"scheme_authority_separator_strict", "boolean", "scheme-confusion">>,
    <<"scheme_lowercased", "any", "scheme-confusion">>,
    <<"port_value", "any", "port-confusion">>,
    <<"host_is_private_or_link_local", "any", "ssrf-ipv6-mapped">> }

RuleMatches(when, values) == when = "any" \/ {TRUE, FALSE} \subseteq values

Classify(axis, values) ==
  LET tags == {rule[3] : rule \in {r \in Rules : r[1] = axis /\ RuleMatches(r[2], values)}}
  IN IF tags = {} THEN {"parser-behavior-difference"} ELSE tags

(* The axes on which two opinions differ, each with its tags.              *)
Detect(vectors) ==
  [ a \in {b \in COMPARABLE_AXES : Cardinality(Values(vectors, b)) > 1} |->
      Classify(a, Values(vectors, a)) ]

=============================================================================
