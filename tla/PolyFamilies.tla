----------------------------- MODULE PolyFamilies -----------------------------
(***************************************************************************)
(* The five differential-parser families that follow the URL one: image,   *)
(* opengraph, deeplink, qr and proto.  A regression run hands the input of *)
(* each corpus case to the case's implementations, each a subprocess; the  *)
(* axes on which their fact vectors differ become one disagreement record, *)
(* with a triage class, chained to the record before.                      *)
(*                                                                         *)
(* A fact vector is a function on the family's axes.  What a value says is *)
(* left out: decode_outcome is <<status, bytes_out>>, other values are     *)
(* compared and no more.                                                   *)
(***************************************************************************)
EXTENDS Absent, Naturals, Sequences

CONSTANTS
  Corpora,          \* by family, the corpora considered: sequences of cases
  Answers           \* by family, what a decoder may print: values for some axes

(* How a wrapper's subprocess ends: it is not installed, stopped after ten  *)
(* seconds, exits with an error, prints nothing or no JSON, or answers.    *)
Failures == {"missing", "timeout", "exit", "silent", "garbled"}
Replies(f) == {[failure |-> x, says |-> <<>>] : x \in Failures}
                \cup {[failure |-> None, says |-> a] : a \in Answers[f]}

ASSUME FamilyAssumption ==
  /\ None \notin Failures
  /\ DOMAIN Corpora \subseteq {"image", "opengraph", "deeplink", "qr", "proto"}
  /\ \A f \in DOMAIN Corpora : \A c \in Corpora[f] : c \in Seq({c[n] : n \in DOMAIN c})

VARIABLES
  family,           \* the family of this run
  corpus,           \* its corpus.json
  regression        \* the run so far, and what it has written; the replies are history

familyVars == <<family, corpus, regression>>

-----------------------------------------------------------------------------
(* aegisgraph/polydiff/core/triage.py.                                     *)

Priority == [NOISE |-> 0, LOW |-> 1, MEDIUM |-> 2, MEDIUM_HIGH |-> 3, HIGH |-> 4]

\* Seeded fault: sorted the other way round.
Lowest(classes) ==
  IF classes = {} THEN "NOISE"
  ELSE CHOOSE c \in classes : \A d \in classes : Priority[c] <= Priority[d]

Top(classes) ==
  IF classes = {} THEN "NOISE"
  ELSE CHOOSE c \in classes : \A d \in classes : Priority[c] >= Priority[d]

Statuses(outcomes) == {o[1] : o \in outcomes}

(* The first pair of statuses that both occur decides.                     *)
FirstPair(pairs, statuses) ==
  LET hits == {i \in DOMAIN pairs : pairs[i][1] \subseteq statuses}
  IN IF hits = {} THEN "LOW"
     ELSE pairs[CHOOSE i \in hits : \A j \in hits : i <= j][2]

MediaOutcome(outcomes) ==
  FirstPair(<< <<{"ok", "crash"}, "HIGH">>, <<{"ok", "oom"}, "MEDIUM_HIGH">>,
               <<{"ok", "decode_error"}, "MEDIUM">>, <<{"crash", "decode_error"}, "MEDIUM_HIGH">>,
               <<{"crash", "oom"}, "MEDIUM">> >>, Statuses(outcomes))

ImageTriage(diff) ==
  LET class(axis) ==
        CASE axis = "decode_outcome" -> MediaOutcome(diff[axis])
          [] axis = "frame_count" -> "MEDIUM_HIGH"
          [] axis = "dimensions" -> "MEDIUM"
          [] axis = "first_pixel_rgba" -> IF "dimensions" \in DOMAIN diff THEN "LOW" ELSE "MEDIUM"
          [] axis = "color_space" -> IF "first_pixel_rgba" \in DOMAIN diff THEN "MEDIUM" ELSE "LOW"
          [] axis = "alpha_premultiplied" -> "LOW"
          [] OTHER -> "NOISE"
  IN Top({class(axis) : axis \in DOMAIN diff})

OpengraphTriage(diff) ==
  LET class(axis) ==
        CASE axis = "decode_outcome" -> MediaOutcome(diff[axis])
          [] axis = "og_url" -> "MEDIUM_HIGH"
          [] axis \in {"twitter_card_type", "og_type", "canonical_url", "oembed_type"} -> "MEDIUM"
          [] axis \in {"og_image", "twitter_image", "og_title", "og_video"} -> "LOW"
          [] OTHER -> "NOISE"
  IN Top({class(axis) : axis \in DOMAIN diff})

DeeplinkOutcome(outcomes) ==
  FirstPair(<< <<{"ok", "parse_error"}, "HIGH">>, <<{"ok", "malformed"}, "MEDIUM_HIGH">>,
               <<{"ok", "scheme_unknown"}, "MEDIUM">>, <<{"parse_error", "malformed"}, "MEDIUM">> >>,
            Statuses(outcomes))

DeeplinkTriage(diff) ==
  LET class(axis) ==
        CASE axis = "decode_outcome" -> DeeplinkOutcome(diff[axis])
          [] axis \in {"intent_action", "intent_category"} -> "MEDIUM_HIGH"
          [] axis \in {"host", "path", "declared_permissions", "fragment_action", "scheme"} -> "MEDIUM"
          [] axis = "query_params" -> "LOW"
          [] OTHER -> "NOISE"
  IN Top({class(axis) : axis \in DOMAIN diff})

QrOutcome(outcomes) ==
  FirstPair(<< <<{"ok", "parse_error"}, "HIGH">>, <<{"ok", "decode_error"}, "MEDIUM_HIGH">>,
               <<{"ok", "no_qr_found"}, "MEDIUM">>, <<{"parse_error", "decode_error"}, "MEDIUM">> >>,
            Statuses(outcomes))

QrTriage(diff) ==
  LET class(axis) ==
        CASE axis = "decode_outcome" -> QrOutcome(diff[axis])
          [] axis = "detected_text" -> "MEDIUM_HIGH"
          [] axis \in {"mode", "encoding_charset", "structured_append_index",
                       "structured_append_total", "fnc1_present"} -> "MEDIUM"
          [] axis \in {"ecc_level", "version"} -> "LOW"
          [] OTHER -> "NOISE"
  IN Top({class(axis) : axis \in DOMAIN diff})

ProtoOutcome(outcomes) ==
  FirstPair(<< <<{"ok", "parse_error"}, "HIGH">>, <<{"ok", "decode_error"}, "MEDIUM_HIGH">>,
               <<{"ok", "schema_mismatch"}, "MEDIUM">>, <<{"parse_error", "decode_error"}, "MEDIUM">> >>,
            Statuses(outcomes))

ProtoTriage(diff) ==
  LET class(axis) ==
        CASE axis = "decode_outcome" -> ProtoOutcome(diff[axis])
          [] axis \in {"field_unknown_count", "oneof_active_field"} -> "MEDIUM_HIGH"
          [] axis \in {"field_count", "decoded_field_summary", "message_type_name", "format_kind"} -> "MEDIUM"
          [] axis = "declared_schema_version" -> "LOW"
          [] OTHER -> "NOISE"
  IN Top({class(axis) : axis \in DOMAIN diff})

TriageOf(f, diff) ==
  CASE f = "image" -> ImageTriage(diff)
    [] f = "opengraph" -> OpengraphTriage(diff)
    [] f = "deeplink" -> DeeplinkTriage(diff)
    [] f = "qr" -> QrTriage(diff)
    [] f = "proto" -> ProtoTriage(diff)

-----------------------------------------------------------------------------
(* The tables of each family's regression.py: the wrappers it knows, the   *)
(* axes it compares, the targets it has a path for.                        *)

ImageFamily ==
  [ wrappers |-> {"libwebp", "libavif", "libheif", "glide_bitmap", "coil_decoder"},
    axes |-> {"dimensions", "color_space", "alpha_premultiplied", "frame_count",
              "first_pixel_rgba", "decode_outcome", "parser_warnings"},
    targets |-> {"signal_android", "element_x_android"} ]

OpengraphFamily ==
  [ wrappers |-> {"facebook_og", "twitter_card", "oembed", "beautifulsoup_fallback"},
    axes |-> {"og_title", "og_image", "og_type", "og_url", "og_video", "twitter_card_type",
              "twitter_image", "oembed_type", "canonical_url", "parser_warnings", "decode_outcome"},
    targets |-> {"signal_android", "element_x_android", "link_preview_generator"} ]

DeeplinkFamily ==
  [ wrappers |-> {"android_intent_uri", "ios_universal_link", "web_url_fallback", "custom_scheme_parser"},
    axes |-> {"scheme", "host", "path", "query_params", "fragment_action", "declared_permissions",
              "intent_action", "intent_category", "parser_warnings", "decode_outcome"},
    targets |-> {"signal_android", "element_x_android", "signal_ios"} ]

QrFamily ==
  [ wrappers |-> {"zxing_cli", "zbar_cli", "apple_vision_stub", "ios_detector_stub"},
    axes |-> {"detected_text", "ecc_level", "version", "mode", "encoding_charset",
              "structured_append_index", "structured_append_total", "fnc1_present",
              "parser_warnings", "decode_outcome"},
    targets |-> {"signal_android", "element_x_android", "signal_ios"} ]

ProtoFamily ==
  [ wrappers |-> {"protoc_python", "flatc_runner", "msgpack_python", "protoc_gogofaster_stub"},
    axes |-> {"format_kind", "declared_schema_version", "message_type_name", "field_count",
              "field_unknown_count", "oneof_active_field", "decoded_field_summary",
              "parser_warnings", "decode_outcome"},
    targets |-> {"signal_android", "element_x_android", "signal_ios"} ]

Family ==
  [ image |-> ImageFamily, opengraph |-> OpengraphFamily, deeplink |-> DeeplinkFamily,
    qr |-> QrFamily, proto |-> ProtoFamily ]

-----------------------------------------------------------------------------
(* Each family's wrappers/_dispatch.py: an answer is completed with the    *)
(* family's defaults, a failure becomes a vector that says nothing but how *)
(* it failed.                                                              *)

Vector(f, says, defaults) ==
  [ a \in Family[f].axes |->
      IF a \in DOMAIN says THEN says[a] ELSE IF a \in DOMAIN defaults THEN defaults[a] ELSE None ]

Dispatch(f, reply, defaults, onExit, onFailure) ==
  Vector(f, reply.says, Completed(
         [ decode_outcome  |-> CASE reply.failure = None -> <<"ok", 0>>
                                 [] reply.failure = "exit" -> <<onExit, 0>>
                                 [] OTHER -> <<onFailure, 0>>,
           parser_warnings |-> IF reply.failure = None THEN "none" ELSE "wrapper crash" ], defaults))

ImageDispatch(reply) == Dispatch("image", reply, <<>>, "decode_error", "crash")

OpengraphDispatch(reply) == Dispatch("opengraph", reply, <<>>, "decode_error", "crash")

DeeplinkDispatch(reply) ==
  Dispatch("deeplink", reply, [scheme |-> "", declared_permissions |-> "empty"], "parse_error", "parse_error")

QrDispatch(reply) == Dispatch("qr", reply, <<>>, "parse_error", "parse_error")

Format(impl) ==
  CASE impl = "flatc_runner" -> "flatbuffer"
    [] impl = "msgpack_python" -> "msgpack"
    [] OTHER -> "protobuf"

ProtoDispatch(reply, impl) ==
  Dispatch("proto", reply, [format_kind |-> Format(impl)], "parse_error", "parse_error")

(* The stubs stand for decoders no machine here has.                       *)
Stubs == {"apple_vision_stub", "ios_detector_stub", "protoc_gogofaster_stub"}

WrapperRun(f, impl, reply) ==
  CASE f = "image" -> ImageDispatch(reply)
    [] f = "opengraph" -> OpengraphDispatch(reply)
    [] f = "deeplink" -> DeeplinkDispatch(reply)
    [] f = "qr" -> QrDispatch(reply)
    [] f = "proto" -> ProtoDispatch(reply, impl)

-----------------------------------------------------------------------------
(* run_regression.                                                         *)

FamilyInit ==
  /\ family \in DOMAIN Corpora
  /\ corpus \in Corpora[family]
  /\ regression = [case |-> 1, vectors |-> <<>>, replies |-> [n \in DOMAIN corpus |-> <<>>], records |-> <<>>,
                   report |-> None, evidence |-> None]

\* Seeded fault: one value seen is enough for an axis.
DiffOfOne(f, vectors) ==
  [a \in {b \in Family[f].axes : vectors # <<>>} |-> {vectors[i][a] : i \in DOMAIN vectors}]

(* _vectors_to_diff: what was seen, for the axes on which not all agree.   *)
Diff(f, vectors) ==
  LET seen(a) == {vectors[i][a] : i \in DOMAIN vectors}
  IN [a \in {b \in Family[f].axes : \E i, j \in DOMAIN vectors : vectors[i][b] # vectors[j][b]} |-> seen(a)]

(* An implementation the family has no wrapper for is passed over.         *)
Implementations(f, case) == SelectSeq(case.implementations, LAMBDA i : i \in Family[f].wrappers)

DisagreementRecord(f, case, vectors, previous) ==
  [ case            |-> case.id,
    diff            |-> Diff(f, vectors),
    triage_class    |-> TriageOf(f, Diff(f, vectors)),
    implementations |-> {Implementations(f, case)[i] : i \in DOMAIN vectors},
    reachability    |-> case.targets \cap Family[f].targets,
    novelty         |-> IF case.historical THEN "rediscovery" ELSE "appears_novel",
    previous_hash   |-> previous ]

Case == corpus[regression.case]
Gathered == Len(regression.vectors) = Len(Implementations(family, Case))

RunWrapper(reply) ==
  /\ regression.case <= Len(corpus) /\ ~Gathered
  /\ LET impl == Implementations(family, Case)[Len(regression.vectors) + 1]
     IN /\ impl \in Stubs => reply.failure = "missing"
        /\ regression' = [regression EXCEPT
             !.vectors = Append(@, WrapperRun(family, impl, reply)),
             !.replies[regression.case] = Append(@, reply)]
  /\ UNCHANGED <<family, corpus>>

EmitRecord ==
  /\ regression.case <= Len(corpus) /\ Gathered
  /\ LET records == regression.records
         previous == IF records = <<>> THEN None ELSE <<"sha256", records[Len(records)]>>
     IN regression' = [regression EXCEPT
          !.records = Append(@, DisagreementRecord(family, Case, regression.vectors, previous)),
          !.case = @ + 1, !.vectors = <<>>]
  /\ UNCHANGED <<family, corpus>>

WriteRegressionReport ==
  /\ regression.case > Len(corpus) /\ regression.report = None
  /\ regression' = [regression EXCEPT !.report = regression.records]
  /\ UNCHANGED <<family, corpus>>

WriteRegressionEvidence ==
  /\ regression.report # None /\ regression.evidence = None
  /\ regression' = [regression EXCEPT !.evidence = regression.records]
  /\ UNCHANGED <<family, corpus>>

FamilyNext ==
  \/ \E reply \in Replies(family) : RunWrapper(reply)
  \/ EmitRecord
  \/ WriteRegressionReport
  \/ WriteRegressionEvidence

FamilySpec == FamilyInit /\ [][FamilyNext]_familyVars

-----------------------------------------------------------------------------

(* One more implementation of a case never makes its disagreement look     *)
(* less severe, whatever it answers and however it fails: an axis that     *)
(* then differs may lower another axis's class, and a status another pair, *)
(* but never the class of the record.                                      *)
NeverLowered ==
  [][Len(regression'.vectors) > Len(regression.vectors)
       => Priority[TriageOf(family, Diff(family, regression'.vectors))]
            >= Priority[TriageOf(family, Diff(family, regression.vectors))]
    ]_familyVars

(* A case none of whose decoders is installed is reported as noise; but    *)
(* for proto, where even an absent decoder has a format, only when those   *)
(* of the case share one.                                                  *)
AbsenceIsNoise ==
  \A n \in DOMAIN regression.records :
    LET impls == regression.records[n].implementations
    IN /\ \A i \in DOMAIN regression.replies[n] : regression.replies[n][i].failure = "missing"
       /\ family = "proto" => \A i, j \in impls : Format(i) = Format(j)
       => regression.records[n].triage_class = "NOISE"

(* What core/triage.py says of the class HIGH: "one impl decoded cleanly   *)
(* while another crashed/rejected the same input".  A decoder that is not  *)
(* installed, or a stub, did neither, yet counts as one that did.          *)
HighMeansRejected ==
  \A n \in DOMAIN regression.records :
    regression.records[n].triage_class = "HIGH" =>
      \E i \in DOMAIN regression.replies[n] :
        LET reply == regression.replies[n][i]
        IN \/ reply.failure \in Failures \ {"missing"}
           \/ "decode_outcome" \in DOMAIN reply.says /\ reply.says["decode_outcome"][1] # "ok"

=============================================================================
