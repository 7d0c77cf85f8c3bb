---------------------------- MODULE PolydiffProofs ----------------------------
(***************************************************************************)
(* The differential parsers, for any corpora, any answers of the decoders  *)
(* and parsers, and any way they fail: theorems of PolyFamilies and of     *)
(* UrlRegression.                                                          *)
(***************************************************************************)
EXTENDS PolyFamilies, UrlRegression, DataLemmas, TLAPS

(* The families.  Every vector is what a wrapper made of a reply that the  *)
(* history holds, and a record was made from the vectors of its case.      *)
AnyVector(f, cases) ==
  {WrapperRun(f, Implementations(f, cases[n])[i], reply) :
     n \in DOMAIN cases, i \in Nat, reply \in Replies(f)}

MadeFrom(f, cases, replies, vectors, n) ==
  /\ vectors \in Seq(AnyVector(f, cases))
  /\ Len(vectors) = Len(replies[n])
  /\ \A i \in 1..Len(vectors) : vectors[i] = WrapperRun(f, Implementations(f, cases[n])[i], replies[n][i])

RecordOf(f, cases, replies, record, vectors, n) ==
  /\ MadeFrom(f, cases, replies, vectors, n)
  /\ record.triage_class = TriageOf(f, Diff(f, vectors))
  /\ record.implementations = {Implementations(f, cases[n])[i] : i \in DOMAIN vectors}

RecordsInv(f, cases, r) ==
  /\ r = [case |-> r.case, vectors |-> r.vectors, replies |-> r.replies,
          records |-> r.records, report |-> r.report, evidence |-> r.evidence]
  /\ r.replies \in [DOMAIN cases -> Seq(Replies(f))]
  /\ r.records \in Seq(Range(r.records))
  /\ r.case = Len(r.records) + 1 /\ Len(r.records) <= Len(cases)
  /\ r.vectors \in Seq(AnyVector(f, cases))
  /\ r.case \in DOMAIN cases => MadeFrom(f, cases, r.replies, r.vectors, r.case)
  /\ \A n \in DOMAIN cases : n > r.case => r.replies[n] = <<>>
  /\ \A n \in 1..Len(r.records) : \E vectors : RecordOf(f, cases, r.replies, r.records[n], vectors, n)

FamilyInv ==
  /\ family \in DOMAIN Corpora /\ corpus \in Corpora[family]
  /\ RecordsInv(family, corpus, regression)

(* A corpus is a list of cases.                                            *)
LEMMA CorpusIs ==
  ASSUME NEW f \in DOMAIN Corpora, NEW cases \in Corpora[f]
  PROVE  Len(cases) \in Nat /\ DOMAIN cases = 1..Len(cases)
BY FamilyAssumption

(* Nothing has been run yet.                                               *)
LEMMA FamilyInitially == FamilyInit => FamilyInv
<1>. SUFFICES ASSUME FamilyInit PROVE FamilyInv
  OBVIOUS
<1>1. Len(corpus) \in Nat /\ DOMAIN corpus = 1..Len(corpus)
  BY CorpusIs DEF FamilyInit
<1>2. <<>> \in Seq(Replies(family)) /\ <<>> \in Seq(AnyVector(family, corpus)) /\ Len(<<>>) = 0
  OBVIOUS
<1>3. regression.records \in Seq(Range(regression.records)) /\ Len(regression.records) = 0
  BY DEF FamilyInit
<1>4. /\ regression.replies \in [DOMAIN corpus -> Seq(Replies(family))]
      /\ \A n \in DOMAIN corpus : regression.replies[n] = <<>>
  BY <1>2 DEF FamilyInit
<1>5. regression.case \in DOMAIN corpus
        => MadeFrom(family, corpus, regression.replies, regression.vectors, regression.case)
  BY <1>2, <1>4 DEF FamilyInit, MadeFrom
<1>6. RecordsInv(family, corpus, regression)
  BY <1>1, <1>2, <1>3, <1>4, <1>5 DEF FamilyInit, RecordsInv
<1>. QED  BY <1>6 DEF FamilyInit, FamilyInv

(* What the history gains for one case leaves what it holds of the others. *)
LEMMA OtherCases ==
  ASSUME NEW f, NEW cases, NEW replies, NEW more, NEW n, more[n] = replies[n],
         NEW record, NEW vectors, RecordOf(f, cases, replies, record, vectors, n)
  PROVE  RecordOf(f, cases, more, record, vectors, n)
BY DEF RecordOf, MadeFrom

(* A reply is kept with the vector that was made of it.                    *)
LEMMA RunWrapperKeeps ==
  ASSUME FamilyInv, NEW reply \in Replies(family), RunWrapper(reply)
  PROVE  FamilyInv'
<1>. DEFINE n == regression.case
            impl == Implementations(family, Case)[Len(regression.vectors) + 1]
            vectors == Append(regression.vectors, WrapperRun(family, impl, reply))
            mine == Append(regression.replies[n], reply)
<1>0. RecordsInv(family, corpus, regression) /\ family \in DOMAIN Corpora /\ corpus \in Corpora[family]
  BY DEF FamilyInv
<1>1. n \in 1..Len(corpus) /\ Len(corpus) \in Nat /\ n \in Nat /\ DOMAIN corpus = 1..Len(corpus)
  BY <1>0, CorpusIs, LenProperties DEF RecordsInv, RunWrapper
<1>2. UNCHANGED <<family, corpus>> /\ regression' = [regression EXCEPT !.vectors = vectors, !.replies[n] = mine]
  BY DEF RunWrapper
<1>3. /\ regression'.vectors = vectors /\ regression'.replies = [regression.replies EXCEPT ![n] = mine]
      /\ regression'.records = regression.records /\ regression'.case = n
      /\ regression' = [case |-> regression'.case, vectors |-> regression'.vectors, replies |-> regression'.replies,
                        records |-> regression'.records, report |-> regression'.report,
                        evidence |-> regression'.evidence]
  BY <1>0, <1>2 DEF RecordsInv
<1>4. MadeFrom(family, corpus, regression.replies, regression.vectors, n)
      /\ regression.replies[n] \in Seq(Replies(family))
  BY <1>0, <1>1 DEF RecordsInv
<1>5. WrapperRun(family, impl, reply) \in AnyVector(family, corpus)
  <2>1. Len(regression.vectors) + 1 \in Nat
    BY <1>0, LenProperties DEF RecordsInv
  <2>. QED  BY <1>1, <2>1 DEF AnyVector, Case
<1>6. /\ vectors \in Seq(AnyVector(family, corpus)) /\ Len(vectors) = Len(regression.vectors) + 1
      /\ vectors[Len(regression.vectors) + 1] = WrapperRun(family, impl, reply)
      /\ \A i \in 1..Len(regression.vectors) : vectors[i] = regression.vectors[i]
  <2>1. PICK v \in AnyVector(family, corpus) : v = WrapperRun(family, impl, reply)
    BY <1>5
  <2>2. regression.vectors \in Seq(AnyVector(family, corpus)) /\ vectors = Append(regression.vectors, v)
    BY <1>0, <2>1 DEF RecordsInv
  <2>. HIDE DEF vectors, impl
  <2>. QED  BY <2>1, <2>2, AppendProperties
<1>7. /\ mine \in Seq(Replies(family)) /\ Len(mine) = Len(regression.replies[n]) + 1
      /\ mine[Len(regression.replies[n]) + 1] = reply
      /\ \A i \in 1..Len(regression.replies[n]) : mine[i] = regression.replies[n][i]
  BY <1>4, AppendProperties
<1>8. /\ regression'.replies \in [DOMAIN corpus -> Seq(Replies(family))] /\ regression'.replies[n] = mine
      /\ \A m \in DOMAIN corpus : m # n => regression'.replies[m] = regression.replies[m]
  <2>1. regression.replies \in [DOMAIN corpus -> Seq(Replies(family))]
    BY <1>0 DEF RecordsInv
  <2>. HIDE DEF mine, n
  <2>. QED  BY <1>1, <1>3, <1>7, <2>1
<1>9. MadeFrom(family, corpus, regression'.replies, vectors, n)
  <2>1. Len(regression.vectors) \in Nat
    BY <1>4, LenProperties DEF MadeFrom
  <2>2. ASSUME NEW i \in 1..Len(vectors)
        PROVE  vectors[i] = WrapperRun(family, Implementations(family, corpus[n])[i], mine[i])
    <3>1. CASE i = Len(regression.vectors) + 1
      <4>1. Len(regression.vectors) = Len(regression.replies[n])
        BY <1>4 DEF MadeFrom
      <4>2. mine[i] = reply /\ vectors[i] = WrapperRun(family, impl, reply)
        BY <1>6, <1>7, <3>1, <4>1
      <4>3. impl = Implementations(family, corpus[n])[i]
        BY <3>1 DEF Case
      <4>. HIDE DEF vectors, mine, impl
      <4>. QED  BY <4>2, <4>3
    <3>2. CASE i \in 1..Len(regression.vectors)
      <4>1. /\ Len(regression.vectors) = Len(regression.replies[n])
            /\ regression.vectors[i] =
                 WrapperRun(family, Implementations(family, corpus[n])[i], regression.replies[n][i])
        BY <1>4, <3>2 DEF MadeFrom
      <4>2. mine[i] = regression.replies[n][i] /\ vectors[i] = regression.vectors[i]
        BY <1>6, <1>7, <3>2, <4>1
      <4>. HIDE DEF vectors, mine, n
      <4>. QED  BY <4>1, <4>2
    <3>3. i = Len(regression.vectors) + 1 \/ i \in 1..Len(regression.vectors)
      <4>1. Len(vectors) = Len(regression.vectors) + 1
        BY <1>6
      <4>. HIDE DEF vectors
      <4>. QED  BY <2>1, <4>1
    <3>. HIDE DEF vectors, mine, n
    <3>. QED  BY <3>1, <3>2, <3>3
  <2>3. Len(vectors) = Len(mine)
    BY <1>4, <1>6, <1>7 DEF MadeFrom
  <2>. HIDE DEF vectors, mine, n
  <2>. QED  BY <1>6, <1>8, <2>2, <2>3 DEF MadeFrom
<1>10. \A m \in 1..Len(regression.records) :
         \E v : RecordOf(family, corpus, regression'.replies, regression.records[m], v, m)
  <2>. SUFFICES ASSUME NEW m \in 1..Len(regression.records)
                PROVE  \E v : RecordOf(family, corpus, regression'.replies, regression.records[m], v, m)
    OBVIOUS
  <2>1. PICK v : RecordOf(family, corpus, regression.replies, regression.records[m], v, m)
    BY <1>0 DEF RecordsInv
  <2>2. m # n /\ m \in DOMAIN corpus
    BY <1>0, <1>1, LenProperties DEF RecordsInv
  <2>3. regression'.replies[m] = regression.replies[m]
    BY <1>8, <2>2
  <2>. QED  BY <2>1, <2>3, OtherCases
<1>11. RecordsInv(family, corpus, regression')
  <2>1. \A m \in DOMAIN corpus : m > n => regression'.replies[m] = <<>>
    <3>1. \A m \in DOMAIN corpus : m > n => regression.replies[m] = <<>>
      BY <1>0 DEF RecordsInv
    <3>. HIDE DEF mine, n
    <3>. QED  BY <1>1, <1>8, <3>1
  <2>. HIDE DEF vectors, mine
  <2>. QED  BY <1>0, <1>3, <1>6, <1>8, <1>9, <1>10, <2>1 DEF RecordsInv
<1>. QED  BY <1>0, <1>2, <1>11 DEF FamilyInv

(* A record is made from the vectors of its case.                          *)
LEMMA EmitRecordKeeps ==
  ASSUME FamilyInv, EmitRecord
  PROVE  FamilyInv'
<1>0. RecordsInv(family, corpus, regression) /\ family \in DOMAIN Corpora /\ corpus \in Corpora[family]
  BY DEF FamilyInv
<1>1. /\ regression.case \in 1..Len(corpus) /\ Len(corpus) \in Nat /\ DOMAIN corpus = 1..Len(corpus)
      /\ Len(regression.records) \in Nat
  BY <1>0, CorpusIs, LenProperties DEF RecordsInv, EmitRecord
<1>2. PICK previous :
        regression' = [regression EXCEPT
          !.records = Append(@, DisagreementRecord(family, Case, regression.vectors, previous)),
          !.case = @ + 1, !.vectors = <<>>]
  BY DEF EmitRecord
<1>. DEFINE record == DisagreementRecord(family, Case, regression.vectors, previous)
            records == Append(regression.records, record)
<1>3. /\ regression'.vectors = <<>> /\ regression'.replies = regression.replies
      /\ regression'.records = records /\ regression'.case = regression.case + 1
      /\ regression' = [case |-> regression'.case, vectors |-> regression'.vectors, replies |-> regression'.replies,
                        records |-> regression'.records, report |-> regression'.report,
                        evidence |-> regression'.evidence]
  BY <1>0, <1>2 DEF RecordsInv
<1>4. RecordOf(family, corpus, regression.replies, record, regression.vectors, regression.case)
  BY <1>0, <1>1 DEF RecordsInv, RecordOf, DisagreementRecord, Case
<1>5. /\ records \in Seq(Range(records)) /\ Len(records) = Len(regression.records) + 1
      /\ records[Len(regression.records) + 1] = record
      /\ \A i \in 1..Len(regression.records) : records[i] = regression.records[i]
  <2>. HIDE DEF record
  <2>. QED  BY <1>0, Appended DEF RecordsInv
<1>. HIDE DEF records, record
<1>6. \A m \in 1..Len(records) : \E v : RecordOf(family, corpus, regression.replies, records[m], v, m)
  <2>. SUFFICES ASSUME NEW m \in 1..Len(records)
                PROVE  \E v : RecordOf(family, corpus, regression.replies, records[m], v, m)
    OBVIOUS
  <2>1. CASE m = regression.case
    BY <1>0, <1>4, <1>5, <2>1 DEF RecordsInv
  <2>2. CASE m # regression.case
    <3>1. m \in 1..Len(regression.records)
      BY <1>0, <1>1, <1>5, <2>2 DEF RecordsInv
    <3>2. records[m] = regression.records[m]
      BY <1>5, <3>1
    <3>3. PICK v : RecordOf(family, corpus, regression.replies, regression.records[m], v, m)
      BY <1>0, <3>1 DEF RecordsInv
    <3>. QED  BY <3>2, <3>3
  <2>. QED  BY <2>1, <2>2
<1>7. <<>> \in Seq(AnyVector(family, corpus)) /\ Len(<<>>) = 0
  OBVIOUS
<1>8. regression'.case \in DOMAIN corpus
        => MadeFrom(family, corpus, regression'.replies, <<>>, regression'.case)
  <2>1. regression'.case \in DOMAIN corpus => regression'.replies[regression'.case] = <<>>
    BY <1>0, <1>1, <1>3 DEF RecordsInv
  <2>. QED  BY <1>7, <2>1 DEF MadeFrom
<1>9. \A m \in DOMAIN corpus : m > regression'.case => regression'.replies[m] = <<>>
  BY <1>0, <1>1, <1>3 DEF RecordsInv
<1>10. RecordsInv(family, corpus, regression')
  BY <1>0, <1>1, <1>3, <1>5, <1>6, <1>7, <1>8, <1>9 DEF RecordsInv
<1>11. UNCHANGED <<family, corpus>>
  BY DEF EmitRecord
<1>. QED  BY <1>0, <1>10, <1>11 DEF FamilyInv

(* The invariant is inductive.                                             *)
LEMMA FamilyStep == FamilyInv /\ [FamilyNext]_familyVars => FamilyInv'
<1>. SUFFICES ASSUME FamilyInv, [FamilyNext]_familyVars PROVE FamilyInv'
  OBVIOUS
<1>1. CASE WriteRegressionReport
  <2>1. RecordsInv(family, corpus, regression')
    BY <1>1 DEF WriteRegressionReport, FamilyInv, RecordsInv
  <2>. QED  BY <1>1, <2>1 DEF WriteRegressionReport, FamilyInv
<1>2. CASE WriteRegressionEvidence
  <2>1. RecordsInv(family, corpus, regression')
    BY <1>2 DEF WriteRegressionEvidence, FamilyInv, RecordsInv
  <2>. QED  BY <1>2, <2>1 DEF WriteRegressionEvidence, FamilyInv
<1>3. CASE UNCHANGED familyVars
  BY <1>3 DEF familyVars, FamilyInv
<1>. QED  BY <1>1, <1>2, <1>3, RunWrapperKeeps, EmitRecordKeeps DEF FamilyNext

-----------------------------------------------------------------------------
(* What an absent decoder says does not depend on which one it is.         *)
LEMMA AbsentAlike ==
  ASSUME NEW f \in DOMAIN Corpora, NEW a \in Replies(f), NEW b \in Replies(f),
         a.failure = "missing", b.failure = "missing",
         NEW x, NEW y, f = "proto" => Format(x) = Format(y)
  PROVE  WrapperRun(f, x, a) = WrapperRun(f, y, b)
<1>1. a = b
  BY FamilyAssumption DEF Replies, Failures
<1>2. CASE f = "proto"
  BY <1>1, <1>2 DEF WrapperRun, ProtoDispatch
<1>3. CASE f # "proto"
  BY <1>1, <1>3, FamilyAssumption DEF WrapperRun
<1>. QED  BY <1>2, <1>3

(* Where all agree there is nothing to be classed.                         *)
LEMMA NoDiffIsNoise ==
  ASSUME NEW f \in DOMAIN Corpora, NEW diff, DOMAIN diff = {}
  PROVE  TriageOf(f, diff) = "NOISE"
<1>1. ImageTriage(diff) = "NOISE"
  BY DEF ImageTriage, Top
<1>2. OpengraphTriage(diff) = "NOISE"
  BY DEF OpengraphTriage, Top
<1>3. DeeplinkTriage(diff) = "NOISE"
  BY DEF DeeplinkTriage, Top
<1>4. QrTriage(diff) = "NOISE"
  BY DEF QrTriage, Top
<1>5. ProtoTriage(diff) = "NOISE"
  BY DEF ProtoTriage, Top
<1>. QED  BY <1>1, <1>2, <1>3, <1>4, <1>5, FamilyAssumption DEF TriageOf

(* Whatever the case, decoders that are all absent disagree on nothing.    *)
LEMMA AbsenceIs == FamilyInv => AbsenceIsNoise
<1>. SUFFICES ASSUME FamilyInv, NEW n \in DOMAIN regression.records,
                     \A i \in DOMAIN regression.replies[n] : regression.replies[n][i].failure = "missing",
                     family = "proto" => \A i, j \in regression.records[n].implementations : Format(i) = Format(j)
              PROVE  regression.records[n].triage_class = "NOISE"
  BY DEF AbsenceIsNoise
<1>0. RecordsInv(family, corpus, regression) /\ family \in DOMAIN Corpora /\ corpus \in Corpora[family]
  BY DEF FamilyInv
<1>1. n \in 1..Len(regression.records) /\ n \in DOMAIN corpus
  BY <1>0, CorpusIs, LenProperties DEF RecordsInv
<1>2. PICK vectors : RecordOf(family, corpus, regression.replies, regression.records[n], vectors, n)
  BY <1>0, <1>1 DEF RecordsInv
<1>3. /\ regression.replies[n] \in Seq(Replies(family))
      /\ DOMAIN vectors = 1..Len(vectors) /\ Len(vectors) = Len(regression.replies[n])
  BY <1>0, <1>1, <1>2, LenProperties DEF RecordsInv, RecordOf, MadeFrom
<1>4. ASSUME NEW i \in DOMAIN vectors, NEW j \in DOMAIN vectors
      PROVE  vectors[i] = vectors[j]
  <2>. DEFINE impls == Implementations(family, corpus[n])
              replies == regression.replies[n]
  <2>1. /\ replies[i] \in Replies(family) /\ replies[i].failure = "missing"
        /\ replies[j] \in Replies(family) /\ replies[j].failure = "missing"
    BY <1>3, ElementOfSeq, LenProperties
  <2>2. family = "proto" => Format(impls[i]) = Format(impls[j])
    BY <1>2 DEF RecordOf
  <2>3. vectors[i] = WrapperRun(family, impls[i], replies[i]) /\ vectors[j] = WrapperRun(family, impls[j], replies[j])
    BY <1>2, <1>3 DEF RecordOf, MadeFrom
  <2>4. PICK a \in Replies(family) : a = replies[i]
    BY <2>1
  <2>5. PICK b \in Replies(family) : b = replies[j]
    BY <2>1
  <2>. HIDE DEF impls, replies
  <2>6. WrapperRun(family, impls[i], a) = WrapperRun(family, impls[j], b)
    BY <1>0, <2>1, <2>2, <2>4, <2>5, AbsentAlike
  <2>. QED  BY <2>3, <2>4, <2>5, <2>6
<1>5. DOMAIN Diff(family, vectors) = {}
  BY <1>4 DEF Diff
<1>. QED  BY <1>0, <1>2, <1>5, NoDiffIsNoise DEF RecordOf

(* For any corpus and any answers: a case whose decoders are all absent is *)
(* reported as noise.  The _dispatch.py modules and triage.py.             *)
THEOREM AbsenceIsNoiseHolds == FamilySpec => []AbsenceIsNoise
BY FamilyInitially, FamilyStep, AbsenceIs, PTL DEF FamilySpec

-----------------------------------------------------------------------------
(* Triage.  A disagreement grows with every vector: its axes stay, and so  *)
(* does what was seen on each.                                             *)
Classes == {"NOISE", "LOW", "MEDIUM", "MEDIUM_HIGH", "HIGH"}

Grows(diff, more) ==
  DOMAIN diff \subseteq DOMAIN more /\ \A a \in DOMAIN diff : diff[a] \subseteq more[a]

(* One more vector takes no axis and no value away (_vectors_to_diff).     *)
LEMMA DiffGrows ==
  ASSUME NEW f, NEW S, NEW vectors \in Seq(S), NEW v \in S
  PROVE  Grows(Diff(f, vectors), Diff(f, Append(vectors, v)))
<1>. DEFINE more == Append(vectors, v)
<1>1. DOMAIN vectors \subseteq DOMAIN more /\ \A i \in DOMAIN vectors : more[i] = vectors[i]
  <2>1. DOMAIN vectors = 1..Len(vectors) /\ Len(vectors) \in Nat
    BY LenProperties
  <2>2. DOMAIN more = 1..(Len(vectors) + 1) /\ \A i \in 1..Len(vectors) : more[i] = vectors[i]
    BY AppendProperties, LenProperties
  <2>. HIDE DEF more
  <2>. QED  BY <2>1, <2>2
<1>. HIDE DEF more
<1>2. SUFFICES Grows(Diff(f, vectors), Diff(f, more))
  BY DEF more
<1>3. DOMAIN Diff(f, vectors) \subseteq DOMAIN Diff(f, more)
  BY <1>1 DEF Diff
<1>4. ASSUME NEW a \in DOMAIN Diff(f, vectors)
      PROVE  Diff(f, vectors)[a] \subseteq Diff(f, more)[a]
  <2>1. Diff(f, vectors)[a] = {vectors[i][a] : i \in DOMAIN vectors}
    BY DEF Diff
  <2>2. Diff(f, more)[a] = {more[i][a] : i \in DOMAIN more}
    BY <1>3 DEF Diff
  <2>. QED  BY <1>1, <2>1, <2>2
<1>. QED  BY <1>3, <1>4 DEF Grows

(* The order of the classes (triage.py).                                   *)
LEMMA Priorities ==
  /\ Priority["NOISE"] = 0 /\ Priority["LOW"] = 1 /\ Priority["MEDIUM"] = 2
  /\ Priority["MEDIUM_HIGH"] = 3 /\ Priority["HIGH"] = 4
BY DEF Priority

(* The CHOOSE of Top finds a class no other is above.                      *)
LEMMA TopIs ==
  ASSUME NEW classes \in SUBSET Classes, classes # {}
  PROVE  Top(classes) \in classes /\ \A c \in classes : Priority[Top(classes)] >= Priority[c]
<1>1. \E c \in classes : \A d \in classes : Priority[c] >= Priority[d]
  <2>1. CASE "HIGH" \in classes
    BY <2>1, Priorities DEF Classes
  <2>2. CASE "HIGH" \notin classes /\ "MEDIUM_HIGH" \in classes
    BY <2>2, Priorities DEF Classes
  <2>3. CASE classes \cap {"HIGH", "MEDIUM_HIGH"} = {} /\ "MEDIUM" \in classes
    BY <2>3, Priorities DEF Classes
  <2>4. CASE classes \cap {"HIGH", "MEDIUM_HIGH", "MEDIUM"} = {} /\ "LOW" \in classes
    BY <2>4, Priorities DEF Classes
  <2>5. CASE classes \subseteq {"NOISE"}
    <3>1. classes = {"NOISE"}
      BY <2>5
    <3>. QED  BY <3>1, Priorities
  <2>6. \/ "HIGH" \in classes
        \/ "HIGH" \notin classes /\ "MEDIUM_HIGH" \in classes
        \/ classes \cap {"HIGH", "MEDIUM_HIGH"} = {} /\ "MEDIUM" \in classes
        \/ classes \cap {"HIGH", "MEDIUM_HIGH", "MEDIUM"} = {} /\ "LOW" \in classes
        \/ classes \subseteq {"NOISE"}
    BY DEF Classes
  <2>. QED  BY <2>1, <2>2, <2>3, <2>4, <2>5, <2>6
<1>. QED  BY <1>1 DEF Top

(* When every class of the one set has its like or better in the other,    *)
(* so has the top.                                                         *)
LEMMA TopDominates ==
  ASSUME NEW classes \in SUBSET Classes, NEW others \in SUBSET Classes,
         \A c \in classes : \E d \in others : Priority[d] >= Priority[c]
  PROVE  Priority[Top(others)] >= Priority[Top(classes)]
<1>1. \A c \in Classes : Priority[c] \in 0..4
  BY Priorities DEF Classes
<1>2. CASE classes = {}
  <2>1. Top(classes) = "NOISE"
    BY <1>2 DEF Top
  <2>2. Top(others) \in Classes
    BY TopIs DEF Top, Classes
  <2>. QED  BY <1>1, <2>1, <2>2, Priorities
<1>3. CASE classes # {}
  <2>1. Top(classes) \in classes
    BY <1>3, TopIs
  <2>2. PICK d \in others : Priority[d] >= Priority[Top(classes)]
    BY <2>1
  <2>3. Top(others) \in others /\ Priority[Top(others)] >= Priority[d]
    BY <2>2, TopIs
  <2>4. /\ Priority[Top(others)] \in 0..4 /\ Priority[d] \in 0..4 /\ Priority[Top(classes)] \in 0..4
    BY <1>1, <2>1, <2>2, <2>3
  <2>. QED  BY <2>2, <2>3, <2>4
<1>. QED  BY <1>2, <1>3

(* The least index whose statuses all occur decides.                       *)
LEMMA FirstPairIs ==
  ASSUME NEW pairs, NEW n \in Nat, DOMAIN pairs = 1..n, NEW statuses
  PROVE  /\ \A i \in 1..n :
              pairs[i][1] \subseteq statuses /\ (\A j \in 1..n : j < i => ~(pairs[j][1] \subseteq statuses))
                => FirstPair(pairs, statuses) = pairs[i][2]
         /\ (\A i \in 1..n : ~(pairs[i][1] \subseteq statuses)) => FirstPair(pairs, statuses) = "LOW"
<1>. DEFINE hits == {i \in DOMAIN pairs : pairs[i][1] \subseteq statuses}
<1>1. ASSUME NEW i \in 1..n, pairs[i][1] \subseteq statuses, \A j \in 1..n : j < i => ~(pairs[j][1] \subseteq statuses)
      PROVE  FirstPair(pairs, statuses) = pairs[i][2]
  <2>1. i \in hits /\ hits \subseteq 1..n
    BY <1>1
  <2>2. \A j \in hits : i <= j
    BY <1>1
  <2>. HIDE DEF hits
  <2>3. (CHOOSE k \in hits : \A j \in hits : k <= j) = i
    <3>1. \A k \in hits : (\A j \in hits : k <= j) => k = i
      BY <2>1, <2>2
    <3>. QED  BY <2>1, <2>2, <3>1
  <2>. QED  BY <2>1, <2>3 DEF FirstPair, hits
<1>2. ASSUME \A i \in 1..n : ~(pairs[i][1] \subseteq statuses)
      PROVE  FirstPair(pairs, statuses) = "LOW"
  BY <1>2 DEF FirstPair
<1>. QED  BY <1>1, <1>2

(* The tables of pairs, spelt out.                                         *)
Both(s, t, outcomes) == s \in Statuses(outcomes) /\ t \in Statuses(outcomes)

(* The five pairs of image and opengraph.                                  *)
LEMMA MediaOutcomeIs ==
  ASSUME NEW o
  PROVE  MediaOutcome(o) =
           IF Both("ok", "crash", o) THEN "HIGH"
           ELSE IF Both("ok", "oom", o) THEN "MEDIUM_HIGH"
           ELSE IF Both("ok", "decode_error", o) THEN "MEDIUM"
           ELSE IF Both("crash", "decode_error", o) THEN "MEDIUM_HIGH"
           ELSE IF Both("crash", "oom", o) THEN "MEDIUM" ELSE "LOW"
<1>. DEFINE pairs == << <<{"ok", "crash"}, "HIGH">>, <<{"ok", "oom"}, "MEDIUM_HIGH">>,
                       <<{"ok", "decode_error"}, "MEDIUM">>, <<{"crash", "decode_error"}, "MEDIUM_HIGH">>,
                       <<{"crash", "oom"}, "MEDIUM">> >>
<1>1. DOMAIN pairs = 1..5
  OBVIOUS
<1>2. /\ pairs[1][1] = {"ok", "crash"} /\ pairs[2][1] = {"ok", "oom"} /\ pairs[3][1] = {"ok", "decode_error"}
      /\ pairs[4][1] = {"crash", "decode_error"} /\ pairs[5][1] = {"crash", "oom"}
      /\ pairs[1][2] = "HIGH" /\ pairs[2][2] = "MEDIUM_HIGH" /\ pairs[3][2] = "MEDIUM"
      /\ pairs[4][2] = "MEDIUM_HIGH" /\ pairs[5][2] = "MEDIUM"
  OBVIOUS
<1>3. MediaOutcome(o) = FirstPair(pairs, Statuses(o))
  BY DEF MediaOutcome
<1>. HIDE DEF pairs
<1>4. /\ \A i \in 1..5 :
            pairs[i][1] \subseteq Statuses(o) /\ (\A j \in 1..5 : j < i => ~(pairs[j][1] \subseteq Statuses(o)))
              => FirstPair(pairs, Statuses(o)) = pairs[i][2]
      /\ (\A i \in 1..5 : ~(pairs[i][1] \subseteq Statuses(o))) => FirstPair(pairs, Statuses(o)) = "LOW"
  BY <1>1, FirstPairIs
<1>5. /\ pairs[1][1] \subseteq Statuses(o) <=> Both("ok", "crash", o)
      /\ pairs[2][1] \subseteq Statuses(o) <=> Both("ok", "oom", o)
      /\ pairs[3][1] \subseteq Statuses(o) <=> Both("ok", "decode_error", o)
      /\ pairs[4][1] \subseteq Statuses(o) <=> Both("crash", "decode_error", o)
      /\ pairs[5][1] \subseteq Statuses(o) <=> Both("crash", "oom", o)
  BY <1>2 DEF Both
<1>6. \A i \in 1..5 : i = 1 \/ i = 2 \/ i = 3 \/ i = 4 \/ i = 5
  OBVIOUS
<1>. QED  BY <1>2, <1>3, <1>4, <1>5, <1>6

(* The four pairs of deeplink, qr and proto, whose statuses a, b and c are.*)
LEMMA FourPairs ==
  ASSUME NEW o, NEW a, NEW b, NEW c
  PROVE  FirstPair(<< <<{"ok", a}, "HIGH">>, <<{"ok", b}, "MEDIUM_HIGH">>,
                     <<{"ok", c}, "MEDIUM">>, <<{a, b}, "MEDIUM">> >>, Statuses(o)) =
           IF Both("ok", a, o) THEN "HIGH"
           ELSE IF Both("ok", b, o) THEN "MEDIUM_HIGH"
           ELSE IF Both("ok", c, o) \/ Both(a, b, o) THEN "MEDIUM" ELSE "LOW"
<1>. DEFINE pairs == << <<{"ok", a}, "HIGH">>, <<{"ok", b}, "MEDIUM_HIGH">>,
                       <<{"ok", c}, "MEDIUM">>, <<{a, b}, "MEDIUM">> >>
<1>1. DOMAIN pairs = 1..4
  OBVIOUS
<1>2. /\ pairs[1][1] = {"ok", a} /\ pairs[2][1] = {"ok", b} /\ pairs[3][1] = {"ok", c} /\ pairs[4][1] = {a, b}
      /\ pairs[1][2] = "HIGH" /\ pairs[2][2] = "MEDIUM_HIGH" /\ pairs[3][2] = "MEDIUM" /\ pairs[4][2] = "MEDIUM"
  OBVIOUS
<1>. HIDE DEF pairs
<1>3. /\ \A i \in 1..4 :
            pairs[i][1] \subseteq Statuses(o) /\ (\A j \in 1..4 : j < i => ~(pairs[j][1] \subseteq Statuses(o)))
              => FirstPair(pairs, Statuses(o)) = pairs[i][2]
      /\ (\A i \in 1..4 : ~(pairs[i][1] \subseteq Statuses(o))) => FirstPair(pairs, Statuses(o)) = "LOW"
  BY <1>1, FirstPairIs
<1>4. /\ pairs[1][1] \subseteq Statuses(o) <=> Both("ok", a, o)
      /\ pairs[2][1] \subseteq Statuses(o) <=> Both("ok", b, o)
      /\ pairs[3][1] \subseteq Statuses(o) <=> Both("ok", c, o)
      /\ pairs[4][1] \subseteq Statuses(o) <=> Both(a, b, o)
  BY <1>2 DEF Both
<1>5. \A i \in 1..4 : i = 1 \/ i = 2 \/ i = 3 \/ i = 4
  OBVIOUS
<1>6. FirstPair(pairs, Statuses(o)) =
           IF Both("ok", a, o) THEN "HIGH"
           ELSE IF Both("ok", b, o) THEN "MEDIUM_HIGH"
           ELSE IF Both("ok", c, o) \/ Both(a, b, o) THEN "MEDIUM" ELSE "LOW"
  BY <1>2, <1>3, <1>4, <1>5
<1>. QED  BY <1>6 DEF pairs

(* More outcomes are never classed below fewer.                            *)
LEMMA BothGrows ==
  ASSUME NEW o, NEW p, o \subseteq p, NEW s, NEW t, Both(s, t, o)
  PROVE  Both(s, t, p)
BY DEF Both, Statuses

(* Five pairs: the fourth is above the third, but where both occur the     *)
(* first decides.                                                          *)
LEMMA MediaGrows ==
  ASSUME NEW o, NEW p, o \subseteq p
  PROVE  /\ MediaOutcome(o) \in Classes /\ MediaOutcome(p) \in Classes
         /\ Priority[MediaOutcome(p)] >= Priority[MediaOutcome(o)]
<1>1. Statuses(o) \subseteq Statuses(p)
  BY DEF Statuses
<1>2. MediaOutcome(o) \in Classes /\ MediaOutcome(p) \in Classes
  BY MediaOutcomeIs DEF Classes
<1>. QED  BY <1>1, <1>2, MediaOutcomeIs, Priorities DEF Both

(* Four pairs, in falling order of their classes.                          *)
LEMMA FourGrow ==
  ASSUME NEW o, NEW p, o \subseteq p, NEW a, NEW b, NEW c,
         NEW x, x = FirstPair(<< <<{"ok", a}, "HIGH">>, <<{"ok", b}, "MEDIUM_HIGH">>,
                                <<{"ok", c}, "MEDIUM">>, <<{a, b}, "MEDIUM">> >>, Statuses(o)),
         NEW y, y = FirstPair(<< <<{"ok", a}, "HIGH">>, <<{"ok", b}, "MEDIUM_HIGH">>,
                                <<{"ok", c}, "MEDIUM">>, <<{a, b}, "MEDIUM">> >>, Statuses(p))
  PROVE  x \in Classes /\ y \in Classes /\ Priority[y] >= Priority[x]
<1>1. Statuses(o) \subseteq Statuses(p)
  BY DEF Statuses
<1>2. x = IF Both("ok", a, o) THEN "HIGH"
           ELSE IF Both("ok", b, o) THEN "MEDIUM_HIGH"
           ELSE IF Both("ok", c, o) \/ Both(a, b, o) THEN "MEDIUM" ELSE "LOW"
  BY FourPairs
<1>3. y = IF Both("ok", a, p) THEN "HIGH"
           ELSE IF Both("ok", b, p) THEN "MEDIUM_HIGH"
           ELSE IF Both("ok", c, p) \/ Both(a, b, p) THEN "MEDIUM" ELSE "LOW"
  BY FourPairs
<1>. QED  BY <1>1, <1>2, <1>3, Priorities DEF Both, Classes

(* The families whose tables have four pairs.                              *)
LEMMA OthersGrow ==
  ASSUME NEW o, NEW p, o \subseteq p
  PROVE  /\ DeeplinkOutcome(o) \in Classes /\ DeeplinkOutcome(p) \in Classes
         /\ QrOutcome(o) \in Classes /\ QrOutcome(p) \in Classes
         /\ ProtoOutcome(o) \in Classes /\ ProtoOutcome(p) \in Classes
         /\ Priority[DeeplinkOutcome(p)] >= Priority[DeeplinkOutcome(o)]
         /\ Priority[QrOutcome(p)] >= Priority[QrOutcome(o)]
         /\ Priority[ProtoOutcome(p)] >= Priority[ProtoOutcome(o)]
<1>1. /\ DeeplinkOutcome(o) \in Classes /\ DeeplinkOutcome(p) \in Classes
      /\ Priority[DeeplinkOutcome(p)] >= Priority[DeeplinkOutcome(o)]
  BY FourGrow DEF DeeplinkOutcome
<1>2. /\ QrOutcome(o) \in Classes /\ QrOutcome(p) \in Classes
      /\ Priority[QrOutcome(p)] >= Priority[QrOutcome(o)]
  BY FourGrow DEF QrOutcome
<1>3. /\ ProtoOutcome(o) \in Classes /\ ProtoOutcome(p) \in Classes
      /\ Priority[ProtoOutcome(p)] >= Priority[ProtoOutcome(o)]
  BY FourGrow DEF ProtoOutcome
<1>. QED  BY <1>1, <1>2, <1>3

(* One lemma per family: the class of a larger disagreement is not lower.  *)
LEMMA ImageGrows ==
  ASSUME NEW d, NEW e, Grows(d, e)
  PROVE  Priority[ImageTriage(e)] >= Priority[ImageTriage(d)]
<1>. DEFINE class(diff, axis) ==
        CASE axis = "decode_outcome" -> MediaOutcome(diff[axis])
          [] axis = "frame_count" -> "MEDIUM_HIGH"
          [] axis = "dimensions" -> "MEDIUM"
          [] axis = "first_pixel_rgba" -> IF "dimensions" \in DOMAIN diff THEN "LOW" ELSE "MEDIUM"
          [] axis = "color_space" -> IF "first_pixel_rgba" \in DOMAIN diff THEN "MEDIUM" ELSE "LOW"
          [] axis = "alpha_premultiplied" -> "LOW"
          [] OTHER -> "NOISE"
<1>1. /\ ImageTriage(d) = Top({class(d, axis) : axis \in DOMAIN d})
      /\ ImageTriage(e) = Top({class(e, axis) : axis \in DOMAIN e})
  BY DEF ImageTriage
<1>2. ASSUME NEW a \in DOMAIN d
      PROVE  /\ class(d, a) \in Classes /\ class(e, a) \in Classes
             /\ \E b \in DOMAIN e : Priority[class(e, b)] >= Priority[class(d, a)]
  <2>1. a \in DOMAIN e /\ d[a] \subseteq e[a]
    BY DEF Grows
  <2>2. CASE a = "decode_outcome"
    BY <2>1, <2>2, MediaGrows
  <2>3. CASE a = "first_pixel_rgba" /\ "dimensions" \in DOMAIN e
    <3>1. class(e, "dimensions") = "MEDIUM" /\ class(d, a) \in {"LOW", "MEDIUM"} /\ class(e, a) \in {"LOW", "MEDIUM"}
      BY <2>3
    <3>. HIDE DEF class
    <3>. QED  BY <2>3, <3>1, Priorities DEF Classes
  <2>4. CASE a # "decode_outcome" /\ ~(a = "first_pixel_rgba" /\ "dimensions" \in DOMAIN e)
    <3>1. /\ class(d, a) \in Classes /\ class(e, a) \in Classes
          /\ Priority[class(e, a)] >= Priority[class(d, a)]
      BY <2>1, <2>4, Priorities DEF Grows, Classes
    <3>. HIDE DEF class
    <3>. QED  BY <2>1, <3>1
  <2>. QED  BY <2>2, <2>3, <2>4
<1>3. \A a \in DOMAIN e : class(e, a) \in Classes
  BY MediaGrows DEF Classes
<1>. DEFINE cd == {class(d, a) : a \in DOMAIN d}
            ce == {class(e, a) : a \in DOMAIN e}
<1>. HIDE DEF class
<1>4. cd \in SUBSET Classes /\ ce \in SUBSET Classes /\ \A c \in cd : \E b \in ce : Priority[b] >= Priority[c]
  BY <1>2, <1>3
<1>. HIDE DEF cd, ce
<1>5. Priority[Top(ce)] >= Priority[Top(cd)]
  BY <1>4, TopDominates
<1>. QED  BY <1>1, <1>5 DEF cd, ce

(* In opengraph only the outcome's class depends on what was seen.         *)
LEMMA OpengraphGrows ==
  ASSUME NEW d, NEW e, Grows(d, e)
  PROVE  Priority[OpengraphTriage(e)] >= Priority[OpengraphTriage(d)]
<1>. DEFINE class(diff, axis) ==
        CASE axis = "decode_outcome" -> MediaOutcome(diff[axis])
          [] axis = "og_url" -> "MEDIUM_HIGH"
          [] axis \in {"twitter_card_type", "og_type", "canonical_url", "oembed_type"} -> "MEDIUM"
          [] axis \in {"og_image", "twitter_image", "og_title", "og_video"} -> "LOW"
          [] OTHER -> "NOISE"
            cd == {class(d, a) : a \in DOMAIN d}
            ce == {class(e, a) : a \in DOMAIN e}
<1>1. OpengraphTriage(d) = Top(cd) /\ OpengraphTriage(e) = Top(ce)
  BY DEF OpengraphTriage
<1>2. ASSUME NEW a \in DOMAIN d
      PROVE  a \in DOMAIN e /\ class(d, a) \in Classes /\ Priority[class(e, a)] >= Priority[class(d, a)]
  BY MediaGrows, Priorities DEF Grows, Classes
<1>3. \A a \in DOMAIN e : class(e, a) \in Classes
  BY MediaGrows DEF Classes
<1>. HIDE DEF class
<1>4. cd \in SUBSET Classes /\ ce \in SUBSET Classes /\ \A c \in cd : \E b \in ce : Priority[b] >= Priority[c]
  BY <1>2, <1>3
<1>. HIDE DEF cd, ce
<1>. QED  BY <1>1, <1>4, TopDominates

(* So for deeplink,                                                        *)
LEMMA DeeplinkGrows ==
  ASSUME NEW d, NEW e, Grows(d, e)
  PROVE  Priority[DeeplinkTriage(e)] >= Priority[DeeplinkTriage(d)]
<1>. DEFINE class(diff, axis) ==
        CASE axis = "decode_outcome" -> DeeplinkOutcome(diff[axis])
          [] axis \in {"intent_action", "intent_category"} -> "MEDIUM_HIGH"
          [] axis \in {"host", "path", "declared_permissions", "fragment_action", "scheme"} -> "MEDIUM"
          [] axis = "query_params" -> "LOW"
          [] OTHER -> "NOISE"
            cd == {class(d, a) : a \in DOMAIN d}
            ce == {class(e, a) : a \in DOMAIN e}
<1>1. DeeplinkTriage(d) = Top(cd) /\ DeeplinkTriage(e) = Top(ce)
  BY DEF DeeplinkTriage
<1>2. ASSUME NEW a \in DOMAIN d
      PROVE  a \in DOMAIN e /\ class(d, a) \in Classes /\ Priority[class(e, a)] >= Priority[class(d, a)]
  BY OthersGrow, Priorities DEF Grows, Classes
<1>3. \A a \in DOMAIN e : class(e, a) \in Classes
  BY OthersGrow DEF Classes
<1>. HIDE DEF class
<1>4. cd \in SUBSET Classes /\ ce \in SUBSET Classes /\ \A c \in cd : \E b \in ce : Priority[b] >= Priority[c]
  BY <1>2, <1>3
<1>. HIDE DEF cd, ce
<1>. QED  BY <1>1, <1>4, TopDominates

(* qr,                                                                     *)
LEMMA QrGrows ==
  ASSUME NEW d, NEW e, Grows(d, e)
  PROVE  Priority[QrTriage(e)] >= Priority[QrTriage(d)]
<1>. DEFINE class(diff, axis) ==
        CASE axis = "decode_outcome" -> QrOutcome(diff[axis])
          [] axis = "detected_text" -> "MEDIUM_HIGH"
          [] axis \in {"mode", "encoding_charset", "structured_append_index",
                       "structured_append_total", "fnc1_present"} -> "MEDIUM"
          [] axis \in {"ecc_level", "version"} -> "LOW"
          [] OTHER -> "NOISE"
            cd == {class(d, a) : a \in DOMAIN d}
            ce == {class(e, a) : a \in DOMAIN e}
<1>1. QrTriage(d) = Top(cd) /\ QrTriage(e) = Top(ce)
  BY DEF QrTriage
<1>2. ASSUME NEW a \in DOMAIN d
      PROVE  a \in DOMAIN e /\ class(d, a) \in Classes /\ Priority[class(e, a)] >= Priority[class(d, a)]
  BY OthersGrow, Priorities DEF Grows, Classes
<1>3. \A a \in DOMAIN e : class(e, a) \in Classes
  BY OthersGrow DEF Classes
<1>. HIDE DEF class
<1>4. cd \in SUBSET Classes /\ ce \in SUBSET Classes /\ \A c \in cd : \E b \in ce : Priority[b] >= Priority[c]
  BY <1>2, <1>3
<1>. HIDE DEF cd, ce
<1>. QED  BY <1>1, <1>4, TopDominates

(* and proto.                                                              *)
LEMMA ProtoGrows ==
  ASSUME NEW d, NEW e, Grows(d, e)
  PROVE  Priority[ProtoTriage(e)] >= Priority[ProtoTriage(d)]
<1>. DEFINE class(diff, axis) ==
        CASE axis = "decode_outcome" -> ProtoOutcome(diff[axis])
          [] axis \in {"field_unknown_count", "oneof_active_field"} -> "MEDIUM_HIGH"
          [] axis \in {"field_count", "decoded_field_summary", "message_type_name", "format_kind"} -> "MEDIUM"
          [] axis = "declared_schema_version" -> "LOW"
          [] OTHER -> "NOISE"
            cd == {class(d, a) : a \in DOMAIN d}
            ce == {class(e, a) : a \in DOMAIN e}
<1>1. ProtoTriage(d) = Top(cd) /\ ProtoTriage(e) = Top(ce)
  BY DEF ProtoTriage
<1>2. ASSUME NEW a \in DOMAIN d
      PROVE  a \in DOMAIN e /\ class(d, a) \in Classes /\ Priority[class(e, a)] >= Priority[class(d, a)]
  BY OthersGrow, Priorities DEF Grows, Classes
<1>3. \A a \in DOMAIN e : class(e, a) \in Classes
  BY OthersGrow DEF Classes
<1>. HIDE DEF class
<1>4. cd \in SUBSET Classes /\ ce \in SUBSET Classes /\ \A c \in cd : \E b \in ce : Priority[b] >= Priority[c]
  BY <1>2, <1>3
<1>. HIDE DEF cd, ce
<1>. QED  BY <1>1, <1>4, TopDominates

(* Whatever the family.                                                    *)
LEMMA TriageGrows ==
  ASSUME NEW f \in DOMAIN Corpora, NEW d, NEW e, Grows(d, e)
  PROVE  Priority[TriageOf(f, e)] >= Priority[TriageOf(f, d)]
BY ImageGrows, OpengraphGrows, DeeplinkGrows, QrGrows, ProtoGrows, FamilyAssumption DEF TriageOf

(* Only a wrapper's reply makes the list of vectors longer, by one.        *)
LEMMA NeverLoweredStep ==
  ASSUME FamilyInv, [FamilyNext]_familyVars, Len(regression'.vectors) > Len(regression.vectors)
  PROVE  Priority[TriageOf(family, Diff(family, regression'.vectors))]
           >= Priority[TriageOf(family, Diff(family, regression.vectors))]
<1>0. /\ RecordsInv(family, corpus, regression) /\ family \in DOMAIN Corpora /\ corpus \in Corpora[family]
      /\ Len(regression.vectors) \in Nat
  BY LenProperties DEF FamilyInv, RecordsInv
<1>1. CASE \E reply \in Replies(family) : RunWrapper(reply)
  <2>1. PICK reply \in Replies(family) : RunWrapper(reply)
    BY <1>1
  <2>2. FamilyInv'  /\ UNCHANGED <<family, corpus>>
    BY <2>1, RunWrapperKeeps DEF RunWrapper
  <2>3. PICK v : regression'.vectors = Append(regression.vectors, v)
    <3>1. PICK impl : regression' = [regression EXCEPT !.vectors = Append(@, WrapperRun(family, impl, reply)),
                                                       !.replies[regression.case] = Append(@, reply)]
      BY <2>1 DEF RunWrapper
    <3>. QED  BY <1>0, <3>1 DEF RecordsInv
  <2>4. regression.vectors \in Seq(Range(regression.vectors) \cup {v})
    BY <1>0, SeqOfRange, SeqMonotonic DEF RecordsInv
  <2>5. Grows(Diff(family, regression.vectors), Diff(family, regression'.vectors))
    BY <2>3, <2>4, DiffGrows
  <2>. QED  BY <1>0, <2>5, TriageGrows
<1>2. CASE EmitRecord \/ WriteRegressionReport \/ WriteRegressionEvidence \/ UNCHANGED familyVars
  <2>1. regression'.vectors = <<>> \/ regression'.vectors = regression.vectors
    BY <1>0, <1>2 DEF EmitRecord, WriteRegressionReport, WriteRegressionEvidence, familyVars, RecordsInv
  <2>2. Len(<<>>) = 0
    OBVIOUS
  <2>. QED  BY <1>0, <2>1, <2>2
<1>. QED  BY <1>1, <1>2 DEF FamilyNext

(* For any corpus and any answers: one more implementation never makes a   *)
(* disagreement look less severe.  triage.py and _vectors_to_diff.         *)
THEOREM NeverLoweredHolds == FamilySpec => NeverLowered
<1>1. FamilyInv /\ [FamilyNext]_familyVars
        => (Len(regression'.vectors) > Len(regression.vectors)
              => Priority[TriageOf(family, Diff(family, regression'.vectors))]
                   >= Priority[TriageOf(family, Diff(family, regression.vectors))])
  BY NeverLoweredStep
<1>. QED  BY <1>1, FamilyInitially, FamilyStep, PTL DEF FamilySpec, NeverLowered

-----------------------------------------------------------------------------
(* The URL regression.  The axes that a vector has when the parser did not *)
(* parse: a disagreement on any other is between two that did.             *)
SilentAxes ==
  {"parsed", "userinfo_present", "password_present", "host_is_private_or_link_local", "parse_error"}

(* The envelopes of a parser that failed or rejected (wrapper.py).         *)
LEMMA FailureIsSilent ==
  ASSUME NEW profile, NEW features, NEW outcome, outcome.kind # "parsed"
  PROVE  DOMAIN Normalize(RunUrlWrapper(profile, features, outcome)) \subseteq SilentAxes
<1>. DEFINE envelope == RunUrlWrapper(profile, features, outcome)
<1>1. \/ \E e : envelope = EmptyEnvelope(e)
      \/ \E e : envelope = CrashEnvelope(e)
  BY DEF RunUrlWrapper
<1>2. \A e : DOMAIN EmptyEnvelope(e) \subseteq SilentAxes /\ DOMAIN CrashEnvelope(e) \subseteq SilentAxes
  BY DEF EmptyEnvelope, CrashEnvelope, SilentAxes
<1>. HIDE DEF envelope
<1>3. DOMAIN envelope \subseteq SilentAxes
  BY <1>1, <1>2
<1>4. DOMAIN Normalize(envelope) \subseteq SilentAxes
  BY <1>3 DEF Normalize, Completed, SilentAxes
<1>. QED  BY <1>4 DEF envelope

(* Every historical case expects an axis that no such envelope has.        *)
LEMMA HistoricalNeeds ==
  ASSUME NEW c \in HistoricalCases
  PROVE  \E a \in c.axes : a \notin SilentAxes
<1>. DEFINE Of(axes) == \E id, tags, features : c = Historical(id, axes, tags, features)
<1>1. \/ Of({"host", "path"})
      \/ Of({"host", "host_is_loopback"})
      \/ Of({"host", "host_is_loopback", "host_is_private_or_link_local", "leading_zeroes_in_octets_stripped"})
      \/ Of({"host_lowercased", "backslash_treated_as_slash"})
      \/ Of({"host_lowercased", "percent_decoding_applied_in_host"})
      \/ Of({"host_lowercased", "tab_or_newline_stripped"})
      \/ Of({"path", "path_normalized"})
      \/ Of({"path_normalized", "tab_or_newline_stripped", "control_chars_in_host_rejected"})
      \/ Of({"query_raw", "control_chars_in_host_rejected"})
      \/ Of({"query_raw"})
  BY ZenonT(60) DEF HistoricalCases
<1>2. ASSUME NEW axes, Of(axes)
      PROVE  c.axes = axes
  BY <1>2 DEF Historical
<1>. HIDE DEF Of
<1>3. \/ "host" \in c.axes \/ "host_lowercased" \in c.axes \/ "path" \in c.axes
      \/ "path_normalized" \in c.axes \/ "query_raw" \in c.axes
  BY <1>1, <1>2, SMTT(60)
<1>. QED  BY <1>3 DEF SilentAxes

(* Two values on an axis are of two vectors (detector.py).                 *)
LEMMA TwoOpinions ==
  ASSUME NEW vectors, NEW a, Cardinality(Values(vectors, a)) > 1
  PROVE  \E i, j \in DOMAIN vectors : i # j /\ a \in DOMAIN vectors[i][2] /\ a \in DOMAIN vectors[j][2]
<1>. DEFINE values == Values(vectors, a)
<1>1. \E x, y \in values : x # y
  <2>. SUFFICES ASSUME \A x, y \in values : x = y PROVE FALSE
    OBVIOUS
  <2>1. values = {} \/ \E x : values = {x}
    <3>. HIDE DEF values
    <3>. QED  OBVIOUS
  <2>. HIDE DEF values
  <2>2. Cardinality(values) \in {0, 1}
    BY <2>1, FS_EmptySet, FS_Singleton
  <2>3. Cardinality(values) > 1
    BY DEF values
  <2>. QED  BY <2>2, <2>3
<1>2. PICK x \in values, y \in values : x # y
  BY <1>1
<1>3. PICK i \in DOMAIN vectors : a \in DOMAIN vectors[i][2] /\ x = vectors[i][2][a]
  BY DEF Values
<1>4. PICK j \in DOMAIN vectors : a \in DOMAIN vectors[j][2] /\ y = vectors[j][2][a]
  BY DEF Values
<1>. QED  BY <1>2, <1>3, <1>4

(* Two profiles that parsed the URL of a case.                             *)
Two(witnesses, id) == \E p, q : p # q /\ <<id, p>> \in witnesses /\ <<id, q>> \in witnesses

(* A profile is asked once per case; what it answered is kept with its     *)
(* vector; and a historical case that matched has two witnesses.           *)
DispatchInv(r) ==
  /\ r.profile \in Nat /\ r.profile >= 1 /\ r.profile <= 4
  /\ r.vectors \in Seq(Range(r.vectors)) /\ r.outcomes \in Seq(Range(r.outcomes))
  /\ Len(r.vectors) = Len(r.outcomes)
  /\ \A i \in 1..Len(r.vectors) :
       /\ \E k \in 1..3 : k < r.profile /\ r.vectors[i][1] = Profiles[k]
       /\ r.outcomes[i] # "parsed" => DOMAIN r.vectors[i][2] \subseteq SilentAxes
  /\ \A i, j \in 1..Len(r.vectors) : i # j => r.vectors[i][1] # r.vectors[j][1]

MatchedWitnessed(cases, r) ==
  /\ \A w \in r.witnesses : \E id : \E k \in 1..3 : w = <<id, Profiles[k]>>
  /\ \A id \in r.matched : \E n \in DOMAIN cases :
       cases[n].id = id /\ (cases[n].historical => Two(r.witnesses, id))
  /\ r.report # None => \A id \in r.report.rediscovered : Two(r.witnesses, id)

RunInv(cases, r) ==
  /\ r = [case |-> r.case, profile |-> r.profile, vectors |-> r.vectors, outcomes |-> r.outcomes,
          records |-> r.records, failures |-> r.failures, matched |-> r.matched,
          witnesses |-> r.witnesses, report |-> r.report, evidence |-> r.evidence]
  /\ r.case \in Nat /\ r.case >= 1
  /\ DispatchInv(r) /\ MatchedWitnessed(cases, r)

UrlInv == urlCorpus \in UrlCorpora /\ RunInv(urlCorpus, urlRun)

(* The three profiles.                                                     *)
LEMMA ProfilesAre ==
  /\ Len(Profiles) = 3
  /\ \A k, l \in 1..3 : Profiles[k] = Profiles[l] => k = l
BY DEF Profiles

(* No profile has been asked yet.                                          *)
LEMMA UrlInitially == UrlInit => UrlInv
<1>. SUFFICES ASSUME UrlInit PROVE UrlInv
  OBVIOUS
<1>1. urlRun = [case |-> 1, profile |-> 1, vectors |-> <<>>, outcomes |-> <<>>, records |-> <<>>,
                failures |-> {}, matched |-> {}, witnesses |-> {}, report |-> None, evidence |-> None]
  BY DEF UrlInit
<1>2. DispatchInv(urlRun)
  BY <1>1 DEF DispatchInv
<1>3. MatchedWitnessed(urlCorpus, urlRun)
  BY <1>1 DEF MatchedWitnessed
<1>4. RunInv(urlCorpus, urlRun)
  BY <1>1, <1>2, <1>3 DEF RunInv
<1>. QED  BY <1>4 DEF UrlInit, UrlInv

(* A profile without a command leaves the vectors alone.                   *)
LEMMA SkipProfileKeeps ==
  ASSUME UrlInv, SkipProfile
  PROVE  UrlInv'
<1>0. RunInv(urlCorpus, urlRun) /\ urlCorpus \in UrlCorpora /\ UNCHANGED urlCorpus
  BY DEF UrlInv, SkipProfile
<1>1. urlRun' = [urlRun EXCEPT !.profile = @ + 1] /\ urlRun.profile <= 3
  BY ProfilesAre DEF SkipProfile, Dispatching
<1>2. DispatchInv(urlRun')
  BY <1>0, <1>1 DEF RunInv, DispatchInv
<1>3. MatchedWitnessed(urlCorpus, urlRun')
  BY <1>0, <1>1 DEF RunInv, MatchedWitnessed
<1>4. RunInv(urlCorpus, urlRun')
  BY <1>0, <1>1, <1>2, <1>3 DEF RunInv
<1>. QED  BY <1>0, <1>4 DEF UrlInv

(* A profile's answer is kept with its vector.                             *)
LEMMA RunProfileKeeps ==
  ASSUME UrlInv, NEW outcome, RunProfile(outcome)
  PROVE  UrlInv'
<1>0. RunInv(urlCorpus, urlRun) /\ urlCorpus \in UrlCorpora /\ UNCHANGED urlCorpus /\ DispatchInv(urlRun)
  BY DEF UrlInv, RunProfile, RunInv
<1>1. PICK vector, failures :
        /\ vector = Normalize(RunUrlWrapper(Profiles[urlRun.profile], UrlCase.features, outcome))
        /\ urlRun' = [urlRun EXCEPT
             !.profile = @ + 1,
             !.vectors = Append(@, <<Profiles[urlRun.profile], vector>>),
             !.outcomes = Append(@, outcome.kind),
             !.failures = failures]
  BY DEF RunProfile
<1>2. urlRun.profile \in 1..3
  BY <1>0, ProfilesAre DEF RunProfile, Dispatching, DispatchInv
<1>3. PICK entry : entry = <<Profiles[urlRun.profile], vector>>
  OBVIOUS
<1>4. /\ urlRun'.profile = urlRun.profile + 1 /\ urlRun'.vectors = Append(urlRun.vectors, entry)
      /\ urlRun'.outcomes = Append(urlRun.outcomes, outcome.kind)
      /\ urlRun'.case = urlRun.case /\ urlRun'.matched = urlRun.matched
      /\ urlRun'.witnesses = urlRun.witnesses /\ urlRun'.report = urlRun.report
      /\ urlRun' = [case |-> urlRun'.case, profile |-> urlRun'.profile, vectors |-> urlRun'.vectors,
                    outcomes |-> urlRun'.outcomes, records |-> urlRun'.records, failures |-> urlRun'.failures,
                    matched |-> urlRun'.matched, witnesses |-> urlRun'.witnesses,
                    report |-> urlRun'.report, evidence |-> urlRun'.evidence]
  BY <1>0, <1>1, <1>3 DEF RunInv
<1>5. PICK kind : kind = outcome.kind
  OBVIOUS
<1>6. PICK vs : vs = urlRun'.vectors
  OBVIOUS
<1>7. PICK os : os = urlRun'.outcomes
  OBVIOUS
<1>8. /\ vs \in Seq(Range(vs)) /\ Len(vs) = Len(urlRun.vectors) + 1 /\ vs[Len(urlRun.vectors) + 1] = entry
      /\ \A i \in 1..Len(urlRun.vectors) : vs[i] = urlRun.vectors[i]
  BY <1>0, <1>4, <1>6, Appended DEF DispatchInv
<1>9. /\ os \in Seq(Range(os)) /\ Len(os) = Len(urlRun.vectors) + 1 /\ os[Len(urlRun.vectors) + 1] = kind
      /\ \A i \in 1..Len(urlRun.vectors) : os[i] = urlRun.outcomes[i]
  BY <1>0, <1>4, <1>5, <1>7, Appended DEF DispatchInv
<1>10. Len(urlRun.vectors) \in Nat
  BY <1>0, LenProperties DEF DispatchInv
<1>11. PICK m \in Nat : m = Len(urlRun.vectors)
  BY <1>10
<1>12. \A i \in 1..(m + 1) : i = m + 1 \/ i \in 1..m
  BY <1>11
<1>13. \A i \in 1..(m + 1) :
        /\ \E k \in 1..3 : k < urlRun.profile + 1 /\ vs[i][1] = Profiles[k]
        /\ os[i] # "parsed" => DOMAIN vs[i][2] \subseteq SilentAxes
  <2>. SUFFICES ASSUME NEW i \in 1..(m + 1)
                PROVE  /\ \E k \in 1..3 : k < urlRun.profile + 1 /\ vs[i][1] = Profiles[k]
                       /\ os[i] # "parsed" => DOMAIN vs[i][2] \subseteq SilentAxes
    OBVIOUS
  <2>1. CASE i = m + 1
    <3>1. vs[i][1] = Profiles[urlRun.profile] /\ vs[i][2] = vector /\ os[i] = kind
      BY <1>3, <1>8, <1>9, <1>11, <2>1
    <3>2. kind # "parsed" => DOMAIN vector \subseteq SilentAxes
      BY <1>1, <1>5, FailureIsSilent
    <3>3. urlRun.profile < urlRun.profile + 1
      BY <1>2
    <3>. QED  BY <1>2, <3>1, <3>2, <3>3
  <2>2. CASE i \in 1..m
    <3>1. vs[i] = urlRun.vectors[i] /\ os[i] = urlRun.outcomes[i]
      BY <1>8, <1>9, <1>11, <2>2
    <3>2. PICK k \in 1..3 : k < urlRun.profile /\ urlRun.vectors[i][1] = Profiles[k]
      BY <1>0, <1>11, <2>2 DEF DispatchInv
    <3>3. k < urlRun.profile + 1
      BY <1>2, <3>2
    <3>4. urlRun.outcomes[i] # "parsed" => DOMAIN urlRun.vectors[i][2] \subseteq SilentAxes
      BY <1>0, <1>11, <2>2 DEF DispatchInv
    <3>. QED  BY <3>1, <3>2, <3>3, <3>4
  <2>. QED  BY <1>12, <2>1, <2>2
<1>14. ASSUME NEW i \in 1..m
       PROVE  vs[i][1] # vs[m + 1][1]
  <2>1. PICK k \in 1..3 : k < urlRun.profile /\ urlRun.vectors[i][1] = Profiles[k]
    BY <1>0, <1>11 DEF DispatchInv
  <2>2. vs[i][1] = Profiles[k] /\ vs[m + 1][1] = Profiles[urlRun.profile]
    BY <1>3, <1>8, <1>11, <2>1
  <2>. QED  BY <1>2, <2>1, <2>2, ProfilesAre
<1>15. \A i, j \in 1..(m + 1) : i # j => vs[i][1] # vs[j][1]
  <2>1. \A i, j \in 1..m : i # j => vs[i][1] # vs[j][1]
    BY <1>0, <1>8, <1>11 DEF DispatchInv
  <2>. QED  BY <1>12, <1>14, <2>1
<1>16. DispatchInv(urlRun')
  <2>1. Len(vs) = m + 1 /\ Len(os) = m + 1
    BY <1>8, <1>9, <1>11
  <2>2. urlRun'.profile \in Nat /\ urlRun'.profile >= 1 /\ urlRun'.profile <= 4
    BY <1>2, <1>4
  <2>3. \A i \in 1..Len(vs) :
          /\ \E k \in 1..3 : k < urlRun'.profile /\ vs[i][1] = Profiles[k]
          /\ os[i] # "parsed" => DOMAIN vs[i][2] \subseteq SilentAxes
    BY <1>4, <1>13, <2>1
  <2>4. \A i, j \in 1..Len(vs) : i # j => vs[i][1] # vs[j][1]
    BY <1>15, <2>1
  <2>. QED  BY <1>6, <1>7, <1>8, <1>9, <2>1, <2>2, <2>3, <2>4 DEF DispatchInv
<1>17. MatchedWitnessed(urlCorpus, urlRun')
  BY <1>0, <1>4 DEF RunInv, MatchedWitnessed
<1>18. RunInv(urlCorpus, urlRun')
  BY <1>0, <1>4, <1>16, <1>17 DEF RunInv
<1>. QED  BY <1>0, <1>18 DEF UrlInv

(* A historical case on whose axes the parsers differ was parsed by two.   *)
LEMMA MatchIsWitnessed ==
  ASSUME NEW case \in HistoricalCases, NEW vectors, NEW outcomes,
         DOMAIN vectors = DOMAIN outcomes,
         \A i \in DOMAIN vectors : outcomes[i] # "parsed" => DOMAIN vectors[i][2] \subseteq SilentAxes,
         \A i, j \in DOMAIN vectors : i # j => vectors[i][1] # vectors[j][1],
         MatchesExpected(Detect(vectors), case)
  PROVE  \E i, j \in DOMAIN outcomes :
           outcomes[i] = "parsed" /\ outcomes[j] = "parsed" /\ vectors[i][1] # vectors[j][1]
<1>1. PICK a \in case.axes : a \notin SilentAxes
  BY HistoricalNeeds
<1>2. case.axes \subseteq DOMAIN Detect(vectors)
  BY <1>1 DEF MatchesExpected
<1>3. Cardinality(Values(vectors, a)) > 1
  BY <1>1, <1>2 DEF Detect
<1>4. PICK i \in DOMAIN vectors, j \in DOMAIN vectors :
        i # j /\ a \in DOMAIN vectors[i][2] /\ a \in DOMAIN vectors[j][2]
  BY <1>3, TwoOpinions
<1>5. outcomes[i] = "parsed" /\ outcomes[j] = "parsed"
  BY <1>1, <1>4
<1>. QED  BY <1>4, <1>5

(* Closing a case keeps its witnesses, and matches none without two.       *)
LEMMA CloseCaseKeeps ==
  ASSUME UrlInv, CloseCase
  PROVE  UrlInv'
<1>0. RunInv(urlCorpus, urlRun) /\ urlCorpus \in UrlCorpora /\ UNCHANGED urlCorpus /\ DispatchInv(urlRun)
      /\ MatchedWitnessed(urlCorpus, urlRun)
  BY DEF UrlInv, CloseCase, RunInv
<1>. DEFINE parsed == {urlRun.vectors[i][1] : i \in {j \in DOMAIN urlRun.outcomes : urlRun.outcomes[j] = "parsed"}}
            matches == MatchesExpected(Detect(urlRun.vectors), UrlCase)
            added == {<<UrlCase.id, p>> : p \in parsed}
<1>1. PICK records :
        urlRun' = [urlRun EXCEPT
          !.case = @ + 1, !.profile = 1, !.vectors = <<>>, !.outcomes = <<>>,
          !.matched = IF matches THEN @ \cup {UrlCase.id} ELSE @,
          !.witnesses = @ \cup added,
          !.records = records]
  BY DEF CloseCase
<1>2. UrlCase = urlCorpus[urlRun.case] /\ urlRun.case \in DOMAIN urlCorpus
  <2>1. DOMAIN urlCorpus = 1..Len(urlCorpus) /\ Len(urlCorpus) \in Nat
    BY <1>0, UrlAssumption
  <2>. QED  BY <1>0, <2>1 DEF CloseCase, RunInv, UrlCase
<1>3. /\ DOMAIN urlRun.vectors = 1..Len(urlRun.vectors)
      /\ DOMAIN urlRun.outcomes = 1..Len(urlRun.vectors)
  BY <1>0, LenProperties DEF DispatchInv
<1>4. \A w \in added : \E id : \E k \in 1..3 : w = <<id, Profiles[k]>>
  BY <1>0, <1>3 DEF DispatchInv
<1>5. matches /\ urlCorpus[urlRun.case].historical => Two(urlRun.witnesses \cup added, UrlCase.id)
  <2>. SUFFICES ASSUME matches, urlCorpus[urlRun.case].historical
                PROVE  Two(urlRun.witnesses \cup added, UrlCase.id)
    OBVIOUS
  <2>1. UrlCase \in HistoricalCases
    BY <1>0, <1>2, UrlAssumption
  <2>2. /\ \A i \in DOMAIN urlRun.vectors :
             urlRun.outcomes[i] # "parsed" => DOMAIN urlRun.vectors[i][2] \subseteq SilentAxes
        /\ \A i, j \in DOMAIN urlRun.vectors : i # j => urlRun.vectors[i][1] # urlRun.vectors[j][1]
    BY <1>0, <1>3 DEF DispatchInv
  <2>3. PICK case \in HistoricalCases : case = UrlCase
    BY <2>1
  <2>4. PICK i \in DOMAIN urlRun.outcomes, j \in DOMAIN urlRun.outcomes :
          /\ urlRun.outcomes[i] = "parsed" /\ urlRun.outcomes[j] = "parsed"
          /\ urlRun.vectors[i][1] # urlRun.vectors[j][1]
    <3>1. PICK vs : vs = urlRun.vectors
      OBVIOUS
    <3>2. PICK os : os = urlRun.outcomes
      OBVIOUS
    <3>3. MatchesExpected(Detect(vs), case)
      BY <2>3, <3>1
    <3>4. /\ DOMAIN vs = DOMAIN os
          /\ \A i \in DOMAIN vs : os[i] # "parsed" => DOMAIN vs[i][2] \subseteq SilentAxes
          /\ \A i, j \in DOMAIN vs : i # j => vs[i][1] # vs[j][1]
      BY <1>3, <2>2, <3>1, <3>2
    <3>5. \E i, j \in DOMAIN os : os[i] = "parsed" /\ os[j] = "parsed" /\ vs[i][1] # vs[j][1]
      BY <3>3, <3>4, MatchIsWitnessed
    <3>. QED  BY <3>1, <3>2, <3>5
  <2>5. <<UrlCase.id, urlRun.vectors[i][1]>> \in added /\ <<UrlCase.id, urlRun.vectors[j][1]>> \in added
    BY <2>4
  <2>. HIDE DEF added
  <2>. QED  BY <2>4, <2>5 DEF Two
<1>. HIDE DEF added, matches
<1>6. /\ urlRun'.profile = 1 /\ urlRun'.vectors = <<>> /\ urlRun'.outcomes = <<>>
      /\ urlRun'.case = urlRun.case + 1 /\ urlRun'.report = urlRun.report
      /\ urlRun'.matched = IF matches THEN urlRun.matched \cup {UrlCase.id} ELSE urlRun.matched
      /\ urlRun'.witnesses = urlRun.witnesses \cup added
      /\ urlRun' = [case |-> urlRun'.case, profile |-> urlRun'.profile, vectors |-> urlRun'.vectors,
                    outcomes |-> urlRun'.outcomes, records |-> urlRun'.records, failures |-> urlRun'.failures,
                    matched |-> urlRun'.matched, witnesses |-> urlRun'.witnesses,
                    report |-> urlRun'.report, evidence |-> urlRun'.evidence]
  BY <1>0, <1>1 DEF RunInv
<1>7. DispatchInv(urlRun')
  BY <1>6 DEF DispatchInv
<1>8. \A id : Two(urlRun.witnesses, id) => Two(urlRun'.witnesses, id)
  BY <1>6 DEF Two
<1>9. \A id \in urlRun'.matched : \E n \in DOMAIN urlCorpus :
        urlCorpus[n].id = id /\ (urlCorpus[n].historical => Two(urlRun'.witnesses, id))
  <2>. SUFFICES ASSUME NEW id \in urlRun'.matched
                PROVE  \E n \in DOMAIN urlCorpus :
                         urlCorpus[n].id = id /\ (urlCorpus[n].historical => Two(urlRun'.witnesses, id))
    OBVIOUS
  <2>1. CASE id \in urlRun.matched
    BY <1>0, <1>8, <2>1 DEF MatchedWitnessed
  <2>2. CASE id \notin urlRun.matched
    <3>1. matches /\ id = UrlCase.id
      BY <1>6, <2>2
    <3>. QED  BY <1>2, <1>5, <1>6, <3>1
  <2>. QED  BY <2>1, <2>2
<1>10. MatchedWitnessed(urlCorpus, urlRun')
  BY <1>0, <1>4, <1>6, <1>8, <1>9 DEF MatchedWitnessed
<1>11. RunInv(urlCorpus, urlRun')
  BY <1>0, <1>6, <1>7, <1>10 DEF RunInv
<1>. QED  BY <1>0, <1>11 DEF UrlInv

(* The report names the historical cases that matched.                     *)
LEMMA WriteUrlReportKeeps ==
  ASSUME UrlInv, WriteUrlReport
  PROVE  UrlInv'
<1>0. RunInv(urlCorpus, urlRun) /\ urlCorpus \in UrlCorpora /\ UNCHANGED urlCorpus
      /\ MatchedWitnessed(urlCorpus, urlRun)
  BY DEF UrlInv, WriteUrlReport, RunInv
<1>. DEFINE report ==
              [ records |-> urlRun.records, failures |-> urlRun.failures, rediscovered |-> RediscoveredHistorical,
                tier_p1_status |-> IF Cardinality(RediscoveredHistorical) >= 3 THEN "pass" ELSE "fail" ]
<1>1. urlRun' = [urlRun EXCEPT !.report = report] /\ report.rediscovered = RediscoveredHistorical
  BY DEF WriteUrlReport
<1>. HIDE DEF report
<1>2. ASSUME NEW id \in RediscoveredHistorical
      PROVE  Two(urlRun.witnesses, id)
  <2>1. PICK j \in DOMAIN urlCorpus :
          urlCorpus[j].historical /\ urlCorpus[j].id \in urlRun.matched /\ id = urlCorpus[j].id
    BY DEF RediscoveredHistorical
  <2>2. PICK n \in DOMAIN urlCorpus : urlCorpus[n].id = id /\ (urlCorpus[n].historical => Two(urlRun.witnesses, id))
    BY <1>0, <2>1 DEF MatchedWitnessed
  <2>3. n = j
    BY <1>0, <2>1, <2>2, UrlAssumption
  <2>. QED  BY <2>1, <2>2, <2>3
<1>3. MatchedWitnessed(urlCorpus, urlRun')
  <2>1. urlRun'.report = report /\ urlRun'.witnesses = urlRun.witnesses /\ urlRun'.matched = urlRun.matched
    BY <1>0, <1>1 DEF RunInv
  <2>2. \A id \in urlRun'.report.rediscovered : Two(urlRun.witnesses, id)
    BY <1>1, <1>2, <2>1
  <2>. QED  BY <1>0, <2>1, <2>2 DEF MatchedWitnessed
<1>4. DispatchInv(urlRun')
  BY <1>0, <1>1 DEF RunInv, DispatchInv
<1>5. RunInv(urlCorpus, urlRun')
  BY <1>0, <1>1, <1>3, <1>4 DEF RunInv
<1>. QED  BY <1>0, <1>5 DEF UrlInv

(* The invariant is inductive.                                             *)
LEMMA UrlStep == UrlInv /\ [UrlNext]_urlVars => UrlInv'
<1>. SUFFICES ASSUME UrlInv, [UrlNext]_urlVars PROVE UrlInv'
  OBVIOUS
<1>1. CASE WriteUrlEvidence
  <2>1. RunInv(urlCorpus, urlRun) /\ urlCorpus \in UrlCorpora /\ UNCHANGED urlCorpus
    BY <1>1 DEF UrlInv, WriteUrlEvidence
  <2>2. urlRun' = [urlRun EXCEPT !.evidence = urlRun.records]
    BY <1>1 DEF WriteUrlEvidence
  <2>3. DispatchInv(urlRun') /\ MatchedWitnessed(urlCorpus, urlRun')
    BY <2>1, <2>2 DEF RunInv, DispatchInv, MatchedWitnessed
  <2>4. RunInv(urlCorpus, urlRun')
    BY <2>1, <2>2, <2>3 DEF RunInv
  <2>. QED  BY <2>1, <2>4 DEF UrlInv
<1>2. CASE UNCHANGED urlVars
  BY <1>2 DEF urlVars, UrlInv
<1>. QED  BY <1>1, <1>2, SkipProfileKeeps, RunProfileKeeps, CloseCaseKeeps, WriteUrlReportKeeps DEF UrlNext

(* Two witnesses are two, and there are never more than three profiles.    *)
LEMMA WitnessesCount ==
  ASSUME NEW witnesses, NEW id, Two(witnesses, id),
         \A w \in witnesses : \E i : \E k \in 1..3 : w = <<i, Profiles[k]>>
  PROVE  Cardinality({w \in witnesses : w[1] = id}) >= 2
<1>. DEFINE mine == {w \in witnesses : w[1] = id}
            all == {<<id, Profiles[1]>>} \cup {<<id, Profiles[2]>>} \cup {<<id, Profiles[3]>>}
<1>1. IsFiniteSet(all)
  <2>1. IsFiniteSet({<<id, Profiles[1]>>})
    BY FS_Singleton
  <2>2. IsFiniteSet({<<id, Profiles[1]>>} \cup {<<id, Profiles[2]>>})
    BY <2>1, FS_AddElement
  <2>. QED  BY <2>2, FS_AddElement
<1>2. mine \subseteq all
  <2>1. ASSUME NEW w \in mine PROVE w \in all
    <3>1. PICK i : \E k \in 1..3 : w = <<i, Profiles[k]>>
      OBVIOUS
    <3>2. PICK k \in 1..3 : w = <<i, Profiles[k]>>
      BY <3>1
    <3>3. i = id /\ (k = 1 \/ k = 2 \/ k = 3)
      BY <3>2
    <3>. QED  BY <3>2, <3>3
  <2>. QED  BY <2>1
<1>3. PICK p, q : p # q /\ <<id, p>> \in witnesses /\ <<id, q>> \in witnesses
  BY DEF Two
<1>4. {<<id, p>>} \cup {<<id, q>>} \in SUBSET mine
  BY <1>3
<1>5. Cardinality({<<id, p>>} \cup {<<id, q>>}) = 2
  <2>1. <<id, q>> \notin {<<id, p>>}
    BY <1>3
  <2>2. IsFiniteSet({<<id, p>>}) /\ Cardinality({<<id, p>>}) = 1
    BY FS_Singleton
  <2>3. PICK S : S = {<<id, p>>}
    OBVIOUS
  <2>4. PICK w : w = <<id, q>>
    OBVIOUS
  <2>5. Cardinality(S \cup {w}) = Cardinality(S) + 1
    BY <2>1, <2>2, <2>3, <2>4, FS_AddElement
  <2>. QED  BY <2>2, <2>3, <2>4, <2>5
<1>. HIDE DEF mine, all
<1>6. IsFiniteSet(mine)
  BY <1>1, <1>2, FS_Subset
<1>7. Cardinality({<<id, p>>} \cup {<<id, q>>}) <= Cardinality(mine) /\ Cardinality(mine) \in Nat
  BY <1>4, <1>6, FS_Subset, FS_CardinalityType
<1>8. Cardinality(mine) >= 2
  BY <1>5, <1>7
<1>. QED  BY <1>8 DEF mine

(* For any corpus, any set of built parsers and any outcomes: a historical *)
(* case in the report was parsed by two parsers.  fact_vectors_for, detect *)
(* and classify of the URL family.                                         *)
THEOREM RediscoveryWitnessedHolds == UrlSpec => []RediscoveryWitnessed
<1>1. UrlInv => RediscoveryWitnessed
  <2>. SUFFICES ASSUME UrlInv, urlRun.report # None, NEW id \in urlRun.report.rediscovered
                PROVE  Cardinality({w \in urlRun.witnesses : w[1] = id}) >= 2
    BY DEF RediscoveryWitnessed
  <2>1. /\ Two(urlRun.witnesses, id)
        /\ \A w \in urlRun.witnesses : \E i : \E k \in 1..3 : w = <<i, Profiles[k]>>
    BY DEF UrlInv, RunInv, MatchedWitnessed
  <2>. QED  BY <2>1, WitnessesCount
<1>. QED  BY <1>1, UrlInitially, UrlStep, PTL DEF UrlSpec

=============================================================================
