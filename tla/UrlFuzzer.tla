------------------------------- MODULE UrlFuzzer -------------------------------
(***************************************************************************)
(* polydiff/fuzzer/driver.py: mutates URLs until its time is over and      *)
(* keeps those that make the parsers differ on an axis they had agreed on. *)
(***************************************************************************)
EXTENDS UrlParsers

CONSTANTS
  FuzzInputs,       \* the byte strings considered, FuzzSeeds among them
  FuzzSeeds,        \* _initial_seeds, a sequence
  MutationsPerBase, \* how often a base is mutated: 8
  FuzzAxes,         \* the sets of axes the parsers may be seen to differ on
  FuzzBudget        \* bound of the model: mutations until the deadline at the latest

ASSUME FuzzAssumption == \A axes \in FuzzAxes : IsFiniteSet(axes)

VARIABLES
  fuzz,             \* the driver's locals, and its summary once it has ended
  fuzzCorpus,       \* polydiff/fuzzer/corpus: the inputs kept
  fuzzShown         \* by input, the axes it was seen to differ on: history

fuzzVars == <<fuzz, fuzzCorpus, fuzzShown>>

FuzzInit ==
  /\ fuzz = [queue |-> FuzzSeeds, base |-> None, mutations |-> 0, seen |-> {}, interesting |-> 0,
             total |-> 0, crashes |-> 0, left |-> FuzzBudget, summary |-> None]
  /\ fuzzCorpus = {}
  /\ fuzzShown = [i \in FuzzInputs |-> {}]

Fuzzing == fuzz.summary = None /\ fuzz.left > 0

(* The next base: the queue's head, the seeds again when it is empty.      *)
PopBase ==
  LET queue == IF fuzz.queue = <<>> THEN FuzzSeeds ELSE fuzz.queue
  IN /\ Fuzzing /\ fuzz.base = None
     /\ fuzz' = [fuzz EXCEPT !.base = Head(queue), !.queue = Tail(queue), !.mutations = 0]
     /\ UNCHANGED <<fuzzCorpus, fuzzShown>>

\* Seeded fault: the axes are marked as seen before they are compared.
NewAxesLate(axes) == axes \ (fuzz.seen \cup axes)

NewAxes(axes) == axes \ fuzz.seen

(* One mutation of the base: `mutate` may reach any input, the parsers     *)
(* differ on some axes; one in five of those that show nothing new is      *)
(* tried again.                                                            *)
TryMutation(input, axes, again) ==
  LET new == NewAxes(axes)
  IN /\ Fuzzing /\ fuzz.base # None
     /\ again => axes # {} /\ new = {}
     /\ fuzz' = [fuzz EXCEPT
          !.total = @ + 1, !.left = @ - 1, !.mutations = @ + 1,
          !.base = IF fuzz.mutations + 1 = MutationsPerBase THEN None ELSE @,
          !.seen = @ \cup axes,
          !.interesting = IF new # {} THEN @ + 1 ELSE @,
          !.queue = IF new # {} \/ again THEN Append(@, input) ELSE @]
     /\ fuzzCorpus' = IF new # {} THEN fuzzCorpus \cup {input} ELSE fuzzCorpus
     /\ fuzzShown' = [fuzzShown EXCEPT ![input] = @ \cup axes]

(* The dispatcher or the detector raised: counted, and the loop goes on.   *)
MutationCrashes ==
  /\ Fuzzing /\ fuzz.base # None
  /\ \E counted \in {0, 1} :
       fuzz' = [fuzz EXCEPT
         !.total = @ + counted, !.left = @ - 1, !.mutations = @ + 1, !.crashes = @ + 1,
         !.base = IF fuzz.mutations + 1 = MutationsPerBase THEN None ELSE @]
  /\ UNCHANGED <<fuzzCorpus, fuzzShown>>

(* The deadline may pass at any moment.                                    *)
FuzzDeadline ==
  /\ fuzz.summary = None
  /\ fuzz' = [fuzz EXCEPT !.base = None, !.summary =
       [total_inputs |-> fuzz.total, interesting |-> fuzz.interesting,
        axes_covered |-> fuzz.seen, crashes |-> fuzz.crashes]]
  /\ UNCHANGED <<fuzzCorpus, fuzzShown>>

FuzzNext ==
  \/ PopBase
  \/ \E input \in FuzzInputs, axes \in FuzzAxes, again \in BOOLEAN : TryMutation(input, axes, again)
  \/ MutationCrashes
  \/ FuzzDeadline

FuzzSpec == FuzzInit /\ [][FuzzNext]_fuzzVars

-----------------------------------------------------------------------------

(* Whenever the time is over, each axis the summary names was shown by an  *)
(* input that is kept, and no more inputs are kept than axes were found:   *)
(* what made the last new axis appear is not lost to the deadline.         *)
AxesKept ==
  /\ fuzz.seen = UNION {fuzzShown[i] : i \in fuzzCorpus}
  /\ Cardinality(fuzzCorpus) <= Cardinality(fuzz.seen)

=============================================================================
