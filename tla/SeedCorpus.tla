------------------------------ MODULE SeedCorpus ------------------------------
(***************************************************************************)
(* aegisgraph/harnessgen/corpus/seed_from_smabench.py: copies the files of *)
(* an SMABench corpus into a libFuzzer corpus, each under the name of its  *)
(* own hash, once.  A file is read twice, for its hash and for its bytes,  *)
(* and the corpus may be generated anew, or the copying killed, in         *)
(* between.                                                                *)
(***************************************************************************)
EXTENDS Absent, Naturals, Sequences

CONSTANTS
  SeedFiles,        \* the paths under the source, in their order
  SeedContents,     \* what a file may hold
  SeedBudget        \* bound of the model: seedings and changes together

VARIABLES
  source,           \* by path, the content of the file, or None
  entries,          \* the corpus: by name, what the file of that name holds
  seedingRun,       \* the seeding under way, or None
  seeded,           \* SeedingResult of the last that ended
  seedLeft

seedVars == <<source, entries, seedingRun, seeded, seedLeft>>

SeedPath == {SeedFiles[i] : i \in DOMAIN SeedFiles}
ContentHash(content) == <<"sha256", content>>
TornEntry == "torn"

SeedInit ==
  /\ source \in [SeedPath -> SeedContents \cup {None}]
  /\ entries = [n \in {} |-> None]
  /\ seedingRun = None /\ seeded = None
  /\ seedLeft = SeedBudget

(* SMABench generates the corpus anew, or a person removes a file.         *)
SourceChanges ==
  /\ seedLeft > 0 /\ seedLeft' = seedLeft - 1
  /\ \E p \in SeedPath, c \in SeedContents \cup {None} : source' = [source EXCEPT ![p] = c]
  /\ UNCHANGED <<entries, seedingRun, seeded>>

\* Seeded fault: what is in the corpus already is not looked at.
SeenNothing == {}

(* Every name of the right length counts as seen, whatever the file holds. *)
Seen == DOMAIN entries

StartSeeding ==
  /\ seedingRun = None /\ seedLeft > 0 /\ seedLeft' = seedLeft - 1
  /\ seedingRun' = [todo |-> SelectSeq(SeedFiles, LAMBDA p : source[p] # None), seen |-> Seen, digest |-> None,
                    scanned |-> 0, written |-> 0, deduped |-> 0]
  /\ UNCHANGED <<source, entries, seeded>>

Duplicate(digest) == digest \in seedingRun.seen

(* The next file of the listing: gone meanwhile, a duplicate, or new.      *)
HashSeed ==
  /\ seedingRun # None /\ seedingRun.digest = None /\ seedingRun.todo # <<>>
  /\ LET content == source[Head(seedingRun.todo)]
         digest == ContentHash(content)
         counted == [seedingRun EXCEPT !.scanned = @ + 1]
     IN seedingRun' =
          IF content = None THEN [seedingRun EXCEPT !.todo = Tail(@)]
          ELSE IF Duplicate(digest) THEN [counted EXCEPT !.deduped = @ + 1, !.todo = Tail(@)]
          ELSE [counted EXCEPT !.digest = digest, !.seen = @ \cup {digest}]
  /\ UNCHANGED <<source, entries, seeded, seedLeft>>

PutEntry(name, content) ==
  [n \in DOMAIN entries \cup {name} |-> IF n = name THEN content ELSE entries[n]]

(* The bytes are read again, and the seeding raises when they are gone.    *)
WriteSeed ==
  /\ seedingRun # None /\ seedingRun.digest # None
  /\ LET content == source[Head(seedingRun.todo)]
     IN IF content = None THEN seedingRun' = None /\ UNCHANGED entries
        ELSE /\ entries' = PutEntry(seedingRun.digest, content)
             /\ seedingRun' = [seedingRun EXCEPT !.digest = None, !.todo = Tail(@), !.written = @ + 1]
  /\ UNCHANGED <<source, seeded, seedLeft>>

EndSeeding ==
  /\ seedingRun # None /\ seedingRun.digest = None /\ seedingRun.todo = <<>>
  /\ seeded' = [scanned |-> seedingRun.scanned, written |-> seedingRun.written,
                deduped |-> seedingRun.deduped]
  /\ seedingRun' = None
  /\ UNCHANGED <<source, entries, seedLeft>>

SeedingDies ==
  /\ seedingRun # None
  /\ seedingRun' = None
  /\ \/ UNCHANGED entries
     \/ seedingRun.digest # None /\ entries' = PutEntry(seedingRun.digest, TornEntry)
  /\ UNCHANGED <<source, seeded, seedLeft>>

SeedNext ==
  \/ SourceChanges
  \/ StartSeeding
  \/ HashSeed
  \/ WriteSeed
  \/ EndSeeding
  \/ SeedingDies

SeedSpec == SeedInit /\ [][SeedNext]_seedVars

-----------------------------------------------------------------------------

(* "The dedup also stabilizes the corpus across reruns": no seeding        *)
(* changes an entry there is, so neither a later state of the source nor a *)
(* second seeding moves the corpus a fuzzer works on.  The reverse is that *)
(* an entry cut short by a kill is never mended.                           *)
SeedsStable ==
  [][\A n \in DOMAIN entries : n \in DOMAIN entries' /\ entries'[n] = entries[n]]_seedVars

=============================================================================
