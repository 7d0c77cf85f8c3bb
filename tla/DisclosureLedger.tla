-------------------------- MODULE DisclosureLedger --------------------------
(***************************************************************************)
(* The coordinated-disclosure ledger, aegisgraph/disclosure/ledger.py with *)
(* the hash-chain primitives of aegisgraph/hashchain.py.                   *)
(*                                                                         *)
(* The ledger is a JSONL file.  append() reads the record_hash of the last *)
(* line, closes the file, and then opens it again to write one line: two   *)
(* steps, with no lock held between them, so writers interleave.  A writer *)
(* may also die at any point of its write, and a line already on the file  *)
(* may be changed by hand or by a merge: verify_chain() is there to tell.  *)
(*                                                                         *)
(* A definition under a "Seeded fault" comment is a plausible wrong        *)
(* version of the one it stands before; no specification uses it.          *)
(***************************************************************************)
EXTENDS Naturals, Sequences

CONSTANTS
  Writers,         \* processes that call ledger.append
  Events,          \* disclosure events, the hash_chain block left out
  None,            \* Python's None
  Unparsable,      \* a line that json.loads rejects
  TearPoints,      \* where a writer may die: see TearPoint
  EditsAllowed,    \* whether lines already written may be changed by hand
  MaxLines         \* bound of the model: appends stop at this many lines

VARIABLES
  lines,           \* the non-blank lines of the file, parsed
  terminated,      \* whether the file is empty or ends in a newline
  draft,           \* per writer, the finalized event it is about to write
  history          \* ghost: the payloads handed to write(), in that order

vars == <<lines, terminated, draft, history>>

(* "before": after the tail was read and before a byte is written.         *)
(* "fragment": with part of the JSON object on the file.                   *)
(* "newline": with the whole object on the file and not its newline.       *)
TearPoint == {"before", "fragment", "newline"}

(* hash_record digests the event without its hash_chain block.  SHA-256 is *)
(* taken to be free of collisions: the digest stands for its payload.      *)
HashRecord(e) == <<"sha256", e>>

Hashes == {HashRecord(e) : e \in Events}

Entry ==
  [payload : Events, previous_hash : Hashes \cup {None}, record_hash : Hashes]

ASSUME ConstantsAssumption ==
  /\ TearPoints \subseteq TearPoint
  /\ EditsAllowed \in BOOLEAN
  /\ MaxLines \in Nat

ASSUME DistinctAssumption ==
  /\ None \notin Hashes
  /\ None \notin Entry
  /\ Unparsable \notin Entry

TypeOK ==
  /\ lines \in Seq(Entry \cup {Unparsable})
  /\ terminated \in BOOLEAN
  /\ draft \in [Writers -> Entry \cup {None}]
  /\ history \in Seq(Events)

-----------------------------------------------------------------------------
(* The pure functions of hashchain.py and ledger.py.                       *)

\* Seeded fault: the two digests of the hash_chain block swapped.
AttachHashChainSwapped(e, previous) ==
  [payload |-> e, previous_hash |-> HashRecord(e), record_hash |-> previous]

AttachHashChain(e, previous) ==
  [payload |-> e, previous_hash |-> previous, record_hash |-> HashRecord(e)]

(* read_all, iter_events and _last_record_hash parse the whole file and    *)
(* raise on the first line that is not JSON.                               *)
Readable(ls) == \A i \in 1..Len(ls) : ls[i] # Unparsable

\* Seeded fault: the loop keeps the first line it reads instead of the last.
FirstRecordHash(ls) == IF ls = <<>> THEN None ELSE ls[1].record_hash

LastRecordHash(ls) == IF ls = <<>> THEN None ELSE ls[Len(ls)].record_hash

ExpectedPrevious(ls, i) == IF i = 1 THEN None ELSE ls[i - 1].record_hash

RecordErrors(ls) ==
  {i \in 1..Len(ls) : ls[i].record_hash # HashRecord(ls[i].payload)}

LinkErrors(ls) ==
  {i \in 1..Len(ls) : ls[i].previous_hash # ExpectedPrevious(ls, i)}

\* Seeded fault: verify_chain() without its call of verify_hash_chain().
VerifyLinksOnly(ls) == LinkErrors(ls)

(* The lines verify_chain() complains of.  It compares a line's link with  *)
(* the record_hash STORED on the line before, and a record's digest with   *)
(* its own stored record_hash.                                             *)
VerifyChain(ls) == LinkErrors(ls) \cup RecordErrors(ls)

(* verify_chain() raises or reports at least one error: either way         *)
(* `aegisgraph disclose ledger --verify` fails.                            *)
Damaged(ls) == IF Readable(ls) THEN VerifyChain(ls) # {} ELSE TRUE

\* Seeded fault: the file opened with "wb".
PutTruncating(ls, chunk) == <<chunk>>

\* Seeded fault: a torn last line overwritten as if it had never been there.
PutOverTornTail(ls, chunk) ==
  IF terminated THEN Append(ls, chunk) ELSE [ls EXCEPT ![Len(ls)] = chunk]

(* open(path, "ab").write(chunk): the bytes go to the end of the file.     *)
(* After a line without its newline they continue that line, and two JSON  *)
(* values on one line do not parse.                                        *)
PutAtEnd(ls, chunk) ==
  IF terminated THEN Append(ls, chunk)
                ELSE [ls EXCEPT ![Len(ls)] = Unparsable]

-----------------------------------------------------------------------------

Init ==
  /\ lines = <<>>
  /\ terminated = TRUE
  /\ draft = [w \in Writers |-> None]
  /\ history = <<>>

(* append(), first half: read the tail and finalize the event.  On a file  *)
(* with a line that does not parse json.loads raises and append() ends     *)
(* here with the file as it was.                                           *)
ReadTail(w, e) ==
  /\ Len(lines) < MaxLines
  /\ draft[w] = None
  /\ Readable(lines)
  /\ draft' = [draft EXCEPT ![w] = AttachHashChain(e, LastRecordHash(lines))]
  /\ UNCHANGED <<lines, terminated, history>>

(* append(), second half: write the finalized line and return the event.   *)
WriteLine(w) ==
  /\ draft[w] # None
  /\ lines' = PutAtEnd(lines, draft[w])
  /\ terminated' = TRUE
  /\ history' = Append(history, draft[w].payload)
  /\ draft' = [draft EXCEPT ![w] = None]

(* The writer dies, or the disk fills, inside append().                    *)
DieBeforeWrite(w) ==
  /\ "before" \in TearPoints
  /\ draft[w] # None
  /\ draft' = [draft EXCEPT ![w] = None]
  /\ UNCHANGED <<lines, terminated, history>>

DieInsideWrite(w) ==
  /\ draft[w] # None
  /\ \/ /\ "fragment" \in TearPoints
        /\ lines' = PutAtEnd(lines, Unparsable)
     \/ /\ "newline" \in TearPoints
        /\ lines' = PutAtEnd(lines, draft[w])
  /\ terminated' = FALSE
  /\ history' = Append(history, draft[w].payload)
  /\ draft' = [draft EXCEPT ![w] = None]

(* A hand edit or a merge changes the event on line i and leaves its       *)
(* hash_chain block as it was.                                             *)
EditPayload(i, e) ==
  /\ EditsAllowed
  /\ lines[i] # Unparsable
  /\ lines' = [lines EXCEPT ![i] = [@ EXCEPT !.payload = e]]
  /\ UNCHANGED <<terminated, draft, history>>

Next ==
  \/ \E w \in Writers, e \in Events : ReadTail(w, e)
  \/ \E w \in Writers : WriteLine(w) \/ DieBeforeWrite(w) \/ DieInsideWrite(w)
  \/ \E i \in 1..Len(lines), e \in Events : EditPayload(i, e)

Spec == Init /\ [][Next]_vars

-----------------------------------------------------------------------------
(* Safety.                                                                 *)

(* verify_chain() accepts the file whenever every line was put there by    *)
(* append() and none was changed since: no legal use of the API makes      *)
(* `aegisgraph disclose ledger --verify` (and with it the daily tick) fail *)
(* on a readable file.  One writer keeps it; two writers do not, because   *)
(* both link to the tail they read (ledger.py:83, no lock).                *)
ChainIntact == Readable(lines) => VerifyChain(lines) = {}

(* verify_chain() names every line whose event is not the one append() put *)
(* there, for ever, and whatever is appended behind it: a later append     *)
(* links to the STORED record_hash and does not cover the change up.       *)
EditsFlagged ==
  Readable(lines) =>
    \A i \in 1..Len(lines) :
      lines[i].payload # history[i] => i \in VerifyChain(lines)

(* Whatever the writers' interleaving, crashes and edits, a line of a      *)
(* readable file links to nothing or to an EARLIER line: append() hands    *)
(* out only the digest of a line it has seen, and none is ever removed.    *)
LinksPointBack ==
  Readable(lines) =>
    \A i \in 1..Len(lines) :
      \/ lines[i].previous_hash = None
      \/ \E j \in 1..(i - 1) : lines[i].previous_hash = lines[j].record_hash

(* append() never repairs a damaged file: once verify_chain() fails, no    *)
(* later call of the API makes it pass, so the tick stays closed until     *)
(* someone edits the file outside the API.                                 *)
AppendNeverRepairs ==
  [][(\E w \in Writers : WriteLine(w) \/ DieInsideWrite(w))
       => (Damaged(lines) => Damaged(lines)')]_vars

(* With one writer that is never cut short, the file implements the log of *)
(* ADR-0014: every step is one atomic Add or leaves the log alone.         *)
ADR == INSTANCE ChainedLog WITH log <- lines

ImplementsChainedLog == ADR!Spec

=============================================================================
