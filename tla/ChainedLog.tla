----------------------------- MODULE ChainedLog -----------------------------
(***************************************************************************)
(* What ADR-0014 promises of the disclosure ledger, with the file, the     *)
(* writers and their interleaving left out: a log that only grows, by one  *)
(* entry at a time, where every entry is linked to the one that is last at *)
(* the moment it is added.  DisclosureLedger is the code's way of doing    *)
(* this in two steps; one writer alone implements this specification.      *)
(***************************************************************************)
EXTENDS Naturals, Sequences

CONSTANTS
  Events,          \* the disclosure events, hash_chain block left out
  None             \* Python's None: the previous_hash of a first line

VARIABLE log

-----------------------------------------------------------------------------

(* hash_record digests the event without its hash_chain block.  SHA-256 is *)
(* taken to be free of collisions: the digest stands for its payload.      *)
HashRecord(e) == <<"sha256", e>>

Hashes == {HashRecord(e) : e \in Events}

AttachHashChain(e, previous) ==
  [payload |-> e, previous_hash |-> previous, record_hash |-> HashRecord(e)]

Entry ==
  [payload : Events, previous_hash : Hashes \cup {None}, record_hash : Hashes]

TailHash(l) == IF l = <<>> THEN None ELSE l[Len(l)].record_hash

-----------------------------------------------------------------------------

Init == log = <<>>

Add(e) == log' = Append(log, AttachHashChain(e, TailHash(log)))

Next == \E e \in Events : Add(e)

Spec == Init /\ [][Next]_log

=============================================================================
