----------------------- MODULE DisclosureLedgerProofs -----------------------
(***************************************************************************)
(* Proofs about DisclosureLedger for every set of writers and events, every*)
(* choice of crash points, with and without edits, and any MaxLines.       *)
(***************************************************************************)
EXTENDS DisclosureLedger, SequenceTheorems, TLAPS

-----------------------------------------------------------------------------
(* Lemmas about the operators.                                             *)

(* An entry has a payload and two digests, and None and Unparsable are not *)
(* entries: append() never mistakes one for the other.                     *)
LEMMA EntryFields ==
  ASSUME NEW x \in Entry
  PROVE  /\ x.payload \in Events
         /\ x.previous_hash \in Hashes \cup {None}
         /\ x.record_hash \in Hashes
         /\ x # None
         /\ x # Unparsable
BY DistinctAssumption DEF Entry

(* attach_hash_chain() returns an entry.                                   *)
LEMMA AttachIsEntry ==
  ASSUME NEW e \in Events, NEW p \in Hashes \cup {None}
  PROVE  AttachHashChain(e, p) \in Entry
BY DEF AttachHashChain, Entry, Hashes

(* A readable file is a sequence of entries.                               *)
LEMMA ReadableEntries ==
  ASSUME NEW ls \in Seq(Entry \cup {Unparsable}), Readable(ls)
  PROVE  \A i \in 1..Len(ls) : ls[i] \in Entry
BY DEF Readable

(* The digest append() links to is that of a line of the file, or None.    *)
LEMMA LastRecordHashType ==
  ASSUME NEW ls \in Seq(Entry \cup {Unparsable}), Readable(ls)
  PROVE  LastRecordHash(ls) \in Hashes \cup {None}
<1>1. CASE ls = <<>>
  BY <1>1 DEF LastRecordHash
<1>2. CASE ls # <<>>
  <2>1. Len(ls) \in 1..Len(ls)
    BY <1>2, EmptySeq
  <2>2. ls[Len(ls)] \in Entry
    BY <2>1, ReadableEntries
  <2>3. QED
    BY <1>2, <2>2, EntryFields DEF LastRecordHash
<1>3. QED
  BY <1>1, <1>2

-----------------------------------------------------------------------------
(* The type invariant, with the one fact about the file's shape it needs:  *)
(* only a non-empty file can lack its final newline.                       *)

Shape == TypeOK /\ (~terminated => lines # <<>>)

(* Where write() puts its bytes: behind the lines, or into the last one.   *)
LEMMA PutAtEndShape ==
  ASSUME Shape, NEW c \in Entry \cup {Unparsable}
  PROVE  /\ PutAtEnd(lines, c) \in Seq(Entry \cup {Unparsable})
         /\ PutAtEnd(lines, c) # <<>>
         /\ terminated => /\ Len(PutAtEnd(lines, c)) = Len(lines) + 1
                          /\ \A i \in 1..Len(lines) :
                               PutAtEnd(lines, c)[i] = lines[i]
                          /\ PutAtEnd(lines, c)[Len(lines) + 1] = c
         /\ ~terminated => ~Readable(PutAtEnd(lines, c))
<1> DEFINE S == Entry \cup {Unparsable}
<1>0. lines \in Seq(S) /\ terminated \in BOOLEAN
  BY DEF Shape, TypeOK
<1>1. CASE terminated
  <2>1. PutAtEnd(lines, c) = Append(lines, c)
    BY <1>1 DEF PutAtEnd
  <2>2. QED
    BY <1>0, <1>1, <2>1, AppendProperties
<1>2. CASE ~terminated
  <2>1. PutAtEnd(lines, c) = [lines EXCEPT ![Len(lines)] = Unparsable]
    BY <1>2 DEF PutAtEnd
  <2>2. lines # <<>>
    BY <1>2 DEF Shape
  <2>3. Len(lines) \in 1..Len(lines)
    BY <1>0, <2>2, EmptySeq
  <2>4. /\ PutAtEnd(lines, c) \in Seq(S)
        /\ Len(PutAtEnd(lines, c)) = Len(lines)
        /\ PutAtEnd(lines, c)[Len(lines)] = Unparsable
    BY <1>0, <2>1, <2>3, ExceptSeq
  <2>5. PutAtEnd(lines, c) # <<>>
    BY <2>3, <2>4, EmptySeq
  <2>6. ~Readable(PutAtEnd(lines, c))
    BY <2>3, <2>4 DEF Readable
  <2>7. QED
    BY <1>2, <2>4, <2>5, <2>6
<1>3. QED
  BY <1>0, <1>1, <1>2

(* Half a JSON object makes the file unreadable wherever it lands.         *)
LEMMA PutUnparsable ==
  ASSUME Shape
  PROVE  ~Readable(PutAtEnd(lines, Unparsable))
<1>1. CASE terminated
  <2>1. Len(lines) \in Nat
    BY LenProperties DEF Shape, TypeOK
  <2>2. /\ Len(PutAtEnd(lines, Unparsable)) = Len(lines) + 1
        /\ PutAtEnd(lines, Unparsable)[Len(lines) + 1] = Unparsable
    BY <1>1, PutAtEndShape
  <2>3. QED
    BY <2>1, <2>2 DEF Readable
<1>2. CASE ~terminated
  BY <1>2, PutAtEndShape
<1>3. QED
  BY <1>1, <1>2

(* Every step keeps the types.                                             *)
LEMMA ShapeStep == Shape /\ [Next]_vars => Shape'
<1> SUFFICES ASSUME Shape, [Next]_vars PROVE Shape'
  OBVIOUS
<1> DEFINE S == Entry \cup {Unparsable}
<1>0. /\ lines \in Seq(S) /\ terminated \in BOOLEAN
      /\ draft \in [Writers -> Entry \cup {None}] /\ history \in Seq(Events)
  BY DEF Shape, TypeOK
<1>1. ASSUME NEW w \in Writers, NEW e \in Events, ReadTail(w, e)
      PROVE  Shape'
  <2>1. AttachHashChain(e, LastRecordHash(lines)) \in Entry
    BY <1>0, <1>1, LastRecordHashType, AttachIsEntry DEF ReadTail
  <2>2. QED
    BY <1>0, <1>1, <2>1 DEF ReadTail, Shape, TypeOK
<1>2. ASSUME NEW w \in Writers, WriteLine(w)
      PROVE  Shape'
  <2>1. draft[w] \in Entry
    BY <1>0, <1>2 DEF WriteLine
  <2>2. PutAtEnd(lines, draft[w]) \in Seq(S)
    BY <2>1, PutAtEndShape
  <2>3. history' \in Seq(Events)
    BY <1>0, <1>2, <2>1, EntryFields, AppendProperties DEF WriteLine
  <2>4. QED
    BY <1>0, <1>2, <2>2, <2>3 DEF WriteLine, Shape, TypeOK
<1>3. ASSUME NEW w \in Writers, DieBeforeWrite(w)
      PROVE  Shape'
  BY <1>0, <1>3 DEF DieBeforeWrite, Shape, TypeOK
<1>4. ASSUME NEW w \in Writers, DieInsideWrite(w)
      PROVE  Shape'
  <2>1. draft[w] \in Entry
    BY <1>0, <1>4 DEF DieInsideWrite
  <2>2. /\ PutAtEnd(lines, draft[w]) \in Seq(S) \ {<<>>}
        /\ PutAtEnd(lines, Unparsable) \in Seq(S) \ {<<>>}
    BY <2>1, PutAtEndShape
  <2>3. history' \in Seq(Events)
    BY <1>0, <1>4, <2>1, EntryFields, AppendProperties DEF DieInsideWrite
  <2>4. QED
    BY <1>0, <1>4, <2>2, <2>3 DEF DieInsideWrite, Shape, TypeOK
<1>5. ASSUME NEW i \in 1..Len(lines), NEW e \in Events, EditPayload(i, e)
      PROVE  Shape'
  <2>1. lines[i] \in Entry
    BY <1>0, <1>5, ElementOfSeq DEF EditPayload
  <2>2. [lines[i] EXCEPT !.payload = e] \in Entry
    BY <2>1 DEF Entry
  <2>3. lines' = [lines EXCEPT ![i] = [lines[i] EXCEPT !.payload = e]]
    BY <1>5 DEF EditPayload
  <2>4. lines' \in Seq(S) /\ Len(lines') = Len(lines)
    BY <1>0, <2>2, <2>3, ExceptSeq
  <2>5. lines' # <<>>
    BY <1>0, <2>4, EmptySeq
  <2>6. QED
    BY <1>0, <1>5, <2>4, <2>5 DEF EditPayload, Shape, TypeOK
<1>6. CASE UNCHANGED vars
  BY <1>6 DEF vars, Shape, TypeOK
<1>7. QED
  BY <1>1, <1>2, <1>3, <1>4, <1>5, <1>6 DEF Next

(* The file, the drafts and the ghost always have their types: append()    *)
(* writes finalized events only, and what it reads back is one of them.    *)
THEOREM LedgerTypes == Spec => []TypeOK
<1>1. Init => Shape
  BY DEF Init, Shape, TypeOK
<1>2. Shape => TypeOK
  BY DEF Shape
<1>3. QED
  BY <1>1, <1>2, ShapeStep, PTL DEF Spec

-----------------------------------------------------------------------------
(* What holds of a readable file under every interleaving.                 *)

(* The digest on a line is that of the event append() put there, even when *)
(* the event was changed since.                                            *)
DigestsKept ==
  /\ Len(history) = Len(lines)
  /\ \A i \in 1..Len(lines) : lines[i].record_hash = HashRecord(history[i])

(* A draft links to nothing or to a line of the file, perhaps not the last.*)
DraftsSeen ==
  \A w \in Writers : draft[w] # None =>
    \/ draft[w].previous_hash = None
    \/ \E j \in 1..Len(lines) : draft[w].previous_hash = lines[j].record_hash

DraftsDigested ==
  \A w \in Writers :
    draft[w] # None => draft[w].record_hash = HashRecord(draft[w].payload)

LinksBack ==
  \A i \in 1..Len(lines) :
    \/ lines[i].previous_hash = None
    \/ \E j \in 1..(i - 1) : lines[i].previous_hash = lines[j].record_hash

IInv ==
  /\ Shape
  /\ DraftsDigested
  /\ Readable(lines) => DigestsKept /\ DraftsSeen /\ LinksBack

(* A write of a draft keeps the three facts; after a torn line the file is *)
(* unreadable and they are not claimed.                                    *)
LEMMA WriteKeeps ==
  ASSUME IInv, NEW w \in Writers, draft[w] # None,
         lines' = PutAtEnd(lines, draft[w]),
         history' = Append(history, draft[w].payload),
         draft' = [draft EXCEPT ![w] = None],
         Readable(lines')
  PROVE  DigestsKept' /\ DraftsSeen' /\ LinksBack'
<1>0. /\ lines \in Seq(Entry \cup {Unparsable}) /\ terminated \in BOOLEAN
      /\ draft \in [Writers -> Entry \cup {None}] /\ history \in Seq(Events)
      /\ draft[w] \in Entry /\ Shape
  BY DEF IInv, Shape, TypeOK
<1>1. terminated
  BY <1>0, PutAtEndShape
<1>2. /\ Len(lines') = Len(lines) + 1
      /\ \A i \in 1..Len(lines) : lines'[i] = lines[i]
      /\ lines'[Len(lines) + 1] = draft[w]
      /\ Len(lines) \in Nat
  BY <1>0, <1>1, PutAtEndShape, LenProperties
<1>3. Readable(lines)
  BY <1>2 DEF Readable
<1>4. DigestsKept /\ DraftsSeen /\ LinksBack
  BY <1>3 DEF IInv
<1>5. /\ Len(history') = Len(history) + 1
      /\ \A i \in 1..Len(history) : history'[i] = history[i]
      /\ history'[Len(history) + 1] = draft[w].payload
  BY <1>0, EntryFields, AppendProperties
<1>6. DigestsKept'
  BY <1>2, <1>4, <1>5 DEF DigestsKept, IInv, DraftsDigested
<1>7. DraftsSeen'
  <2> SUFFICES ASSUME NEW v \in Writers, draft'[v] # None
               PROVE  \/ draft'[v].previous_hash = None
                      \/ \E j \in 1..Len(lines') :
                           draft'[v].previous_hash = lines'[j].record_hash
    BY DEF DraftsSeen
  <2>1. draft'[v] = draft[v]
    BY <1>0
  <2>2. QED
    BY <1>2, <1>4, <2>1 DEF DraftsSeen
<1>8. LinksBack'
  <2> SUFFICES ASSUME NEW i \in 1..Len(lines')
               PROVE  \/ lines'[i].previous_hash = None
                      \/ \E j \in 1..(i - 1) :
                           lines'[i].previous_hash = lines'[j].record_hash
    BY DEF LinksBack
  <2>1. CASE i \in 1..Len(lines)
    <3>1. lines'[i] = lines[i]
      BY <1>2, <2>1
    <3>2. \A j \in 1..(i - 1) : lines'[j] = lines[j]
      BY <1>2, <2>1
    <3>3. \/ lines[i].previous_hash = None
          \/ \E j \in 1..(i - 1) :
               lines[i].previous_hash = lines[j].record_hash
      BY <1>4, <2>1 DEF LinksBack
    <3>4. QED
      BY <3>1, <3>2, <3>3
  <2>2. CASE i = Len(lines) + 1
    BY <1>2, <1>4, <2>2 DEF DraftsSeen
  <2>3. QED
    BY <1>2, <2>1, <2>2
<1>9. QED
  BY <1>6, <1>7, <1>8

LEMMA IInvStep == IInv /\ [Next]_vars => IInv'
<1> SUFFICES ASSUME IInv, [Next]_vars PROVE IInv'
  OBVIOUS
<1>0. /\ lines \in Seq(Entry \cup {Unparsable}) /\ Len(lines) \in Nat
      /\ draft \in [Writers -> Entry \cup {None}] /\ Shape /\ Shape'
  BY ShapeStep, LenProperties DEF IInv, Shape, TypeOK
<1>1. ASSUME NEW w \in Writers, NEW e \in Events, ReadTail(w, e)
      PROVE  IInv'
  <2> DEFINE d == AttachHashChain(e, LastRecordHash(lines))
  <2>1. /\ Readable(lines) /\ lines' = lines /\ history' = history
        /\ draft' = [draft EXCEPT ![w] = d]
    BY <1>1 DEF ReadTail
  <2>2. DraftsDigested'
    BY <1>0, <2>1 DEF IInv, DraftsDigested, AttachHashChain
  <2>3. d.previous_hash = LastRecordHash(lines)
    BY DEF AttachHashChain
  <2>4. \/ LastRecordHash(lines) = None
        \/ \E j \in 1..Len(lines) :
             LastRecordHash(lines) = lines[j].record_hash
    BY <1>0, EmptySeq DEF LastRecordHash
  <2>5. DraftsSeen'
    <3> SUFFICES ASSUME NEW v \in Writers, draft'[v] # None
                 PROVE  \/ draft'[v].previous_hash = None
                        \/ \E j \in 1..Len(lines) :
                             draft'[v].previous_hash = lines[j].record_hash
      BY <2>1 DEF DraftsSeen
    <3>1. CASE v = w
      <4>1. draft'[v] = d
        BY <1>0, <2>1, <3>1
      <4>2. QED
        BY <2>3, <2>4, <4>1
    <3>2. CASE v # w
      BY <1>0, <2>1, <3>2 DEF IInv, DraftsSeen
    <3>3. QED
      BY <3>1, <3>2
  <2>6. DigestsKept' /\ LinksBack'
    BY <2>1 DEF IInv, DigestsKept, LinksBack
  <2>7. QED
    BY <1>0, <2>2, <2>5, <2>6 DEF IInv
<1>2. ASSUME NEW w \in Writers, WriteLine(w)
      PROVE  IInv'
  <2>1. DraftsDigested'
    BY <1>0, <1>2 DEF WriteLine, IInv, DraftsDigested
  <2>2. Readable(lines') => DigestsKept' /\ DraftsSeen' /\ LinksBack'
    BY <1>2, WriteKeeps DEF WriteLine
  <2>3. QED
    BY <1>0, <2>1, <2>2 DEF IInv, Readable
<1>3. ASSUME NEW w \in Writers, DieBeforeWrite(w)
      PROVE  IInv'
  BY <1>0, <1>3 DEF DieBeforeWrite, IInv, DraftsDigested, DigestsKept,
                    DraftsSeen, LinksBack, Readable
<1>4. ASSUME NEW w \in Writers, DieInsideWrite(w)
      PROVE  IInv'
  <2>1. DraftsDigested'
    BY <1>0, <1>4 DEF DieInsideWrite, IInv, DraftsDigested
  <2>2. ASSUME Readable(lines')
        PROVE  DigestsKept' /\ DraftsSeen' /\ LinksBack'
    <3>1. lines' # PutAtEnd(lines, Unparsable)
      BY <1>0, <2>2, PutUnparsable
    <3>2. lines' = PutAtEnd(lines, draft[w])
      BY <1>4, <3>1 DEF DieInsideWrite
    <3>3. QED
      BY <1>4, <2>2, <3>2, WriteKeeps DEF DieInsideWrite
  <2>3. QED
    BY <1>0, <2>1, <2>2 DEF IInv, Readable
<1>5. ASSUME NEW i \in 1..Len(lines), NEW e \in Events, EditPayload(i, e)
      PROVE  IInv'
  <2> DEFINE r == [lines[i] EXCEPT !.payload = e]
  <2>1. /\ lines' = [lines EXCEPT ![i] = r]
        /\ lines[i] # Unparsable /\ history' = history /\ draft' = draft
    BY <1>5 DEF EditPayload
  <2>2. lines[i] \in Entry
    BY <1>0, <2>1, ElementOfSeq
  <2>3. /\ r \in Entry /\ r.previous_hash = lines[i].previous_hash
        /\ r.record_hash = lines[i].record_hash
    BY <2>2 DEF Entry
  <2>4. /\ Len(lines') = Len(lines)
        /\ \A j \in 1..Len(lines) : lines'[j] = IF j = i THEN r ELSE lines[j]
    BY <1>0, <2>1, <2>3, ExceptSeq
  <2>5. \A j \in 1..Len(lines) :
          /\ lines'[j].record_hash = lines[j].record_hash
          /\ lines'[j].previous_hash = lines[j].previous_hash
    BY <2>3, <2>4
  <2>6. Readable(lines') => Readable(lines)
    BY <2>1, <2>4 DEF Readable
  <2>7. DraftsDigested'
    BY <2>1 DEF IInv, DraftsDigested
  <2>8. Readable(lines') => DigestsKept' /\ DraftsSeen' /\ LinksBack'
    BY <2>1, <2>4, <2>5, <2>6 DEF IInv, DigestsKept, DraftsSeen, LinksBack
  <2>9. QED
    BY <1>0, <2>7, <2>8 DEF IInv, Readable
<1>6. CASE UNCHANGED vars
  BY <1>0, <1>6 DEF vars, IInv, DraftsDigested, DigestsKept, DraftsSeen,
                    LinksBack, Readable
<1>7. QED
  BY <1>1, <1>2, <1>3, <1>4, <1>5, <1>6 DEF Next

LEMMA IInvHolds == Spec => []IInv
<1>1. Init => IInv
  BY EmptySeq DEF Init, IInv, Shape, TypeOK, DraftsDigested, DigestsKept,
                  DraftsSeen, LinksBack
<1>2. QED
  BY <1>1, IInvStep, PTL DEF Spec

(* No interleaving, crash or edit makes a line of a readable file link to  *)
(* itself, to a later line or to a digest that is not on the file.         *)
THEOREM LedgerLinksPointBack == Spec => []LinksPointBack
<1>1. IInv => LinksPointBack
  <2>1. IInv /\ Readable(lines) => LinksBack
    BY DEF IInv
  <2>2. (Readable(lines) => LinksBack) => LinksPointBack
    BY DEF LinksBack, LinksPointBack
  <2>3. QED
    BY <2>1, <2>2
<1>2. QED
  BY <1>1, IInvHolds, PTL

(* verify_chain() names every line whose event was changed after append(), *)
(* however many appends and edits came between.                            *)
THEOREM LedgerEditsFlagged == Spec => []EditsFlagged
<1>1. IInv => EditsFlagged
  <2> SUFFICES ASSUME IInv, Readable(lines), NEW i \in 1..Len(lines),
                      lines[i].payload # history[i]
               PROVE  i \in VerifyChain(lines)
    BY DEF EditsFlagged
  <2>1. lines[i].record_hash = HashRecord(history[i])
    BY DEF IInv, DigestsKept
  <2>2. lines[i].record_hash # HashRecord(lines[i].payload)
    BY <2>1 DEF HashRecord
  <2>3. QED
    BY <2>2 DEF VerifyChain, RecordErrors
<1>2. QED
  BY <1>1, IInvHolds, PTL

-----------------------------------------------------------------------------
(* Damage is for ever.                                                     *)

(* A write keeps every fault a file already has: an unparsable line stays, *)
(* and a line verify_chain() names keeps itself and its predecessor.       *)
LEMMA WriteKeepsDamage ==
  ASSUME Shape, Damaged(lines), NEW c \in Entry \cup {Unparsable},
         lines' = PutAtEnd(lines, c)
  PROVE  Damaged(lines')
<1>0. lines \in Seq(Entry \cup {Unparsable}) /\ terminated \in BOOLEAN
      /\ Len(lines) \in Nat
  BY LenProperties DEF Shape, TypeOK
<1>1. CASE ~terminated
  BY <1>1, PutAtEndShape DEF Damaged
<1>2. CASE terminated
  <2>0. /\ Len(lines') = Len(lines) + 1
        /\ \A i \in 1..Len(lines) : lines'[i] = lines[i]
    BY <1>2, PutAtEndShape
  <2>1. CASE ~Readable(lines)
    <3>1. PICK i \in 1..Len(lines) : lines[i] = Unparsable
      BY <2>1 DEF Readable
    <3>2. i \in 1..Len(lines') /\ lines'[i] = Unparsable
      BY <1>0, <2>0, <3>1
    <3>3. ~Readable(lines')
      BY <3>2 DEF Readable
    <3>4. QED
      BY <3>3 DEF Damaged
  <2>2. CASE Readable(lines)
    <3>1. PICK i \in 1..Len(lines) : i \in VerifyChain(lines)
      BY <2>2 DEF Damaged, VerifyChain, LinkErrors, RecordErrors
    <3>2. /\ i \in 1..Len(lines') /\ lines'[i] = lines[i]
          /\ i # 1 => lines'[i - 1] = lines[i - 1]
      BY <1>0, <2>0
    <3>3. ExpectedPrevious(lines', i) = ExpectedPrevious(lines, i)
      BY <3>2 DEF ExpectedPrevious
    <3>4. i \in VerifyChain(lines')
      BY <3>1, <3>2, <3>3 DEF VerifyChain, LinkErrors, RecordErrors
    <3>5. QED
      BY <3>4 DEF Damaged
  <2>3. QED
    BY <2>1, <2>2
<1>3. QED
  BY <1>1, <1>2

(* No call of append(), whole or cut short, turns a file verify_chain()    *)
(* rejects into one it accepts.                                            *)
THEOREM LedgerNeverRepaired == Spec => AppendNeverRepairs
<1>1. ASSUME Shape, NEW w \in Writers, WriteLine(w) \/ DieInsideWrite(w),
             Damaged(lines)
      PROVE  Damaged(lines')
  <2>1. draft[w] \in Entry
    BY <1>1 DEF Shape, TypeOK, WriteLine, DieInsideWrite
  <2>2. PICK c \in Entry \cup {Unparsable} : lines' = PutAtEnd(lines, c)
    BY <1>1, <2>1 DEF WriteLine, DieInsideWrite
  <2>3. QED
    BY <1>1, <2>2, WriteKeepsDamage
<1>2. Damaged(lines)' <=> Damaged(lines')
  BY DEF Damaged, Readable, VerifyChain, LinkErrors, RecordErrors,
         ExpectedPrevious
<1>3. Shape => ((\E w \in Writers : WriteLine(w) \/ DieInsideWrite(w))
                  => (Damaged(lines) => Damaged(lines)'))
  BY <1>1, <1>2
<1>4. Init => Shape
  BY DEF Init, Shape, TypeOK
<1>5. QED
  BY <1>3, <1>4, ShapeStep, PTL DEF Spec, AppendNeverRepairs

-----------------------------------------------------------------------------
(* One writer: what the lock of ADR-0014 would give to any number.         *)

(* The writer's draft links to the line that is still the last, and the    *)
(* chain has no fault.                                                     *)
ChainInv ==
  Readable(lines) =>
    /\ VerifyChain(lines) = {}
    /\ \A w \in Writers :
         draft[w] # None => draft[w].previous_hash = LastRecordHash(lines)

LEMMA OneWriterWrites ==
  ASSUME IInv, ChainInv, NEW w, Writers = {w}, draft[w] # None,
         lines' = PutAtEnd(lines, draft[w]),
         draft' = [draft EXCEPT ![w] = None]
  PROVE  ChainInv'
<1>0. /\ lines \in Seq(Entry \cup {Unparsable}) /\ Len(lines) \in Nat
      /\ terminated \in BOOLEAN /\ draft[w] \in Entry /\ Shape
      /\ draft \in [Writers -> Entry \cup {None}]
  BY LenProperties DEF IInv, Shape, TypeOK
<1>1. draft'[w] = None
  BY <1>0
<1> SUFFICES ASSUME Readable(lines') PROVE VerifyChain(lines') = {}
  BY <1>1 DEF ChainInv, Readable, VerifyChain, LinkErrors, RecordErrors,
              ExpectedPrevious
<1>2. /\ Len(lines') = Len(lines) + 1
      /\ \A i \in 1..Len(lines) : lines'[i] = lines[i]
      /\ lines'[Len(lines) + 1] = draft[w]
  BY <1>0, PutAtEndShape
<1>3. Readable(lines)
  BY <1>0, <1>2 DEF Readable
<1>4. /\ VerifyChain(lines) = {}
      /\ draft[w].previous_hash = LastRecordHash(lines)
      /\ draft[w].record_hash = HashRecord(draft[w].payload)
  BY <1>3 DEF ChainInv, IInv, DraftsDigested
<1>5. ASSUME NEW i \in 1..Len(lines')
      PROVE  i \notin VerifyChain(lines')
  <2>1. CASE i \in 1..Len(lines)
    <3>1. /\ lines'[i] = lines[i]
          /\ i # 1 => lines'[i - 1] = lines[i - 1]
      BY <1>0, <1>2, <2>1
    <3>2. ExpectedPrevious(lines', i) = ExpectedPrevious(lines, i)
      BY <3>1 DEF ExpectedPrevious
    <3>3. QED
      BY <1>4, <2>1, <3>1, <3>2 DEF VerifyChain, LinkErrors, RecordErrors
  <2>2. CASE i = Len(lines) + 1
    <3>1. LastRecordHash(lines) = ExpectedPrevious(lines', i)
      <4>1. CASE lines = <<>>
        BY <2>2, <4>1 DEF LastRecordHash, ExpectedPrevious
      <4>2. CASE lines # <<>>
        <5>1. Len(lines) \in 1..Len(lines)
          BY <1>0, <4>2, EmptySeq
        <5>2. i # 1 /\ i - 1 = Len(lines) /\ lines'[i - 1] = lines[Len(lines)]
          BY <1>2, <2>2, <5>1
        <5>3. QED
          BY <4>2, <5>2 DEF LastRecordHash, ExpectedPrevious
      <4>3. QED
        BY <4>1, <4>2
    <3>2. lines'[i] = draft[w]
      BY <1>2, <2>2
    <3>3. QED
      BY <1>4, <3>1, <3>2 DEF VerifyChain, LinkErrors, RecordErrors
  <2>3. QED
    BY <1>0, <1>2, <2>1, <2>2
<1>6. VerifyChain(lines') \subseteq 1..Len(lines')
  BY DEF VerifyChain, LinkErrors, RecordErrors
<1>7. QED
  BY <1>5, <1>6

(* No step of the only writer breaks the chain or leaves it a stale draft. *)
LEMMA OneWriterStep ==
  ASSUME NEW writer, Writers = {writer}, EditsAllowed = FALSE
  PROVE  IInv /\ ChainInv /\ [Next]_vars => ChainInv'
<1> SUFFICES ASSUME IInv, ChainInv, [Next]_vars PROVE ChainInv'
  OBVIOUS
<1>0. /\ draft \in [Writers -> Entry \cup {None}] /\ Shape
  BY DEF IInv, Shape, TypeOK
<1>1. ASSUME NEW w \in Writers, NEW e \in Events, ReadTail(w, e)
      PROVE  ChainInv'
  <2>1. /\ lines' = lines /\ w = writer
        /\ draft'[w] = AttachHashChain(e, LastRecordHash(lines))
    BY <1>0, <1>1 DEF ReadTail
  <2>2. draft'[w].previous_hash = LastRecordHash(lines)
    BY <2>1 DEF AttachHashChain
  <2>3. QED
    BY <2>1, <2>2 DEF ChainInv
<1>2. ASSUME NEW w \in Writers, WriteLine(w)
      PROVE  ChainInv'
  BY <1>2, OneWriterWrites DEF WriteLine
<1>3. ASSUME NEW w \in Writers, DieBeforeWrite(w)
      PROVE  ChainInv'
  BY <1>0, <1>3 DEF DieBeforeWrite, ChainInv
<1>4. ASSUME NEW w \in Writers, DieInsideWrite(w)
      PROVE  ChainInv'
  <2>1. CASE lines' = PutAtEnd(lines, Unparsable)
    <3>1. ~Readable(lines')
      BY <1>0, <2>1, PutUnparsable
    <3>2. QED
      BY <3>1 DEF ChainInv, Readable
  <2>2. CASE lines' = PutAtEnd(lines, draft[w])
    BY <1>4, <2>2, OneWriterWrites DEF DieInsideWrite
  <2>3. QED
    BY <1>4, <2>1, <2>2 DEF DieInsideWrite
<1>5. ASSUME NEW i \in 1..Len(lines), NEW e \in Events, EditPayload(i, e)
      PROVE  ChainInv'
  BY <1>5 DEF EditPayload
<1>6. CASE UNCHANGED vars
  BY <1>6 DEF vars, ChainInv
<1>7. QED
  BY <1>1, <1>2, <1>3, <1>4, <1>5, <1>6 DEF Next

(* With one writer and no edits the chain of a readable file is intact,    *)
(* wherever the writer dies.                                               *)
THEOREM OneWriterKeepsChain ==
  ASSUME NEW writer, Writers = {writer}, EditsAllowed = FALSE
  PROVE  Spec => []ChainIntact
<1>1. Init => IInv /\ ChainInv
  BY EmptySeq DEF Init, IInv, Shape, TypeOK, DraftsDigested, DigestsKept,
                  DraftsSeen, LinksBack, ChainInv, VerifyChain, LinkErrors,
                  RecordErrors
<1>2. IInv /\ ChainInv /\ [Next]_vars => ChainInv'
  BY OneWriterStep
<1>3. ChainInv => ChainIntact
  BY DEF ChainInv, ChainIntact
<1>4. QED
  BY <1>1, <1>2, <1>3, IInvStep, PTL DEF Spec

(* Nothing of an append is on the file until all of it is.                 *)
WholeInv == terminated /\ Readable(lines)

(* One writer that never dies inside a write implements the log ADR-0014   *)
(* describes: each write is one atomic Add, every other step a stutter.    *)
THEOREM OneWriterImplementsADR ==
  ASSUME NEW writer, Writers = {writer}, EditsAllowed = FALSE,
         TearPoints \subseteq {"before"}
  PROVE  Spec => ImplementsChainedLog
<1> DEFINE Inv == IInv /\ ChainInv /\ WholeInv
<1>1. Init => Inv /\ ADR!Init
  BY EmptySeq DEF Init, IInv, Shape, TypeOK, DraftsDigested, DigestsKept,
                  DraftsSeen, LinksBack, ChainInv, VerifyChain, LinkErrors,
                  RecordErrors, WholeInv, Readable, ADR!Init
<1>2. Inv /\ [Next]_vars => WholeInv' /\ [ADR!Next]_lines
  <2> SUFFICES ASSUME Inv, [Next]_vars PROVE WholeInv' /\ [ADR!Next]_lines
    OBVIOUS
  <2>0. /\ draft \in [Writers -> Entry \cup {None}] /\ Shape
        /\ lines \in Seq(Entry \cup {Unparsable}) /\ Len(lines) \in Nat
        /\ terminated /\ Readable(lines)
    BY LenProperties DEF IInv, Shape, TypeOK, WholeInv
  <2>1. ASSUME NEW w \in Writers, NEW e \in Events, ReadTail(w, e)
        PROVE  WholeInv' /\ UNCHANGED lines
    BY <2>0, <2>1 DEF ReadTail, WholeInv
  <2>2. ASSUME NEW w \in Writers, WriteLine(w)
        PROVE  WholeInv' /\ ADR!Next
    <3> DEFINE d == draft[w]
    <3>1. /\ d \in Entry /\ d # None
          /\ d.record_hash = HashRecord(d.payload)
          /\ d.previous_hash = LastRecordHash(lines)
      BY <2>0, <2>2 DEF WriteLine, IInv, DraftsDigested, ChainInv
    <3>2. lines' = Append(lines, d)
      BY <2>0, <2>2 DEF WriteLine, PutAtEnd
    <3>3. d.payload \in Events
      BY <3>1, EntryFields
    <3>4. d = ADR!AttachHashChain(d.payload, ADR!TailHash(lines))
      BY <3>1 DEF Entry, HashRecord, LastRecordHash, ADR!AttachHashChain,
                  ADR!HashRecord, ADR!TailHash
    <3>5. ADR!Next
      BY <3>2, <3>3, <3>4 DEF ADR!Next, ADR!Add
    <3>6. d # Unparsable
      BY <3>1, EntryFields
    <3>7. Readable(lines')
      BY <2>0, <3>1, <3>2, <3>6, AppendProperties DEF Readable
    <3>8. terminated'
      BY <2>2 DEF WriteLine
    <3>9. QED
      BY <3>5, <3>7, <3>8 DEF WholeInv, Readable
  <2>3. ASSUME NEW w \in Writers, DieBeforeWrite(w)
        PROVE  WholeInv' /\ UNCHANGED lines
    BY <2>0, <2>3 DEF DieBeforeWrite, WholeInv
  <2>4. ASSUME NEW w \in Writers, DieInsideWrite(w)
        PROVE  FALSE
    BY <2>4 DEF DieInsideWrite
  <2>5. ASSUME NEW i \in 1..Len(lines), NEW e \in Events, EditPayload(i, e)
        PROVE  FALSE
    BY <2>5 DEF EditPayload
  <2>6. CASE UNCHANGED vars
    BY <2>0, <2>6 DEF vars, WholeInv
  <2>7. QED
    BY <2>1, <2>2, <2>3, <2>4, <2>5, <2>6 DEF Next
<1>3. IInv /\ ChainInv /\ [Next]_vars => ChainInv'
  BY OneWriterStep
<1>4. QED
  BY <1>1, <1>2, <1>3, IInvStep, PTL DEF Spec, ImplementsChainedLog, ADR!Spec

=============================================================================
