--------------------------- MODULE WorkbenchProofs ---------------------------
(***************************************************************************)
(* Gates and promotions, for any number of findings, reviewers, dates and  *)
(* ledger lines: theorems of Workbench.                                    *)
(***************************************************************************)
EXTENDS Workbench, DataLemmas

(* What the files and the commands under way look like.                    *)
IdType == Seq(Findings \cup ClaimStates)

IsPromotion(c) ==
  /\ c.payload.id \in IdType
  /\ c.payload.supersedes \in IdType
  /\ Len(c.payload.supersedes) >= 1
  /\ Len(c.payload.id) = Len(c.payload.supersedes) + 1

Shape ==
  /\ ledger \in Seq(LedgerEvent \cup {Torn})
  /\ stored \in [Findings -> ClaimStates \cup DOMAIN Aliases]
  /\ today \in 0..MaxDay
  /\ \A path \in DOMAIN promotions :
       /\ path \in (0..today) \X IdType
       /\ Len(path[2]) > 1
       /\ promotions[path] # Torn =>
            promotions[path].payload.id = path[2] /\ IsPromotion(promotions[path])
  /\ command \in [Reviewers -> {command[r] : r \in Reviewers}]
  /\ \A r \in Reviewers : command[r] # None => IsPromotion(command[r])

-----------------------------------------------------------------------------

LEMMA IdsType ==
  ASSUME Shape, NEW id \in Ids
  PROVE  id \in IdType /\ Len(id) >= 1 /\ (Len(id) = 1 => id = <<id[1]>> /\ id[1] \in Findings)
<1>1. CASE \E f \in Findings : id = <<f>>
  BY <1>1 DEF IdType
<1>2. CASE \E path \in DOMAIN promotions : id = path[2]
  BY <1>2 DEF Shape, IdType
<1>. QED  BY <1>1, <1>2 DEF Ids

LEMMA IdLen ==
  ASSUME NEW id \in IdType
  PROVE  Len(id) \in Nat
BY DEF IdType

LEMMA AboveOne ==
  \A n \in Nat :
    /\ n > 2 => n > 1
    /\ n > 1 => n # 1
    /\ \A m \in Nat : m = n + 1 /\ m > 2 => n > 1
OBVIOUS

LEMMA DatesType ==
  ASSUME NEW id
  PROVE  DatesOf(id) \in SUBSET Nat /\ DatesOf(id)' \in SUBSET Nat
BY DEF DatesOf

(* A promotion that the scan finds is a file that parses.                  *)
LEMMA FoundIsFile ==
  ASSUME NEW id, Len(id) # 1, FindRecord(id) # None
  PROVE  \E d \in DatesOf(id) :
           /\ \A e \in DatesOf(id) : d <= e
           /\ <<d, id>> \in DOMAIN promotions
           /\ promotions[<<d, id>>] # Torn
           /\ FindRecord(id) = promotions[<<d, id>>]
<1>1. DatesOf(id) # {}
  BY DEF FindRecord
<1>2. Min(DatesOf(id)) \in DatesOf(id) /\ \A e \in DatesOf(id) : Min(DatesOf(id)) <= e
  BY <1>1, DatesType, MinIs
<1>. QED  BY <1>1, <1>2 DEF FindRecord, DatesOf

LEMMA FoundShape ==
  ASSUME Shape, NEW id \in Ids, FindRecord(id) # None
  PROVE  FindRecord(id).payload.id = id
<1>1. CASE Len(id) = 1
  BY <1>1, IdsType DEF FindRecord, EngineRecord
<1>2. CASE Len(id) # 1
  <2>1. PICK d \in DatesOf(id) :
          /\ <<d, id>> \in DOMAIN promotions
          /\ promotions[<<d, id>>] # Torn
          /\ FindRecord(id) = promotions[<<d, id>>]
    BY <1>2, FoundIsFile
  <2>2. promotions[<<d, id>>].payload.id = id
    BY <2>1 DEF Shape
  <2>. QED  BY <2>1, <2>2
<1>. QED  BY <1>1, <1>2

-----------------------------------------------------------------------------
(* The shape is kept.                                                      *)

LEMMA PutFacts ==
  ASSUME NEW r \in Reviewers, NEW content, Put(r, content)
  PROVE  LET path == <<today, command[r].payload.id>>
         IN /\ DOMAIN promotions' = DOMAIN promotions \cup {path}
            /\ promotions'[path] = content
            /\ \A p \in DOMAIN promotions : p # path => promotions'[p] = promotions[p]
            /\ command[r] # None
            /\ command' = [command EXCEPT ![r] = None]
            /\ UNCHANGED <<ledger, stored, today>>
            /\ ~RepeatsAllowed => path \notin DOMAIN promotions
BY DEF Put, PathFree, gateVars

LEMMA PromotedShape ==
  ASSUME Shape, NEW r \in Reviewers, NEW id \in Ids, NEW to \in Targets, Promote(r, id, to)
  PROVE  /\ command' = [command EXCEPT ![r] = command'[r]]
         /\ command'[r] = PromotedRecord(FindRecord(id), Canonical(to), r)
         /\ command'[r].payload.supersedes = id
         /\ command'[r].payload.claim_state = Canonical(to)
         /\ IsPromotion(command'[r])
         /\ UNCHANGED <<ledger, stored, promotions, today>>
<1>. DEFINE new == PromotedRecord(FindRecord(id), Canonical(to), r)
<1>1. /\ command' = [command EXCEPT ![r] = new]
      /\ FindRecord(id) # None
      /\ Canonical(to) \in ClaimStates
      /\ UNCHANGED <<ledger, stored, promotions, today>>
  BY DEF Promote, KnownState, gateVars
<1>2. FindRecord(id).payload.id = id
  BY <1>1, FoundShape
<1>3. id \in IdType /\ Len(id) >= 1
  BY IdsType
<1>4. /\ new.payload.id = Append(id, Canonical(to))
      /\ new.payload.supersedes = id
      /\ new.payload.claim_state = Canonical(to)
  BY <1>2 DEF PromotedRecord
<1>5. Append(id, Canonical(to)) \in IdType /\ Len(Append(id, Canonical(to))) = Len(id) + 1
  BY <1>1, <1>3 DEF IdType
<1>6. IsPromotion(new)
  BY <1>3, <1>4, <1>5 DEF IsPromotion
<1>7. command'[r] = new
  BY <1>1 DEF Shape
<1>. QED  BY <1>1, <1>4, <1>6, <1>7

LEMMA ShapeStep == Shape /\ [Next]_vars => Shape'
<1>. SUFFICES ASSUME Shape, [Next]_vars PROVE Shape'
  OBVIOUS
<1>. USE DEF IsPromotion, IdType
<1>1. ASSUME NEW line \in LedgerEvent \cup {Torn}, AppendLedger(line),
             UNCHANGED <<workbenchVars, today>>
      PROVE  Shape'
  BY <1>1 DEF AppendLedger, workbenchVars, Shape
<1>2. ASSUME NEW f \in Findings, EnterReviewedEmbargoed(f) \/ EnterDisclosedPublic(f),
             UNCHANGED <<workbenchVars, today>>
      PROVE  Shape'
  <2>1. {"reviewed_embargoed", "disclosed_public"} \subseteq ClaimStates
    BY DEF ClaimStates, ClaimStateNames, Range
  <2>. QED
    BY <1>2, <2>1
    DEF EnterReviewedEmbargoed, EnterDisclosedPublic, Enter, workbenchVars, Shape
<1>3. CASE Midnight
  <2>1. /\ today' = today + 1 /\ today' \in 0..MaxDay
        /\ UNCHANGED <<ledger, stored, promotions, command>>
    BY <1>3, WorkbenchAssumption DEF Midnight, gateVars, workbenchVars, Shape
  <2>2. 0..today \subseteq 0..today'
    BY <2>1 DEF Shape
  <2>. QED  BY <2>1, <2>2 DEF Shape
<1>4. ASSUME NEW r \in Reviewers, NEW id \in Ids, NEW to \in Targets, Promote(r, id, to)
      PROVE  Shape'
  <2>1. /\ command' = [command EXCEPT ![r] = command'[r]]
        /\ IsPromotion(command'[r])
        /\ UNCHANGED <<ledger, stored, promotions, today>>
    BY <1>4, PromotedShape
  <2>2. \A q \in Reviewers : command'[q] # None => IsPromotion(command'[q])
    <3>. SUFFICES ASSUME NEW q \in Reviewers, command'[q] # None PROVE IsPromotion(command'[q])
      OBVIOUS
    <3>1. CASE q = r
      BY <2>1, <3>1
    <3>2. CASE q # r
      <4>1. command'[q] = command[q]
        BY <2>1, <3>2 DEF Shape
      <4>. QED  BY <4>1 DEF Shape
    <3>. QED  BY <3>1, <3>2
  <2>3. command' \in [Reviewers -> {command'[q] : q \in Reviewers}]
    BY <2>1 DEF Shape
  <2>. QED  BY <2>1, <2>2, <2>3 DEF Shape
<1>5. ASSUME NEW r \in Reviewers, WritePromotion(r) \/ CrashWhileWriting(r)
      PROVE  Shape'
  <2>1. PICK content \in {command[r], Torn} : Put(r, content)
    BY <1>5 DEF WritePromotion, CrashWhileWriting
  <2>. DEFINE path == <<today, command[r].payload.id>>
  <2>2. /\ DOMAIN promotions' = DOMAIN promotions \cup {path}
        /\ promotions'[path] = content
        /\ \A p \in DOMAIN promotions : p # path => promotions'[p] = promotions[p]
        /\ command[r] # None
        /\ command' = [command EXCEPT ![r] = None]
        /\ UNCHANGED <<ledger, stored, today>>
    BY <2>1, PutFacts
  <2>3. IsPromotion(command[r])
    BY <2>2 DEF Shape
  <2>4. path \in (0..today) \X IdType /\ Len(path[2]) > 1
    BY <2>3 DEF Shape
  <2>5. \A p \in DOMAIN promotions' :
          /\ p \in (0..today) \X IdType
          /\ Len(p[2]) > 1
          /\ promotions'[p] # Torn =>
               promotions'[p].payload.id = p[2] /\ IsPromotion(promotions'[p])
    <3>. SUFFICES ASSUME NEW p \in DOMAIN promotions'
                  PROVE  /\ p \in (0..today) \X IdType
                         /\ Len(p[2]) > 1
                         /\ promotions'[p] # Torn =>
                              promotions'[p].payload.id = p[2] /\ IsPromotion(promotions'[p])
      OBVIOUS
    <3>1. CASE p = path
      <4>1. promotions'[p] # Torn => promotions'[p] = command[r]
        BY <2>2, <3>1
      <4>. QED  BY <2>3, <2>4, <3>1, <4>1
    <3>2. CASE p # path
      <4>1. p \in DOMAIN promotions /\ promotions'[p] = promotions[p]
        BY <2>2, <3>2
      <4>. QED  BY <4>1 DEF Shape
    <3>. QED  BY <3>1, <3>2
  <2>6. \A q \in Reviewers : command'[q] # None => IsPromotion(command'[q])
    BY <2>2 DEF Shape
  <2>7. command' \in [Reviewers -> {command'[q] : q \in Reviewers}]
    BY <2>2 DEF Shape
  <2>. QED  BY <2>2, <2>5, <2>6, <2>7 DEF Shape
<1>6. ASSUME NEW r \in Reviewers, CrashBeforeOpen(r) PROVE Shape'
  BY <1>6 DEF CrashBeforeOpen, gateVars, Shape
<1>7. CASE UNCHANGED vars
  BY <1>7 DEF vars, Shape
<1>. QED
  BY <1>1, <1>2, <1>3, <1>4, <1>5, <1>6, <1>7 DEF Next, Gates, GateNext

LEMMA ShapeHolds == Spec => []Shape
<1>1. Init => Shape
  BY GatesAssumption, WorkbenchAssumption DEF Init, GateInit, Shape
<1>. QED  BY <1>1, ShapeStep, PTL DEF Spec

-----------------------------------------------------------------------------
(* Promotions are additive.                                                *)

(* Unless a path is written twice, what the scan found once it finds again: *)
(* a new file of the same id lies under a later date.                      *)
LEMMA FoundStays ==
  ASSUME Shape, ~RepeatsAllowed, [Next]_vars,
         NEW id, Len(id) # 1, FindRecord(id) # None
  PROVE  FindRecord(id)' = FindRecord(id)
<1>1. PICK d \in DatesOf(id) :
        /\ \A e \in DatesOf(id) : d <= e
        /\ <<d, id>> \in DOMAIN promotions
        /\ promotions[<<d, id>>] # Torn
        /\ FindRecord(id) = promotions[<<d, id>>]
  BY FoundIsFile
<1>2. ASSUME UNCHANGED promotions PROVE FindRecord(id)' = FindRecord(id)
  BY <1>2 DEF FindRecord, DatesOf
<1>3. ASSUME NEW r \in Reviewers, NEW content, Put(r, content)
      PROVE  FindRecord(id)' = FindRecord(id)
  <2>. DEFINE path == <<today, command[r].payload.id>>
  <2>1. /\ DOMAIN promotions' = DOMAIN promotions \cup {path}
        /\ \A p \in DOMAIN promotions : promotions'[p] = promotions[p]
    BY <1>3, PutFacts
  <2>2. d \in 0..today
    BY <1>1 DEF Shape
  <2>3. DatesOf(id) \subseteq DatesOf(id)' /\ DatesOf(id)' \subseteq DatesOf(id) \cup {today}
    BY <2>1 DEF DatesOf
  <2>4. d \in DatesOf(id)' /\ \A e \in DatesOf(id)' : d <= e
    BY <1>1, <2>2, <2>3 DEF Shape
  <2>5. Min(DatesOf(id)') \in DatesOf(id)' /\ \A e \in DatesOf(id)' : Min(DatesOf(id)') <= e
    BY <2>4, DatesType, MinIs
  <2>6. Min(DatesOf(id)') = d
    BY <2>4, <2>5, DatesType
  <2>7. FindRecord(id)' = promotions'[<<d, id>>]
    BY <2>4, <2>6 DEF FindRecord
  <2>. QED  BY <1>1, <2>1, <2>7
<1>. QED
  BY <1>2, <1>3
  DEF Next, vars, Gates, workbenchVars, Midnight, Promote, WritePromotion,
      CrashBeforeOpen, CrashWhileWriting

(* What the workbench shows under a promotion's id stays, as long as no    *)
(* promotion is made twice on one date.                                    *)
THEOREM PromotionsStay == ~RepeatsAllowed => (Spec => PromotionsAdditive)
<1>1. ASSUME ~RepeatsAllowed
      PROVE  Shape /\ [Next]_vars =>
               [\A id \in Ids :
                  Len(id) > 1 /\ FindRecord(id) # None =>
                    FindRecord(id)' = FindRecord(id)]_vars
  <2>. SUFFICES ASSUME Shape, [Next]_vars, NEW id \in Ids, Len(id) > 1, FindRecord(id) # None
                PROVE  FindRecord(id)' = FindRecord(id)
    OBVIOUS
  <2>1. Len(id) \in Nat
    BY IdsType, IdLen
  <2>2. Len(id) # 1
    BY <2>1, AboveOne, Zenon
  <2>. QED  BY <1>1, <2>2, FoundStays
<1>2. CASE RepeatsAllowed
  BY <1>2
<1>3. CASE ~RepeatsAllowed
  BY <1>1, <1>3, ShapeHolds, PTL DEF Spec, PromotionsAdditive
<1>. QED  BY <1>2, <1>3

-----------------------------------------------------------------------------
(* The supersedes chain is linked.                                         *)

Linked(c) ==
  Len(c.payload.id) > 2 =>
    /\ FindRecord(c.payload.supersedes) # None
    /\ c.previous_hash = FindRecord(c.payload.supersedes).record_hash

AllLinked ==
  /\ \A path \in DOMAIN promotions : promotions[path] # Torn => Linked(promotions[path])
  /\ \A r \in Reviewers : command[r] # None => Linked(command[r])

LEMMA LinkedStep ==
  ASSUME ~RepeatsAllowed
  PROVE  Shape /\ AllLinked /\ [Next]_vars => AllLinked'
<1>. SUFFICES ASSUME Shape, AllLinked, [Next]_vars PROVE AllLinked'
  OBVIOUS
<1>1. ASSUME NEW c, IsPromotion(c), Linked(c)
      PROVE  Len(c.payload.id) > 2 =>
               /\ FindRecord(c.payload.supersedes)' # None
               /\ c.previous_hash = FindRecord(c.payload.supersedes)'.record_hash
  <2>. SUFFICES ASSUME Len(c.payload.id) > 2
                PROVE  /\ FindRecord(c.payload.supersedes)' # None
                       /\ c.previous_hash = FindRecord(c.payload.supersedes)'.record_hash
    OBVIOUS
  <2>1. Len(c.payload.supersedes) # 1
    <3>1. /\ Len(c.payload.supersedes) \in Nat
          /\ Len(c.payload.id) \in Nat
          /\ Len(c.payload.id) = Len(c.payload.supersedes) + 1
      BY <1>1, IdLen DEF IsPromotion
    <3>. QED  BY <3>1, AboveOne, Zenon
  <2>2. FindRecord(c.payload.supersedes) # None
    BY <1>1 DEF Linked
  <2>3. FindRecord(c.payload.supersedes)' = FindRecord(c.payload.supersedes)
    BY <2>1, <2>2, FoundStays
  <2>. QED  BY <1>1, <2>2, <2>3 DEF Linked
<1>2. ASSUME UNCHANGED <<promotions, command>> PROVE AllLinked'
  BY <1>1, <1>2 DEF AllLinked, Linked, Shape
<1>3. ASSUME NEW r \in Reviewers, NEW id \in Ids, NEW to \in Targets, Promote(r, id, to)
      PROVE  AllLinked'
  <2>1. PICK c : c = PromotedRecord(FindRecord(id), Canonical(to), r)
    OBVIOUS
  <2>2. /\ command' = [command EXCEPT ![r] = command'[r]] /\ command'[r] = c
        /\ c.payload.supersedes = id /\ IsPromotion(c)
        /\ UNCHANGED promotions
    BY <1>3, <2>1, PromotedShape
  <2>3. Linked(c)
    BY <1>3, <2>1, <2>2 DEF Linked, PromotedRecord, Promote
  <2>4. Linked(c)'
    BY <1>1, <2>2, <2>3 DEF Linked
  <2>5. \A q \in Reviewers : command'[q] # None => Linked(command[q])'
    <3>. SUFFICES ASSUME NEW q \in Reviewers, command'[q] # None PROVE Linked(command[q])'
      OBVIOUS
    <3>1. CASE q = r
      BY <2>2, <2>4, <3>1 DEF Linked
    <3>2. CASE q # r
      <4>1. command'[q] = command[q]
        BY <2>2, <3>2 DEF Shape
      <4>2. IsPromotion(command[q]) /\ Linked(command[q])
        BY <4>1 DEF Shape, AllLinked
      <4>. QED  BY <1>1, <4>1, <4>2 DEF Linked
    <3>. QED  BY <3>1, <3>2
  <2>6. \A p \in DOMAIN promotions' : promotions'[p] # Torn => Linked(promotions[p])'
    <3>. SUFFICES ASSUME NEW p \in DOMAIN promotions, promotions[p] # Torn
                  PROVE  Linked(promotions[p])'
      BY <2>2
    <3>1. IsPromotion(promotions[p]) /\ Linked(promotions[p])
      BY DEF Shape, AllLinked
    <3>. QED  BY <1>1, <2>2, <3>1 DEF Linked
  <2>. QED  BY <2>5, <2>6 DEF AllLinked
<1>4. ASSUME NEW r \in Reviewers, WritePromotion(r) \/ CrashWhileWriting(r)
      PROVE  AllLinked'
  <2>1. PICK content \in {command[r], Torn} : Put(r, content)
    BY <1>4 DEF WritePromotion, CrashWhileWriting
  <2>. DEFINE path == <<today, command[r].payload.id>>
  <2>2. /\ DOMAIN promotions' = DOMAIN promotions \cup {path}
        /\ promotions'[path] = content
        /\ \A p \in DOMAIN promotions : p # path => promotions'[p] = promotions[p]
        /\ command[r] # None
        /\ command' = [command EXCEPT ![r] = None]
    BY <2>1, PutFacts
  <2>3. IsPromotion(command[r]) /\ Linked(command[r])
    BY <2>2 DEF Shape, AllLinked
  <2>. QED  BY <1>1, <2>2, <2>3 DEF AllLinked, Linked, Shape
<1>5. ASSUME NEW r \in Reviewers, CrashBeforeOpen(r) PROVE AllLinked'
  BY <1>1, <1>5 DEF CrashBeforeOpen, AllLinked, Linked, Shape
<1>. QED
  BY <1>2, <1>3, <1>4, <1>5 DEF Next, vars, Gates, workbenchVars, Midnight

(* Each promotion of a promotion is linked to the record the workbench     *)
(* shows for its prior, as long as no promotion is made twice on one date. *)
THEOREM LineageLinked == ~RepeatsAllowed => (Spec => []SupersedesLinked)
<1>1. Init => AllLinked
  BY DEF Init, AllLinked
<1>2. ASSUME Shape, AllLinked, NEW record \in Records, Len(record.payload.id) > 2
      PROVE  /\ FindRecord(record.payload.supersedes) # None
             /\ record.previous_hash = FindRecord(record.payload.supersedes).record_hash
  <2>1. PICK id \in Ids : record = FindRecord(id) /\ FindRecord(id) # None
    BY <1>2 DEF Records
  <2>2. record.payload.id = id
    BY <1>2, <2>1, FoundShape
  <2>3. PICK d \in DatesOf(id) :
          /\ <<d, id>> \in DOMAIN promotions
          /\ promotions[<<d, id>>] # Torn
          /\ FindRecord(id) = promotions[<<d, id>>]
    <3>1. Len(id) \in Nat /\ Len(id) > 2
      BY <1>2, <2>1, <2>2, IdsType, IdLen
    <3>2. Len(id) # 1
      BY <3>1, AboveOne, Zenon
    <3>. QED  BY <2>1, <3>2, FoundIsFile
  <2>. QED  BY <1>2, <2>1, <2>3 DEF AllLinked, Linked
<1>3. Shape /\ AllLinked => SupersedesLinked
  BY <1>2 DEF SupersedesLinked
<1>4. CASE RepeatsAllowed
  BY <1>4
<1>5. CASE ~RepeatsAllowed
  BY <1>1, <1>3, <1>5, LinkedStep, ShapeHolds, PTL DEF Spec
<1>. QED  BY <1>4, <1>5

-----------------------------------------------------------------------------
(* The disclosure states need their events.                                *)

(* Neither engines nor reviewers give a record a disclosure state.         *)
LeftToGates ==
  /\ InitialStates \cap {"reviewed_embargoed", "disclosed_public"} = {}
  /\ \A to \in Targets : Canonical(to) # "disclosed_public"

(* Stronger than PublicHasEvents: the contact is on the ledger as soon as  *)
(* the record is embargoed, for the second gate does not look for it.      *)
Backed ==
  /\ \A f \in Findings :
       /\ stored[f] \in {"reviewed_embargoed", "disclosed_public"} => Recorded(f, ContactEvents)
       /\ stored[f] = "disclosed_public" => Recorded(f, TerminalEvents)
  /\ \A path \in DOMAIN promotions :
       promotions[path] # Torn => promotions[path].payload.claim_state # "disclosed_public"
  /\ \A r \in Reviewers :
       command[r] # None => command[r].payload.claim_state # "disclosed_public"

(* What is on the ledger stays there.                                      *)
LEMMA RecordedStays ==
  ASSUME Shape, NEW line, AppendLedger(line), NEW f, NEW types, Recorded(f, types)
  PROVE  Recorded(f, types)'
<1>1. PICK i \in 1..Len(ledger) :
        ledger[i] # Torn /\ ledger[i].finding = f /\ ledger[i].type \in types
  BY DEF Recorded
<1>2. i \in 1..Len(ledger') /\ ledger'[i] = ledger[i]
  BY DEF AppendLedger, Shape
<1>. QED  BY <1>1, <1>2 DEF Recorded

LEMMA BackedStep ==
  ASSUME LeftToGates
  PROVE  Shape /\ Backed /\ [Next]_vars => Backed'
<1>. SUFFICES ASSUME Shape, Backed, [Next]_vars PROVE Backed'
  OBVIOUS
<1>1. ASSUME NEW line \in LedgerEvent \cup {Torn}, AppendLedger(line),
             UNCHANGED <<workbenchVars, today>>
      PROVE  Backed'
  <2>1. UNCHANGED <<stored, promotions, command>>
    BY <1>1 DEF AppendLedger, workbenchVars
  <2>2. \A f, types : Recorded(f, types) => Recorded(f, types)'
    BY <1>1, RecordedStays
  <2>. QED  BY <2>1, <2>2 DEF Backed
<1>2. ASSUME NEW f \in Findings, EnterReviewedEmbargoed(f) \/ EnterDisclosedPublic(f),
             UNCHANGED <<workbenchVars, today>>
      PROVE  Backed'
  <2>1. UNCHANGED <<ledger, promotions, command>>
    BY <1>2 DEF EnterReviewedEmbargoed, EnterDisclosedPublic, Enter, workbenchVars
  <2>2. \A g, types : Recorded(g, types)' <=> Recorded(g, types)
    BY <2>1 DEF Recorded
  <2>3. \A types : LedgerHasEvent(f, types) => Recorded(f, types)
    BY DEF LedgerHasEvent, Recorded
  <2>4. \A g \in Findings : g # f => stored'[g] = stored[g]
    BY <1>2 DEF EnterReviewedEmbargoed, EnterDisclosedPublic, Enter, Shape
  <2>5. CASE EnterReviewedEmbargoed(f)
    <3>1. stored'[f] = "reviewed_embargoed" /\ Recorded(f, ContactEvents)
      BY <2>3, <2>5 DEF EnterReviewedEmbargoed, Enter, Shape
    <3>. QED  BY <2>1, <2>2, <2>4, <3>1 DEF Backed
  <2>6. CASE EnterDisclosedPublic(f)
    <3>1. /\ stored[f] = "reviewed_embargoed"
          /\ stored'[f] = "disclosed_public" /\ Recorded(f, TerminalEvents)
      BY <2>3, <2>6 DEF EnterDisclosedPublic, Enter, Shape
    <3>2. Recorded(f, ContactEvents)
      BY <3>1 DEF Backed
    <3>3. \A g \in Findings :
            /\ stored'[g] \in {"reviewed_embargoed", "disclosed_public"}
                 => Recorded(g, ContactEvents)
            /\ stored'[g] = "disclosed_public" => Recorded(g, TerminalEvents)
      BY <2>4, <3>1, <3>2 DEF Backed
    <3>. QED  BY <2>1, <2>2, <3>3 DEF Backed
  <2>. QED  BY <1>2, <2>5, <2>6
<1>3. ASSUME NEW r \in Reviewers, NEW id \in Ids, NEW to \in Targets, Promote(r, id, to)
      PROVE  Backed'
  <2>1. /\ command' = [command EXCEPT ![r] = command'[r]]
        /\ command'[r].payload.claim_state # "disclosed_public"
        /\ UNCHANGED <<ledger, stored, promotions>>
    BY <1>3, PromotedShape DEF LeftToGates
  <2>2. \A q \in Reviewers : q # r => command'[q] = command[q]
    BY <2>1 DEF Shape
  <2>. QED  BY <2>1, <2>2 DEF Backed, Recorded
<1>4. ASSUME NEW r \in Reviewers, WritePromotion(r) \/ CrashWhileWriting(r)
      PROVE  Backed'
  <2>1. PICK content \in {command[r], Torn} : Put(r, content)
    BY <1>4 DEF WritePromotion, CrashWhileWriting
  <2>. DEFINE path == <<today, command[r].payload.id>>
  <2>2. /\ DOMAIN promotions' = DOMAIN promotions \cup {path}
        /\ promotions'[path] = content
        /\ \A p \in DOMAIN promotions : p # path => promotions'[p] = promotions[p]
        /\ command[r] # None /\ command' = [command EXCEPT ![r] = None]
        /\ UNCHANGED <<ledger, stored>>
    BY <2>1, PutFacts
  <2>3. content # Torn => content.payload.claim_state # "disclosed_public"
    BY <2>1, <2>2 DEF Backed
  <2>4. \A p \in DOMAIN promotions' :
          promotions'[p] # Torn => promotions'[p].payload.claim_state # "disclosed_public"
    BY <2>2, <2>3 DEF Backed
  <2>5. \A q \in Reviewers :
          command'[q] # None => command'[q].payload.claim_state # "disclosed_public"
    BY <2>2 DEF Backed, Shape
  <2>6. \A g, types : Recorded(g, types)' <=> Recorded(g, types)
    BY <2>2 DEF Recorded
  <2>. QED  BY <2>2, <2>4, <2>5, <2>6 DEF Backed
<1>5. ASSUME NEW r \in Reviewers, CrashBeforeOpen(r) PROVE Backed'
  BY <1>5 DEF CrashBeforeOpen, gateVars, Backed, Recorded, Shape
<1>6. CASE Midnight
  BY <1>6 DEF Midnight, gateVars, workbenchVars, Backed, Recorded
<1>7. CASE UNCHANGED vars
  BY <1>7 DEF vars, Backed, Recorded
<1>. QED
  BY <1>1, <1>2, <1>3, <1>4, <1>5, <1>6, <1>7 DEF Next, Gates, GateNext

(* As long as the disclosure states are left to the gates, no record of a  *)
(* finding is public without both events on the ledger.                    *)
THEOREM PublicIsBacked == LeftToGates => (Spec => []PublicHasEvents)
<1>1. ASSUME LeftToGates PROVE Init => Backed
  BY <1>1 DEF Init, GateInit, LeftToGates, Backed
<1>2. ASSUME Shape, Backed, NEW record \in Records,
             record.payload.claim_state = "disclosed_public"
      PROVE  /\ Recorded(Finding(record), ContactEvents)
             /\ Recorded(Finding(record), TerminalEvents)
  <2>1. PICK id \in Ids : record = FindRecord(id) /\ FindRecord(id) # None
    BY <1>2 DEF Records
  <2>2. CASE Len(id) = 1
    <3>1. id = <<id[1]>> /\ id[1] \in Findings
      BY <1>2, <2>2, IdsType
    <3>2. record = EngineRecord(id[1])
      BY <2>1, <2>2 DEF FindRecord
    <3>3. stored[id[1]] = "disclosed_public" /\ Finding(record) = id[1]
      BY <1>2, <3>2 DEF EngineRecord, Finding
    <3>. QED  BY <1>2, <3>1, <3>3 DEF Backed
  <2>3. CASE Len(id) # 1
    <3>1. PICK d \in DatesOf(id) :
            /\ <<d, id>> \in DOMAIN promotions
            /\ promotions[<<d, id>>] # Torn
            /\ FindRecord(id) = promotions[<<d, id>>]
      BY <2>1, <2>3, FoundIsFile
    <3>. QED  BY <1>2, <2>1, <3>1 DEF Backed
  <2>. QED  BY <2>2, <2>3
<1>3. Shape /\ Backed => PublicHasEvents
  BY <1>2 DEF PublicHasEvents
<1>4. CASE LeftToGates
  BY <1>1, <1>3, <1>4, BackedStep, ShapeHolds, PTL DEF Spec
<1>5. CASE ~LeftToGates
  BY <1>5
<1>. QED  BY <1>4, <1>5
=============================================================================
