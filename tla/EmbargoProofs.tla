---------------------------- MODULE EmbargoProofs ----------------------------
(***************************************************************************)
(* What the embargo clock never does, for ledgers of any length, and the   *)
(* daily job that raises its milestones, for any number of overlapping     *)
(* runs, findings, milestones and events: theorems of EmbargoTimer and of  *)
(* EmbargoTick.  Most of the work of the first is to show that the two     *)
(* CHOOSEs of the timer, the latest event and the earliest contact, find   *)
(* something.                                                              *)
(***************************************************************************)
EXTENDS EmbargoTick, DataLemmas, TLAPS

(* The events of one finding.                                              *)

LEMMA DatesOfComputable ==
  ASSUME NEW es \in Seq(Event), Computable(es), NEW i \in 1..Len(es)
  PROVE  es[i].date \in 0..MaxDay
<1>1. es[i] \in Event
  OBVIOUS
<1>2. es[i].date \in Dates /\ es[i].date # Malformed
  BY <1>1 DEF Event, Computable
<1>. QED  BY <1>2 DEF Dates

(* What "the latest event" means: the greatest by date and then by line.   *)
IsLatest(es, f, i) ==
  /\ i \in Of(es, f)
  /\ \A j \in Of(es, f) :
       es[j].date < es[i].date \/ (es[j].date = es[i].date /\ j <= i)

LEMMA LatestExists ==
  ASSUME NEW es \in Seq(Event), Computable(es), NEW f \in Tracked(es)
  PROVE  IsLatest(es, f, LatestIndex(es, f))
<1>. DEFINE days == {es[i].date : i \in Of(es, f)}
<1>1. Of(es, f) # {} /\ Of(es, f) \subseteq 1..Len(es) /\ Len(es) \in Nat
  BY DEF Of, Tracked
<1>2. days \in SUBSET (0..MaxDay) /\ days # {}
  BY <1>1, DatesOfComputable
<1>3. PICK last \in days : \A d \in days : d <= last
  BY <1>2, Greatest, TimerAssumption
<1>. DEFINE those == {i \in Of(es, f) : es[i].date = last}
<1>4. those \in SUBSET (0..Len(es)) /\ those # {}
  BY <1>1, <1>3
<1>5. PICK i \in those : \A j \in those : j <= i
  BY <1>1, <1>4, Greatest
<1>6. \A j \in Of(es, f) : es[j].date \in 0..MaxDay
  BY <1>1, DatesOfComputable
<1>7. IsLatest(es, f, i)
  <2>1. i \in Of(es, f) /\ es[i].date = last
    OBVIOUS
  <2>2. ASSUME NEW j \in Of(es, f)
        PROVE  es[j].date < es[i].date \/ (es[j].date = es[i].date /\ j <= i)
    <3>1. es[j].date <= last
      BY <1>3
    <3>2. CASE es[j].date = last
      BY <3>2, <1>5, <2>1
    <3>3. CASE es[j].date # last
      BY <3>1, <3>3, <1>6, <2>1
    <3>. QED  BY <3>2, <3>3
  <2>. QED  BY <2>1, <2>2 DEF IsLatest
<1>. QED  BY <1>7 DEF IsLatest, LatestIndex

LEMMA LatestUnique ==
  ASSUME NEW es \in Seq(Event), Computable(es), NEW f \in Tracked(es),
         NEW i, IsLatest(es, f, i)
  PROVE  i = LatestIndex(es, f)
<1>. DEFINE k == LatestIndex(es, f)
<1>1. IsLatest(es, f, k)
  BY LatestExists
<1>2. i \in 1..Len(es) /\ k \in 1..Len(es)
  BY <1>1 DEF IsLatest, Of
<1>3. es[i].date \in Nat /\ es[k].date \in Nat
  BY <1>2, DatesOfComputable
<1>4. /\ es[k].date < es[i].date \/ (es[k].date = es[i].date /\ k <= i)
      /\ es[i].date < es[k].date \/ (es[i].date = es[k].date /\ i <= k)
  BY <1>1 DEF IsLatest
<1>. QED  BY <1>2, <1>3, <1>4

LEMMA ContactsType ==
  ASSUME NEW es \in Seq(Event), Computable(es), NEW f
  PROVE  ContactDates(es, f) \in SUBSET (0..MaxDay)
BY DatesOfComputable DEF ContactDates, Of

LEMMA StartDateType ==
  ASSUME NEW es \in Seq(Event), Computable(es), NEW f \in Tracked(es)
  PROVE  StartDate(es, f) \in 0..MaxDay
<1>1. LatestIndex(es, f) \in 1..Len(es)
  BY LatestExists DEF IsLatest, Of
<1>2. Latest(es, f).date \in 0..MaxDay
  BY <1>1, DatesOfComputable DEF Latest
<1>3. ContactDates(es, f) # {} => Min(ContactDates(es, f)) \in 0..MaxDay
  BY ContactsType, MinIs
<1>. QED  BY <1>2, <1>3 DEF StartDate

-----------------------------------------------------------------------------
(* What an append does to the clock of a finding f.                        *)

LEMMA AppendFacts ==
  ASSUME NEW es \in Seq(Event), NEW e \in Event,
         Computable(Append(es, e)), NEW f \in Tracked(es)
  PROVE  /\ Append(es, e) \in Seq(Event)
         /\ Computable(es)
         /\ f \in Tracked(Append(es, e))
         /\ \A i \in 1..Len(es) : Append(es, e)[i] = es[i]
         /\ Of(Append(es, e), f) =
              Of(es, f) \cup (IF e.finding = f THEN {Len(es) + 1} ELSE {})
<1>. DEFINE fs == Append(es, e)
<1>1. /\ fs \in Seq(Event) /\ Len(fs) = Len(es) + 1 /\ Len(es) \in Nat
      /\ fs[Len(es) + 1] = e
      /\ \A i \in 1..Len(es) : fs[i] = es[i]
  OBVIOUS
<1>2. Computable(es)
  BY <1>1 DEF Computable
<1>3. f \in Tracked(fs)
  BY <1>1 DEF Tracked
<1>4. 1..Len(fs) = 1..Len(es) \cup {Len(es) + 1} /\ Len(es) + 1 \notin 1..Len(es)
  BY <1>1
<1>5. Of(fs, f) = Of(es, f) \cup (IF e.finding = f THEN {Len(es) + 1} ELSE {})
  BY <1>1, <1>4 DEF Of
<1>. QED  BY <1>1, <1>2, <1>3, <1>5

(* Another finding's event changes nothing for f.                          *)
LEMMA OtherFinding ==
  ASSUME NEW es \in Seq(Event), NEW e \in Event,
         Computable(Append(es, e)), NEW f \in Tracked(es), e.finding # f
  PROVE  /\ Latest(Append(es, e), f) = Latest(es, f)
         /\ ContactDates(Append(es, e), f) = ContactDates(es, f)
<1>. DEFINE fs == Append(es, e)
<1>0. /\ fs \in Seq(Event) /\ Computable(es) /\ f \in Tracked(fs)
      /\ Of(fs, f) = Of(es, f) \cup (IF e.finding = f THEN {Len(es) + 1} ELSE {})
      /\ \A i \in 1..Len(es) : fs[i] = es[i]
  BY AppendFacts
<1>1. /\ fs \in Seq(Event) /\ Computable(es) /\ f \in Tracked(fs)
      /\ Of(fs, f) = Of(es, f)
      /\ \A i \in 1..Len(es) : fs[i] = es[i]
  BY <1>0
<1>2. \A i \in Of(es, f) : fs[i] = es[i]
  BY <1>1 DEF Of
<1>3. IsLatest(es, f, LatestIndex(fs, f))
  BY <1>1, <1>2, LatestExists DEF IsLatest
<1>4. LatestIndex(fs, f) = LatestIndex(es, f)
  BY <1>1, <1>3, LatestUnique
<1>5. LatestIndex(es, f) \in Of(es, f)
  BY <1>3, <1>4 DEF IsLatest
<1>6. Latest(fs, f) = Latest(es, f)
  BY <1>2, <1>4, <1>5 DEF Latest
<1>7. ContactDates(fs, f) = ContactDates(es, f)
  BY <1>1, <1>2 DEF ContactDates
<1>. QED  BY <1>6, <1>7

(* After an event of f that is not an extension, the clock of f starts no  *)
(* later than before, if the vendor had been contacted.                    *)
LEMMA StartMovesBack ==
  ASSUME NEW es \in Seq(Event), NEW e \in Event,
         Computable(Append(es, e)), NEW f \in Tracked(es),
         e.finding = f, e.type # "embargo_extended", ContactDates(es, f) # {}
  PROVE  StartDate(Append(es, e), f) <= StartDate(es, f)
<1>. DEFINE fs == Append(es, e)
            before == ContactDates(es, f)
            after == ContactDates(fs, f)
<1>1. /\ fs \in Seq(Event) /\ Computable(es) /\ Computable(fs) /\ f \in Tracked(fs)
      /\ Of(fs, f) = Of(es, f) \cup {Len(es) + 1}
      /\ \A i \in 1..Len(es) : fs[i] = es[i]
      /\ fs[Len(es) + 1] = e
      /\ Len(es) \in Nat
  BY AppendFacts
<1>2. \A i \in Of(es, f) : fs[i] = es[i] /\ i \in 1..Len(es)
  BY <1>1 DEF Of
<1>3. before \subseteq after
  BY <1>1, <1>2 DEF ContactDates
<1>4. before \in SUBSET (0..MaxDay) /\ after \in SUBSET (0..MaxDay)
  BY <1>1, ContactsType
<1>5. \A date \in before : Min(after) <= date
  BY <1>3, <1>4, MinIs
<1>6. IsLatest(es, f, LatestIndex(es, f)) /\ IsLatest(fs, f, LatestIndex(fs, f))
  BY <1>1, LatestExists
<1>7. CASE LatestIndex(fs, f) = Len(es) + 1
  <2>1. StartDate(fs, f) = Min(after)
    BY <1>1, <1>3, <1>7 DEF StartDate, Latest
  <2>2. PICK contact \in before : TRUE
    OBVIOUS
  <2>3. PICK i \in Of(es, f) : contact = es[i].date
    BY <2>2 DEF ContactDates
  <2>4. es[i].date <= Latest(es, f).date
    <3>1. /\ es[i].date \in 0..MaxDay
          /\ Latest(es, f).date \in 0..MaxDay
      BY <1>1, <1>2, <1>6, DatesOfComputable DEF Latest, IsLatest
    <3>. QED  BY <1>6, <3>1 DEF IsLatest, Latest
  <2>5. Min(after) \in 0..MaxDay /\ contact \in 0..MaxDay /\ Min(after) <= contact
    BY <1>3, <1>4, <1>5, MinIs
  <2>6. Latest(es, f).date \in 0..MaxDay
    BY <1>1, <1>2, <1>6, DatesOfComputable DEF Latest, IsLatest
  <2>7. Min(after) <= Latest(es, f).date
    BY <2>3, <2>4, <2>5, <2>6
  <2>8. Min(after) <= Min(before)
    BY <1>4, <1>5, MinIs
  <2>. QED  BY <2>1, <2>7, <2>8 DEF StartDate
<1>8. CASE LatestIndex(fs, f) # Len(es) + 1
  <2>1. IsLatest(es, f, LatestIndex(fs, f))
    BY <1>1, <1>2, <1>6, <1>8 DEF IsLatest
  <2>2. LatestIndex(fs, f) = LatestIndex(es, f)
    BY <1>1, <2>1, LatestUnique
  <2>3. Latest(fs, f) = Latest(es, f)
    BY <1>2, <1>6, <2>2 DEF Latest, IsLatest
  <2>4. Min(after) <= Min(before)
    BY <1>4, <1>5, MinIs
  <2>5. Latest(es, f).date \in 0..MaxDay
    BY <1>1, <1>2, <1>6, DatesOfComputable DEF Latest, IsLatest
  <2>. QED  BY <1>3, <2>3, <2>4, <2>5 DEF StartDate
<1>. QED  BY <1>7, <1>8

(* An earlier start or a later day takes no milestone back.                *)
LEMMA MilestonesGrow ==
  ASSUME NEW es, NEW fs, NEW f, NEW d \in Nat, NEW dd \in Nat,
         StartDate(es, f) \in Int, StartDate(fs, f) \in Int,
         StartDate(fs, f) <= StartDate(es, f), d <= dd
  PROVE  MilestonesCrossed(es, f, d) \subseteq MilestonesCrossed(fs, f, dd)
<1>1. \A m \in MilestoneDays : m \in Nat
  BY TimerAssumption
<1>2. DaysElapsed(es, f, d) <= DaysElapsed(fs, f, dd)
  BY DEF DaysElapsed
<1>3. DaysElapsed(es, f, d) \in Int /\ DaysElapsed(fs, f, dd) \in Int
  BY DEF DaysElapsed
<1>. QED  BY <1>1, <1>2, <1>3 DEF MilestonesCrossed

-----------------------------------------------------------------------------

LEMMA TimerTypeStep == TimerTypeOK /\ [TimerNext]_timerVars => TimerTypeOK'
<1>. SUFFICES ASSUME TimerTypeOK, [TimerNext]_timerVars PROVE TimerTypeOK'
  OBVIOUS
<1>. USE TimerAssumption DEF TimerTypeOK
<1>1. CASE NextDay
  BY <1>1 DEF NextDay
<1>2. ASSUME NEW e \in Event, AppendEvent(e) PROVE TimerTypeOK'
  BY <1>2 DEF AppendEvent
<1>3. CASE UNCHANGED timerVars
  BY <1>3 DEF timerVars
<1>. QED  BY <1>1, <1>2, <1>3 DEF TimerNext

(* The ledger holds well-formed events and the day stays in its range.     *)
THEOREM TimerTypes == TimerSpec => []TimerTypeOK
<1>1. TimerInit => TimerTypeOK
  BY TimerAssumption DEF TimerInit, TimerTypeOK
<1>. QED  BY <1>1, TimerTypeStep, PTL DEF TimerSpec

(* Once the vendor was contacted, only an embargo_extended of the finding  *)
(* itself takes a milestone back: embargo_timer.py, for every ledger.      *)
THEOREM TimerWithdraws == TimerSpec => OnlyExtensionWithdraws
<1>. DEFINE Kept(f) ==
       \/ MilestonesCrossed(events, f, today)
            \subseteq MilestonesCrossed(events, f, today)'
       \/ /\ Len(events') > Len(events)
          /\ events'[Len(events')].finding = f
          /\ events'[Len(events')].type = "embargo_extended"
<1>1. ASSUME TimerTypeOK, TimerNext,
             NEW f \in Tracked(events),
             Computable(events)', ContactDates(events, f) # {}
      PROVE  Kept(f)
  <2>1. CASE NextDay
    <3>1. Computable(events) /\ events' = events /\ today' = today + 1 /\ today \in Nat
      BY <1>1, <2>1 DEF NextDay, TimerTypeOK
    <3>2. StartDate(events, f) \in Int
      BY <1>1, <3>1, StartDateType DEF TimerTypeOK
    <3>3. MilestonesCrossed(events, f, today)
            \subseteq MilestonesCrossed(events', f, today')
      BY <3>1, <3>2, MilestonesGrow
    <3>. QED  BY <3>3
  <2>2. ASSUME NEW e \in Event, AppendEvent(e) PROVE Kept(f)
    <3>1. /\ events' = Append(events, e) /\ today' = today
          /\ events \in Seq(Event) /\ today \in Nat
          /\ Computable(Append(events, e))
      BY <1>1, <2>2 DEF AppendEvent, TimerTypeOK
    <3>2. /\ Append(events, e) \in Seq(Event) /\ Computable(events)
          /\ f \in Tracked(Append(events, e))
      BY <1>1, <3>1, AppendFacts
    <3>3. /\ StartDate(events, f) \in 0..MaxDay
          /\ StartDate(Append(events, e), f) \in 0..MaxDay
      BY <1>1, <3>1, <3>2, StartDateType
    <3>4. CASE e.finding # f
      <4>1. StartDate(Append(events, e), f) = StartDate(events, f)
        BY <1>1, <3>1, <3>4, OtherFinding DEF StartDate
      <4>2. MilestonesCrossed(events, f, today)
              \subseteq MilestonesCrossed(events', f, today')
        BY <3>1, <4>1 DEF MilestonesCrossed, DaysElapsed
      <4>. QED  BY <4>2
    <3>5. CASE e.finding = f /\ e.type # "embargo_extended"
      <4>1. StartDate(Append(events, e), f) <= StartDate(events, f)
        BY <1>1, <3>1, <3>5, StartMovesBack
      <4>2. MilestonesCrossed(events, f, today)
              \subseteq MilestonesCrossed(events', f, today')
        BY <3>1, <3>3, <4>1, MilestonesGrow
      <4>. QED  BY <4>2
    <3>6. CASE e.finding = f /\ e.type = "embargo_extended"
      BY <3>1, <3>6
    <3>. QED  BY <3>4, <3>5, <3>6
  <2>. QED  BY <1>1, <2>1, <2>2 DEF TimerNext
<1>2. TimerTypeOK /\ [TimerNext]_timerVars =>
        [\A f \in Tracked(events) :
           Computable(events)' /\ ContactDates(events, f) # {} => Kept(f)]_timerVars
  BY <1>1
<1>. QED  BY <1>2, TimerTypes, PTL DEF TimerSpec, OnlyExtensionWithdraws

(* The findings' clocks are independent of one another.                    *)
THEOREM TimerIndependent == TimerSpec => ClocksIndependent
<1>1. ASSUME TimerTypeOK, TimerNext, NEW f \in Tracked(events),
             Computable(events)', today' = today
      PROVE  \/ Status(events, f, today) = Status(events, f, today)'
             \/ events'[Len(events')].finding = f
  <2>1. CASE NextDay
    BY <1>1, <2>1 DEF NextDay, TimerTypeOK
  <2>2. ASSUME NEW e \in Event, AppendEvent(e), e.finding # f
        PROVE  Status(events, f, today) = Status(events, f, today)'
    <3>1. /\ events' = Append(events, e) /\ events \in Seq(Event)
          /\ Computable(Append(events, e))
      BY <1>1, <2>2 DEF AppendEvent, TimerTypeOK
    <3>2. /\ Latest(Append(events, e), f) = Latest(events, f)
          /\ ContactDates(Append(events, e), f) = ContactDates(events, f)
      BY <1>1, <2>2, <3>1, OtherFinding
    <3>3. /\ StartDate(Append(events, e), f) = StartDate(events, f)
          /\ EmbargoDays(Append(events, e), f) = EmbargoDays(events, f)
      BY <3>2 DEF StartDate, EmbargoDays
    <3>4. Status(Append(events, e), f, today) = Status(events, f, today)
      BY <3>2, <3>3
      DEF Status, NextActionDate, DaysRemaining, MilestonesCrossed, DaysElapsed
    <3>. QED  BY <1>1, <3>1, <3>4
  <2>3. ASSUME NEW e \in Event, AppendEvent(e), e.finding = f
        PROVE  events'[Len(events')].finding = f
    BY <1>1, <2>3 DEF AppendEvent, TimerTypeOK
  <2>. QED  BY <1>1, <2>1, <2>2, <2>3 DEF TimerNext
<1>2. TimerTypeOK /\ [TimerNext]_timerVars =>
        [\A f \in Tracked(events) :
           Computable(events)' /\ today' = today =>
             \/ Status(events, f, today) = Status(events, f, today)'
             \/ events'[Len(events')].finding = f]_timerVars
  BY <1>1
<1>. QED  BY <1>2, TimerTypes, PTL DEF TimerSpec, ClocksIndependent

-----------------------------------------------------------------------------
(* Shuffled ledgers.                                                       *)

(* An injection of the lines of a ledger into themselves reaches each one. *)
LEMMA LinesPermuted ==
  ASSUME NEW n \in Nat, NEW p \in [1..n -> 1..n],
         \A i, j \in 1..n : p[i] = p[j] => i = j, NEW j \in 1..n
  PROVE  \E i \in 1..n : p[i] = j
<1>1. p \in Injection(1..n, 1..n)
  BY DEF Injection, IsInjective
<1>2. IsFiniteSet(1..n)
  BY FS_Interval
<1>3. p \in Surjection(1..n, 1..n)
  BY <1>1, <1>2, FS_Injection
<1>. QED  BY <1>3 DEF Surjection

(* A shuffled ledger holds the same events of a finding, and the latest of *)
(* them, if it is the only one of its date, is the latest still.           *)
LEMMA ShuffledFacts ==
  ASSUME NEW es \in Seq(Event), Computable(es), NEW f \in Tracked(es),
         \A i \in Of(es, f) : es[i].date = Latest(es, f).date => i = LatestIndex(es, f),
         NEW p \in [1..Len(es) -> 1..Len(es)],
         \A i, j \in 1..Len(es) : p[i] = p[j] => i = j
  PROVE  LET fs == [i \in 1..Len(es) |-> es[p[i]]]
         IN Latest(fs, f) = Latest(es, f) /\ ContactDates(fs, f) = ContactDates(es, f)
<1>. DEFINE fs == [i \in 1..Len(es) |-> es[p[i]]]
            k == LatestIndex(es, f)
<1>1. Len(es) \in Nat /\ \A i \in 1..Len(es) : es[i] \in Event
  OBVIOUS
<1>2. fs \in Seq(Event) /\ Len(fs) = Len(es) /\ \A i \in 1..Len(es) : fs[i] = es[p[i]]
  BY <1>1
<1>3. ASSUME NEW j \in 1..Len(es) PROVE \E i \in 1..Len(es) : p[i] = j
  BY <1>1, LinesPermuted
<1>. HIDE DEF fs, k
<1>4. Computable(fs)
  <2>1. \A i \in 1..Len(es) : p[i] \in 1..Len(es)
    OBVIOUS
  <2>2. \A i \in 1..Len(es) : es[i].date # Malformed
    BY DEF Computable
  <2>3. \A i \in 1..Len(fs) : fs[i].date # Malformed
    BY <1>2, <2>1, <2>2
  <2>. QED  BY <2>3 DEF Computable
<1>5. Of(es, f) \subseteq 1..Len(es) /\ Of(fs, f) = {i \in 1..Len(es) : p[i] \in Of(es, f)}
  BY <1>2 DEF Of
<1>6. IsLatest(es, f, k)
  BY LatestExists DEF k
<1>7. PICK i \in 1..Len(es) : p[i] = k
  BY <1>3, <1>5, <1>6 DEF IsLatest
<1>8. i \in Of(fs, f) /\ fs[i] = es[k]
  BY <1>2, <1>5, <1>6, <1>7 DEF IsLatest
<1>9. f \in Tracked(fs)
  BY <1>2, <1>8 DEF Tracked, Of
<1>10. IsLatest(fs, f, i)
  <2>1. ASSUME NEW j \in Of(fs, f)
        PROVE  fs[j].date < fs[i].date \/ (fs[j].date = fs[i].date /\ j <= i)
    <3>1. j \in 1..Len(es) /\ p[j] \in Of(es, f) /\ fs[j] = es[p[j]]
      BY <1>2, <1>5
    <3>2. es[p[j]].date < es[k].date \/ (es[p[j]].date = es[k].date /\ p[j] <= k)
      BY <1>6, <3>1 DEF IsLatest
    <3>3. CASE es[p[j]].date = es[k].date
      <4>1. p[j] = k
        BY <3>1, <3>3 DEF Latest, k
      <4>. QED  BY <1>7, <1>8, <3>1, <3>3, <4>1
    <3>. QED  BY <1>8, <3>1, <3>2, <3>3
  <2>. QED  BY <1>8, <2>1 DEF IsLatest
<1>11. LatestIndex(fs, f) = i
  BY <1>2, <1>4, <1>9, <1>10, LatestUnique
<1>12. Latest(fs, f) = Latest(es, f)
  BY <1>8, <1>11 DEF Latest, k
<1>13. ContactDates(fs, f) = ContactDates(es, f)
  <2>1. ASSUME NEW date PROVE date \in ContactDates(fs, f) <=> date \in ContactDates(es, f)
    <3>1. ASSUME date \in ContactDates(fs, f) PROVE date \in ContactDates(es, f)
      BY <1>2, <1>5, <3>1 DEF ContactDates
    <3>2. ASSUME date \in ContactDates(es, f) PROVE date \in ContactDates(fs, f)
      <4>1. PICK j \in Of(es, f) : es[j].type = "vendor_contacted" /\ date = es[j].date
        BY <3>2 DEF ContactDates
      <4>2. PICK l \in 1..Len(es) : p[l] = j
        BY <1>3, <1>5
      <4>3. l \in Of(fs, f) /\ fs[l] = es[j]
        BY <1>2, <1>5, <4>2
      <4>. QED  BY <4>1, <4>3 DEF ContactDates
    <3>. QED  BY <3>1, <3>2
  <2>. QED  BY <2>1 DEF ContactDates
<1>. QED  BY <1>12, <1>13 DEF fs

(* The order of the lines plays no part in a status, for every ledger and  *)
(* every shuffling of it: compute_status sorts by date.                    *)
THEOREM TimerOrderIrrelevant == TimerSpec => []OrderIrrelevant
<1>1. ASSUME TimerTypeOK, Computable(events), NEW f \in Tracked(events), SoleLatest(f),
             NEW p \in [DOMAIN events -> DOMAIN events],
             \A i, j \in DOMAIN events : p[i] = p[j] => i = j
      PROVE  LET shuffled == [i \in DOMAIN events |-> events[p[i]]]
             IN Status(shuffled, f, today) = Status(events, f, today)
  <2>. DEFINE shuffled == [i \in DOMAIN events |-> events[p[i]]]
  <2>1. events \in Seq(Event) /\ DOMAIN events = 1..Len(events)
    BY <1>1 DEF TimerTypeOK
  <2>2. p \in [1..Len(events) -> 1..Len(events)] /\ \A i, j \in 1..Len(events) : p[i] = p[j] => i = j
    BY <1>1, <2>1
  <2>3. shuffled = [i \in 1..Len(events) |-> events[p[i]]]
    BY <2>1
  <2>4. \A i \in Of(events, f) : events[i].date = Latest(events, f).date => i = LatestIndex(events, f)
    BY <1>1 DEF SoleLatest
  <2>. HIDE DEF shuffled
  <2>5. Latest(shuffled, f) = Latest(events, f) /\ ContactDates(shuffled, f) = ContactDates(events, f)
    BY <1>1, <2>1, <2>2, <2>3, <2>4, ShuffledFacts
  <2>6. /\ StartDate(shuffled, f) = StartDate(events, f)
        /\ EmbargoDays(shuffled, f) = EmbargoDays(events, f)
    BY <2>5 DEF StartDate, EmbargoDays
  <2>7. Status(shuffled, f, today) = Status(events, f, today)
    BY <2>5, <2>6 DEF Status, NextActionDate, DaysRemaining, MilestonesCrossed, DaysElapsed
  <2>. QED  BY <2>7 DEF shuffled
<1>2. TimerTypeOK => OrderIrrelevant
  BY <1>1 DEF OrderIrrelevant
<1>. QED  BY <1>2, TimerTypes, PTL


-----------------------------------------------------------------------------
(* The inductive invariant.  An open issue was opened; the titles a run    *)
(* has left lack no smaller milestone of their finding but those already   *)
(* raised; and a title that is raised, or that a run will raise, is old    *)
(* enough.                                                                 *)
OpenRaised == \A t \in Titles : open[t] > 0 => t \in opened

Below(u, t) == u[1] = t[1] /\ u[2] < t[2]

TodoLadder ==
  \A r \in Runs : \A t \in todo[r] : \A u \in Titles :
    Below(u, t) => u \in todo[r] \cup opened

Aged(t) ==
  \E i \in Of(events, t[1]) :
    events[i].date # Malformed /\ today - events[i].date >= t[2]

AllAged == \A t \in Titles :
  t \in opened \/ (\E r \in Runs : t \in todo[r]) => Aged(t)

LadderInv == OpenRaised /\ TodoLadder /\ LadderInOrder

-----------------------------------------------------------------------------
(* Titles.                                                                 *)

LEMMA TitleType ==
  ASSUME NEW t \in Titles
  PROVE  /\ t = <<t[1], t[2]>>
         /\ t[1] \in Findings /\ t[1] \in Nat
         /\ t[2] \in MilestoneDays /\ t[2] \in Nat
<1>1. PICK f \in Findings, m \in MilestoneDays : t = <<f, m>>
  BY DEF Titles
<1>2. f \in Nat /\ m \in Nat
  BY TimerAssumption
<1>. QED  BY <1>1, <1>2

LEMMA CrossedType ==
  ASSUME NEW es, NEW d
  PROVE  Crossed(es, d) \in SUBSET Titles
BY DEF Crossed

(* The loop deals with one title at a time.                                *)
LEMMA NextUnique ==
  ASSUME NEW S \in SUBSET Titles, NEW t, NEW u, IsNext(t, S), IsNext(u, S)
  PROVE  t = u
<1>1. t \in Titles /\ u \in Titles
  BY DEF IsNext
<1>2. /\ t[1] < u[1] \/ (t[1] = u[1] /\ t[2] <= u[2])
      /\ u[1] < t[1] \/ (u[1] = t[1] /\ u[2] <= t[2])
  BY DEF IsNext
<1>3. t[1] = u[1] /\ t[2] = u[2]
  BY <1>1, <1>2, TitleType
<1>. QED  BY <1>1, <1>3, TitleType

(* compute_status() reports a ladder without gaps, and nothing early.      *)
LEMMA CrossedLadder ==
  ASSUME NEW es \in Seq(Event), Computable(es), NEW d \in Nat,
         NEW t \in Crossed(es, d), NEW u \in Titles, Below(u, t)
  PROVE  u \in Crossed(es, d)
<1>1. t \in Titles /\ t[1] \in Tracked(es) /\ DaysElapsed(es, t[1], d) >= t[2]
  BY DEF Crossed, MilestonesCrossed
<1>2. StartDate(es, t[1]) \in 0..MaxDay
  BY <1>1, StartDateType
<1>3. DaysElapsed(es, t[1], d) \in Int
  BY <1>2, TimerAssumption DEF DaysElapsed
<1>4. u[1] = t[1] /\ u[2] < t[2] /\ u[2] \in Nat /\ t[2] \in Nat /\ u[2] \in MilestoneDays
  BY <1>1, TitleType DEF Below
<1>5. DaysElapsed(es, u[1], d) >= u[2]
  BY <1>1, <1>3, <1>4
<1>. QED  BY <1>1, <1>4, <1>5 DEF Crossed, MilestonesCrossed

LEMMA StartIsADate ==
  ASSUME NEW es \in Seq(Event), Computable(es), NEW f \in Tracked(es)
  PROVE  \E i \in Of(es, f) : StartDate(es, f) = es[i].date
<1>1. LatestIndex(es, f) \in Of(es, f)
  BY LatestExists DEF IsLatest
<1>2. ContactDates(es, f) # {} => Min(ContactDates(es, f)) \in ContactDates(es, f)
  BY ContactsType, MinIs
<1>. QED  BY <1>1, <1>2 DEF StartDate, Latest, ContactDates

LEMMA CrossedAged ==
  ASSUME TimerTypeOK, Computable(events), NEW t \in Crossed(events, today)
  PROVE  Aged(t)
<1>1. t[1] \in Tracked(events) /\ today - StartDate(events, t[1]) >= t[2]
  BY DEF Crossed, MilestonesCrossed, DaysElapsed
<1>2. PICK i \in Of(events, t[1]) : StartDate(events, t[1]) = events[i].date
  BY <1>1, StartIsADate DEF TimerTypeOK
<1>3. events[i].date # Malformed
  BY DEF Computable, Of
<1>. QED  BY <1>1, <1>2, <1>3 DEF Aged

-----------------------------------------------------------------------------
(* Types.                                                                  *)

LEMMA TypeStep == TypeOK /\ [Next]_vars => TypeOK'
<1>. SUFFICES ASSUME TypeOK, [Next]_vars PROVE TypeOK'
  OBVIOUS
<1>1. TimerTypeOK'
  <2>1. [TimerNext]_timerVars
    BY DEF Next, vars, Timer, timerVars, BreakLedger, RunStep, CloseIssue, StartRun,
           ListIssues, CreateIssue, CommandFails, CreateLandsButFails
  <2>. QED  BY <2>1, TimerTypeStep DEF TypeOK
<1>. USE DEF TypeOK
<1>2. CASE Timer
  BY <1>1, <1>2 DEF Timer, runVars, issueVars
<1>3. CASE BreakLedger
  BY <1>1, <1>3 DEF BreakLedger, timerVars, runVars, issueVars
<1>4. ASSUME NEW r \in Runs, NEW S \in SUBSET Titles, GoOn(r, S)
      PROVE  stage' \in [Runs -> {"idle", "list", "create"}] /\ todo' \in [Runs -> SUBSET Titles]
  BY <1>4 DEF GoOn
<1>5. ASSUME NEW r \in Runs, Abort(r)
      PROVE  stage' \in [Runs -> {"idle", "list", "create"}] /\ todo' \in [Runs -> SUBSET Titles]
  BY <1>5 DEF Abort
<1>6. ASSUME NEW t \in Titles, OpenIssue(t)
      PROVE  open' \in [Titles -> Nat] /\ opened' \subseteq Titles
  BY <1>6 DEF OpenIssue
<1>7. ASSUME NEW r \in Runs, StartRun(r) PROVE TypeOK'
  BY <1>1, <1>4, <1>7, CrossedType DEF StartRun, timerVars, issueVars
<1>8. ASSUME NEW r \in Runs, CommandFails(r) PROVE TypeOK'
  BY <1>1, <1>5, <1>8 DEF CommandFails, timerVars, issueVars
<1>9. ASSUME NEW r \in Runs, NEW t \in Titles, ListIssues(r, t) PROVE TypeOK'
  <2>1. CASE open[t] > 0
    <3>1. todo[r] \ {t} \in SUBSET Titles /\ GoOn(r, todo[r] \ {t})
      BY <1>9, <2>1 DEF ListIssues
    <3>. QED  BY <1>1, <1>4, <1>9, <3>1 DEF ListIssues, timerVars, issueVars
  <2>2. CASE ~ (open[t] > 0)
    BY <1>1, <1>9, <2>2 DEF ListIssues, timerVars, issueVars
  <2>. QED  BY <2>1, <2>2
<1>10. ASSUME NEW r \in Runs, NEW t \in Titles, CreateIssue(r, t) PROVE TypeOK'
  <2>1. todo[r] \ {t} \in SUBSET Titles
    OBVIOUS
  <2>. QED  BY <1>1, <1>4, <1>6, <1>10, <2>1 DEF CreateIssue, timerVars
<1>11. ASSUME NEW r \in Runs, NEW t \in Titles, CreateLandsButFails(r, t) PROVE TypeOK'
  BY <1>1, <1>5, <1>6, <1>11 DEF CreateLandsButFails, timerVars
<1>12. ASSUME NEW t \in Titles, CloseIssue(t) PROVE TypeOK'
  BY <1>1, <1>12 DEF CloseIssue, timerVars, runVars
<1>13. CASE UNCHANGED vars
  BY <1>1, <1>13 DEF vars
<1>. QED
  BY <1>2, <1>3, <1>7, <1>8, <1>9, <1>10, <1>11, <1>12, <1>13 DEF Next, RunStep

(* Every variable of the job keeps its type.                               *)
THEOREM TickTypes == Spec => []TypeOK
<1>1. Init => TypeOK
  BY TimerAssumption DEF Init, TimerInit, TypeOK, TimerTypeOK
<1>. QED  BY <1>1, TypeStep, PTL DEF Spec

(* The workflow never appends to the ledger (embargo-tick.yml:8-9): seen   *)
(* through events and today, its steps are the timer's or none.            *)
THEOREM TickLeavesLedger == Spec => TimerSpec
<1>1. Init => TimerInit
  BY DEF Init
<1>2. [Next]_vars => [TimerNext]_timerVars
  BY DEF Next, vars, Timer, timerVars, BreakLedger, RunStep, CloseIssue, StartRun,
         ListIssues, CreateIssue, CommandFails, CreateLandsButFails
<1>. QED  BY <1>1, <1>2, PTL DEF Spec, TimerSpec

-----------------------------------------------------------------------------
(* The ladder.                                                             *)

(* What a run has left shrinks by its first title, which was raised, or is *)
(* dropped altogether: the other runs' titles stay.                        *)
LEMMA LadderAfterFirst ==
  ASSUME TypeOK, LadderInv, NEW r \in Runs, NEW t \in Titles, IsNext(t, todo[r]),
         todo' = [todo EXCEPT ![r] = todo[r] \ {t}] \/ todo' = [todo EXCEPT ![r] = {}],
         t \in opened', opened \subseteq opened', opened' \subseteq opened \cup {t}
  PROVE  TodoLadder' /\ LadderInOrder'
<1>1. TodoLadder'
  <2>. SUFFICES ASSUME NEW q \in Runs, NEW v \in todo'[q], NEW u \in Titles, Below(u, v)
                PROVE  u \in todo'[q] \cup opened'
    BY DEF TodoLadder, Below
  <2>1. v \in todo[q]
    BY DEF TypeOK
  <2>2. u \in todo[q] \cup opened
    BY <2>1 DEF LadderInv, TodoLadder
  <2>3. CASE q = r
    BY <2>2, <2>3 DEF TypeOK
  <2>4. CASE q # r
    BY <2>2, <2>4 DEF TypeOK
  <2>. QED  BY <2>3, <2>4
<1>2. LadderInOrder'
  <2>. SUFFICES ASSUME NEW v \in opened', NEW u \in Titles, u[1] = v[1], u[2] < v[2]
                PROVE  u \in opened'
    BY DEF LadderInOrder
  <2>1. CASE v \in opened
    BY <2>1 DEF LadderInv, LadderInOrder
  <2>2. CASE v = t
    <3>1. u \in todo[r] \cup opened
      BY <2>2 DEF LadderInv, TodoLadder, Below, IsNext
    <3>2. u \notin todo[r]
      <4>1. ~ (t[1] < u[1]) /\ ~ (t[2] <= u[2])
        BY <2>2, TitleType
      <4>. QED  BY <4>1 DEF IsNext
    <3>. QED  BY <3>1, <3>2
  <2>. QED  BY <2>1, <2>2
<1>. QED  BY <1>1, <1>2

LEMMA LadderStep == TypeOK /\ LadderInv /\ [Next]_vars => LadderInv'
<1>. SUFFICES ASSUME TypeOK, LadderInv, [Next]_vars PROVE LadderInv'
  OBVIOUS
<1>1. ASSUME UNCHANGED <<todo, open, opened>> PROVE LadderInv'
  BY <1>1 DEF LadderInv, OpenRaised, TodoLadder, LadderInOrder
<1>2. CASE Timer \/ BreakLedger \/ UNCHANGED vars
  BY <1>1, <1>2 DEF Timer, BreakLedger, vars, runVars, issueVars
<1>3. ASSUME NEW r \in Runs, StartRun(r) PROVE LadderInv'
  <2>1. todo' = [todo EXCEPT ![r] = Crossed(events, today)] /\ UNCHANGED issueVars
    BY <1>3 DEF StartRun, GoOn
  <2>2. /\ events \in Seq(Event) /\ Computable(events) /\ today \in Nat
    BY <1>3, TimerAssumption DEF StartRun, Usable, TypeOK, TimerTypeOK
  <2>3. TodoLadder'
    <3>. SUFFICES ASSUME NEW q \in Runs, NEW v \in todo'[q], NEW u \in Titles, Below(u, v)
                  PROVE  u \in todo'[q] \cup opened'
      BY DEF TodoLadder, Below
    <3>1. CASE q = r
      <4>1. todo'[q] = Crossed(events, today)
        BY <2>1, <3>1 DEF TypeOK
      <4>2. u \in Crossed(events, today)
        BY <2>2, <4>1, CrossedLadder
      <4>. QED  BY <4>1, <4>2
    <3>2. CASE q # r
      BY <2>1, <3>2 DEF TypeOK, LadderInv, TodoLadder, issueVars
    <3>. QED  BY <3>1, <3>2
  <2>. QED  BY <2>1, <2>3 DEF LadderInv, OpenRaised, LadderInOrder, issueVars
<1>4. ASSUME NEW r \in Runs, CommandFails(r) PROVE LadderInv'
  <2>1. todo' = [todo EXCEPT ![r] = {}] /\ UNCHANGED <<open, opened>>
    BY <1>4 DEF CommandFails, Abort, issueVars
  <2>2. TodoLadder'
    BY <2>1 DEF TypeOK, LadderInv, TodoLadder
  <2>. QED  BY <2>1, <2>2 DEF LadderInv, OpenRaised, LadderInOrder
<1>5. ASSUME NEW r \in Runs, NEW t \in Titles, ListIssues(r, t) PROVE LadderInv'
  <2>1. IsNext(t, todo[r]) /\ UNCHANGED <<open, opened>>
    BY <1>5 DEF ListIssues, issueVars
  <2>2. CASE open[t] > 0
    <3>1. t \in opened /\ todo' = [todo EXCEPT ![r] = todo[r] \ {t}]
      BY <1>5, <2>2 DEF ListIssues, GoOn, LadderInv, OpenRaised
    <3>2. TodoLadder' /\ LadderInOrder'
      BY <2>1, <3>1, LadderAfterFirst
    <3>. QED  BY <2>1, <3>2 DEF LadderInv, OpenRaised
  <2>3. CASE ~ (open[t] > 0)
    BY <1>1, <1>5, <2>3 DEF ListIssues, issueVars
  <2>. QED  BY <2>2, <2>3
<1>6. ASSUME NEW t \in Titles, OpenIssue(t) PROVE OpenRaised'
  BY <1>6 DEF OpenIssue, TypeOK, LadderInv, OpenRaised
<1>7. ASSUME NEW r \in Runs, NEW t \in Titles,
             CreateIssue(r, t) \/ CreateLandsButFails(r, t)
      PROVE  LadderInv'
  <2>1. /\ IsNext(t, todo[r]) /\ OpenIssue(t)
        /\ todo' = [todo EXCEPT ![r] = todo[r] \ {t}] \/ todo' = [todo EXCEPT ![r] = {}]
    BY <1>7 DEF CreateIssue, CreateLandsButFails, GoOn, Abort
  <2>2. opened' = opened \cup {t}
    BY <2>1 DEF OpenIssue
  <2>3. TodoLadder' /\ LadderInOrder'
    BY <2>1, <2>2, LadderAfterFirst
  <2>. QED  BY <1>6, <2>1, <2>3 DEF LadderInv
<1>8. ASSUME NEW t \in Titles, CloseIssue(t) PROVE LadderInv'
  <2>1. UNCHANGED <<todo, opened>> /\ open' = [open EXCEPT ![t] = @ - 1] /\ open[t] > 0
    BY <1>8 DEF CloseIssue, runVars
  <2>2. OpenRaised'
    BY <2>1 DEF TypeOK, LadderInv, OpenRaised
  <2>. QED  BY <2>1, <2>2 DEF LadderInv, TodoLadder, LadderInOrder
<1>. QED
  BY <1>2, <1>3, <1>4, <1>5, <1>7, <1>8 DEF Next, RunStep

(* Day 14 of a finding is never raised before Day 7 was, whichever runs    *)
(* overlap or are cut short and however the clock is moved meanwhile.      *)
THEOREM TickLadder == Spec => []LadderInOrder
<1>1. Init => LadderInv
  BY DEF Init, LadderInv, OpenRaised, TodoLadder, LadderInOrder
<1>2. LadderInv => LadderInOrder
  BY DEF LadderInv
<1>. QED  BY <1>1, <1>2, LadderStep, TickTypes, PTL DEF Spec

-----------------------------------------------------------------------------
(* Nothing early.                                                          *)

LEMMA AgedKept ==
  ASSUME TimerTypeOK, [TimerNext]_timerVars, NEW t \in Titles, Aged(t)
  PROVE  Aged(t)'
<1>1. PICK i \in Of(events, t[1]) :
        events[i].date # Malformed /\ today - events[i].date >= t[2]
  BY DEF Aged
<1>2. i \in 1..Len(events) /\ events[i].finding = t[1]
  BY <1>1 DEF Of
<1>3. events[i] \in Event
  BY <1>2 DEF TimerTypeOK
<1>4. events[i].date \in Nat /\ today \in Nat /\ t[2] \in Nat
  BY <1>1, <1>3, TitleType, TimerAssumption DEF Event, Dates, TimerTypeOK
<1>5. CASE NextDay
  <2>1. today' - events'[i].date >= t[2]
    BY <1>1, <1>4, <1>5 DEF NextDay
  <2>. QED  BY <1>1, <1>5, <2>1 DEF NextDay, Aged
<1>6. ASSUME NEW e \in Event, AppendEvent(e) PROVE Aged(t)'
  <2>1. events' = Append(events, e) /\ today' = today
    BY <1>6 DEF AppendEvent
  <2>2. i \in 1..Len(events') /\ events'[i] = events[i]
    BY <1>2, <2>1 DEF TimerTypeOK
  <2>3. i \in Of(events', t[1])
    BY <1>2, <2>2 DEF Of
  <2>. QED  BY <1>1, <2>1, <2>2, <2>3 DEF Aged
<1>7. CASE UNCHANGED timerVars
  BY <1>1, <1>7 DEF timerVars, Aged, Of
<1>. QED  BY <1>5, <1>6, <1>7 DEF TimerNext

LEMMA AgedStep == TypeOK /\ AllAged /\ [Next]_vars => AllAged'
<1>. SUFFICES ASSUME TypeOK, AllAged, [Next]_vars,
                     NEW t \in Titles,
                     t \in opened' \/ (\E r \in Runs : t \in todo'[r])
              PROVE  Aged(t)'
  BY DEF AllAged
<1>1. [TimerNext]_timerVars
  BY DEF Next, vars, Timer, timerVars, BreakLedger, RunStep, CloseIssue, StartRun,
         ListIssues, CreateIssue, CommandFails, CreateLandsButFails
<1>2. ASSUME t \in opened \/ (\E r \in Runs : t \in todo[r]) PROVE Aged(t)'
  BY <1>1, <1>2, AgedKept DEF AllAged, TypeOK
<1>3. CASE UNCHANGED <<todo, opened>>
  BY <1>2, <1>3
<1>4. ASSUME NEW r \in Runs, StartRun(r) PROVE Aged(t)'
  <2>1. /\ todo' = [todo EXCEPT ![r] = Crossed(events, today)] /\ opened' = opened
        /\ Computable(events)
    BY <1>4 DEF StartRun, GoOn, issueVars, Usable
  <2>2. CASE t \in Crossed(events, today)
    BY <1>1, <2>1, <2>2, CrossedAged, AgedKept DEF TypeOK
  <2>3. CASE t \notin Crossed(events, today)
    BY <1>2, <2>1, <2>3 DEF TypeOK
  <2>. QED  BY <2>2, <2>3
<1>5. ASSUME NEW r \in Runs, CommandFails(r) PROVE Aged(t)'
  BY <1>2, <1>5 DEF CommandFails, Abort, issueVars, TypeOK
<1>6. ASSUME NEW r \in Runs, NEW u \in Titles, ListIssues(r, u) PROVE Aged(t)'
  <2>1. opened' = opened /\ (todo' = todo \/ todo' = [todo EXCEPT ![r] = todo[r] \ {u}])
    BY <1>6 DEF ListIssues, GoOn, issueVars
  <2>. QED  BY <1>2, <2>1 DEF TypeOK
<1>7. ASSUME NEW r \in Runs, NEW u \in Titles,
             CreateIssue(r, u) \/ CreateLandsButFails(r, u)
      PROVE  Aged(t)'
  <2>1. /\ u \in todo[r] /\ opened' = opened \cup {u}
        /\ todo' = [todo EXCEPT ![r] = todo[r] \ {u}] \/ todo' = [todo EXCEPT ![r] = {}]
    BY <1>7 DEF CreateIssue, CreateLandsButFails, OpenIssue, GoOn, Abort, IsNext
  <2>. QED  BY <1>2, <2>1 DEF TypeOK
<1>. QED
  BY <1>3, <1>4, <1>5, <1>6, <1>7
  DEF Next, RunStep, Timer, BreakLedger, CloseIssue, vars, runVars, issueVars

(* No issue claims a day of the embargo that has not come.                 *)
THEOREM TickNeverEarly == Spec => []NeverEarly
<1>1. Init => AllAged
  BY DEF Init, AllAged
<1>2. TypeOK /\ AllAged => NeverEarly
  BY DEF TypeOK, AllAged, Aged, NeverEarly
<1>. QED  BY <1>1, <1>2, AgedStep, TickTypes, PTL DEF Spec

-----------------------------------------------------------------------------
(* Duplicates.                                                             *)

LEMMA AboutFinite ==
  ASSUME NEW S \in SUBSET Runs
  PROVE  IsFiniteSet(S) /\ Cardinality(S) \in Nat /\ Cardinality(S) <= Cardinality(Runs)
BY TickAssumption, FS_Subset, FS_CardinalityType

(* A run that is not about to create does not count for any title; the     *)
(* others count as before.                                                 *)
LEMMA AboutAfter ==
  ASSUME TypeOK, NEW r \in Runs,
         \A q \in Runs : q # r => stage'[q] = stage[q] /\ todo'[q] = todo[q],
         stage'[r] # "create", NEW u
  PROVE  AboutToCreate(u)' = AboutToCreate(u) \ {r}
BY DEF AboutToCreate

LEMMA DuplicatesStep == TypeOK /\ DuplicatesBounded /\ [Next]_vars => DuplicatesBounded'
<1>. SUFFICES ASSUME TypeOK, DuplicatesBounded, [Next]_vars, NEW u \in Titles
              PROVE  open'[u] + Cardinality(AboutToCreate(u)') <= Cardinality(Runs)
  BY DEF DuplicatesBounded
<1>. DEFINE before == AboutToCreate(u)
            after == AboutToCreate(u)'
<1>1. /\ before \in SUBSET Runs /\ after \in SUBSET Runs
      /\ IsFiniteSet(before) /\ Cardinality(before) \in Nat
      /\ Cardinality(after) \in Nat /\ Cardinality(after) <= Cardinality(Runs)
      /\ Cardinality(Runs) \in Nat
  BY AboutFinite DEF AboutToCreate
<1>2. open[u] \in Nat /\ open[u] + Cardinality(before) <= Cardinality(Runs)
  BY DEF TypeOK, DuplicatesBounded
<1>3. ASSUME NEW r \in Runs PROVE Cardinality(before \ {r}) =
              IF r \in before THEN Cardinality(before) - 1 ELSE Cardinality(before)
  BY <1>1, FS_RemoveElement
<1>4. CASE UNCHANGED <<stage, todo, open>>
  BY <1>2, <1>4 DEF AboutToCreate
<1>5. ASSUME NEW r \in Runs, (\E S : GoOn(r, S)) \/ Abort(r)
      PROVE  after = before \ {r}
  <2>1. stage'[r] # "create"
    BY <1>5 DEF GoOn, Abort, TypeOK
  <2>2. \A q \in Runs : q # r => stage'[q] = stage[q] /\ todo'[q] = todo[q]
    BY <1>5 DEF GoOn, Abort, TypeOK
  <2>. QED  BY <2>1, <2>2, AboutAfter
<1>6. ASSUME NEW r \in Runs, StartRun(r) \/ CommandFails(r)
      PROVE  open'[u] + Cardinality(after) <= Cardinality(Runs)
  <2>1. open' = open /\ after = before \ {r}
    BY <1>5, <1>6 DEF StartRun, CommandFails, issueVars
  <2>. QED  BY <1>1, <1>2, <1>3, <2>1
<1>7. ASSUME NEW r \in Runs, NEW t \in Titles, ListIssues(r, t)
      PROVE  open'[u] + Cardinality(after) <= Cardinality(Runs)
  <2>1. open' = open /\ IsNext(t, todo[r]) /\ stage[r] = "list"
    BY <1>7 DEF ListIssues, issueVars
  <2>2. CASE open[t] > 0
    <3>1. after = before \ {r}
      BY <1>5, <1>7, <2>2 DEF ListIssues
    <3>. QED  BY <1>1, <1>2, <1>3, <2>1, <3>1
  <2>3. CASE ~ (open[t] > 0)
    <3>1. stage' = [stage EXCEPT ![r] = "create"] /\ todo' = todo
      BY <1>7, <2>3 DEF ListIssues
    <3>2. CASE u = t
      <4>1. open'[u] = 0
        BY <1>2, <2>1, <2>3, <3>2
      <4>. QED  BY <1>1, <4>1
    <3>3. CASE u # t
      <4>1. ~ IsNext(u, todo[r])
        BY <2>1, <3>3, NextUnique DEF TypeOK
      <4>2. after = before
        BY <3>1, <4>1, <2>1 DEF AboutToCreate, TypeOK
      <4>. QED  BY <1>2, <2>1, <4>2
    <3>. QED  BY <3>2, <3>3
  <2>. QED  BY <2>2, <2>3
<1>8. ASSUME NEW r \in Runs, NEW t \in Titles,
             CreateIssue(r, t) \/ CreateLandsButFails(r, t)
      PROVE  open'[u] + Cardinality(after) <= Cardinality(Runs)
  <2>1. /\ stage[r] = "create" /\ IsNext(t, todo[r])
        /\ open' = [open EXCEPT ![t] = @ + 1]
        /\ after = before \ {r}
    BY <1>5, <1>8 DEF CreateIssue, CreateLandsButFails, OpenIssue
  <2>2. CASE u = t
    <3>1. r \in before
      BY <2>1, <2>2 DEF AboutToCreate
    <3>2. Cardinality(after) = Cardinality(before) - 1
      BY <1>3, <2>1, <3>1
    <3>3. open'[u] = open[u] + 1
      BY <2>1, <2>2 DEF TypeOK
    <3>. QED  BY <1>1, <1>2, <3>2, <3>3
  <2>3. CASE u # t
    <3>1. open'[u] = open[u]
      BY <2>1, <2>3 DEF TypeOK
    <3>2. Cardinality(after) <= Cardinality(before)
      BY <1>1, <1>3, <2>1
    <3>. QED  BY <1>1, <1>2, <3>1, <3>2
  <2>. QED  BY <2>2, <2>3
<1>9. ASSUME NEW t \in Titles, CloseIssue(t)
      PROVE  open'[u] + Cardinality(after) <= Cardinality(Runs)
  <2>1. open' = [open EXCEPT ![t] = @ - 1] /\ UNCHANGED <<stage, todo>>
    BY <1>9 DEF CloseIssue, runVars
  <2>2. open'[u] <= open[u] /\ open'[u] \in Int
    BY <1>2, <2>1 DEF TypeOK
  <2>3. after = before
    BY <2>1 DEF AboutToCreate
  <2>. QED  BY <1>1, <1>2, <2>2, <2>3
<1>. QED
  BY <1>4, <1>6, <1>7, <1>8, <1>9
  DEF Next, RunStep, Timer, BreakLedger, vars, runVars, issueVars

(* However many runs overlap, no title has more open issues than there are *)
(* runs; a single run leaves at most one.                                  *)
THEOREM TickDuplicates == Spec => []DuplicatesBounded
<1>1. Init => DuplicatesBounded
  <2>. SUFFICES ASSUME Init, NEW t \in Titles
                PROVE  open[t] + Cardinality(AboutToCreate(t)) <= Cardinality(Runs)
    BY DEF DuplicatesBounded
  <2>1. open[t] = 0
    BY DEF Init
  <2>2. Cardinality(AboutToCreate(t)) \in Nat /\ Cardinality(AboutToCreate(t)) <= Cardinality(Runs)
    BY AboutFinite DEF AboutToCreate
  <2>3. Cardinality(Runs) \in Nat
    BY AboutFinite
  <2>. QED  BY <2>1, <2>2, <2>3
<1>. QED  BY <1>1, DuplicatesStep, TickTypes, PTL DEF Spec
=============================================================================
