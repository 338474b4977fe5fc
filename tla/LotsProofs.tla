------------------------------ MODULE LotsProofs ------------------------------
(***************************************************************************)
(* Proofs about the inventory lots: for any numbers of lots, people and     *)
(* overlapping runs of the task, and for any policy.                        *)
(***************************************************************************)
EXTENDS Lots, SequenceTheorems, TLAPS

-----------------------------------------------------------------------------
(* The transition, on a single row *)

\* A transition yields a row.
LEMMA TransitionType ==
  ASSUME NEW row \in Row, NEW day \in Int
  PROVE  /\ NextStatus(row, day) \in Statuses
         /\ Transition(row, day) \in Row
BY DEF NextStatus, Transition, Row, Statuses

\* Whatever its policy, a run today followed by one on a later day leaves a row
\* as the later one alone would: a level is only ever left for an older one.
THEOREM LaterRunCatchesUp ==
  ASSUME NEW row \in Row, NEW now \in Nat, NEW day \in Nat, now <= day
  PROVE  Transition(Transition(row, now), day) = Transition(row, day)
<1> DEFINE mid == Transition(row, now)
<1>0. /\ mid = [row EXCEPT !.status = NextStatus(row, now)]
      /\ mid.status = NextStatus(row, now)
      /\ mid.confirmed = row.confirmed
  BY DEF Transition, Row
<1>1. SUFFICES NextStatus(mid, day) = NextStatus(row, day)
  BY <1>0 DEF Transition, Row
<1>2. CASE row.status \in Settled
  BY <1>0, <1>2 DEF NextStatus
<1>3. CASE row.status = "hidden"
  BY <1>0, <1>3 DEF NextStatus, Level, Settled
<1>4. CASE row.status \notin Settled \cup {"hidden"} /\ row.confirmed = Never
  <2>1. mid.status = row.status
    BY <1>0, <1>4 DEF NextStatus, Level
  <2> QED BY <1>0, <1>4, <2>1 DEF NextStatus, Level
<1>5. CASE row.status \notin Settled \cup {"hidden"} /\ row.confirmed # Never
  <2> DEFINE age(d) == d - row.confirmed
  <2>1. /\ row.confirmed \in Nat
        /\ ConfirmDays \in Int /\ StaleDays \in Int /\ HideDays \in Int
        /\ age(now) \in Int /\ age(day) \in Int /\ age(now) <= age(day)
    BY <1>5, LotConstants DEF Row
  <2> HIDE DEF age
  <2>2. \A d \in {now, day} :
          Level(row, d) = IF age(d) <= ConfirmDays THEN "fresh"
                          ELSE IF age(d) <= StaleDays THEN "needs_confirmation"
                          ELSE IF age(d) <= HideDays THEN "stale" ELSE "hidden"
    BY <1>5 DEF Level, age
  <2>3. CASE NextStatus(row, now) = "hidden"
    <3>1. Level(row, now) = "hidden"
      BY <1>5, <2>2, <2>3 DEF NextStatus
    <3>2. Level(row, day) = "hidden"
      BY <2>1, <2>2, <3>1
    <3> QED BY <1>0, <1>5, <2>3, <3>2 DEF NextStatus, Level, Settled
  <2>4. CASE NextStatus(row, now) # "hidden"
    <3>1. /\ mid.status \notin Settled \cup {"hidden"}
          /\ mid.confirmed = row.confirmed
      BY <1>0, <1>5, <2>4 DEF NextStatus, Settled
    <3>2. Level(mid, day) = Level(row, day)
      BY <1>5, <3>1 DEF Level
    <3>3. Level(row, day) = "fresh" => Level(row, now) = "fresh"
      BY <2>1, <2>2
    <3> QED BY <1>0, <1>5, <2>2, <2>4, <3>1, <3>2, <3>3 DEF NextStatus
  <2> QED BY <2>3, <2>4
<1> QED BY <1>2, <1>3, <1>4, <1>5

-----------------------------------------------------------------------------
(* The invariant *)

\* What is about to be saved, and what a run has read, is a lot that exists: lots
\* are never deleted.
Exist ==
  /\ \A s \in Sessions : job[s] # None => lot[job[s].lot] # None
  /\ \A w \in Workers, l \in Lots : copy[w][l] # None => lot[l] # None

\* A lot becomes sold, reserved or a draft by a save only, never by a run: one
\* that nobody has saved since a run read it was already so when it was read.
ReadSettled ==
  \A w \in Workers, l \in Lots :
    copy[w][l] # None /\ l \notin stale[w] /\ lot[l].status \in Settled =>
      copy[w][l].status \in Settled

IInv == TypeOK /\ Exist /\ ReadSettled

LEMMA InitInv == Init => IInv
BY LotConstants DEF Init, IInv, TypeOK, Exist, ReadSettled, NoCopies

-----------------------------------------------------------------------------
(* One lemma per kind of step *)

\* A draft is inserted.
LEMMA InsertInv ==
  ASSUME IInv, NEW l \in Lots, lot[l] = None, lot' = [lot EXCEPT ![l] = DraftRow],
         wizard' \in SUBSET Lots, UNCHANGED <<active, today, job, listed, copy, stale>>
  PROVE  IInv'
<1>1. DraftRow \in Row
  BY DEF DraftRow, Row, Statuses
<1>2. TypeOK'
  BY <1>1 DEF IInv, TypeOK
<1>3. \A m \in Lots : lot[m] # None => lot'[m] = lot[m]
  BY DEF IInv, TypeOK
<1>4. Exist'
  BY <1>3 DEF IInv, TypeOK, Exist, Job
<1>5. ReadSettled'
  BY <1>3 DEF IInv, Exist, ReadSettled
<1> QED BY <1>2, <1>4, <1>5 DEF IInv

\* A handler has read its lot.
LEMMA BeginInv ==
  ASSUME IInv, NEW s \in Sessions, NEW l \in Lots, NEW saves \in Seq(Row),
         NEW columns \in SUBSET Columns, NEW review \in BOOLEAN,
         Found(l), saves # <<>>, Begin(s, l, saves, columns, review)
  PROVE  IInv'
<1> DEFINE j == [lot |-> l, saves |-> saves, columns |-> columns, review |-> review]
<1>1. j \in Job
  BY DEF Job
<1>2. /\ job' = [job EXCEPT ![s] = j]
      /\ UNCHANGED <<lot, wizard, active, today, listed, copy, stale>>
  BY DEF Begin
<1>3. TypeOK'
  BY <1>1, <1>2 DEF IInv, TypeOK
<1>4. Exist'
  BY <1>1, <1>2 DEF IInv, TypeOK, Exist, Found
<1>5. ReadSettled'
  BY <1>2 DEF IInv, ReadSettled
<1> QED BY <1>3, <1>4, <1>5 DEF IInv

\* Every request begins so.
LEMMA RequestInv ==
  ASSUME IInv, NEW s \in Sessions, NEW l \in Lots, Request(s, l)
  PROVE  IInv'
<1>1. SUFFICES ASSUME Found(l)
               PROVE  IInv'
  BY DEF Request, UpdateQuantity, Review, EditLot, ConfirmLot, MarkLotSold, HideLot,
         ArchiveLot
<1>2. lot[l] \in Row /\ today \in Nat
  BY <1>1 DEF IInv, TypeOK, Found
<1>3. CASE UpdateQuantity(s, l)
  <2>1. <<lot[l]>> \in Seq(Row) /\ <<lot[l]>> # <<>>
    BY <1>2
  <2>2. Begin(s, l, <<lot[l]>>, Columns, FALSE)
    BY <1>3 DEF UpdateQuantity
  <2> QED BY <1>1, <2>1, <2>2, BeginInv
<1>4. ASSUME NEW visibility \in Visibilities, NEW action \in {"publish", "draft", "other"},
             Review(s, l, visibility, action)
      PROVE  IInv'
  <2> DEFINE object == Reviewed(lot[l], visibility, action)
  <2>1. object \in Row
    BY <1>2, LotConstants DEF Reviewed, Row, Statuses
  <2> HIDE DEF object
  <2>2. <<lot[l], object>> \in Seq(Row) /\ <<lot[l], object>> # <<>>
    BY <1>2, <2>1
  <2>3. Begin(s, l, <<lot[l], object>>, Columns, TRUE)
    BY <1>4 DEF Review, object
  <2> QED BY <1>1, <2>2, <2>3, BeginInv
<1>5. ASSUME NEW visibility \in Visibilities, NEW status \in FormStatuses,
             EditLot(s, l, visibility, status)
      PROVE  IInv'
  <2> DEFINE object == [lot[l] EXCEPT !.visibility = visibility, !.status = status]
  <2>1. object \in Row
    BY <1>2, LotConstants DEF Row
  <2> HIDE DEF object
  <2>2. <<object, object>> \in Seq(Row) /\ <<object, object>> # <<>>
    BY <2>1
  <2>3. Begin(s, l, <<object, object>>, Columns, FALSE)
    BY <1>5 DEF EditLot, object
  <2> QED BY <1>1, <2>2, <2>3, BeginInv
<1>6. ASSUME NEW object \in Row, NEW columns \in SUBSET Columns,
             Begin(s, l, <<object>>, columns, FALSE)
      PROVE  IInv'
  <2>1. <<object>> \in Seq(Row) /\ <<object>> # <<>>
    OBVIOUS
  <2> QED BY <1>1, <1>6, <2>1, BeginInv
<1>7. CASE ConfirmLot(s, l)
  <2> DEFINE status == IF lot[l].status = "needs_confirmation" THEN "available"
                       ELSE lot[l].status
  <2>1. [lot[l] EXCEPT !.confirmed = today, !.status = status] \in Row
    BY <1>2 DEF Row, Statuses
  <2> QED BY <1>6, <1>7, <2>1 DEF ConfirmLot, Columns
<1>8. CASE MarkLotSold(s, l) \/ HideLot(s, l) \/ ArchiveLot(s, l)
  <2>1. /\ [lot[l] EXCEPT !.status = "sold"] \in Row
        /\ [lot[l] EXCEPT !.status = "hidden"] \in Row
        /\ [lot[l] EXCEPT !.archived = TRUE, !.status = "hidden"] \in Row
    BY <1>2 DEF Row, Statuses
  <2> QED BY <1>6, <1>8, <2>1 DEF MarkLotSold, HideLot, ArchiveLot, Columns
<1> QED BY <1>3, <1>4, <1>5, <1>7, <1>8 DEF Request

\* A session saves what it has read and changed: its lot is stale for the runs
\* that have read it.
LEMMA SaveInv ==
  ASSUME IInv, NEW s \in Sessions, Save(s)
  PROVE  IInv'
<1> DEFINE j == job[s]
<1>0. PICK l \in Lots : l = j.lot
  BY DEF Save, IInv, TypeOK, Job
<1> DEFINE row == Saved(lot[l], j.columns, Head(j.saves))
           next == IF Len(j.saves) = 1 THEN None ELSE [j EXCEPT !.saves = Tail(@)]
<1>1. /\ j \in Job /\ j.lot = l /\ lot[l] # None /\ lot[l] \in Row
      /\ j.saves \in Seq(Row) /\ j.saves # <<>>
  BY <1>0 DEF IInv, TypeOK, Exist, Save, Job
<1>2. Head(j.saves) \in Row
  BY <1>1, HeadTailProperties
<1>3. row \in Row /\ row # None
  BY <1>1, <1>2, LotConstants DEF Saved, Row
<1>4. /\ lot' = [lot EXCEPT ![l] = row]
      /\ job' = [job EXCEPT ![s] = next]
      /\ stale' = [w \in Workers |-> IF w \in BeingWalked(l) THEN stale[w] \cup {l}
                                     ELSE stale[w]]
      /\ UNCHANGED <<active, today, listed, copy>>
      /\ wizard' \in SUBSET Lots
  BY <1>0 DEF Save, IInv, TypeOK
<1>5. Len(j.saves) # 1 => next \in Job /\ next.lot = l
  <2> SUFFICES ASSUME Len(j.saves) # 1
               PROVE  next \in Job /\ next.lot = l
    OBVIOUS
  <2> DEFINE rest == Tail(j.saves)
  <2>1. Len(rest) = Len(j.saves) - 1 /\ rest \in Seq(Row) /\ Len(j.saves) \in Nat
    BY <1>1, HeadTailProperties, LenProperties
  <2>2. next = [j EXCEPT !.saves = rest]
    OBVIOUS
  <2> HIDE DEF rest
  <2>3. Len(rest) # 0
    BY <2>1
  <2>4. rest # <<>>
    BY <2>3, EmptySeq
  <2> QED BY <1>1, <2>1, <2>2, <2>4 DEF Job
<1> HIDE DEF j, row
<1>6. TypeOK'
  <2>1. next \in Job \cup {None}
    BY <1>5
  <2> HIDE DEF next
  <2> QED BY <1>1, <1>3, <1>4, <2>1 DEF IInv, TypeOK
<1>7. \A m \in Lots : lot[m] # None => lot'[m] # None
  BY <1>1, <1>3, <1>4 DEF IInv, TypeOK
<1>8. \A t \in Sessions : job'[t] # None => job[t] # None /\ job'[t].lot = job[t].lot
  BY <1>1, <1>4, <1>5 DEF IInv, TypeOK, j, Save
<1> HIDE DEF next
<1>9. Exist'
  <2>1. \A t \in Sessions : job[t] # None => job[t].lot \in Lots
    BY DEF IInv, TypeOK, Job
  <2> QED BY <1>4, <1>7, <1>8, <2>1 DEF IInv, Exist
<1>10. ReadSettled'
  <2> SUFFICES ASSUME NEW w \in Workers, NEW m \in Lots,
                      copy[w][m] # None, m \notin stale'[w], lot'[m].status \in Settled
               PROVE  copy[w][m].status \in Settled
    BY <1>4 DEF ReadSettled
  <2>1. m # l
    BY <1>4 DEF BeingWalked
  <2>2. lot'[m] = lot[m] /\ m \notin stale[w]
    BY <1>4, <2>1 DEF IInv, TypeOK
  <2> QED BY <2>2 DEF IInv, ReadSettled
<1> QED BY <1>6, <1>9, <1>10 DEF IInv

\* A session gives up.
LEMMA AbortInv ==
  ASSUME IInv, NEW s \in Sessions, Abort(s)
  PROVE  IInv'
<1>1. /\ job' = [job EXCEPT ![s] = None]
      /\ UNCHANGED <<lot, wizard, active, today, listed, copy, stale>>
  BY DEF Abort
<1> QED BY <1>1 DEF IInv, TypeOK, Exist, ReadSettled

\* A run reads its lots.
LEMMA ReadLotsInv ==
  ASSUME IInv, NEW w \in Workers, ReadLots(w)
  PROVE  IInv'
<1> DEFINE scan == [l \in Lots |-> IF Scanned(lot[l]) THEN lot[l] ELSE None]
<1>1. /\ copy' = [copy EXCEPT ![w] = scan]
      /\ stale' = [stale EXCEPT ![w] = {}]
      /\ listed' \in [Workers -> BOOLEAN]
      /\ UNCHANGED <<lot, wizard, active, today, job>>
  BY DEF ReadLots, IInv, TypeOK
<1>2. scan \in [Lots -> Row \cup {None}]
  BY DEF IInv, TypeOK
<1>3. TypeOK'
  BY <1>1, <1>2 DEF IInv, TypeOK
<1>4. \A v \in Workers, l \in Lots :
        /\ copy'[v][l] = IF v = w THEN scan[l] ELSE copy[v][l]
        /\ v # w => stale'[v] = stale[v]
  BY <1>1 DEF IInv, TypeOK
<1>5. \A l \in Lots : scan[l] # None => scan[l] = lot[l]
  OBVIOUS
<1> HIDE DEF scan
<1> QED BY <1>1, <1>3, <1>4, <1>5 DEF IInv, Exist, ReadSettled

\* What a run saves is never sold, reserved or a draft.
LEMMA VisitStatus ==
  ASSUME NEW row \in Row, NEW day \in Int, NextStatus(row, day) # row.status
  PROVE  row.status \notin Settled /\ NextStatus(row, day) \notin Settled
BY DEF NextStatus, Settled

\* A run comes to a lot.
LEMMA VisitInv ==
  ASSUME IInv, NEW w \in Workers, NEW l \in Lots, Visit(w, l)
  PROVE  IInv'
<1> DEFINE status == NextStatus(copy[w][l], today)
<1>1. /\ copy[w][l] # None /\ copy[w][l] \in Row /\ lot[l] # None /\ lot[l] \in Row
      /\ today \in Int
  BY DEF Visit, IInv, TypeOK, Exist
<1>2. /\ \/ lot' = lot
         \/ lot' = [lot EXCEPT ![l].status = status] /\ status \notin Settled
      /\ copy' = [copy EXCEPT ![w][l] = None]
      /\ stale' = [stale EXCEPT ![w] = @ \ {l}]
      /\ UNCHANGED <<wizard, active, today, job, listed>>
  BY <1>1, VisitStatus DEF Visit
<1>3. status \in Statuses
  BY <1>1, TransitionType
<1> HIDE DEF status
<1>4. [lot[l] EXCEPT !.status = status] \in Row
  BY <1>1, <1>3 DEF Row
<1>5. \A m \in Lots :
        /\ lot'[m] \in Row \cup {None}
        /\ lot[m] # None => lot'[m] # None
        /\ lot'[m] = lot[m] \/ lot'[m].status \notin Settled
  <2>1. CASE lot' = lot
    BY <2>1 DEF IInv, TypeOK
  <2>2. CASE lot' = [lot EXCEPT ![l].status = status] /\ status \notin Settled
    <3> DEFINE row == [lot[l] EXCEPT !.status = status]
    <3>1. row.status = status
      BY <1>1 DEF Row
    <3>2. row # None
      BY <1>4, LotConstants
    <3>3. \A m \in Lots : lot'[m] = IF m = l THEN row ELSE lot[m]
      BY <2>2 DEF IInv, TypeOK
    <3> HIDE DEF row
    <3> QED BY <1>4, <2>2, <3>1, <3>2, <3>3 DEF row, IInv, TypeOK
  <2> QED BY <1>2, <2>1, <2>2
<1>6. TypeOK'
  BY <1>2, <1>5 DEF IInv, TypeOK
<1>7. \A v \in Workers, m \in Lots :
        copy'[v][m] # None => /\ copy'[v][m] = copy[v][m]
                              /\ m \notin stale'[v] => m \notin stale[v]
  BY <1>2 DEF IInv, TypeOK
<1>8. Exist'
  BY <1>2, <1>5, <1>7 DEF IInv, TypeOK, Exist, Job
<1>9. ReadSettled'
  BY <1>5, <1>7 DEF IInv, ReadSettled
<1> QED BY <1>6, <1>8, <1>9 DEF IInv

\* A run is killed.
LEMMA DieInv ==
  ASSUME IInv, NEW w \in Workers, Die(w)
  PROVE  IInv'
<1>1. /\ listed' = [listed EXCEPT ![w] = FALSE]
      /\ copy' = [copy EXCEPT ![w] = NoCopies]
      /\ stale' = [stale EXCEPT ![w] = {}]
      /\ UNCHANGED <<lot, wizard, active, today, job>>
  BY DEF Die
<1>2. NoCopies \in [Lots -> Row \cup {None}]
  BY DEF NoCopies
<1>3. TypeOK'
  BY <1>1, <1>2 DEF IInv, TypeOK
<1>4. \A v \in Workers, m \in Lots :
        copy'[v][m] # None => copy'[v][m] = copy[v][m] /\ stale'[v] = stale[v]
  BY <1>1 DEF IInv, TypeOK, NoCopies
<1> QED BY <1>1, <1>3, <1>4 DEF IInv, Exist, ReadSettled

\* Days pass, the business is suspended and reinstated, and a run lists it.
LEMMA OutsideInv ==
  ASSUME IInv, SetActive \/ DayPasses \/ (\E w \in Workers : ListBusiness(w)) \/ UNCHANGED vars
  PROVE  IInv'
<1>1. UNCHANGED <<lot, wizard, job, copy, stale>>
  BY DEF SetActive, DayPasses, ListBusiness, vars
<1>2. today' \in Nat
  BY DEF IInv, TypeOK, SetActive, DayPasses, ListBusiness, vars
<1>3. listed' \in [Workers -> BOOLEAN]
  <2>1. listed' = listed \/ \E w \in Workers : listed' = [listed EXCEPT ![w] = TRUE]
    BY DEF SetActive, DayPasses, ListBusiness, vars
  <2>2. listed \in [Workers -> BOOLEAN]
    BY DEF IInv, TypeOK
  <2> QED BY <2>1, <2>2
<1>4. active' \in BOOLEAN
  <2>1. CASE SetActive
    BY <2>1, Zenon DEF SetActive
  <2>2. CASE DayPasses \/ (\E w \in Workers : ListBusiness(w)) \/ UNCHANGED vars
    BY <2>2 DEF IInv, TypeOK, DayPasses, ListBusiness, vars
  <2> QED BY <2>1, <2>2
<1> QED BY <1>1, <1>2, <1>3, <1>4
        DEF IInv, TypeOK, Exist, ReadSettled

LEMMA NextInv ==
  ASSUME IInv, [Next]_vars
  PROVE  IInv'
<1>1. ASSUME NEW l \in Lots, CreateDraftLot(l) \/ DuplicateLot(l)
      PROVE  IInv'
  <2>1. wizard' \in SUBSET Lots
    BY <1>1 DEF CreateDraftLot, DuplicateLot, IInv, TypeOK
  <2> QED BY <1>1, <2>1, InsertInv DEF CreateDraftLot, DuplicateLot
<1> QED BY <1>1, RequestInv, SaveInv, AbortInv, ReadLotsInv, VisitInv, DieInv, OutsideInv
        DEF Next

\* Every state has well-typed rows, jobs and copies of lots that exist, and what
\* is sold, reserved or a draft was read so by every run for which it is not
\* stale.
THEOREM LotsInvariant == Spec => []IInv
BY InitInv, NextInv, PTL DEF Spec

\* Type correctness.
THEOREM LotsTypes == Spec => []TypeOK
<1>1. IInv => TypeOK
  BY DEF IInv
<1> QED BY <1>1, LotsInvariant, PTL

-----------------------------------------------------------------------------
(* What follows *)

\* The freshness task may miss runs and repeat them.
THEOREM RunsMayBeMissed == Spec => []RunsCatchUp
<1>1. TypeOK => RunsCatchUp
  <2> SUFFICES ASSUME TypeOK, NEW l \in Lots, NEW day \in today .. LastDay, lot[l] # None
               PROVE  Transition(Transition(lot[l], today), day) = Transition(lot[l], day)
    BY DEF RunsCatchUp
  <2>1. lot[l] \in Row /\ today \in Nat /\ day \in Nat /\ today <= day
    BY LotConstants DEF TypeOK
  <2> QED BY <2>1, LaterRunCatchesUp
<1> QED BY <1>1, LotsTypes, PTL

\* Nobody who was not at an archived lot before gets hold of it, and it is changed
\* by nobody else.
LEMMA RestStep ==
  ASSUME IInv, [Next]_vars, NEW l \in Lots, AtRest(l)
  PROVE  AtRest(l)' /\ lot'[l] = lot[l]
<1> DEFINE Untouched == /\ lot'[l] = lot[l]
                        /\ BeingSaved(l)' \subseteq BeingSaved(l)
                        /\ BeingWalked(l)' \subseteq BeingWalked(l)
<1>0. SUFFICES Untouched
  BY DEF AtRest
<1>1. ASSUME NEW m \in Lots, CreateDraftLot(m) \/ DuplicateLot(m)
      PROVE  Untouched
  BY <1>1 DEF CreateDraftLot, DuplicateLot, AtRest, IInv, TypeOK, BeingSaved, BeingWalked
<1>2. ASSUME NEW s \in Sessions, NEW m \in Lots, Request(s, m)
      PROVE  Untouched
  <2>1. m # l
    BY <1>2 DEF Request, UpdateQuantity, Review, EditLot, ConfirmLot, MarkLotSold, HideLot,
           ArchiveLot, Found, AtRest
  <2>2. PICK saves, columns, review : Begin(s, m, saves, columns, review)
    BY <1>2 DEF Request, UpdateQuantity, Review, EditLot, ConfirmLot, MarkLotSold, HideLot,
           ArchiveLot
  <2>3. /\ UNCHANGED <<lot, copy>>
        /\ \A t \in Sessions : t # s => job'[t] = job[t]
        /\ job'[s].lot = m
    BY <2>2 DEF Begin, IInv, TypeOK
  <2> QED BY <2>1, <2>3 DEF BeingSaved, BeingWalked
<1>3. ASSUME NEW s \in Sessions, Save(s)
      PROVE  Untouched
  <2>1. job[s] # None /\ job[s].lot # l /\ copy' = copy
    BY <1>3 DEF Save, AtRest, BeingSaved
  <2>2. lot'[l] = lot[l]
    BY <1>3, <2>1 DEF Save, IInv, TypeOK
  <2>3. /\ \A t \in Sessions : t # s => job'[t] = job[t]
        /\ job'[s] # None => job'[s].lot = job[s].lot
    <3>1. job[s] \in Job
      BY <2>1 DEF IInv, TypeOK
    <3> QED BY <1>3, <3>1 DEF Save, IInv, TypeOK, Job
  <2> QED BY <2>1, <2>2, <2>3 DEF BeingSaved, BeingWalked
<1>4. ASSUME NEW s \in Sessions, Abort(s)
      PROVE  Untouched
  BY <1>4 DEF Abort, IInv, TypeOK, BeingSaved, BeingWalked
<1>5. ASSUME NEW w \in Workers, ReadLots(w)
      PROVE  Untouched
  <2>1. ~Scanned(lot[l])
    BY DEF AtRest, Scanned
  <2>2. /\ UNCHANGED <<lot, job>>
        /\ copy'[w][l] = None
        /\ \A v \in Workers : v # w => copy'[v] = copy[v]
    BY <1>5, <2>1 DEF ReadLots, IInv, TypeOK
  <2> QED BY <2>2 DEF BeingSaved, BeingWalked
<1>6. ASSUME NEW w \in Workers, NEW m \in Lots, Visit(w, m)
      PROVE  Untouched
  <2>1. m # l
    BY <1>6 DEF Visit, AtRest, BeingWalked
  <2>2. lot'[l] = lot[l] /\ job' = job
    BY <1>6, <2>1 DEF Visit, IInv, TypeOK
  <2>3. \A v \in Workers : copy'[v][l] # None => copy[v][l] # None
    BY <1>6 DEF Visit, IInv, TypeOK
  <2> QED BY <2>2, <2>3 DEF BeingSaved, BeingWalked
<1>7. ASSUME NEW w \in Workers, Die(w)
      PROVE  Untouched
  <2>1. \A v \in Workers : copy'[v][l] # None => copy[v][l] # None
    BY <1>7 DEF Die, NoCopies, IInv, TypeOK
  <2> QED BY <1>7, <2>1 DEF Die, BeingSaved, BeingWalked
<1>8. CASE SetActive \/ DayPasses \/ (\E w \in Workers : ListBusiness(w)) \/ UNCHANGED vars
  BY <1>8 DEF SetActive, DayPasses, ListBusiness, vars, BeingSaved, BeingWalked
<1> QED BY <1>1, <1>2, <1>3, <1>4, <1>5, <1>6, <1>7, <1>8 DEF Next

\* An archived lot rests, once those who were at it have finished.
THEOREM ArchivedLotsRest == Spec => ArchivedRests
<1>1. IInv /\ [Next]_vars =>
        [\A l \in Lots : AtRest(l) => AtRest(l)' /\ lot'[l] = lot[l]]_vars
  BY RestStep
<1> QED BY <1>1, LotsInvariant, PTL DEF Spec, ArchivedRests

\* A run spares what is sold, reserved or a draft, whatever overlapping runs do,
\* unless somebody has saved the lot since this run read it.
THEOREM TaskSpares == Spec => TaskSparesUnlessSaved
<1>1. IInv /\ [Next]_vars =>
        [\A w \in Workers, l \in Lots :
           /\ copy'[w][l] # copy[w][l]
           /\ l \notin stale[w]
           /\ lot[l] # None /\ lot[l].status \in Settled
           => lot'[l] = lot[l]]_vars
  <2> SUFFICES ASSUME IInv, [Next]_vars, NEW w \in Workers, NEW l \in Lots,
                      copy'[w][l] # copy[w][l], l \notin stale[w],
                      lot[l] # None, lot[l].status \in Settled
               PROVE  lot'[l] = lot[l]
    OBVIOUS
  <2>1. ASSUME NEW v \in Workers, NEW m \in Lots, Visit(v, m)
        PROVE  lot'[l] = lot[l]
    <3>1. v = w /\ m = l
      BY <2>1 DEF Visit, IInv, TypeOK
    <3>2. copy[w][l].status \in Settled
      BY <2>1, <3>1 DEF Visit, IInv, ReadSettled
    <3>3. NextStatus(copy[w][l], today) = copy[w][l].status
      BY <3>2 DEF NextStatus
    <3> QED BY <2>1, <3>1, <3>3 DEF Visit
  <2>2. ASSUME NEW s \in Sessions, NEW m \in Lots, Request(s, m)
        PROVE  copy' = copy
    BY <2>2 DEF Request, UpdateQuantity, Review, EditLot, ConfirmLot, MarkLotSold, HideLot,
           ArchiveLot, Begin
  <2> QED BY <2>1, <2>2
          DEF Next, CreateDraftLot, DuplicateLot, Save, Abort, ListBusiness, ReadLots, Die,
              SetActive, DayPasses, vars
<1> QED BY <1>1, LotsInvariant, PTL DEF Spec, TaskSparesUnlessSaved
===============================================================================
