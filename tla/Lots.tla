--------------------------------- MODULE Lots ---------------------------------
(***************************************************************************)
(* The inventory lots of one business, the people who edit them and the     *)
(* hourly freshness task (apps/inventory).                                  *)
(*                                                                          *)
(* A view reads the lot in autocommit; the service changes that object and  *)
(* saves it, all its columns or those it names. The task reads all its lots *)
(* in one query and then saves the status of one after the other. Nobody    *)
(* locks, so each save is one step, made of what was read some time ago.    *)
(*                                                                          *)
(* Left out: quantities, prices, media and texts, and the capabilities of   *)
(* members.                                                                 *)
(***************************************************************************)
EXTENDS Integers, Sequences

CONSTANTS Lots,          \* primary keys of some lots of the business
          Sessions,      \* web requests in progress
          Workers,       \* runs of the freshness task that may overlap
          Never,         \* inventory_confirmed_at IS NULL
          None,          \* no lot, no job
          FormStatuses,  \* statuses chosen in the edit form
          Visibilities,  \* visibilities chosen in a form
          ConfirmDays,   \* FreshnessPolicy of the business
          StaleDays,
          HideDays,
          LastDay        \* bound on the days that pass

Statuses == {"draft", "available", "reservation_pending", "reserved", "partially_sold",
             "sold", "expired", "hidden", "needs_confirmation"}

Row == [status     : Statuses,
        visibility : {"private", "colleagues", "public"},
        confirmed  : Nat \cup {Never},   \* the day of inventory_confirmed_at
        archived   : BOOLEAN]            \* archived_at IS NOT NULL

Columns == {"status", "visibility", "confirmed", "archived"}

Job == [lot     : Lots,
        saves   : Seq(Row) \ {<<>>},   \* the objects still to be saved, in order
        columns : SUBSET Columns,      \* save(update_fields=...); all for save()
        review  : BOOLEAN]             \* the last page of the quick-add wizard

ASSUME LotConstants ==
  /\ Never \notin Nat
  /\ None \notin Row
  /\ None \notin Job
  /\ FormStatuses \subseteq Statuses
  /\ Visibilities \subseteq {"private", "colleagues", "public"}
  /\ {ConfirmDays, StaleDays, HideDays} \subseteq Int
  /\ LastDay \in Nat

VARIABLES lot,      \* lot[l]: the committed row, None before it is inserted
          wizard,   \* lots some quick-add wizard still holds
          active,   \* the business is ACTIVE
          today,
          job,      \* what each session is about to save
          listed,   \* listed[w]: run w has the business on its list
          copy,     \* copy[w][l]: the row run w has read and not yet dealt with
          stale     \* history: lots a session has saved since run w read them

vars == <<lot, wizard, active, today, job, listed, copy, stale>>

TypeOK ==
  /\ lot \in [Lots -> Row \cup {None}]
  /\ wizard \in SUBSET Lots
  /\ active \in BOOLEAN
  /\ today \in Nat
  /\ job \in [Sessions -> Job \cup {None}]
  /\ listed \in [Workers -> BOOLEAN]
  /\ copy \in [Workers -> [Lots -> Row \cup {None}]]
  /\ stale \in [Workers -> SUBSET Lots]

NoCopies == [l \in Lots |-> None]

Init ==
  /\ lot = [l \in Lots |-> None]
  /\ wizard = {}
  /\ active = TRUE
  /\ today = 0
  /\ job = [s \in Sessions |-> None]
  /\ listed = [w \in Workers |-> FALSE]
  /\ copy = [w \in Workers |-> NoCopies]
  /\ stale = [w \in Workers |-> {}]

-----------------------------------------------------------------------------
(* freshness.py *)

\* FAULTY: a lot only ever grows stale.
FaultyLevel(row, day) ==
  CASE row.status = "hidden"   -> "hidden"
    [] row.status # "hidden" /\ row.confirmed = Never -> "unknown"
    [] OTHER ->
         LET age == day - row.confirmed IN
         IF age <= ConfirmDays THEN "fresh"
         ELSE IF age <= StaleDays THEN "needs_confirmation"
         ELSE "stale"

\* evaluate_freshness.
Level(row, day) ==
  CASE row.status = "hidden" -> "hidden"
    [] row.status # "hidden" /\ row.confirmed = Never -> "unknown"
    [] OTHER ->
         LET age == day - row.confirmed IN
         IF age <= ConfirmDays THEN "fresh"
         ELSE IF age <= StaleDays THEN "needs_confirmation"
         ELSE IF age <= HideDays THEN "stale"
         ELSE "hidden"

\* The lots apply_freshness_transition leaves alone, and those the task's query
\* leaves out.
Settled  == {"sold", "reserved", "reservation_pending", "draft", "expired"}
Excluded == {"sold", "draft", "expired"}

\* FAULTY: a reserved lot is aged like any other.
FaultyNextStatus(row, day) ==
  IF row.status \in Excluded THEN row.status
  ELSE CASE Level(row, day) \in {"needs_confirmation", "stale"} -> "needs_confirmation"
         [] Level(row, day) = "hidden" -> "hidden"
         [] Level(row, day) = "fresh" /\ row.status = "needs_confirmation" -> "available"
         [] OTHER -> row.status

\* FAULTY: no step for a stale lot, and none back for a fresh one.
ForgetfulNextStatus(row, day) ==
  IF row.status \in Settled THEN row.status
  ELSE CASE Level(row, day) = "needs_confirmation" -> "needs_confirmation"
         [] Level(row, day) = "hidden" -> "hidden"
         [] OTHER -> row.status

\* apply_freshness_transition: the status it leaves the lot with.
NextStatus(row, day) ==
  IF row.status \in Settled THEN row.status
  ELSE CASE Level(row, day) \in {"needs_confirmation", "stale"} -> "needs_confirmation"
         [] Level(row, day) = "hidden" -> "hidden"
         [] Level(row, day) = "fresh" /\ row.status = "needs_confirmation" -> "available"
         [] OTHER -> row.status

Transition(row, day) == [row EXCEPT !.status = NextStatus(row, day)]

-----------------------------------------------------------------------------
(* Helpers *)

BeingSaved(l) == {s \in Sessions : job[s] # None /\ job[s].lot = l}
BeingWalked(l) == {w \in Workers : copy[w][l] # None}

\* get_business_lot finds the lot, and the handler is about to save it.
Begin(s, l, saves, columns, review) ==
  /\ job[s] = None
  /\ job' = [job EXCEPT ![s] = [lot |-> l, saves |-> saves, columns |-> columns,
                                review |-> review]]
  /\ UNCHANGED <<lot, wizard, active, today, listed, copy, stale>>

\* FAULTY: the lot is fetched by its key alone, archived or not.
FaultyFound(l) == lot[l] # None

Found(l) == lot[l] # None /\ ~lot[l].archived

DraftRow == [status |-> "draft", visibility |-> "private", confirmed |-> Never,
             archived |-> FALSE]

\* What a save of these columns makes of a row.
Saved(row, columns, object) ==
  [status     |-> IF "status" \in columns THEN object.status ELSE row.status,
   visibility |-> IF "visibility" \in columns THEN object.visibility ELSE row.visibility,
   confirmed  |-> IF "confirmed" \in columns THEN object.confirmed ELSE row.confirmed,
   archived   |-> IF "archived" \in columns THEN object.archived ELSE row.archived]

-----------------------------------------------------------------------------
(* Services and their views *)

\* create_draft_lot, from the third page of the wizard.
CreateDraftLot(l) ==
  /\ lot[l] = None
  /\ lot' = [lot EXCEPT ![l] = DraftRow]
  /\ wizard' = wizard \cup {l}
  /\ UNCHANGED <<active, today, job, listed, copy, stale>>

\* duplicate_lot: a draft, whatever the status of its original, which need not
\* be one of Lots.
DuplicateLot(l) ==
  /\ lot[l] = None
  /\ lot' = [lot EXCEPT ![l] = DraftRow]
  /\ UNCHANGED <<wizard, active, today, job, listed, copy, stale>>

\* quick_add_quantity, when the user has come back to it: update_lot_fields
\* saves every column as it was read.
UpdateQuantity(s, l) ==
  /\ Found(l)
  /\ l \in wizard
  /\ Begin(s, l, <<lot[l]>>, Columns, FALSE)

\* quick_add_review: update_lot_fields saves every column as it was read,
\* set_visibility_and_status every column again. An action that is neither of the
\* page's two buttons leaves the status.
Reviewed(row, visibility, action) ==
  CASE action = "publish" ->
         [row EXCEPT !.visibility = visibility, !.status = "available",
                     !.confirmed = IF @ = Never THEN today ELSE @]
    [] action = "draft" -> [row EXCEPT !.visibility = visibility, !.status = "draft"]
    [] action = "other" -> [row EXCEPT !.visibility = visibility]

Review(s, l, visibility, action) ==
  /\ Found(l)
  /\ l \in wizard
  /\ Begin(s, l, <<lot[l], Reviewed(lot[l], visibility, action)>>, Columns, TRUE)

\* lot_edit. Validating the form has put the chosen visibility and status in the
\* object already: both services save it whole, and the comparison with the new
\* status finds no difference.
EditLot(s, l, visibility, status) ==
  /\ Found(l)
  /\ LET object == [lot[l] EXCEPT !.visibility = visibility, !.status = status]
     IN Begin(s, l, <<object, object>>, Columns, FALSE)

\* mark_confirmed.
ConfirmLot(s, l) ==
  /\ Found(l)
  /\ LET status == IF lot[l].status = "needs_confirmation" THEN "available"
                   ELSE lot[l].status
     IN Begin(s, l, <<[lot[l] EXCEPT !.confirmed = today, !.status = status]>>,
              {"confirmed", "status"}, FALSE)

MarkLotSold(s, l) ==
  /\ Found(l)
  /\ Begin(s, l, <<[lot[l] EXCEPT !.status = "sold"]>>, {"status"}, FALSE)

HideLot(s, l) ==
  /\ Found(l)
  /\ Begin(s, l, <<[lot[l] EXCEPT !.status = "hidden"]>>, {"status"}, FALSE)

ArchiveLot(s, l) ==
  /\ Found(l)
  /\ Begin(s, l, <<[lot[l] EXCEPT !.archived = TRUE, !.status = "hidden"]>>,
           {"archived", "status"}, FALSE)

\* A save, committed on its own. After the review the wizard forgets its lot.
Save(s) ==
  /\ job[s] # None
  /\ LET j == job[s] IN
     /\ lot' = [lot EXCEPT ![j.lot] = Saved(@, j.columns, Head(j.saves))]
     /\ job' = [job EXCEPT ![s] = IF Len(j.saves) = 1 THEN None
                                  ELSE [j EXCEPT !.saves = Tail(@)]]
     /\ wizard' = IF j.review /\ Len(j.saves) = 1 THEN wizard \ {j.lot} ELSE wizard
     /\ stale' = [w \in Workers |-> IF w \in BeingWalked(j.lot) THEN stale[w] \cup {j.lot}
                                    ELSE stale[w]]
  /\ UNCHANGED <<active, today, listed, copy>>

\* The web worker dies between two statements.
Abort(s) ==
  /\ job[s] # None
  /\ job' = [job EXCEPT ![s] = None]
  /\ UNCHANGED <<lot, wizard, active, today, listed, copy, stale>>

-----------------------------------------------------------------------------
(* The freshness task *)

Scanned(row) == row # None /\ row.status \notin Excluded /\ ~row.archived

\* evaluate_inventory_freshness: the business is active as its list is read ...
ListBusiness(w) ==
  /\ active
  /\ ~listed[w]
  /\ copy[w] = NoCopies
  /\ listed' = [listed EXCEPT ![w] = TRUE]
  /\ UNCHANGED <<lot, wizard, active, today, job, copy, stale>>

\* ... and its lots are read in one query of their own.
ReadLots(w) ==
  /\ listed[w]
  /\ listed' = [listed EXCEPT ![w] = FALSE]
  /\ copy' = [copy EXCEPT ![w] = [l \in Lots |-> IF Scanned(lot[l]) THEN lot[l] ELSE None]]
  /\ stale' = [stale EXCEPT ![w] = {}]
  /\ UNCHANGED <<lot, wizard, active, today, job>>

\* The next lot of the run: its status is saved if the copy says it changes.
Visit(w, l) ==
  /\ copy[w][l] # None
  /\ LET status == NextStatus(copy[w][l], today)
     IN lot' = IF status = copy[w][l].status THEN lot ELSE [lot EXCEPT ![l].status = status]
  /\ copy' = [copy EXCEPT ![w][l] = None]
  /\ stale' = [stale EXCEPT ![w] = @ \ {l}]
  /\ UNCHANGED <<wizard, active, today, job, listed>>

\* The task is killed half-way; nothing resumes it but the next run.
Die(w) ==
  /\ listed[w] \/ copy[w] # NoCopies
  /\ listed' = [listed EXCEPT ![w] = FALSE]
  /\ copy' = [copy EXCEPT ![w] = NoCopies]
  /\ stale' = [stale EXCEPT ![w] = {}]
  /\ UNCHANGED <<lot, wizard, active, today, job>>

-----------------------------------------------------------------------------

\* The administrators suspend and reinstate the business.
SetActive ==
  /\ active' = ~active
  /\ UNCHANGED <<lot, wizard, today, job, listed, copy, stale>>

DayPasses ==
  /\ today < LastDay
  /\ today' = today + 1
  /\ UNCHANGED <<lot, wizard, active, job, listed, copy, stale>>

Request(s, l) ==
  \/ UpdateQuantity(s, l)
  \/ \E visibility \in Visibilities :
       \/ \E action \in {"publish", "draft", "other"} : Review(s, l, visibility, action)
       \/ \E status \in FormStatuses : EditLot(s, l, visibility, status)
  \/ ConfirmLot(s, l)
  \/ MarkLotSold(s, l)
  \/ HideLot(s, l)
  \/ ArchiveLot(s, l)

Next ==
  \/ \E l \in Lots : CreateDraftLot(l) \/ DuplicateLot(l)
  \/ \E s \in Sessions : Save(s) \/ Abort(s) \/ \E l \in Lots : Request(s, l)
  \/ \E w \in Workers : \/ ListBusiness(w) \/ ReadLots(w) \/ Die(w)
                       \/ \E l \in Lots : Visit(w, l)
  \/ SetActive
  \/ DayPasses

Spec == Init /\ [][Next]_vars

\* The beat starts the task again and again, and not every run is killed before
\* it comes to a given lot. Nobody has to edit anything, and no day has to pass.
FairRun(w) ==
  /\ WF_vars(ListBusiness(w))
  /\ SF_vars(ReadLots(w))
  /\ \A l \in Lots : SF_vars(Visit(w, l))

Fairness == \A w \in Workers : FairRun(w)

FairSpec == Spec /\ Fairness

-----------------------------------------------------------------------------
(* Properties *)

\* Runs that were missed do not matter: a run today and one on a later day leave
\* a lot as the later one alone would, and running twice is running once.
RunsCatchUp ==
  \A l \in Lots, day \in today .. LastDay :
    lot[l] # None =>
      Transition(Transition(lot[l], today), day) = Transition(lot[l], day)

\* Once a lot is archived and whoever was at it by then has finished, it is as it
\* is for good: no form, no confirmation and no run of the task gets hold of it
\* again.
AtRest(l) ==
  /\ lot[l] # None
  /\ lot[l].archived
  /\ BeingSaved(l) = {} /\ BeingWalked(l) = {}

ArchivedRests == [][\A l \in Lots : AtRest(l) => AtRest(l)' /\ lot'[l] = lot[l]]_vars

\* "Does not touch sold/reserved lots" (apply_freshness_transition). A run that
\* comes to a lot which is sold, reserved or a draft leaves it as it is, whatever
\* overlapping runs have done to it, provided that nobody has saved the lot since
\* this run read it ...
TaskSparesUnlessSaved ==
  [][\A w \in Workers, l \in Lots :
       /\ copy'[w][l] # copy[w][l]
       /\ l \notin stale[w]
       /\ lot[l] # None /\ lot[l].status \in Settled
       => lot'[l] = lot[l]]_vars

\* ... and whenever it was sold or reserved: the task's own steps are those that
\* move copy.
TaskSparesSettled ==
  [][\A l \in Lots :
       lot[l] # None /\ lot[l].status \in Settled /\ copy' # copy => lot'[l] = lot[l]]_vars

\* A lot that buyers see, on the marketplace or the storefront.
OnMarket(l) ==
  /\ active
  /\ lot[l] # None
  /\ ~lot[l].archived
  /\ lot[l].status \in {"available", "needs_confirmation", "partially_sold"}
  /\ lot[l].visibility \in {"colleagues", "public"}

Age(l) == today - lot[l].confirmed

\* What nobody has confirmed for too long leaves the market, however stale the
\* copies of the task are and although it may be killed. A lot that has never
\* been confirmed has no age and may stay.
Overdue(l) == OnMarket(l) /\ lot[l].confirmed # Never /\ Age(l) > HideDays

OverdueLeaves == \A l \in Lots : Overdue(l) ~> ~Overdue(l)

\* A lot confirmed while the task was about to question it is put right by a
\* later run: a fresh lot does not go on being shown as unconfirmed.
Doubted(l) ==
  /\ OnMarket(l)
  /\ lot[l].status = "needs_confirmation"
  /\ lot[l].confirmed # Never /\ Age(l) <= ConfirmDays

DoubtsEnd == \A l \in Lots : Doubted(l) ~> ~Doubted(l)
===============================================================================
