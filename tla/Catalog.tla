------------------------------- MODULE Catalog -------------------------------
(***************************************************************************)
(* One shared catalog (apps/catalog): the list of lots an owner attaches to *)
(* a link, the pages its visitors see, and the count of their visits.       *)
(*                                                                          *)
(* A visit reads the row, then the list with the lots in one query, then    *)
(* adds one to the count it read. catalog_edit saves the whole row as it    *)
(* read it, and then replaces the list in a transaction. All of it          *)
(* interleaves with other visits, other editors, and changes of the lots.   *)
(* A visitor may send an inquiry instead. The order, notes and prices of    *)
(* the lots are left out.                                                   *)
(***************************************************************************)
EXTENDS Naturals, FiniteSets, Inquiries

CONSTANTS Lots, Visitors, Editors,
          MaxVisits   \* bound: visits recorded and still to be recorded

ASSUME CatalogConstants == MaxVisits \in Nat

VARIABLES lot,        \* lot[l]: "offered", "withdrawn" (draft, hidden, sold, expired), "archived"
          row,        \* the row of the catalog
          items,      \* the committed list
          visit,      \* visit[v]: the page v is being sent
          edit,       \* edit[e]: what e is saving
          recorded,   \* history: visits recorded
          lost,       \* history: a row was saved from a count that had changed
          mixed,      \* history: two editors replaced the list at once
          wanted,     \* history: the list that was asked for last
          always,     \* history: always[v], the lots that v ought to see ...
          ever        \* history: ever[v], ... and those it may, since it came

shop == <<lot, row, items>>
history == <<recorded, lost, mixed, wanted>>
pages == <<shop, visit, edit, history>>
vars == <<pages, always, ever, inquiryVars>>

\* open: is_active, and not past expires_at.
CatalogRow == [stage : {"none", "kept"}, open : BOOLEAN, views : 0 .. MaxVisits]

NoVisit == [stage |-> "idle"]
NoEdit == [stage |-> "idle"]

-----------------------------------------------------------------------------
(* Visits *)

Offered == {l \in Lots : lot[l] = "offered"}

\* The visit is still to be recorded.
Counting(v) == visit[v].stage \in {"items", "counting"}

\* get_shareable_catalog: the row.
OpenLink(v) ==
  /\ visit[v] = NoVisit
  /\ row.stage = "kept" /\ row.open
  /\ recorded + Cardinality({x \in Visitors : Counting(x)}) < MaxVisits
  /\ visit' = [visit EXCEPT ![v] = [stage |-> "items", views |-> row.views, fresh |-> TRUE]]
  /\ UNCHANGED <<shop, edit, history>>

\* The list as the page shows it, the lots read along with it.
ShownItems == items \cap Offered

\* Its items, with their lots.
ReadItems(v) ==
  /\ visit[v].stage = "items"
  /\ visit' = [visit EXCEPT ![v] = [stage |-> "counting", views |-> @.views, fresh |-> @.fresh,
                                    shown |-> ShownItems]]
  /\ UNCHANGED <<shop, edit, history>>

\* Whoever has read the row and has not written it yet has read an old one.
Outdate(process) ==
  [p \in DOMAIN process |-> IF process[p].stage \in {"items", "counting", "saving"}
                            THEN [process[p] EXCEPT !.fresh = FALSE] ELSE process[p]]

\* record_catalog_view
RecordView(v) ==
  /\ visit[v].stage = "counting"
  /\ row' = [row EXCEPT !.views = visit[v].views + 1]
  /\ recorded' = recorded + 1
  /\ lost' = (lost \/ ~visit[v].fresh)
  /\ visit' = [Outdate(visit) EXCEPT ![v] = [stage |-> "shown", shown |-> visit[v].shown]]
  /\ edit' = Outdate(edit)
  /\ UNCHANGED <<lot, items, mixed, wanted>>

\* FAULTY: a page sent with an inquiry is counted as well.
FaultySendInquiry(v, i) ==
  /\ visit[v].stage = "counting"
  /\ CreateInquiry(i)
  /\ row' = [row EXCEPT !.views = visit[v].views + 1]
  /\ visit' = [visit EXCEPT ![v] = NoVisit]
  /\ UNCHANGED <<lot, items, edit, history>>

\* The page was sent with an inquiry: no visit is counted.
SendInquiry(v, i) ==
  /\ visit[v].stage = "counting"
  /\ CreateInquiry(i)
  /\ visit' = [visit EXCEPT ![v] = NoVisit]
  /\ UNCHANGED <<shop, edit, history>>

LeavePage(v) ==
  /\ visit[v].stage = "shown"
  /\ visit' = [visit EXCEPT ![v] = NoVisit]
  /\ UNCHANGED <<shop, edit, history>>

-----------------------------------------------------------------------------
(* Editors *)

\* The lots the form offers.
Attachable == {l \in Lots : lot[l] # "archived"}

\* catalog_create: the row and its list in one transaction, is_active after it.
BeginCreate(e, open, want) ==
  /\ edit[e] = NoEdit
  /\ row.stage = "none"
  /\ \A f \in Editors : edit[f].stage # "creating"
  /\ edit' = [edit EXCEPT ![e] = [stage |-> "creating", open |-> open, want |-> want]]
  /\ UNCHANGED <<shop, visit, history>>

CreateCatalog(e) ==
  /\ edit[e].stage = "creating"
  /\ IF edit[e].want \subseteq Attachable
     THEN /\ row' = [stage |-> "kept", open |-> TRUE, views |-> 0]
          /\ items' = edit[e].want
          /\ wanted' = edit[e].want
          /\ edit' = [edit EXCEPT ![e] = [stage |-> "activating", open |-> @.open]]
     ELSE /\ edit' = [edit EXCEPT ![e] = NoEdit]
          /\ UNCHANGED <<row, items, wanted>>
  /\ UNCHANGED <<lot, visit, recorded, lost, mixed>>

SaveActive(e) ==
  /\ edit[e].stage = "activating"
  /\ row' = [row EXCEPT !.open = edit[e].open]
  /\ edit' = [edit EXCEPT ![e] = NoEdit]
  /\ UNCHANGED <<lot, items, visit, history>>

\* catalog_edit: the row is read, with its count.
BeginEdit(e, open, want) ==
  /\ edit[e] = NoEdit
  /\ row.stage = "kept"
  /\ edit' = [edit EXCEPT ![e] = [stage |-> "saving", open |-> open, want |-> want,
                                  views |-> row.views, fresh |-> TRUE]]
  /\ UNCHANGED <<shop, visit, history>>

\* catalog.save(): every column, the count as it was read.
SaveSettings(e) ==
  /\ edit[e].stage = "saving"
  /\ row' = [row EXCEPT !.open = edit[e].open, !.views = edit[e].views]
  /\ lost' = (lost \/ ~edit[e].fresh)
  /\ visit' = Outdate(visit)
  /\ edit' = [Outdate(edit) EXCEPT ![e] = [stage |-> "checking", want |-> edit[e].want]]
  /\ UNCHANGED <<lot, items, recorded, mixed, wanted>>

Replacing(e) == edit[e].stage \in {"deleting", "inserting", "committing"}

\* set_catalog_lots, a transaction: a lot archived since the form was shown refuses
\* the list, and leaves the settings saved. The rows to delete are those the delete
\* finds when it starts.
CheckLots(e) ==
  /\ edit[e].stage = "checking"
  /\ IF edit[e].want \subseteq Attachable
     THEN /\ edit' = [edit EXCEPT ![e] = [stage |-> "deleting", want |-> @.want, old |-> items]]
          /\ mixed' = (mixed \/ \E f \in Editors : Replacing(f))
     ELSE edit' = [edit EXCEPT ![e] = NoEdit] /\ mixed' = mixed
  /\ UNCHANGED <<shop, visit, recorded, lost, wanted>>

\* It waits for rows that another editor is deleting.
DeleteItems(e) ==
  /\ edit[e].stage = "deleting"
  /\ \A f \in Editors \ {e} :
       edit[f].stage \in {"inserting", "committing"} => edit[f].old \cap edit[e].old = {}
  /\ edit' = [edit EXCEPT ![e].stage = "inserting"]
  /\ UNCHANGED <<shop, visit, history>>

\* FAULTY: the old list is committed away before the new one is there.
FaultyInsertItems(e) ==
  /\ edit[e].stage = "inserting"
  /\ items' = items \ edit[e].old
  /\ edit' = [edit EXCEPT ![e].stage = "committing"]
  /\ UNCHANGED <<lot, row, visit, history>>

\* The unique index refuses a lot that is in the list by now, after waiting for the
\* editor who is putting it there or taking it off.
InsertItems(e) ==
  /\ edit[e].stage = "inserting"
  /\ \A f \in Editors \ {e} :
       /\ edit[f].stage = "committing" => edit[f].want \cap edit[e].want = {}
       /\ edit[f].stage \in {"inserting", "committing"} => edit[f].old \cap edit[e].want = {}
  /\ edit' = [edit EXCEPT ![e] = IF (items \ @.old) \cap @.want = {}
                                 THEN [@ EXCEPT !.stage = "committing"] ELSE NoEdit]
  /\ UNCHANGED <<shop, visit, history>>

\* FAULTY: nothing is deleted.
FaultyNewList(e) == items \cup edit[e].want

NewList(e) == (items \ edit[e].old) \cup edit[e].want

\* Rows another editor had found are gone, and the new ones are not among them.
CommitItems(e) ==
  /\ edit[e].stage = "committing"
  /\ items' = NewList(e)
  /\ wanted' = edit[e].want
  /\ edit' = [f \in Editors |-> IF f = e THEN NoEdit
                                ELSE IF edit[f].stage = "deleting"
                                THEN [edit[f] EXCEPT !.old = @ \ edit[e].old] ELSE edit[f]]
  /\ UNCHANGED <<lot, row, visit, recorded, lost, mixed>>

-----------------------------------------------------------------------------
\* Whatever the inventory does with a lot.
ChangeLot(l, state) ==
  /\ lot[l] # state
  /\ lot' = [lot EXCEPT ![l] = state]
  /\ UNCHANGED <<row, items, visit, edit, history>>

\* expires_at goes by.
Expire ==
  /\ row.open
  /\ row' = [row EXCEPT !.open = FALSE]
  /\ UNCHANGED <<lot, items, visit, edit, history>>

\* A worker dies. What it has not committed is gone.
VisitFails(v) ==
  /\ visit[v] # NoVisit
  /\ visit' = [visit EXCEPT ![v] = NoVisit]
  /\ UNCHANGED <<shop, edit, history>>

EditFails(e) ==
  /\ edit[e] # NoEdit
  /\ edit' = [edit EXCEPT ![e] = NoEdit]
  /\ UNCHANGED <<shop, visit, history>>

\* Until the page has read its list.
Watch ==
  LET fit == (items \cap Offered)'
      due == ((IF mixed THEN items ELSE wanted) \cap Offered)'
      Opens(v) == visit[v] = NoVisit /\ visit'[v] # NoVisit
      Reading(v) == visit'[v].stage = "items"
      Idles(v) == visit'[v] = NoVisit
  IN /\ always' = [v \in Visitors |-> IF Opens(v) THEN due
                                      ELSE IF Idles(v) THEN {}
                                      ELSE IF Reading(v) THEN always[v] \cap due ELSE always[v]]
     /\ ever' = [v \in Visitors |-> IF Opens(v) THEN fit
                                    ELSE IF Idles(v) THEN {}
                                    ELSE IF Reading(v) THEN ever[v] \cup fit ELSE ever[v]]

Init ==
  /\ InquiryInit
  /\ lot = [l \in Lots |-> "offered"]
  /\ row = [stage |-> "none", open |-> FALSE, views |-> 0]
  /\ items = {}
  /\ visit = [v \in Visitors |-> NoVisit]
  /\ edit = [e \in Editors |-> NoEdit]
  /\ recorded = 0
  /\ lost = FALSE
  /\ mixed = FALSE
  /\ wanted = {}
  /\ always = [v \in Visitors |-> {}]
  /\ ever = [v \in Visitors |-> {}]

Visiting(v) == OpenLink(v) \/ ReadItems(v) \/ RecordView(v) \/ LeavePage(v) \/ VisitFails(v)

Editing(e) ==
  \/ \E open \in BOOLEAN, want \in SUBSET Attachable :
       BeginCreate(e, open, want) \/ BeginEdit(e, open, want)
  \/ CreateCatalog(e) \/ SaveActive(e)
  \/ SaveSettings(e) \/ CheckLots(e) \/ DeleteItems(e) \/ InsertItems(e) \/ CommitItems(e)
  \/ EditFails(e)

Step ==
  \/ \E v \in Visitors : Visiting(v)
  \/ \E e \in Editors : Editing(e)
  \/ \E l \in Lots, state \in {"offered", "withdrawn", "archived"} : ChangeLot(l, state)
  \/ Expire

Next ==
  \/ Step /\ Watch /\ UNCHANGED inquiryVars
  \/ (\E v \in Visitors, i \in Inquiries : SendInquiry(v, i)) /\ Watch
  \/ InquiryNext /\ UNCHANGED <<pages, always, ever>>

Spec == Init /\ [][Next]_vars

-----------------------------------------------------------------------------
(* Properties *)

\* A page shows every lot that its owner wanted in the list and that was offered from
\* the moment the visitor came until the page was read, and none that was not
\* attached and offered at some moment of that time: no visit finds a list half
\* replaced, or a lot that was sold or hidden before.
PageIsWhole ==
  \A v \in Visitors :
    visit[v].stage \in {"counting", "shown"} =>
      always[v] \subseteq visit[v].shown /\ visit[v].shown \subseteq ever[v]

\* The list is the one that was asked for last, unless two editors replaced it at
\* once, when it may be the union of both.
ListIsOneEditors == ~mixed => items = wanted

\* The count is never more than the visits there were, and is exact unless a row was
\* saved from a count that had changed meanwhile.
ViewsCounted == row.views <= recorded /\ (~lost => row.views = recorded)
==============================================================================
