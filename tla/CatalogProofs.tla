---------------------------- MODULE CatalogProofs ----------------------------
(***************************************************************************)
(* Proofs about a shared catalog, for any lots, visitors, editors,          *)
(* inquiries and handlers.                                                  *)
(***************************************************************************)
EXTENDS Catalog, TLAPS

(***************************************************************************)
(* The invariant                                                            *)
(***************************************************************************)

Visits ==
  {NoVisit}
    \cup [stage : {"items"}, views : Nat, fresh : BOOLEAN]
    \cup [stage : {"counting"}, views : Nat, fresh : BOOLEAN, shown : SUBSET Lots]
    \cup [stage : {"shown"}, shown : SUBSET Lots]

Edits ==
  {NoEdit}
    \cup [stage : {"creating"}, open : BOOLEAN, want : SUBSET Lots]
    \cup [stage : {"activating"}, open : BOOLEAN]
    \cup [stage : {"saving"}, open : BOOLEAN, want : SUBSET Lots, views : Nat, fresh : BOOLEAN]
    \cup [stage : {"checking"}, want : SUBSET Lots]
    \cup [stage : {"deleting", "inserting", "committing"}, want : SUBSET Lots, old : SUBSET Lots]

Typed ==
  /\ lot \in [Lots -> {"offered", "withdrawn", "archived"}]
  /\ row \in [stage : {"none", "kept"}, open : BOOLEAN, views : Nat]
  /\ items \in SUBSET Lots /\ wanted \in SUBSET Lots
  /\ visit \in [Visitors -> Visits]
  /\ edit \in [Editors -> Edits]
  /\ recorded \in Nat /\ lost \in BOOLEAN /\ mixed \in BOOLEAN

\* Nobody has read a catalog that is not there, and one editor creates it.
Creation ==
  /\ row.stage = "none" => /\ recorded = 0
                           /\ \A v \in Visitors : ~Counting(v)
                           /\ \A e \in Editors : edit[e].stage \in {"idle", "creating"}
  /\ \A e, f \in Editors :
       edit[e].stage = "creating" => row.stage = "none" /\ (edit[f].stage = "creating" => e = f)

\* A count that was read is of a visit that was; a fresh one is that of the row.
Counts ==
  /\ \A v \in Visitors : Counting(v) =>
       visit[v].views <= recorded /\ (visit[v].fresh => visit[v].views = row.views)
  /\ \A e \in Editors : edit[e].stage = "saving" =>
       edit[e].views <= recorded /\ (edit[e].fresh => edit[e].views = row.views)

\* An editor who replaces the list has it to herself, and has found it as it is.
Replaces ==
  ~mixed => \A e, f \in Editors :
              Replacing(e) => edit[e].old = items /\ (Replacing(f) => e = f)

\* Until it is read, a page can only become what it ought to show.
Due(v) ==
  visit[v].stage = "items" => always[v] \subseteq ShownItems /\ ShownItems \subseteq ever[v]

Pages == PageIsWhole /\ \A v \in Visitors : Due(v)

IInv == Typed /\ Creation /\ Counts /\ Replaces /\ ListIsOneEditors /\ ViewsCounted /\ Pages

(***************************************************************************)
(* Types                                                                    *)
(***************************************************************************)

\* What a visit and an edit hold at each stage.
LEMMA Stages ==
  /\ \A x \in Visits :
       /\ x.stage \in {"idle", "items", "counting", "shown"}
       /\ x = NoVisit <=> x.stage = "idle"
       /\ x.stage \in {"items", "counting"} => x.views \in Nat /\ x.fresh \in BOOLEAN
       /\ x.stage \in {"counting", "shown"} => x.shown \in SUBSET Lots
  /\ \A x \in Edits :
       /\ x.stage \in {"idle", "creating", "activating", "saving", "checking", "deleting",
                       "inserting", "committing"}
       /\ x = NoEdit <=> x.stage = "idle"
       /\ x.stage \in {"creating", "activating", "saving"} => x.open \in BOOLEAN
       /\ x.stage \notin {"idle", "activating"} => x.want \in SUBSET Lots
       /\ x.stage \in {"deleting", "inserting", "committing"} => x.old \in SUBSET Lots
       /\ x.stage = "saving" => x.views \in Nat /\ x.fresh \in BOOLEAN
  BY DEF Visits, Edits, NoVisit, NoEdit

\* Whoever has read the row loses its freshness, and nothing else.
LEMMA Outdated ==
  ASSUME Typed
  PROVE  /\ Outdate(visit) \in [Visitors -> Visits] /\ Outdate(edit) \in [Editors -> Edits]
         /\ \A v \in Visitors :
              LET x == Outdate(visit)[v]
              IN /\ x.stage = visit[v].stage /\ (Counting(v) => x.views = visit[v].views /\ ~x.fresh)
                 /\ visit[v].stage \in {"counting", "shown"} => x.shown = visit[v].shown
         /\ \A e \in Editors :
              LET x == Outdate(edit)[e]
              IN /\ x.stage = edit[e].stage
                 /\ edit[e].stage # "saving" => x = edit[e]
                 /\ edit[e].stage = "saving" => x.views = edit[e].views /\ ~x.fresh
<1>1. ASSUME NEW v \in Visitors
      PROVE  LET x == Outdate(visit)[v]
             IN /\ x \in Visits
                /\ x.stage = visit[v].stage /\ (Counting(v) => x.views = visit[v].views /\ ~x.fresh)
                /\ visit[v].stage \in {"counting", "shown"} => x.shown = visit[v].shown
  <2>1. visit[v] \in Visits /\ DOMAIN visit = Visitors
    BY DEF Typed
  <2>2. CASE visit[v].stage \in {"items", "counting"}
    <3>1. Outdate(visit)[v] = [visit[v] EXCEPT !.fresh = FALSE]
      BY <2>1, <2>2 DEF Outdate
    <3>2. CASE visit[v] \in [stage : {"items"}, views : Nat, fresh : BOOLEAN]
      <4>1. Outdate(visit)[v] \in [stage : {"items"}, views : Nat, fresh : BOOLEAN]
        BY <3>1, <3>2
      <4> QED BY <3>1, <3>2, <4>1 DEF Visits, Counting
    <3>3. CASE visit[v] \in [stage : {"counting"}, views : Nat, fresh : BOOLEAN, shown : SUBSET Lots]
      <4>1. Outdate(visit)[v]
              \in [stage : {"counting"}, views : Nat, fresh : BOOLEAN, shown : SUBSET Lots]
        BY <3>1, <3>3
      <4> QED BY <3>1, <3>3, <4>1 DEF Visits, Counting
    <3> QED BY <2>1, <2>2, <3>2, <3>3 DEF Visits, NoVisit
  <2>3. CASE visit[v].stage \notin {"items", "counting"}
    <3>1. Outdate(visit)[v] = visit[v]
      BY <2>1, <2>3, Stages DEF Outdate
    <3> QED BY <2>1, <2>3, <3>1 DEF Counting
  <2> QED BY <2>2, <2>3
<1>2. ASSUME NEW e \in Editors
      PROVE  LET x == Outdate(edit)[e]
             IN /\ x \in Edits /\ x.stage = edit[e].stage
                /\ edit[e].stage # "saving" => x = edit[e]
                /\ edit[e].stage = "saving" => x.views = edit[e].views /\ ~x.fresh
  <2>1. edit[e] \in Edits /\ DOMAIN edit = Editors
    BY DEF Typed
  <2>2. CASE edit[e].stage = "saving"
    <3>1. Outdate(edit)[e] = [edit[e] EXCEPT !.fresh = FALSE]
      BY <2>1, <2>2 DEF Outdate
    <3>2. edit[e] \in [stage : {"saving"}, open : BOOLEAN, want : SUBSET Lots, views : Nat,
                       fresh : BOOLEAN]
      BY <2>1, <2>2 DEF Edits, NoEdit
    <3>3. Outdate(edit)[e] \in [stage : {"saving"}, open : BOOLEAN, want : SUBSET Lots, views : Nat,
                                fresh : BOOLEAN]
      BY <3>1, <3>2
    <3> QED BY <3>1, <3>2, <3>3 DEF Edits
  <2>3. CASE edit[e].stage # "saving"
    <3>1. Outdate(edit)[e] = edit[e]
      BY <2>1, <2>3, Stages DEF Outdate
    <3> QED BY <2>1, <2>3, <3>1
  <2> QED BY <2>2, <2>3
<1> QED BY <1>1, <1>2 DEF Outdate, Typed

\* What a visitor does is well typed.
LEMMA VisitTypes ==
  ASSUME Typed, NEW v \in Visitors,
         Visiting(v) \/ (\E i \in Inquiries : SendInquiry(v, i))
  PROVE  Typed'
<1>1. CASE OpenLink(v)
  BY <1>1 DEF OpenLink, Typed, Visits, shop, history
<1>2. CASE ReadItems(v)
  <2>1. ShownItems \in SUBSET Lots
    BY DEF ShownItems, Offered
  <2>2. visit'[v] \in Visits
    BY <1>2, <2>1, Stages DEF ReadItems, Typed, Visits
  <2> QED BY <1>2, <2>2 DEF ReadItems, Typed, shop, history
<1>3. CASE RecordView(v)
  <2>1. visit[v].views \in Nat /\ [stage |-> "shown", shown |-> visit[v].shown] \in Visits
    BY <1>3, Stages DEF RecordView, Typed, Visits
  <2>2. visit' \in [Visitors -> Visits] /\ edit' \in [Editors -> Edits]
    BY <1>3, <2>1, Outdated DEF RecordView
  <2>3. lost' \in BOOLEAN
    BY <1>3, Stages, Zenon DEF RecordView, Typed
  <2> QED BY <1>3, <2>1, <2>2, <2>3 DEF RecordView, Typed
<1>4. CASE LeavePage(v) \/ VisitFails(v) \/ (\E i \in Inquiries : SendInquiry(v, i))
  <2>1. /\ visit' = [visit EXCEPT ![v] = NoVisit] /\ UNCHANGED <<shop, edit, history>>
    BY <1>4 DEF LeavePage, VisitFails, SendInquiry
  <2> QED BY <2>1 DEF Typed, Visits, shop, history
<1> QED BY <1>1, <1>2, <1>3, <1>4 DEF Visiting

\* What an editor does is well typed.
LEMMA EditTypes ==
  ASSUME Typed, NEW e \in Editors, Editing(e)
  PROVE  Typed'
<1>0. edit[e] \in Edits /\ DOMAIN edit = Editors
  BY DEF Typed
<1>1. ASSUME NEW x \in Edits, edit' = [edit EXCEPT ![e] = x], UNCHANGED <<lot, visit, recorded, lost>>,
             row' \in [stage : {"none", "kept"}, open : BOOLEAN, views : Nat],
             items' \in SUBSET Lots, wanted' \in SUBSET Lots, mixed' \in BOOLEAN
      PROVE  Typed'
  BY <1>1 DEF Typed
<1>2. ASSUME NEW open \in BOOLEAN, NEW want \in SUBSET Attachable,
             BeginCreate(e, open, want) \/ BeginEdit(e, open, want)
      PROVE  Typed'
  <2>1. want \in SUBSET Lots
    BY DEF Attachable
  <2>2. /\ [stage |-> "creating", open |-> open, want |-> want] \in Edits
        /\ [stage |-> "saving", open |-> open, want |-> want, views |-> row.views, fresh |-> TRUE]
             \in Edits
    BY <2>1 DEF Edits, Typed
  <2> QED BY <1>1, <1>2, <2>2 DEF BeginCreate, BeginEdit, shop, history, Typed
<1>3. CASE CreateCatalog(e)
  <2>1. /\ edit[e].want \in SUBSET Lots
        /\ [stage |-> "activating", open |-> edit[e].open] \in Edits /\ NoEdit \in Edits
    BY <1>0, <1>3, Stages DEF CreateCatalog, Edits
  <2>2. [stage |-> "kept", open |-> TRUE, views |-> 0]
          \in [stage : {"none", "kept"}, open : BOOLEAN, views : Nat]
    OBVIOUS
  <2>3. CASE edit[e].want \subseteq Attachable
    <3>1. /\ edit' = [edit EXCEPT ![e] = [stage |-> "activating", open |-> edit[e].open]]
          /\ row' = [stage |-> "kept", open |-> TRUE, views |-> 0]
          /\ items' = edit[e].want /\ wanted' = edit[e].want
      BY <1>0, <1>3, <2>3 DEF CreateCatalog
    <3> QED BY <1>1, <1>3, <2>1, <2>2, <3>1 DEF CreateCatalog, Typed
  <2>4. CASE ~(edit[e].want \subseteq Attachable)
    BY <1>1, <1>3, <2>1, <2>4 DEF CreateCatalog, Typed
  <2> QED BY <2>3, <2>4
<1>4. CASE SaveActive(e)
  <2>1. edit[e].open \in BOOLEAN /\ NoEdit \in Edits
    BY <1>0, <1>4, Stages DEF SaveActive, Edits
  <2> QED BY <1>1, <1>4, <2>1 DEF SaveActive, Typed, history
<1>5. CASE SaveSettings(e)
  <2>1. /\ edit[e].open \in BOOLEAN /\ edit[e].views \in Nat /\ edit[e].want \in SUBSET Lots
        /\ [stage |-> "checking", want |-> edit[e].want] \in Edits
    BY <1>0, <1>5, Stages DEF SaveSettings, Edits
  <2>2. visit' \in [Visitors -> Visits] /\ edit' \in [Editors -> Edits]
    BY <1>5, <2>1, Outdated DEF SaveSettings
  <2>3. lost' \in BOOLEAN
    BY <1>5, Zenon DEF SaveSettings, Typed
  <2> QED BY <1>5, <2>1, <2>2, <2>3 DEF SaveSettings, Typed
<1>6. CASE CheckLots(e)
  <2>1. /\ edit[e].want \in SUBSET Lots /\ NoEdit \in Edits
        /\ [stage |-> "deleting", want |-> edit[e].want, old |-> items] \in Edits
    BY <1>0, <1>6, Stages DEF CheckLots, Edits, Typed
  <2>2. mixed' \in BOOLEAN
    BY <1>6, Zenon DEF CheckLots, Typed
  <2>3. \/ edit' = [edit EXCEPT ![e] = [stage |-> "deleting", want |-> edit[e].want, old |-> items]]
        \/ edit' = [edit EXCEPT ![e] = NoEdit]
    BY <1>0, <1>6 DEF CheckLots
  <2>4. UNCHANGED <<lot, row, items, visit, recorded, lost, wanted>>
    BY <1>6 DEF CheckLots, shop
  <2> QED BY <1>1, <2>1, <2>2, <2>3, <2>4 DEF Typed
<1>7. CASE DeleteItems(e) \/ InsertItems(e)
  <2>1. edit[e] \in [stage : {"deleting", "inserting", "committing"}, want : SUBSET Lots,
                     old : SUBSET Lots]
    BY <1>0, <1>7 DEF DeleteItems, InsertItems, Edits, NoEdit
  <2>2. /\ [edit[e] EXCEPT !.stage = "inserting"] \in Edits
        /\ [edit[e] EXCEPT !.stage = "committing"] \in Edits /\ NoEdit \in Edits
    BY <2>1 DEF Edits
  <2>3. \/ edit' = [edit EXCEPT ![e] = [edit[e] EXCEPT !.stage = "inserting"]]
        \/ edit' = [edit EXCEPT ![e] = [edit[e] EXCEPT !.stage = "committing"]]
        \/ edit' = [edit EXCEPT ![e] = NoEdit]
    BY <1>0, <1>7 DEF DeleteItems, InsertItems
  <2>4. UNCHANGED <<shop, visit, history>>
    BY <1>7 DEF DeleteItems, InsertItems
  <2> QED BY <1>1, <2>2, <2>3, <2>4 DEF Typed, shop, history
<1>8. CASE CommitItems(e)
  <2>1. edit[e].want \in SUBSET Lots /\ edit[e].old \in SUBSET Lots
    BY <1>0, <1>8, Stages DEF CommitItems
  <2>2. ASSUME NEW f \in Editors PROVE edit'[f] \in Edits
    <3>1. CASE edit[f].stage = "deleting" /\ f # e
      <4>1. edit[f] \in [stage : {"deleting", "inserting", "committing"}, want : SUBSET Lots,
                         old : SUBSET Lots]
        BY <3>1 DEF Typed, Edits, NoEdit
      <4>2. edit'[f] = [edit[f] EXCEPT !.old = edit[f].old \ edit[e].old]
        BY <1>8, <3>1, <4>1 DEF CommitItems
      <4> QED BY <4>1, <4>2 DEF Edits
    <3>2. CASE edit[f].stage # "deleting" \/ f = e
      BY <1>8, <3>2 DEF CommitItems, Typed, Edits
    <3> QED BY <3>1, <3>2
  <2>3. edit' \in [Editors -> Edits]
    BY <1>8, <2>2 DEF CommitItems
  <2> QED BY <1>8, <2>1, <2>3 DEF CommitItems, NewList, Typed
<1>9. CASE EditFails(e)
  BY <1>1, <1>9 DEF EditFails, Edits, Typed, shop, history
<1> QED BY <1>2, <1>3, <1>4, <1>5, <1>6, <1>7, <1>8, <1>9 DEF Editing

\* The other steps of the catalog.
LEMMA OtherTypes ==
  ASSUME Typed,
         \/ \E l \in Lots, state \in {"offered", "withdrawn", "archived"} : ChangeLot(l, state)
         \/ Expire \/ UNCHANGED pages
  PROVE  Typed'
BY DEF ChangeLot, Expire, Typed, pages, shop, history

\* A step of the catalog, of a page sent with an inquiry, or of neither.
Act ==
  \/ Step
  \/ \E v \in Visitors, i \in Inquiries : SendInquiry(v, i)
  \/ UNCHANGED pages

\* Every step is one of these, and is watched.
LEMMA Acts ==
  ASSUME [Next]_vars
  PROVE  Act /\ (Watch \/ UNCHANGED <<pages, always, ever>>)
BY DEF Next, vars, Act

\* Every step keeps the types.
LEMMA TypesStep ==
  ASSUME Typed, Act
  PROVE  Typed'
BY VisitTypes, EditTypes, OtherTypes DEF Act, Step

(***************************************************************************)
(* The row and the count of visits                                          *)
(***************************************************************************)

\* What a visitor leaves alone: the lots, the lists, and what the editors are doing.
LEMMA VisitorsFrame ==
  ASSUME Typed, NEW v \in Visitors,
         Visiting(v) \/ (\E i \in Inquiries : SendInquiry(v, i))
  PROVE  /\ UNCHANGED <<lot, items, mixed, wanted>> /\ row'.stage = row.stage
         /\ \A e \in Editors : /\ edit'[e].stage = edit[e].stage
                               /\ edit[e].stage # "saving" => edit'[e] = edit[e]
<1>1. CASE RecordView(v)
  BY <1>1, Outdated DEF RecordView, Typed
<1>2. CASE ~RecordView(v)
  BY <1>2 DEF Visiting, OpenLink, ReadItems, LeavePage, VisitFails, SendInquiry, shop, history
<1> QED BY <1>1, <1>2

\* The catalog is created once, by one editor.
LEMMA CreationStep ==
  ASSUME Typed, Creation, Act
  PROVE  Creation'
<1>1. ASSUME NEW v \in Visitors, Visiting(v) \/ (\E i \in Inquiries : SendInquiry(v, i))
      PROVE  Creation'
  <2>1. ASSUME row.stage = "none"
        PROVE  recorded' = recorded /\ \A w \in Visitors : ~Counting(w)'
    BY <1>1, <2>1 DEF Creation, Counting, Visiting, OpenLink, ReadItems, RecordView, LeavePage,
                      VisitFails, SendInquiry, Typed, NoVisit, history
  <2> QED BY <1>1, <2>1, VisitorsFrame DEF Creation
<1>2. ASSUME NEW e \in Editors, Editing(e)
      PROVE  Creation'
  <2>1. CASE \E open \in BOOLEAN, want \in SUBSET Attachable :
               BeginCreate(e, open, want) \/ BeginEdit(e, open, want)
    BY <2>1 DEF BeginCreate, BeginEdit, Creation, Counting, Typed, shop, history
  <2>2. CASE CreateCatalog(e)
    <3>1. row.stage = "none" /\ \A f \in Editors : edit[f].stage = "creating" => f = e
      BY <2>2 DEF CreateCatalog, Creation
    <3>2. \A f \in Editors : edit'[f].stage # "creating"
      BY <2>2, <3>1 DEF CreateCatalog, Typed, NoEdit
    <3>3. CASE row'.stage = "none"
      BY <2>2, <3>1, <3>3 DEF CreateCatalog, Creation, Counting, Typed, NoEdit
    <3> QED BY <3>2, <3>3 DEF Creation
  <2>3. CASE SaveSettings(e)
    <3>1. edit[e].stage = "saving" /\ row.stage # "none" /\ row'.stage = row.stage
      BY <2>3 DEF SaveSettings, Creation, Typed
    <3>2. \A f \in Editors : edit'[f].stage = "creating" => edit[f].stage = "creating"
      BY <2>3, Outdated DEF SaveSettings
    <3> QED BY <3>1, <3>2 DEF Creation
  <2>4. CASE CommitItems(e)
    <3>1. row.stage # "none" /\ row' = row
      BY <2>4 DEF CommitItems, Creation
    <3>2. \A f \in Editors : edit'[f].stage = "creating" => edit[f].stage = "creating"
      <4> TAKE f \in Editors
      <4>1. CASE edit[f].stage = "deleting" /\ f # e
        <5>1. edit'[f] = [edit[f] EXCEPT !.old = edit[f].old \ edit[e].old]
          BY <2>4, <4>1 DEF CommitItems
        <5>2. edit[f] \in [stage : {"deleting", "inserting", "committing"}, want : SUBSET Lots,
                           old : SUBSET Lots]
          BY <4>1 DEF Typed, Edits, NoEdit
        <5> QED BY <4>1, <5>1, <5>2
      <4>2. CASE edit[f].stage # "deleting" \/ f = e
        BY <2>4, <4>2 DEF CommitItems, NoEdit
      <4> QED BY <4>1, <4>2
    <3> QED BY <3>1, <3>2 DEF Creation
  <2>5. CASE DeleteItems(e) \/ InsertItems(e)
    <3>1. row.stage # "none" /\ row' = row
      BY <2>5 DEF DeleteItems, InsertItems, Creation, shop
    <3>2. edit[e] \in [stage : {"deleting", "inserting", "committing"}, want : SUBSET Lots,
                       old : SUBSET Lots] /\ DOMAIN edit = Editors
      BY <2>5 DEF DeleteItems, InsertItems, Typed, Edits, NoEdit
    <3>3. \A f \in Editors : edit'[f].stage = "creating" => edit[f].stage = "creating"
      BY <2>5, <3>2 DEF DeleteItems, InsertItems, NoEdit
    <3> QED BY <3>1, <3>3 DEF Creation
  <2>6. CASE SaveActive(e) \/ CheckLots(e)
    <3>1. row.stage # "none" /\ row'.stage = row.stage
      BY <2>6 DEF SaveActive, CheckLots, Creation, Typed, shop
    <3>2. \A f \in Editors : edit'[f].stage = "creating" => edit[f].stage = "creating"
      BY <2>6 DEF SaveActive, CheckLots, Typed, NoEdit
    <3> QED BY <3>1, <3>2 DEF Creation
  <2>7. CASE EditFails(e)
    BY <2>7 DEF EditFails, Creation, Counting, Typed, NoEdit, shop, history
  <2> QED BY <1>2, <2>1, <2>2, <2>3, <2>4, <2>5, <2>6, <2>7 DEF Editing
<1>3. ASSUME \/ \E l \in Lots, state \in {"offered", "withdrawn", "archived"} : ChangeLot(l, state)
             \/ Expire \/ UNCHANGED pages
      PROVE  Creation'
  BY <1>3 DEF ChangeLot, Expire, Creation, Counting, Typed, pages, shop, history
<1> QED BY <1>1, <1>2, <1>3 DEF Act, Step

\* The count of the row, and what was read of it.
LEMMA CountsStep ==
  ASSUME Typed, Creation, Counts, ViewsCounted, Act
  PROVE  Counts' /\ ViewsCounted'
<1>0. row.views \in Nat /\ recorded \in Nat
  BY DEF Typed
<1>1. ASSUME NEW v \in Visitors, RecordView(v)
      PROVE  Counts' /\ ViewsCounted'
  <2>1. /\ visit[v].views \in Nat /\ visit[v].views <= recorded
        /\ visit[v].fresh => visit[v].views = row.views
    BY <1>1, Stages DEF RecordView, Counts, Counting, Typed
  <2>2. row'.views = visit[v].views + 1 /\ recorded' = recorded + 1
    BY <1>1 DEF RecordView, Typed
  <2>3. ~lost' => ~lost /\ visit[v].fresh
    BY <1>1 DEF RecordView
  <2>4. ViewsCounted'
    BY <1>0, <2>1, <2>2, <2>3 DEF ViewsCounted
  <2>5. ASSUME NEW w \in Visitors, Counting(w)'
        PROVE  visit'[w].views <= recorded' /\ ~visit'[w].fresh
    <3>1. w # v /\ visit'[w] = Outdate(visit)[w]
      BY <1>1, <2>5, Outdated DEF RecordView, Counting
    <3>2. Counting(w)
      BY <2>5, <3>1, Outdated DEF Counting
    <3>3. visit[w].views \in Nat /\ visit[w].views <= recorded
      BY <3>2, Stages DEF Counts, Counting, Typed
    <3> QED BY <1>0, <2>2, <3>1, <3>2, <3>3, Outdated
  <2>6. ASSUME NEW f \in Editors, edit'[f].stage = "saving"
        PROVE  edit'[f].views <= recorded' /\ ~edit'[f].fresh
    <3>1. edit'[f] = Outdate(edit)[f]
      BY <1>1 DEF RecordView
    <3>2. edit[f].stage = "saving"
      BY <2>6, <3>1, Outdated
    <3>3. edit[f].views \in Nat /\ edit[f].views <= recorded
      BY <3>2, Stages DEF Counts, Typed
    <3> QED BY <1>0, <2>2, <3>1, <3>2, <3>3, Outdated
  <2> QED BY <2>4, <2>5, <2>6 DEF Counts
<1>2. ASSUME NEW e \in Editors, SaveSettings(e)
      PROVE  Counts' /\ ViewsCounted'
  <2>1. /\ edit[e].views \in Nat /\ edit[e].views <= recorded
        /\ edit[e].fresh => edit[e].views = row.views
    BY <1>2, Stages DEF SaveSettings, Counts, Typed
  <2>2. row'.views = edit[e].views /\ recorded' = recorded
    BY <1>2 DEF SaveSettings, Typed
  <2>3. ~lost' => ~lost /\ edit[e].fresh
    BY <1>2 DEF SaveSettings
  <2>4. ViewsCounted'
    BY <1>0, <2>1, <2>2, <2>3 DEF ViewsCounted
  <2>5. ASSUME NEW w \in Visitors, Counting(w)'
        PROVE  visit'[w].views <= recorded' /\ ~visit'[w].fresh
    <3>1. visit'[w] = Outdate(visit)[w]
      BY <1>2 DEF SaveSettings
    <3>2. Counting(w)
      BY <2>5, <3>1, Outdated DEF Counting
    <3> QED BY <2>2, <3>1, <3>2, Outdated DEF Counts
  <2>6. ASSUME NEW f \in Editors, edit'[f].stage = "saving"
        PROVE  edit'[f].views <= recorded' /\ ~edit'[f].fresh
    <3>1. f # e /\ edit'[f] = Outdate(edit)[f]
      BY <1>2, <2>6, Outdated DEF SaveSettings
    <3>2. edit[f].stage = "saving"
      BY <2>6, <3>1, Outdated
    <3> QED BY <2>2, <3>1, <3>2, Outdated DEF Counts
  <2> QED BY <2>4, <2>5, <2>6 DEF Counts
<1>3. ASSUME NEW e \in Editors, CreateCatalog(e)
      PROVE  Counts' /\ ViewsCounted'
  <2>1. row.stage = "none"
    BY <1>3 DEF CreateCatalog, Creation
  <2>2. /\ recorded = 0 /\ \A v \in Visitors : ~Counting(v)
        /\ \A f \in Editors : edit[f].stage # "saving"
    BY <2>1 DEF Creation
  <2>3. UNCHANGED <<visit, recorded, lost>> /\ (row' = row \/ row'.views = 0)
    BY <1>3 DEF CreateCatalog
  <2>4. \A f \in Editors : edit'[f].stage # "saving"
    BY <1>3, <2>2 DEF CreateCatalog, Typed, NoEdit
  <2> QED BY <2>2, <2>3, <2>4 DEF Counts, ViewsCounted, Counting
<1>4. ASSUME row'.views = row.views, UNCHANGED <<recorded, lost>>,
             \A v \in Visitors : Counting(v)' =>
               \/ Counting(v) /\ visit'[v].views = visit[v].views /\ visit'[v].fresh = visit[v].fresh
               \/ visit'[v].views = row.views,
             \A f \in Editors : edit'[f].stage = "saving" =>
               edit'[f] = edit[f] \/ edit'[f].views = row.views
      PROVE  Counts' /\ ViewsCounted'
  BY <1>4 DEF Counts, ViewsCounted
<1>5. ASSUME NEW v \in Visitors, Visiting(v) \/ (\E i \in Inquiries : SendInquiry(v, i)), ~RecordView(v)
      PROVE  Counts' /\ ViewsCounted'
  <2>1. UNCHANGED <<row, edit, recorded, lost>>
    BY <1>5 DEF Visiting, OpenLink, ReadItems, LeavePage, VisitFails, SendInquiry, shop, history
  <2>2. \A w \in Visitors \ {v} : visit'[w] = visit[w]
    BY <1>5 DEF Visiting, OpenLink, ReadItems, LeavePage, VisitFails, SendInquiry, Typed
  <2>3. Counting(v)' =>
          \/ Counting(v) /\ visit'[v].views = visit[v].views /\ visit'[v].fresh = visit[v].fresh
          \/ visit'[v].views = row.views
    BY <1>5 DEF Visiting, OpenLink, ReadItems, LeavePage, VisitFails, SendInquiry, Typed, Counting, NoVisit
  <2>4. \A w \in Visitors : Counting(w)' =>
          \/ Counting(w) /\ visit'[w].views = visit[w].views /\ visit'[w].fresh = visit[w].fresh
          \/ visit'[w].views = row.views
    BY <2>2, <2>3 DEF Counting
  <2> QED BY <1>4, <2>1, <2>4
<1>6. ASSUME NEW e \in Editors, Editing(e), ~SaveSettings(e), ~CreateCatalog(e)
      PROVE  Counts' /\ ViewsCounted'
  <2>1. row'.views = row.views /\ UNCHANGED <<visit, recorded, lost>>
    BY <1>6 DEF Editing, BeginCreate, BeginEdit, SaveActive, CheckLots, DeleteItems, InsertItems,
                CommitItems, EditFails, Typed, shop, history
  <2>2. ASSUME NEW f \in Editors, edit'[f].stage = "saving"
        PROVE  edit'[f] = edit[f] \/ edit'[f].views = row.views
    <3>1. CASE CommitItems(e)
      <4>1. CASE edit[f].stage = "deleting" /\ f # e
        <5>1. edit'[f] = [edit[f] EXCEPT !.old = edit[f].old \ edit[e].old]
          BY <3>1, <4>1 DEF CommitItems
        <5>2. edit[f] \in [stage : {"deleting", "inserting", "committing"}, want : SUBSET Lots,
                           old : SUBSET Lots]
          BY <4>1 DEF Typed, Edits, NoEdit
        <5> QED BY <2>2, <4>1, <5>1, <5>2
      <4>2. CASE edit[f].stage # "deleting" \/ f = e
        BY <2>2, <3>1, <4>2 DEF CommitItems, NoEdit
      <4> QED BY <4>1, <4>2
    <3>2. CASE DeleteItems(e) \/ InsertItems(e)
      <4>1. edit[e] \in [stage : {"deleting", "inserting", "committing"}, want : SUBSET Lots,
                         old : SUBSET Lots] /\ DOMAIN edit = Editors
        BY <3>2 DEF DeleteItems, InsertItems, Typed, Edits, NoEdit
      <4> QED BY <2>2, <3>2, <4>1 DEF DeleteItems, InsertItems, NoEdit
    <3>3. CASE ~CommitItems(e) /\ ~DeleteItems(e) /\ ~InsertItems(e)
      BY <1>6, <2>2, <3>3 DEF Editing, BeginCreate, BeginEdit, SaveActive, CheckLots, EditFails,
                              Typed, NoEdit
    <3> QED BY <3>1, <3>2, <3>3
  <2> QED BY <1>4, <2>1, <2>2 DEF Counting
<1>7. ASSUME \/ \E l \in Lots, state \in {"offered", "withdrawn", "archived"} : ChangeLot(l, state)
             \/ Expire \/ UNCHANGED pages
      PROVE  Counts' /\ ViewsCounted'
  BY <1>4, <1>7 DEF ChangeLot, Expire, Typed, Counting, pages, shop, history
<1> QED BY <1>1, <1>2, <1>3, <1>5, <1>6, <1>7 DEF Act, Step

(***************************************************************************)
(* The list                                                                 *)
(***************************************************************************)

\* Steps that leave the list alone, and whoever replaces it.
LEMMA SameList ==
  ASSUME Replaces, ListIsOneEditors, UNCHANGED <<items, mixed, wanted>>,
         \A e \in Editors : Replacing(e)' => Replacing(e) /\ edit'[e].old = edit[e].old
  PROVE  Replaces' /\ ListIsOneEditors'
BY DEF Replaces, ListIsOneEditors

\* Nobody else is replacing the list when an editor commits it, or the history says so.
LEMMA ListStep ==
  ASSUME Typed, Creation, Replaces, ListIsOneEditors, Act
  PROVE  Replaces' /\ ListIsOneEditors'
<1>1. ASSUME NEW v \in Visitors, Visiting(v) \/ (\E i \in Inquiries : SendInquiry(v, i))
      PROVE  Replaces' /\ ListIsOneEditors'
  BY <1>1, VisitorsFrame, SameList DEF Replacing
<1>2. ASSUME NEW e \in Editors, Editing(e)
      PROVE  Replaces' /\ ListIsOneEditors'
  <2>0. edit \in [Editors -> Edits]
    BY DEF Typed
  <2>1. CASE \/ \E open \in BOOLEAN, want \in SUBSET Attachable :
                  BeginCreate(e, open, want) \/ BeginEdit(e, open, want)
             \/ SaveActive(e) \/ EditFails(e)
    <3>1. UNCHANGED <<items, mixed, wanted>>
      BY <2>1 DEF BeginCreate, BeginEdit, SaveActive, EditFails, shop, history
    <3>2. ASSUME NEW f \in Editors, Replacing(f)' PROVE Replacing(f) /\ edit'[f].old = edit[f].old
      BY <2>0, <2>1, <3>2 DEF BeginCreate, BeginEdit, SaveActive, EditFails, Replacing, NoEdit
    <3> QED BY <3>1, <3>2, SameList
  <2>2. CASE SaveSettings(e)
    <3>1. UNCHANGED <<items, mixed, wanted>>
      BY <2>2 DEF SaveSettings
    <3>2. ASSUME NEW f \in Editors, Replacing(f)' PROVE Replacing(f) /\ edit'[f].old = edit[f].old
      <4>1. f # e /\ edit'[f] = Outdate(edit)[f]
        BY <2>2, <3>2, Outdated DEF SaveSettings, Replacing
      <4> QED BY <3>2, <4>1, Outdated DEF Replacing
    <3> QED BY <3>1, <3>2, SameList
  <2>3. CASE CreateCatalog(e)
    <3>1. \A f \in Editors : ~Replacing(f)
      BY <2>3 DEF CreateCatalog, Creation, Replacing
    <3>2. \A f \in Editors : ~Replacing(f)'
      BY <2>0, <2>3, <3>1 DEF CreateCatalog, Replacing, NoEdit
    <3>3. mixed' = mixed /\ (items' = wanted' \/ UNCHANGED <<items, wanted>>)
      BY <2>3 DEF CreateCatalog
    <3> QED BY <3>2, <3>3 DEF Replaces, ListIsOneEditors
  <2>4. CASE CheckLots(e)
    <3>1. UNCHANGED <<items, wanted>>
      BY <2>4 DEF CheckLots, shop
    <3>2. CASE edit[e].want \subseteq Attachable
      <4>1. edit' = [edit EXCEPT ![e] = [stage |-> "deleting", want |-> edit[e].want, old |-> items]]
        BY <2>0, <2>4, <3>2 DEF CheckLots
      <4>2. ~mixed' => ~mixed /\ \A f \in Editors : ~Replacing(f)
        BY <2>4, <3>2 DEF CheckLots
      <4>3. ASSUME ~mixed', NEW f \in Editors, Replacing(f)'
            PROVE  f = e /\ edit'[f].old = items
        BY <2>0, <4>1, <4>2, <4>3 DEF Replacing
      <4> QED BY <3>1, <4>2, <4>3 DEF Replaces, ListIsOneEditors
    <3>3. CASE ~(edit[e].want \subseteq Attachable)
      <4>1. mixed' = mixed /\ edit' = [edit EXCEPT ![e] = NoEdit]
        BY <2>4, <3>3 DEF CheckLots
      <4> QED BY <2>0, <3>1, <4>1, SameList DEF Replacing, NoEdit
    <3> QED BY <3>2, <3>3
  <2>5. CASE DeleteItems(e) \/ InsertItems(e)
    <3>1. UNCHANGED <<items, mixed, wanted>> /\ Replacing(e)
      BY <2>5 DEF DeleteItems, InsertItems, Replacing, shop, history
    <3>2. edit[e] \in [stage : {"deleting", "inserting", "committing"}, want : SUBSET Lots,
                       old : SUBSET Lots]
      BY <2>0, <3>1 DEF Replacing, Edits, NoEdit
    <3>3. ASSUME NEW f \in Editors, Replacing(f)' PROVE Replacing(f) /\ edit'[f].old = edit[f].old
      BY <2>0, <2>5, <3>1, <3>2, <3>3 DEF DeleteItems, InsertItems, Replacing, NoEdit
    <3> QED BY <3>1, <3>3, SameList
  <2>6. CASE CommitItems(e)
    <3>1. mixed' = mixed /\ Replacing(e)
      BY <2>6 DEF CommitItems, Replacing
    <3>2. ASSUME ~mixed
          PROVE  items' = wanted' /\ \A f \in Editors : ~Replacing(f)'
      <4>1. edit[e].old = items /\ \A f \in Editors : Replacing(f) => f = e
        BY <3>1, <3>2 DEF Replaces
      <4>2. items' = wanted'
        BY <2>6, <4>1 DEF CommitItems, NewList
      <4>3. ASSUME NEW f \in Editors PROVE ~Replacing(f)'
        BY <2>6, <4>1 DEF CommitItems, Replacing, NoEdit
      <4> QED BY <4>2, <4>3
    <3> QED BY <3>1, <3>2 DEF Replaces, ListIsOneEditors
  <2> QED BY <1>2, <2>1, <2>2, <2>3, <2>4, <2>5, <2>6 DEF Editing
<1>3. ASSUME \/ \E l \in Lots, state \in {"offered", "withdrawn", "archived"} : ChangeLot(l, state)
             \/ Expire \/ UNCHANGED pages
      PROVE  Replaces' /\ ListIsOneEditors'
  BY <1>3, SameList DEF ChangeLot, Expire, Replacing, pages, shop, history
<1> QED BY <1>1, <1>2, <1>3 DEF Act, Step

(***************************************************************************)
(* The pages                                                                *)
(***************************************************************************)

\* A page is not sent, or waits for its list, or reads it, or has read it.
LEMMA PageStages ==
  ASSUME Typed, Act, NEW v \in Visitors
  PROVE  \/ visit'[v].stage = "idle" /\ visit'[v] = NoVisit
         \/ visit'[v].stage = "items" /\ (visit[v] = NoVisit \/ visit[v].stage = "items")
         \/ /\ visit[v].stage = "items" /\ visit'[v].stage = "counting"
            /\ visit'[v].shown = ShownItems
         \/ /\ visit[v].stage \in {"counting", "shown"} /\ visit'[v].stage \in {"counting", "shown"}
            /\ visit'[v].shown = visit[v].shown
<1> DEFINE Goal == \/ visit'[v].stage = "idle" /\ visit'[v] = NoVisit
                   \/ visit'[v].stage = "items" /\ (visit[v] = NoVisit \/ visit[v].stage = "items")
                   \/ /\ visit[v].stage = "items" /\ visit'[v].stage = "counting"
                      /\ visit'[v].shown = ShownItems
                   \/ /\ visit[v].stage \in {"counting", "shown"}
                      /\ visit'[v].stage \in {"counting", "shown"}
                      /\ visit'[v].shown = visit[v].shown
<1>0. /\ visit[v] \in Visits /\ visit[v].stage \in {"idle", "items", "counting", "shown"}
      /\ visit[v] = NoVisit <=> visit[v].stage = "idle"
  BY Stages DEF Typed
<1>1. ASSUME visit'[v] = visit[v] PROVE Goal
  BY <1>0, <1>1
<1>2. ASSUME visit'[v] = Outdate(visit)[v] PROVE Goal
  BY <1>0, <1>2, Outdated, Stages
<1>3. ASSUME NEW w \in Visitors, Visiting(w) \/ (\E i \in Inquiries : SendInquiry(w, i))
      PROVE  Goal
  <2>1. CASE RecordView(w)
    BY <1>0, <1>2, <2>1, Outdated DEF RecordView
  <2>2. CASE ~RecordView(w)
    BY <1>0, <1>1, <1>3, <2>2 DEF Visiting, OpenLink, ReadItems, LeavePage, VisitFails, SendInquiry,
                                  Typed, NoVisit
  <2> QED BY <2>1, <2>2
<1>4. ASSUME NEW e \in Editors, Editing(e)
      PROVE  Goal
  <2>1. visit' = visit \/ visit' = Outdate(visit)
    BY <1>4 DEF Editing, BeginCreate, BeginEdit, CreateCatalog, SaveActive, SaveSettings, CheckLots,
                DeleteItems, InsertItems, CommitItems, EditFails
  <2> QED BY <1>1, <1>2, <2>1
<1>5. ASSUME \/ \E l \in Lots, state \in {"offered", "withdrawn", "archived"} : ChangeLot(l, state)
             \/ Expire \/ UNCHANGED pages
      PROVE  Goal
  BY <1>1, <1>5 DEF ChangeLot, Expire, pages
<1> QED BY <1>3, <1>4, <1>5 DEF Act, Step

\* What a page shows lies between what it ought to show and what it may.
LEMMA PagesStep ==
  ASSUME Typed, ListIsOneEditors', Pages, Act, Watch
  PROVE  Pages'
<1>1. /\ (items \cap Offered)' = ShownItems'
      /\ ((IF mixed THEN items ELSE wanted) \cap Offered)' \subseteq ShownItems'
  BY DEF ListIsOneEditors, ShownItems, Offered
<1>2. ASSUME NEW v \in Visitors
      PROVE  /\ Due(v)'
             /\ visit'[v].stage \in {"counting", "shown"} =>
                  always'[v] \subseteq visit'[v].shown /\ visit'[v].shown \subseteq ever'[v]
  <2>1. CASE visit'[v].stage = "items" /\ visit[v] = NoVisit
    <3>1. visit'[v] # NoVisit
      BY <2>1 DEF NoVisit
    <3>2. always'[v] \subseteq ShownItems' /\ ever'[v] = ShownItems'
      BY <1>1, <2>1, <3>1 DEF Watch
    <3> QED BY <2>1, <3>2 DEF Due
  <2>2. CASE visit'[v].stage = "items" /\ visit[v].stage = "items"
    <3>1. visit'[v] # NoVisit /\ visit[v] # NoVisit
      BY <2>2 DEF NoVisit
    <3>2. always'[v] \subseteq ShownItems' /\ ShownItems' \subseteq ever'[v]
      BY <1>1, <2>2, <3>1 DEF Watch
    <3> QED BY <2>2, <3>2 DEF Due
  <2>3. CASE visit[v].stage \in {"items", "counting", "shown"} /\ visit'[v].stage \in {"counting", "shown"}
    <3>1. visit'[v] # NoVisit /\ visit[v] # NoVisit /\ visit'[v].stage # "items"
      BY <2>3 DEF NoVisit
    <3>2. always'[v] = always[v] /\ ever'[v] = ever[v]
      BY <3>1 DEF Watch
    <3>3. always[v] \subseteq visit'[v].shown /\ visit'[v].shown \subseteq ever[v]
      BY <2>3, PageStages, Zenon DEF Pages, PageIsWhole, Due, NoVisit
    <3> QED BY <2>3, <3>2, <3>3 DEF Due
  <2> QED BY <2>1, <2>2, <2>3, PageStages DEF Due
<1> QED BY <1>2 DEF Pages, PageIsWhole

(***************************************************************************)
(* The theorems                                                             *)
(***************************************************************************)

\* The invariant that the properties below follow from.
THEOREM CatalogInvariant == Spec => []IInv
<1>1. Init => IInv
  <2> SUFFICES ASSUME Init PROVE IInv
    OBVIOUS
  <2>1. Typed
    BY DEF Init, Typed, Visits, Edits
  <2>2. /\ \A v \in Visitors : visit[v].stage = "idle"
        /\ \A e \in Editors : edit[e].stage = "idle"
    BY DEF Init, NoVisit, NoEdit
  <2>3. row.stage = "none" /\ row.views = 0 /\ recorded = 0 /\ items = wanted
    BY DEF Init
  <2> QED BY <2>1, <2>2, <2>3 DEF IInv, Creation, Counting, Counts, Replaces, Replacing,
                                  ListIsOneEditors, ViewsCounted, Pages, PageIsWhole, Due
<1>2. IInv /\ [Next]_vars => IInv'
  <2> SUFFICES ASSUME IInv, [Next]_vars
               PROVE  IInv'
    OBVIOUS
  <2> USE DEF IInv
  <2>1. Act /\ (Watch \/ UNCHANGED <<pages, always, ever>>)
    BY Acts
  <2>2. Typed' /\ Creation' /\ Counts' /\ ViewsCounted' /\ Replaces' /\ ListIsOneEditors'
    BY <2>1, TypesStep, CreationStep, CountsStep, ListStep
  <2>3. CASE Watch
    BY <2>1, <2>2, <2>3, PagesStep
  <2>4. CASE UNCHANGED <<pages, always, ever>>
    <3>1. UNCHANGED <<visit, always, ever>> /\ ShownItems' = ShownItems
      BY <2>4 DEF pages, shop, ShownItems, Offered
    <3>2. Pages'
      BY <3>1 DEF Pages, PageIsWhole, Due
    <3> QED BY <2>2, <3>2
  <2> QED BY <2>1, <2>2, <2>3, <2>4
<1> QED BY <1>1, <1>2, PTL DEF Spec

\* A page shows every lot its owner wanted there and offered all the while, and none
\* that was not attached and offered at some moment of it: no visit finds a list half
\* replaced.
THEOREM PagesAreWhole == Spec => []PageIsWhole
<1>1. IInv => PageIsWhole
  BY DEF IInv, Pages
<1> QED BY <1>1, CatalogInvariant, PTL

\* The list is the one that was asked for last, unless two editors replaced it at once.
THEOREM ListsAreOneEditors == Spec => []ListIsOneEditors
<1>1. IInv => ListIsOneEditors
  BY DEF IInv
<1> QED BY <1>1, CatalogInvariant, PTL

\* The count is never above the visits recorded, and is exact unless a row was saved
\* from a count that had changed meanwhile.
THEOREM CountsAreOfVisits == Spec => []ViewsCounted
<1>1. IInv => ViewsCounted
  BY DEF IInv
<1> QED BY <1>1, CatalogInvariant, PTL
==============================================================================
