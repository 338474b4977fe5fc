--------------------------- MODULE ContactsProofs ---------------------------
(***************************************************************************)
(* Proofs about Contacts and Businesses, for any businesses, warehouses,    *)
(* contacts and requests at a time.                                         *)
(***************************************************************************)
EXTENDS Contacts, FiniteSetTheorems, TLAPS

(***************************************************************************)
(* Types                                                                    *)
(***************************************************************************)

\* Only s moves.
Frame(s) ==
  /\ DOMAIN pc' = Sessions /\ DOMAIN req' = Sessions
  /\ \A t \in Sessions \ {s} : pc'[t] = pc[t] /\ req'[t] = req[t]

\* A request that arrives fills the slot of its session, and no other.
LEMMA ArriveFrame ==
  ASSUME TypeOK, NEW s \in Sessions, NEW r, NEW stage, Arrive(s, r, stage)
  PROVE  Frame(s) /\ pc'[s] = stage /\ req'[s] = r
  BY DEF TypeOK, BusinessTypeOK, Arrive, Frame

\* A request that ends empties the slot of its session, and no other.
LEMMA EndFrame ==
  ASSUME TypeOK, NEW s \in Sessions, End(s)
  PROVE  Frame(s) /\ Idle(s)'
  BY DEF TypeOK, BusinessTypeOK, End, Frame, Idle

\* A request that goes on changes its stage alone.
LEMMA GotoFrame ==
  ASSUME TypeOK, NEW s \in Sessions, NEW stage, Goto(s, stage), req' = req
  PROVE  Frame(s) /\ pc'[s] = stage /\ req'[s] = req[s]
  BY DEF TypeOK, BusinessTypeOK, Goto, Frame

\* Types hold after a step of s if they hold of its slot and of the rows.
LEMMA TypedAfter ==
  ASSUME TypeOK, NEW s \in Sessions, Frame(s), SessionOK(s)',
         business' \in [Businesses -> BusinessRow],
         warehouse' \in [Businesses -> [Names -> {"none", "plain", "default"}]],
         raced' \subseteq Businesses,
         DOMAIN table' \subseteq Contacts /\ table' \in [DOMAIN table' -> ContactRow]
  PROVE  TypeOK'
<1>1. ASSUME NEW t \in Sessions \ {s} PROVE SessionOK(t)'
  BY <1>1 DEF TypeOK, SessionOK, Frame, Idle
<1> QED BY <1>1 DEF TypeOK, BusinessTypeOK, Frame

\* The variables start in their types ...
LEMMA TypesStart == Init => TypeOK
  BY DEF Init, BusinessInit, TypeOK, BusinessTypeOK, BusinessRow, SessionOK, Idle

\* A row stays one when its flag or its columns change.
LEMMA RowKept ==
  ASSUME NEW row \in BusinessRow
  PROVE  /\ \A x \in {"active", "suspended"} : [row EXCEPT !.status = x] \in BusinessRow
         /\ \A k \in {2, 3, 99} : [row EXCEPT !.step = k] \in BusinessRow
         /\ [row EXCEPT !.step = 99, !.done = TRUE] \in BusinessRow
         /\ [row EXCEPT !.step = AtLeast(@, 2)] \in BusinessRow
         /\ Created \in BusinessRow
<1>1. AtLeast(row.step, 2) \in {1, 2, 3, 99}
  BY DEF AtLeast, BusinessRow
<1>2. Created \in BusinessRow
  BY DEF BusinessRow, Created
<1>3. [row EXCEPT !.step = AtLeast(@, 2)] \in BusinessRow
  BY <1>1 DEF BusinessRow
<1>4. [row EXCEPT !.step = 99, !.done = TRUE] \in BusinessRow
  BY DEF BusinessRow
<1> QED BY <1>2, <1>3, <1>4 DEF BusinessRow

\* The requests about the row of a business.
LEMMA RowTypes ==
  ASSUME TypeOK, NEW s \in Sessions, UNCHANGED table,
         \/ \E b \in Businesses : \/ BeginCreate(s, b)
                                  \/ \E kind \in {"profile", "complete"} : BeginRow(s, kind, b)
         \/ CreateBusiness(s) \/ SaveProfile(s) \/ CompleteOnboarding(s) \/ Fail(s)
  PROVE  TypeOK'
<1> USE DEF TypeOK
<1>1. ASSUME NEW b \in Businesses, BeginCreate(s, b) PROVE TypeOK'
  <2>1. Frame(s) /\ SessionOK(s)'
    BY <1>1, ArriveFrame DEF BeginCreate, SessionOK, RowRequest, BusinessTypeOK
  <2> QED BY <1>1, <2>1, TypedAfter DEF BeginCreate, shop, BusinessTypeOK
<1>2. ASSUME NEW b \in Businesses, NEW kind \in {"profile", "complete"}, BeginRow(s, kind, b)
      PROVE  TypeOK'
  <2>1. Frame(s) /\ SessionOK(s)'
    BY <1>2, ArriveFrame DEF BeginRow, SessionOK, RowRequest, BusinessTypeOK
  <2> QED BY <1>2, <2>1, TypedAfter DEF BeginRow, shop, BusinessTypeOK
<1>3. ASSUME CreateBusiness(s) \/ SaveProfile(s) \/ CompleteOnboarding(s) \/ Fail(s)
      PROVE  TypeOK'
  <2>1. Frame(s) /\ SessionOK(s)'
    BY <1>3, EndFrame DEF CreateBusiness, SaveProfile, CompleteOnboarding, Fail, SessionOK
  <2>2. business' \in [Businesses -> BusinessRow]
    <3>1. ASSUME CreateBusiness(s) PROVE business' \in [Businesses -> BusinessRow]
      BY <3>1 DEF CreateBusiness, Created, BusinessRow, BusinessTypeOK
    <3>2. ASSUME SaveProfile(s) PROVE business' \in [Businesses -> BusinessRow]
      <4>1. req[s].read \in BusinessRow
        BY <3>2 DEF SaveProfile, SessionOK, Idle, RowRequest
      <4> DEFINE row == [req[s].read EXCEPT !.step = AtLeast(@, 2)]
      <4>2. row \in BusinessRow
        BY <4>1, RowKept
      <4>3. business' = [business EXCEPT ![req[s].of] = row]
        BY <3>2 DEF SaveProfile
      <4> HIDE DEF row
      <4> QED BY <4>2, <4>3 DEF BusinessTypeOK
    <3>3. ASSUME CompleteOnboarding(s) PROVE business' \in [Businesses -> BusinessRow]
      <4>1. req[s].of \in Businesses
        BY <3>3 DEF CompleteOnboarding, SessionOK, Idle, RowRequest
      <4> DEFINE row == [business[req[s].of] EXCEPT !.step = 99, !.done = TRUE]
      <4>2. row \in BusinessRow
        BY <4>1, RowKept DEF BusinessTypeOK
      <4>3. business' = [business EXCEPT ![req[s].of] = row]
        BY <3>3 DEF CompleteOnboarding
      <4> HIDE DEF row
      <4> QED BY <4>2, <4>3 DEF BusinessTypeOK
    <3> QED BY <1>3, <3>1, <3>2, <3>3 DEF Fail, shop, BusinessTypeOK
  <2> QED BY <1>3, <2>1, <2>2, TypedAfter
          DEF CreateBusiness, SaveProfile, CompleteOnboarding, Fail, shop, BusinessTypeOK
<1> QED BY <1>1, <1>2, <1>3

\* The requests that add a warehouse.
LEMMA WarehouseTypes ==
  ASSUME TypeOK, NEW s \in Sessions, UNCHANGED table,
         \/ \E b \in Businesses, n \in Names, wanted \in BOOLEAN : BeginWarehouse(s, b, n, wanted)
         \/ CheckWarehouse(s) \/ InsertWarehouse(s) \/ FindDefaults(s) \/ ClearDefaults(s)
         \/ CommitWarehouse(s)
  PROVE  TypeOK'
<1> USE DEF TypeOK
<1>1. ASSUME NEW b \in Businesses, NEW n \in Names, NEW wanted \in BOOLEAN,
             BeginWarehouse(s, b, n, wanted)
      PROVE  TypeOK'
  <2>1. Frame(s) /\ SessionOK(s)'
    BY <1>1, ArriveFrame DEF BeginWarehouse, SessionOK, WarehouseRequest, BusinessTypeOK
  <2> QED BY <1>1, <2>1, TypedAfter DEF BeginWarehouse, shop, BusinessTypeOK
<1>2. ASSUME CheckWarehouse(s) PROVE TypeOK'
  <2>1. req[s] \in WarehouseRequest
    BY <1>2 DEF CheckWarehouse, SessionOK, Idle
  <2>2. Frame(s) /\ SessionOK(s)'
    <3>1. CASE End(s)
      BY <3>1, EndFrame DEF SessionOK
    <3>2. CASE ~End(s)
      <4> DEFINE wanted == req[s].is_default \/ ~HasWarehouse(req[s].of)
                 r      == [req[s] EXCEPT !.is_default = wanted]
      <4>1. wanted \in BOOLEAN
        OBVIOUS
      <4>2. req' = [req EXCEPT ![s] = r] /\ pc' = [pc EXCEPT ![s] = "inserting"]
        BY <1>2, <3>2 DEF CheckWarehouse, Goto
      <4> HIDE DEF wanted
      <4>3. r \in WarehouseRequest
        BY <2>1, <4>1 DEF WarehouseRequest
      <4> HIDE DEF r
      <4> QED BY <4>2, <4>3 DEF Frame, SessionOK, BusinessTypeOK
    <3> QED BY <3>1, <3>2
  <2> QED BY <1>2, <2>1, <2>2, TypedAfter DEF CheckWarehouse, shop, BusinessTypeOK, WarehouseRequest
<1>3. ASSUME InsertWarehouse(s) PROVE TypeOK'
  <2>1. req[s] \in WarehouseRequest
    BY <1>3 DEF InsertWarehouse, SessionOK, Idle
  <2>2. Frame(s) /\ SessionOK(s)'
    BY <1>3, <2>1, EndFrame, GotoFrame DEF InsertWarehouse, SessionOK
  <2> QED BY <1>3, <2>2, TypedAfter DEF InsertWarehouse, shop, BusinessTypeOK
<1>4. ASSUME FindDefaults(s) \/ ClearDefaults(s) PROVE TypeOK'
  <2>1. req[s] \in WarehouseRequest
    BY <1>4 DEF FindDefaults, ClearDefaults, SessionOK, Idle
  <2>2. Frame(s) /\ SessionOK(s)'
    <3> DEFINE seen    == {n \in Names : warehouse[req[s].of][n] = "default"}
               cleared == {n \in req[s].seen : warehouse[req[s].of][n] = "default"}
               found   == [req[s] EXCEPT !.seen = seen]
               held    == [req[s] EXCEPT !.cleared = cleared]
    <3>1. seen \in SUBSET Names /\ cleared \in SUBSET Names
      BY <2>1 DEF WarehouseRequest
    <3>2. \/ req' = [req EXCEPT ![s] = found] /\ pc' = [pc EXCEPT ![s] = "locking"]
          \/ req' = [req EXCEPT ![s] = held] /\ pc' = [pc EXCEPT ![s] = "stepping"]
      BY <1>4 DEF FindDefaults, ClearDefaults, Goto
    <3> HIDE DEF seen, cleared
    <3>3. found \in WarehouseRequest /\ held \in WarehouseRequest
      BY <2>1, <3>1 DEF WarehouseRequest
    <3> HIDE DEF found, held
    <3> QED BY <3>2, <3>3 DEF Frame, SessionOK, BusinessTypeOK
  <2> QED BY <1>4, <2>2, TypedAfter DEF FindDefaults, ClearDefaults, shop, BusinessTypeOK
<1>5. ASSUME CommitWarehouse(s) PROVE TypeOK'
  <2>1. req[s] \in WarehouseRequest
    BY <1>5 DEF CommitWarehouse, SessionOK, Idle
  <2>2. Frame(s) /\ SessionOK(s)'
    BY <1>5, EndFrame DEF CommitWarehouse, SessionOK
  <2>3. Added(s) \in [Names -> {"none", "plain", "default"}]
    BY <2>1 DEF Added, WarehouseRequest, BusinessTypeOK
  <2>4. business' \in [Businesses -> BusinessRow]
    <3>1. req[s].of \in Businesses /\ business \in [Businesses -> BusinessRow]
      BY <2>1 DEF BusinessTypeOK, WarehouseRequest
    <3>2. [business[req[s].of] EXCEPT !.step = 3] \in BusinessRow
      BY <3>1 DEF BusinessRow
    <3>3. \/ business' = business
          \/ business' = [business EXCEPT ![req[s].of] = [business[req[s].of] EXCEPT !.step = 3]]
      BY <1>5, <3>1 DEF CommitWarehouse
    <3> QED BY <3>1, <3>2, <3>3
  <2> QED BY <1>5, <2>1, <2>2, <2>3, <2>4, TypedAfter
          DEF CommitWarehouse, BusinessTypeOK
<1> QED BY <1>1, <1>2, <1>3, <1>4, <1>5

\* An edit, archive or restore is of a contact there is, an add is not.
AboutContact(s) == pc[s] \in {"validating", "writing", "flagging"}
Known == \A s \in Sessions :
           AboutContact(s) => (req[s].contact \in DOMAIN table <=> req[s].kind # "add")

\* The requests about contacts.
LEMMA ContactTypes ==
  ASSUME TypeOK, Known, NEW s \in Sessions, ContactHandler(s)
  PROVE  TypeOK'
<1> USE DEF TypeOK
<1>1. ASSUME NEW c \in Contacts, NEW b \in Linkable \cup {NoLink}, BeginAdd(s, c, b) \/ BeginEdit(s, c, b)
      PROVE  TypeOK'
  <2>1. b \in Partners \cup {NoLink}
    BY DEF Linkable
  <2>2. Frame(s) /\ SessionOK(s)'
    BY <1>1, <2>1, ArriveFrame DEF BeginAdd, BeginEdit, SessionOK, ContactRequest
  <2> QED BY <1>1, <2>2, TypedAfter DEF BeginAdd, BeginEdit, shop, BusinessTypeOK
<1>2. ASSUME NEW c \in Contacts, NEW kind \in {"archive", "restore"}, BeginFlag(s, c, kind)
      PROVE  TypeOK'
  <2>1. Frame(s) /\ SessionOK(s)'
    BY <1>2, ArriveFrame DEF BeginFlag, SessionOK, ContactRequest
  <2> QED BY <1>2, <2>1, TypedAfter DEF BeginFlag, shop, BusinessTypeOK
<1>3. ASSUME ValidateLink(s) PROVE TypeOK'
  <2>1. Frame(s) /\ SessionOK(s)'
    BY <1>3, EndFrame, GotoFrame DEF ValidateLink, SessionOK, Idle
  <2> QED BY <1>3, <2>1, TypedAfter DEF ValidateLink, shop, BusinessTypeOK
<1>4. ASSUME WriteContact(s) \/ WriteFlag(s) PROVE TypeOK'
  <2>1. req[s] \in ContactRequest
    BY <1>4 DEF WriteContact, WriteFlag, SessionOK, Idle
  <2>2. Frame(s) /\ SessionOK(s)'
    BY <1>4, EndFrame DEF WriteContact, WriteFlag, SessionOK
  <2>3. DOMAIN table' \subseteq Contacts /\ table' \in [DOMAIN table' -> ContactRow]
    <3> DEFINE c == req[s].contact
               b == req[s].link
    <3>1. c \in Contacts /\ b \in Partners \cup {NoLink}
      BY <2>1 DEF ContactRequest
    <3>2. \A d \in DOMAIN table : table[d] \in ContactRow
      OBVIOUS
    <3>3. ASSUME WriteFlag(s)
          PROVE  DOMAIN table' \subseteq Contacts /\ table' \in [DOMAIN table' -> ContactRow]
      <4> DEFINE row == [table[c] EXCEPT !.is_active = (req[s].kind = "restore")]
      <4>1. c \in DOMAIN table => row \in ContactRow
        BY <3>2 DEF ContactRow
      <4>2. table' = [table EXCEPT ![c] = row]
        BY <3>3 DEF WriteFlag
      <4> HIDE DEF row
      <4> QED BY <3>2, <4>1, <4>2
    <3>4. ASSUME WriteContact(s), ~Taken(c, b)
          PROVE  DOMAIN table' \subseteq Contacts /\ table' \in [DOMAIN table' -> ContactRow]
      <4> DEFINE row(d) == IF d # c THEN table[d]
                           ELSE IF req[s].kind = "add" THEN [link |-> b, is_active |-> TRUE]
                           ELSE Edited(c, b)
      <4>1. table' = [d \in DOMAIN table \cup {c} |-> row(d)]
        BY <3>4 DEF WriteContact
      <4>2. c \in DOMAIN table \/ req[s].kind = "add"
        BY <3>4 DEF Known, AboutContact, WriteContact
      <4>3. \A d \in DOMAIN table \cup {c} : row(d) \in ContactRow
        BY <3>1, <3>2, <4>2 DEF Edited, ContactRow
      <4> HIDE DEF row
      <4> QED BY <3>1, <4>1, <4>3
    <3> QED BY <1>4, <3>3, <3>4 DEF WriteContact
  <2> QED BY <1>4, <2>2, <2>3, TypedAfter DEF WriteContact, WriteFlag, shop, BusinessTypeOK
<1> QED BY <1>1, <1>2, <1>3, <1>4 DEF ContactHandler

\* ... and every step keeps them there.
LEMMA TypesStep ==
  ASSUME TypeOK, Known, [Next]_vars
  PROVE  TypeOK'
<1>1. ASSUME NEW s \in Sessions, ContactHandler(s) PROVE TypeOK'
  BY <1>1, ContactTypes
<1>2. ASSUME NEW s \in Sessions, BusinessRequest(s), UNCHANGED table PROVE TypeOK'
  BY <1>2, RowTypes, WarehouseTypes DEF BusinessRequest
<1>3. ASSUME NEW b \in Businesses, Admin(b), UNCHANGED table PROVE TypeOK'
  <2>1. business' \in [Businesses -> BusinessRow]
    <3>1. PICK x \in {"active", "suspended"} :
            business' = [business EXCEPT ![b] = [business[b] EXCEPT !.status = x]]
      BY <1>3 DEF Admin, Suspend, Reinstate
    <3>2. [business[b] EXCEPT !.status = x] \in BusinessRow
      BY RowKept DEF TypeOK, BusinessTypeOK
    <3> QED BY <3>1, <3>2 DEF TypeOK, BusinessTypeOK
  <2>2. \A t \in Sessions : SessionOK(t)'
    BY <1>3 DEF Admin, TypeOK, SessionOK, Idle
  <2> QED BY <1>3, <2>1, <2>2 DEF Admin, TypeOK, BusinessTypeOK
<1>4. CASE UNCHANGED vars
  BY <1>4 DEF vars, tenancyVars, TypeOK, BusinessTypeOK, SessionOK, Idle
<1> QED BY <1>1, <1>2, <1>3, <1>4 DEF Next, BusinessNext

(***************************************************************************)
(* Requests about contacts                                                  *)
(***************************************************************************)

\* Two adds at a time are of different contacts.
Apart == \A s, t \in Sessions :
           /\ s # t
           /\ AboutContact(s) /\ req[s].kind = "add"
           /\ AboutContact(t) /\ req[t].kind = "add"
           => req[s].contact # req[t].contact

\* No add waits for the contact's page.
Stages == \A s \in Sessions : pc[s] = "flagging" => req[s].kind # "add"

IInv == TypeOK /\ Known /\ Apart /\ Stages

\* What a request about a business does to its slot.
LEMMA BusinessSlot ==
  ASSUME TypeOK, NEW s \in Sessions, BusinessRequest(s)
  PROVE  Frame(s) /\ ~AboutContact(s)'
<1> USE DEF AboutContact
<1>1. ASSUME NEW b \in Businesses, BeginCreate(s, b) PROVE Frame(s) /\ ~AboutContact(s)'
  BY <1>1, ArriveFrame DEF BeginCreate
<1>2. ASSUME NEW b \in Businesses, NEW kind \in {"profile", "complete"}, BeginRow(s, kind, b)
      PROVE  Frame(s) /\ ~AboutContact(s)'
  BY <1>2, ArriveFrame DEF BeginRow
<1>3. ASSUME NEW b \in Businesses, NEW n \in Names, NEW wanted \in BOOLEAN,
             BeginWarehouse(s, b, n, wanted)
      PROVE  Frame(s) /\ ~AboutContact(s)'
  BY <1>3, ArriveFrame DEF BeginWarehouse
<1>4. ASSUME End(s) PROVE Frame(s) /\ ~AboutContact(s)'
  BY <1>4, EndFrame DEF Idle
<1>5. ASSUME CheckWarehouse(s) \/ InsertWarehouse(s) \/ FindDefaults(s) \/ ClearDefaults(s)
      PROVE  Frame(s) /\ ~AboutContact(s)'
  BY <1>4, <1>5 DEF CheckWarehouse, InsertWarehouse, FindDefaults, ClearDefaults, Goto, Frame,
                    TypeOK, BusinessTypeOK
<1> QED
  BY <1>1, <1>2, <1>3, <1>4, <1>5
     DEF BusinessRequest, CreateBusiness, SaveProfile, CompleteOnboarding, CommitWarehouse, Fail

\* A step of s that leaves the table alone and its slot in order.
LEMMA QuietKeeps ==
  ASSUME IInv, NEW s \in Sessions, Frame(s), table' = table,
         AboutContact(s)' =>
           /\ req'[s].contact \in DOMAIN table <=> req'[s].kind # "add"
           /\ pc'[s] = "flagging" => req'[s].kind # "add"
           /\ req'[s].kind = "add" =>
                \A t \in Sessions \ {s} :
                  AboutContact(t) /\ req[t].kind = "add" => req[t].contact # req'[s].contact
  PROVE  Known' /\ Apart' /\ Stages'
<1>1. \A t \in Sessions \ {s} : pc'[t] = pc[t] /\ req'[t] = req[t]
  BY DEF Frame
<1>2. Known'
  BY <1>1 DEF Known, AboutContact, IInv
<1>3. Stages'
  BY <1>1 DEF Stages, AboutContact, IInv
<1>4. Apart'
  BY <1>1 DEF Apart, AboutContact, IInv
<1> QED BY <1>2, <1>3, <1>4

\* A step of s that ends it and adds no contact but the one it was adding.
LEMMA WriteKeeps ==
  ASSUME IInv, NEW s \in Sessions, Frame(s), ~AboutContact(s)', AboutContact(s),
         DOMAIN table' \in {DOMAIN table, DOMAIN table \cup {req[s].contact}}
  PROVE  Known' /\ Apart' /\ Stages'
<1>1. \A t \in Sessions \ {s} : pc'[t] = pc[t] /\ req'[t] = req[t]
  BY DEF Frame
<1>2. Known'
  BY <1>1 DEF Known, Apart, AboutContact, IInv
<1>3. Stages'
  BY <1>1 DEF Stages, AboutContact, IInv
<1>4. Apart'
  BY <1>1 DEF Apart, AboutContact, IInv
<1> QED BY <1>2, <1>3, <1>4

\* What the requests about contacts keep.
LEMMA ContactKeeps ==
  ASSUME IInv, NEW s \in Sessions, ContactHandler(s)
  PROVE  Known' /\ Apart' /\ Stages'
<1>0. TypeOK
  BY DEF IInv
<1>1. ASSUME NEW c \in Contacts, NEW b \in Linkable \cup {NoLink}, BeginAdd(s, c, b)
      PROVE  Known' /\ Apart' /\ Stages'
  <2>1. Frame(s) /\ pc'[s] = "validating" /\ req'[s].contact = c /\ req'[s].kind = "add"
    BY <1>0, <1>1, ArriveFrame DEF BeginAdd
  <2>2. \A t \in Sessions : AboutContact(t) /\ req[t].kind = "add" => req[t].contact # c
    BY <1>1 DEF BeginAdd, AboutContact, Stages, IInv
  <2> QED BY <1>1, <2>1, <2>2, QuietKeeps DEF BeginAdd
<1>2. ASSUME NEW c \in Contacts, NEW b \in Linkable \cup {NoLink}, BeginEdit(s, c, b)
      PROVE  Known' /\ Apart' /\ Stages'
  <2>1. Frame(s) /\ pc'[s] = "validating" /\ req'[s].contact = c /\ req'[s].kind = "edit"
    BY <1>0, <1>2, ArriveFrame DEF BeginEdit
  <2> QED BY <1>2, <2>1, QuietKeeps DEF BeginEdit
<1>3. ASSUME NEW c \in Contacts, NEW kind \in {"archive", "restore"}, BeginFlag(s, c, kind)
      PROVE  Known' /\ Apart' /\ Stages'
  <2>1. Frame(s) /\ pc'[s] = "flagging" /\ req'[s].contact = c /\ req'[s].kind = kind
    BY <1>0, <1>3, ArriveFrame DEF BeginFlag
  <2> QED BY <1>3, <2>1, QuietKeeps DEF BeginFlag
<1>4. ASSUME ValidateLink(s) PROVE Known' /\ Apart' /\ Stages'
  <2>1. table' = table /\ AboutContact(s)
    BY <1>4 DEF ValidateLink, AboutContact
  <2>2. CASE End(s)
    BY <1>0, <2>1, <2>2, EndFrame, QuietKeeps DEF AboutContact, Idle
  <2>3. CASE Goto(s, "writing") /\ req' = req
    <3>1. Frame(s) /\ pc'[s] = "writing" /\ req'[s] = req[s]
      BY <1>0, <2>3, GotoFrame
    <3> QED BY <2>1, <3>1, QuietKeeps DEF Known, Apart, IInv
  <2> QED BY <1>4, <2>2, <2>3 DEF ValidateLink
<1>5. ASSUME WriteContact(s) \/ WriteFlag(s) PROVE Known' /\ Apart' /\ Stages'
  <2>1. Frame(s) /\ ~AboutContact(s)' /\ AboutContact(s)
    BY <1>0, <1>5, EndFrame DEF WriteContact, WriteFlag, AboutContact, Idle
  <2>2. DOMAIN table' \in {DOMAIN table, DOMAIN table \cup {req[s].contact}}
    BY <1>5 DEF WriteContact, WriteFlag
  <2> QED BY <2>1, <2>2, WriteKeeps
<1> QED BY <1>1, <1>2, <1>3, <1>4, <1>5 DEF ContactHandler

\* The invariant is inductive.
LEMMA InvariantStep ==
  ASSUME IInv, [Next]_vars
  PROVE  IInv'
<1>1. TypeOK'
  BY TypesStep DEF IInv
<1>2. Known' /\ Apart' /\ Stages'
  <2>1. ASSUME NEW s \in Sessions, ContactHandler(s) PROVE Known' /\ Apart' /\ Stages'
    BY <2>1, ContactKeeps
  <2>2. ASSUME NEW s \in Sessions, BusinessRequest(s), table' = table
        PROVE  Known' /\ Apart' /\ Stages'
    BY <2>2, BusinessSlot, QuietKeeps DEF IInv
  <2>3. CASE UNCHANGED <<pc, req, table>>
    BY <2>3 DEF IInv, Known, Apart, Stages, AboutContact
  <2> QED BY <2>1, <2>2, <2>3 DEF Next, BusinessNext, Admin, vars, tenancyVars
<1> QED BY <1>1, <1>2 DEF IInv

\* Type correctness, for any businesses, contacts and requests.
THEOREM ContactsTypes == Spec => []TypeOK
<1>1. Init => IInv
  BY TypesStart DEF Init, BusinessInit, IInv, Known, Apart, Stages, AboutContact
<1>2. IInv /\ [Next]_vars => IInv'
  BY InvariantStep
<1> QED BY <1>1, <1>2, PTL DEF Spec, IInv

(***************************************************************************)
(* The contact book                                                         *)
(***************************************************************************)

\* A link that is free in the table is free in the book.
LEMMA FreeInBook ==
  ASSUME TypeOK, NEW c \in Contacts, NEW b, ~Taken(c, b)
  PROVE  Book!LinkFree(c, b)
  BY DEF Taken, Book!LinkFree, TypeOK, BookTable, BookRow

\* The book changes as its row of the one contact that is written.
LEMMA OneRowChanges ==
  ASSUME NEW c \in Contacts, NEW row,
         \A d \in Contacts \ {c} : BookTable'[d] = BookTable[d],
         BookTable'[c] = row
  PROVE  BookTable' = [BookTable EXCEPT ![c] = row]
<1>1. /\ BookTable = [d \in Contacts |-> BookTable[d]]
      /\ BookTable' = [d \in Contacts |-> BookTable'[d]]
  BY DEF BookTable
<1> HIDE DEF BookTable
<1> QED BY <1>1

\* The add or the edit of the contact c, to the link b, is one of the book.
LEMMA WriteInBook ==
  ASSUME IInv, NEW s \in Sessions, WriteContact(s),
         NEW c, c = req[s].contact, NEW b, b = req[s].link
  PROVE  [Book!ContactsNext]_BookTable
<1>0. TypeOK
  BY DEF IInv
<1>1. c \in Contacts /\ b \in Partners \cup {NoLink}
  BY <1>0 DEF TypeOK, SessionOK, Idle, WriteContact, ContactRequest
<1>2. CASE Taken(c, b)
  BY <1>2 DEF WriteContact, BookTable, BookRow
<1>3. CASE ~Taken(c, b)
  <2> DEFINE row(d) == IF d # c THEN table[d]
                       ELSE IF req[s].kind = "add" THEN [link |-> b, is_active |-> TRUE]
                       ELSE Edited(c, b)
  <2>1. table' = [d \in DOMAIN table \cup {c} |-> row(d)]
    BY <1>3 DEF WriteContact
  <2>2. Book!LinkFree(c, b)
    BY <1>0, <1>1, <1>3, FreeInBook
  <2>3. \A d \in Contacts \ {c} : BookTable'[d] = BookTable[d]
    BY <2>1 DEF BookTable, BookRow
  <2>4. c \in DOMAIN table <=> req[s].kind # "add"
    BY DEF IInv, Known, AboutContact, WriteContact
  <2>5. CASE req[s].kind = "add"
    <3>1. BookTable'[c] = [state |-> "active", link |-> b]
      BY <1>1, <2>1, <2>5 DEF BookTable, BookRow
    <3>2. BookTable[c].state = "absent"
      BY <1>1, <2>4, <2>5 DEF BookTable, BookRow
    <3>3. BookTable' = [BookTable EXCEPT ![c] = [state |-> "active", link |-> b]]
      BY <1>1, <2>3, <3>1, OneRowChanges
    <3>4. Book!AddContact(c, b)
      BY <1>1, <2>2, <3>2, <3>3 DEF Book!AddContact, Book!Present
    <3> QED BY <1>1, <3>4 DEF Book!ContactsNext, Book!ContactStep, Partners
  <2>6. CASE req[s].kind # "add"
    <3>1. table[c] \in ContactRow
      BY <1>0, <2>4, <2>6 DEF TypeOK
    <3>2. BookTable'[c] = [BookTable[c] EXCEPT !.link = b]
      <4>1. c \in DOMAIN table /\ c \in DOMAIN table' /\ table'[c] = Edited(c, b)
        BY <2>1, <2>4, <2>6
      <4>2. Edited(c, b).link = b /\ Edited(c, b).is_active = table[c].is_active
        BY <3>1 DEF Edited, ContactRow
      <4> QED BY <1>1, <4>1, <4>2 DEF BookTable, BookRow
    <3>3. BookTable[c].state # "absent"
      BY <1>1, <2>4, <2>6 DEF BookTable, BookRow
    <3>4. BookTable' = [BookTable EXCEPT ![c].link = b]
      BY <1>1, <2>3, <3>2, OneRowChanges
    <3>5. Book!EditContact(c, b)
      BY <1>1, <2>2, <3>3, <3>4 DEF Book!EditContact, Book!Present
    <3> QED BY <1>1, <3>5 DEF Book!ContactsNext, Book!ContactStep, Partners
  <2> QED BY <2>5, <2>6
<1> QED BY <1>2, <1>3

\* The archive or restore of the contact c is one of the book, or changes nothing.
LEMMA FlagInBook ==
  ASSUME IInv, NEW s \in Sessions, WriteFlag(s),
         NEW c, c = req[s].contact, NEW on, on = (req[s].kind = "restore")
  PROVE  [Book!ContactsNext]_BookTable
<1> DEFINE state == IF on THEN "active" ELSE "archived"
<1>0. TypeOK
  BY DEF IInv
<1>1. c \in Contacts /\ c \in DOMAIN table /\ on \in BOOLEAN
  BY <1>0 DEF IInv, Known, Stages, AboutContact, TypeOK, SessionOK, Idle, WriteFlag, ContactRequest
<1>2. table' = [table EXCEPT ![c].is_active = on]
  BY DEF WriteFlag
<1>3. table[c] \in ContactRow
  BY <1>0, <1>1 DEF TypeOK
<1>4. \A d \in Contacts \ {c} : BookTable'[d] = BookTable[d]
  BY <1>2 DEF BookTable, BookRow
<1>5. BookTable'[c] = [BookTable[c] EXCEPT !.state = state]
  BY <1>1, <1>2, <1>3 DEF BookTable, BookRow, ContactRow
<1>6. BookTable' = [BookTable EXCEPT ![c].state = state]
  BY <1>1, <1>4, <1>5, OneRowChanges
<1>7. BookTable[c].state = IF table[c].is_active THEN "active" ELSE "archived"
  BY <1>1 DEF BookTable, BookRow
<1>8. CASE table[c].is_active = on
  <2>1. [BookTable[c] EXCEPT !.state = state] = BookTable[c]
    BY <1>1, <1>8 DEF BookTable, BookRow
  <2>2. BookTable' = [BookTable EXCEPT ![c] = BookTable[c]]
    BY <1>6, <2>1
  <2>3. BookTable = [d \in Contacts |-> BookTable[d]]
    BY DEF BookTable
  <2> QED BY <2>2, <2>3
<1>9. CASE table[c].is_active # on
  <2>1. BookTable[c].state = IF on THEN "archived" ELSE "active"
    BY <1>1, <1>3, <1>7, <1>9 DEF ContactRow
  <2>2. Book!ArchiveContact(c) \/ Book!RestoreContact(c)
    BY <1>1, <1>6, <2>1 DEF Book!ArchiveContact, Book!RestoreContact
  <2> QED BY <1>1, <2>2 DEF Book!ContactsNext, Book!ContactStep
<1> QED BY <1>8, <1>9

\* Every step is a step of the book, or none.
LEMMA BookStep ==
  ASSUME IInv, [Next]_vars
  PROVE  [Book!ContactsNext]_BookTable
<1>1. ASSUME table' = table PROVE [Book!ContactsNext]_BookTable
  BY <1>1 DEF BookTable, BookRow
<1>2. ASSUME NEW s \in Sessions, ContactHandler(s) PROVE [Book!ContactsNext]_BookTable
  BY <1>1, <1>2, WriteInBook, FlagInBook DEF ContactHandler, BeginAdd, BeginEdit, BeginFlag, ValidateLink
<1> QED BY <1>1, <1>2 DEF Next, vars

\* The statements of any number of requests, for any contacts and businesses, in
\* any interleaving, are the indivisible changes of the contact book.
THEOREM ContactsImplementBook == Spec => ImplementsContactBook
<1>1. Init => IInv
  BY TypesStart DEF Init, BusinessInit, IInv, Known, Apart, Stages, AboutContact
<1>2. IInv /\ [Next]_vars => IInv'
  BY InvariantStep
<1>3. Init => Book!ContactsInit
  <2>1. ASSUME table = <<>> PROVE \A c \in Contacts : c \notin DOMAIN table
    BY <2>1
  <2> QED BY <2>1 DEF Init, Book!ContactsInit, BookTable, BookRow
<1>4. IInv /\ [Next]_vars => [Book!ContactsNext]_BookTable
  BY BookStep DEF BookTable, BookRow
<1> QED BY <1>1, <1>2, <1>3, <1>4, PTL DEF Spec, ImplementsContactBook, Book!ContactsSpec

(***************************************************************************)
(* The default warehouse                                                    *)
(***************************************************************************)

Defaults(b) == {n \in Names : warehouse[b][n] = "default"}

\* Past its insert, a transaction has its name to itself.
Inserted(s) == pc[s] \in {"clearing", "locking", "stepping"}

\* What a transaction that adds a warehouse has found holds still.
Slot(s) ==
  LET b == req[s].of
  IN /\ pc[s] \in {"checking", "inserting", "clearing", "locking"} => req[s].cleared = {}
     /\ pc[s] \in {"clearing", "locking"} => req[s].is_default
     /\ Adding(s) /\ ~req[s].is_default => HasWarehouse(b) /\ req[s].cleared = {}
     /\ Inserted(s) => warehouse[b][req[s].name] = "none"
     /\ Adding(s) => \A n \in req[s].cleared : warehouse[b][n] # "none"
     /\ pc[s] = "locking" /\ b \notin raced => req[s].seen = Defaults(b)
     /\ pc[s] = "stepping" /\ b \notin raced /\ req[s].is_default => req[s].cleared = Defaults(b)

Slots == \A s \in Sessions : Slot(s)

\* Two transactions past their inserts are of two names.
NamesApart ==
  \A s, t \in Sessions :
    s # t /\ Inserted(s) /\ Inserted(t) /\ req[s].of = req[t].of => req[s].name # req[t].name

\* Two transactions at once leave their mark.
Alone ==
  \A s, t \in Sessions :
    Adding(s) /\ Adding(t) /\ req[s].of = req[t].of /\ s # t => req[s].of \in raced

\* There is a default warehouse, and one alone unless two were added at once.
OneDefault ==
  \A b \in Businesses :
    HasWarehouse(b) => /\ Defaults(b) # {}
                       /\ b \in raced \/ \E n \in Names : Defaults(b) = {n}

WInv == Slots /\ NamesApart /\ Alone /\ OneDefault

\* A step of s that leaves the warehouses alone and its slot in order.
LEMMA QuietWarehouses ==
  ASSUME WInv, TypeOK, NEW s \in Sessions, Frame(s),
         warehouse' = warehouse, raced \subseteq raced', Slot(s)',
         Inserted(s)' => \A t \in Sessions \ {s} :
                           Inserted(t) /\ req[t].of = req'[s].of => req[t].name # req'[s].name,
         Adding(s)' => \A t \in Sessions \ {s} :
                         Adding(t) /\ req[t].of = req'[s].of => req'[s].of \in raced'
  PROVE  WInv'
<1>1. \A t \in Sessions \ {s} : pc'[t] = pc[t] /\ req'[t] = req[t]
  BY DEF Frame
<1>2. Slots'
  <2> SUFFICES ASSUME NEW t \in Sessions, t # s PROVE Slot(t)'
    BY DEF Slots
  <2>1. Slot(t)
    BY DEF WInv, Slots
  <2> QED BY <1>1, <2>1 DEF Slot, Adding, Inserted, HasWarehouse, Defaults
<1>3. NamesApart'
  BY <1>1 DEF WInv, NamesApart, Inserted
<1>4. Alone'
  BY <1>1 DEF WInv, Alone, Adding
<1>5. OneDefault'
  BY DEF WInv, OneDefault, HasWarehouse, Defaults
<1> QED BY <1>2, <1>3, <1>4, <1>5 DEF WInv

\* A step of s after which it adds no warehouse.
LEMMA ElsewhereKeeps ==
  ASSUME WInv, TypeOK, NEW s \in Sessions, Frame(s),
         warehouse' = warehouse, raced' = raced,
         pc'[s] \notin {"checking", "inserting", "clearing", "locking", "stepping"}
  PROVE  WInv'
<1>1. Slot(s)' /\ ~Inserted(s)' /\ ~Adding(s)'
  BY DEF Slot, Inserted, Adding
<1> QED BY <1>1, QuietWarehouses

\* The statements before the commit.
LEMMA StatementsKeep ==
  ASSUME WInv, TypeOK, NEW s \in Sessions,
         \/ CheckWarehouse(s) \/ InsertWarehouse(s) \/ FindDefaults(s) \/ ClearDefaults(s)
  PROVE  WInv'
<1> PICK b : b = req[s].of
  OBVIOUS
<1>1. req[s] \in WarehouseRequest /\ Slot(s) /\ warehouse' = warehouse /\ raced \subseteq raced'
  BY DEF TypeOK, SessionOK, Idle, WInv, Slots, CheckWarehouse, InsertWarehouse, FindDefaults,
         ClearDefaults, shop
<1>2. ASSUME End(s), raced' = raced PROVE WInv'
  BY <1>1, <1>2, EndFrame, ElsewhereKeeps DEF Idle
<1>3. ASSUME CheckWarehouse(s), ~End(s) PROVE WInv'
  <2>1. /\ pc[s] = "checking"
        /\ pc' = [pc EXCEPT ![s] = "inserting"]
        /\ req' = [req EXCEPT ![s].is_default = (@ \/ ~HasWarehouse(b))]
        /\ (\E t \in Sessions : Adding(t) /\ req[t].of = b) => b \in raced'
    BY <1>3 DEF CheckWarehouse, Goto
  <2>2. Frame(s)
    BY <2>1 DEF Frame, TypeOK, BusinessTypeOK
  <2>3. /\ pc'[s] = "inserting" /\ req'[s].of = b /\ req'[s].cleared = {}
        /\ ~req'[s].is_default => HasWarehouse(b)
    BY <1>1, <2>1 DEF Slot, WarehouseRequest, TypeOK, BusinessTypeOK
  <2>4. Slot(s)' /\ ~Inserted(s)'
    BY <1>1, <2>3 DEF Slot, Inserted, Adding, HasWarehouse
  <2> QED BY <1>1, <2>1, <2>2, <2>3, <2>4, QuietWarehouses
<1>4. ASSUME InsertWarehouse(s), ~End(s) PROVE WInv'
  <2>1. /\ pc[s] = "inserting"
        /\ Goto(s, IF req[s].is_default THEN "clearing" ELSE "stepping") /\ req' = req
        /\ warehouse[b][req[s].name] = "none"
        /\ \A t \in Sessions \ {s} :
             ~(Adding(t) /\ pc[t] # "inserting" /\ req[t].of = b /\ req[t].name = req[s].name)
    BY <1>4 DEF InsertWarehouse
  <2>2. /\ Frame(s) /\ req'[s] = req[s]
        /\ pc'[s] = IF req[s].is_default THEN "clearing" ELSE "stepping"
    BY <2>1, GotoFrame
  <2>3. Slot(s)'
    BY <1>1, <2>1, <2>2 DEF Slot, Inserted, Adding, HasWarehouse
  <2>4. \A t \in Sessions \ {s} : Inserted(t) /\ req[t].of = b => req[t].name # req[s].name
    BY <2>1 DEF Inserted, Adding
  <2>5. \A t \in Sessions \ {s} : Adding(t) /\ req[t].of = b => b \in raced'
    BY <1>1, <2>1 DEF WInv, Alone, Adding
  <2> QED BY <1>1, <2>2, <2>3, <2>4, <2>5, QuietWarehouses
<1>5. ASSUME FindDefaults(s) \/ ClearDefaults(s) PROVE WInv'
  <2> DEFINE cleared == {n \in req[s].seen : warehouse[b][n] = "default"}
  <2>1. /\ pc[s] \in {"clearing", "locking"} /\ raced' = raced
        /\ \/ /\ req' = [req EXCEPT ![s].seen = Defaults(b)]
              /\ pc' = [pc EXCEPT ![s] = "locking"]
           \/ /\ req' = [req EXCEPT ![s].cleared = cleared]
              /\ pc' = [pc EXCEPT ![s] = "stepping"] /\ pc[s] = "locking"
    BY <1>5 DEF FindDefaults, ClearDefaults, Goto, Defaults
  <2>2. Frame(s)
    BY <2>1 DEF Frame, TypeOK, BusinessTypeOK
  <2>3. /\ req'[s].of = b /\ req'[s].name = req[s].name
        /\ req'[s].is_default = req[s].is_default
        /\ \/ req'[s].seen = Defaults(b) /\ req'[s].cleared = {} /\ pc'[s] = "locking"
           \/ req'[s].cleared = cleared /\ pc'[s] = "stepping" /\ pc[s] = "locking"
    <3> HIDE DEF cleared
    <3>1. req[s] \in WarehouseRequest /\ req[s].cleared = {}
      BY <1>1, <2>1 DEF Slot, TypeOK, BusinessTypeOK
    <3>2. s \in DOMAIN req /\ s \in DOMAIN pc
      BY DEF TypeOK, BusinessTypeOK
    <3>3. CASE req' = [req EXCEPT ![s].seen = Defaults(b)] /\ pc' = [pc EXCEPT ![s] = "locking"]
      <4>1. req'[s] = [req[s] EXCEPT !.seen = Defaults(b)] /\ pc'[s] = "locking"
        BY <3>2, <3>3
      <4> QED BY <3>1, <4>1 DEF WarehouseRequest
    <3>4. CASE /\ req' = [req EXCEPT ![s].cleared = cleared]
               /\ pc' = [pc EXCEPT ![s] = "stepping"] /\ pc[s] = "locking"
      <4>1. req'[s] = [req[s] EXCEPT !.cleared = cleared] /\ pc'[s] = "stepping"
        BY <3>2, <3>4
      <4> QED BY <3>1, <3>4, <4>1 DEF WarehouseRequest
    <3> QED BY <2>1, <3>3, <3>4
  <2>4. b \notin raced /\ pc[s] = "locking" => cleared = Defaults(b)
    BY <1>1, <2>1 DEF Slot, Defaults
  <2>5. Slot(s)'
    <3>1. warehouse[b][req[s].name] = "none" /\ req[s].is_default
      BY <1>1, <2>1 DEF Slot, Inserted
    <3>2. Defaults(b)' = Defaults(b)
      BY <1>1 DEF Defaults
    <3>3. \A n \in cleared : warehouse[b][n] # "none"
      OBVIOUS
    <3> HIDE DEF cleared
    <3> QED BY <1>1, <2>1, <2>3, <2>4, <3>1, <3>2, <3>3 DEF Slot, Inserted, Adding
  <2>6. \A t \in Sessions \ {s} : Inserted(t) /\ req[t].of = b => req[t].name # req[s].name
    BY <2>1 DEF WInv, NamesApart, Inserted
  <2>7. \A t \in Sessions \ {s} : Adding(t) /\ req[t].of = b => b \in raced'
    BY <2>1 DEF WInv, Alone, Adding
  <2> QED BY <1>1, <2>2, <2>3, <2>5, <2>6, <2>7, QuietWarehouses
<1>6. ASSUME CheckWarehouse(s), End(s) PROVE raced' = raced
  <2>1. pc'[s] = "idle"
    BY <1>6, EndFrame DEF Idle
  <2>2. ~Goto(s, "inserting")
    BY <2>1 DEF Goto, TypeOK, BusinessTypeOK
  <2> QED BY <1>6, <2>2 DEF CheckWarehouse
<1>7. ASSUME InsertWarehouse(s) PROVE raced' = raced
  BY <1>7 DEF InsertWarehouse
<1> QED BY <1>2, <1>3, <1>4, <1>5, <1>6, <1>7

\* What a commit makes of the warehouses of b.
LEMMA CommitAdds ==
  ASSUME WInv, TypeOK, NEW s \in Sessions, CommitWarehouse(s), NEW b, b = req[s].of
  PROVE  /\ b \in Businesses /\ Frame(s) /\ Idle(s)' /\ raced' = raced
         /\ \A d \in Businesses \ {b} : warehouse'[d] = warehouse[d]
         /\ req[s].name \in Names
         /\ warehouse'[b][req[s].name] = (IF req[s].is_default THEN "default" ELSE "plain")
         /\ \A n \in Names \ {req[s].name} :
              warehouse'[b][n] = (IF n \in req[s].cleared THEN "plain" ELSE warehouse[b][n])
<1>1. req[s] \in WarehouseRequest
  BY DEF TypeOK, SessionOK, Idle, CommitWarehouse
<1>2. b \in Businesses /\ req[s].name \in Names
  BY <1>1 DEF WarehouseRequest
<1>3. Frame(s) /\ Idle(s)' /\ raced' = raced
  BY EndFrame DEF CommitWarehouse
<1>4. warehouse' = [warehouse EXCEPT ![b] = Added(s)]
  BY DEF CommitWarehouse
<1>5. warehouse'[b] = Added(s) /\ \A d \in Businesses \ {b} : warehouse'[d] = warehouse[d]
  BY <1>2, <1>4 DEF TypeOK, BusinessTypeOK
<1> QED BY <1>2, <1>3, <1>5 DEF Added

\* A commit.
LEMMA CommitKeeps ==
  ASSUME WInv, TypeOK, NEW s \in Sessions, CommitWarehouse(s)
  PROVE  WInv'
<1> PICK b : b = req[s].of
  OBVIOUS
<1> DEFINE name == req[s].name
<1>1. /\ b \in Businesses /\ Frame(s) /\ Idle(s)' /\ raced' = raced
      /\ \A d \in Businesses \ {b} : warehouse'[d] = warehouse[d]
      /\ name \in Names
      /\ warehouse'[b][name] = (IF req[s].is_default THEN "default" ELSE "plain")
      /\ \A n \in Names \ {name} :
           warehouse'[b][n] = (IF n \in req[s].cleared THEN "plain" ELSE warehouse[b][n])
  BY CommitAdds
<1>2. \A t \in Sessions \ {s} : pc'[t] = pc[t] /\ req'[t] = req[t]
  BY <1>1 DEF Frame
<1>3. ~Adding(s)' /\ ~Inserted(s)' /\ pc'[s] # "checking"
  BY <1>1 DEF Idle, Adding, Inserted
<1>4. /\ Slot(s) /\ pc[s] = "stepping" /\ warehouse[b][name] = "none"
      /\ \A n \in req[s].cleared : warehouse[b][n] # "none"
      /\ req[s].cleared \subseteq Names
  BY DEF WInv, Slots, Slot, Adding, Inserted, CommitWarehouse, TypeOK, SessionOK, Idle,
         WarehouseRequest
<1>5. Slots'
  <2> SUFFICES ASSUME NEW t \in Sessions, t # s,
                      pc[t] \in {"checking", "inserting", "clearing", "locking", "stepping"}
               PROVE  Slot(t)'
    BY <1>2, <1>3 DEF Slots, Slot, Adding, Inserted
  <2>0. req[t] \in WarehouseRequest
    BY DEF TypeOK, SessionOK, Idle
  <2>1. Slot(t) /\ pc'[t] = pc[t] /\ req'[t] = req[t]
    BY <1>2 DEF WInv, Slots
  <2>2. CASE req[t].of # b
    <3>1. warehouse'[req[t].of] = warehouse[req[t].of]
      BY <1>1, <2>0, <2>2 DEF WarehouseRequest
    <3>2. /\ HasWarehouse(req[t].of)' = HasWarehouse(req[t].of)
          /\ Defaults(req[t].of)' = Defaults(req[t].of)
      BY <2>1, <3>1 DEF HasWarehouse, Defaults
    <3>3. raced' = raced /\ Adding(t)' = Adding(t) /\ Inserted(t)' = Inserted(t)
      BY <1>1, <2>1 DEF Adding, Inserted
    <3> QED BY <2>1, <3>1, <3>2, <3>3 DEF Slot
  <2>3. CASE req[t].of = b
    <3>1. Adding(t) => b \in raced
      BY <1>4, <2>3 DEF WInv, Alone, Adding
    <3>2. HasWarehouse(b)'
      BY <1>1 DEF HasWarehouse
    <3>3. Inserted(t) => warehouse'[b][req[t].name] = "none"
      <4> SUFFICES ASSUME Inserted(t) PROVE warehouse'[b][req[t].name] = "none"
        OBVIOUS
      <4>1. req[t].name # name
        BY <1>4, <2>3 DEF WInv, NamesApart, Inserted
      <4>2. warehouse[b][req[t].name] = "none" /\ req[t].name \in Names
        BY <2>0, <2>1, <2>3 DEF Slot, WarehouseRequest
      <4> QED BY <1>1, <1>4, <4>1, <4>2
    <3>4. ASSUME Adding(t), NEW n \in req[t].cleared PROVE warehouse'[b][n] # "none"
      <4>1. warehouse[b][n] # "none" /\ n \in Names
        BY <2>0, <2>1, <2>3, <3>4 DEF Slot, WarehouseRequest
      <4> QED BY <1>1, <4>1
    <3> QED BY <1>1, <2>1, <2>3, <3>1, <3>2, <3>3, <3>4 DEF Slot, Adding, Inserted
  <2> QED BY <2>2, <2>3
<1>6. NamesApart' /\ Alone'
  BY <1>1, <1>2, <1>3 DEF WInv, NamesApart, Alone, Adding, Inserted
<1>7. OneDefault'
  <2> SUFFICES ASSUME NEW d \in Businesses, HasWarehouse(d)'
               PROVE  /\ Defaults(d)' # {}
                      /\ d \in raced' \/ \E n \in Names : Defaults(d)' = {n}
    BY DEF OneDefault
  <2>1. CASE d # b
    BY <1>1, <2>1 DEF WInv, OneDefault, HasWarehouse, Defaults
  <2>2. CASE d = b /\ req[s].is_default
    <3>1. name \in Defaults(b)'
      BY <1>1, <2>2 DEF Defaults
    <3>2. ASSUME b \notin raced PROVE Defaults(b)' = {name}
      <4>1. req[s].cleared = Defaults(b)
        BY <1>4, <2>2, <3>2 DEF Slot
      <4> QED BY <1>1, <3>1, <4>1 DEF Defaults
    <3> QED BY <1>1, <2>2, <3>1, <3>2
  <2>3. CASE d = b /\ ~req[s].is_default
    <3>1. HasWarehouse(b) /\ req[s].cleared = {}
      BY <1>4, <2>3 DEF Slot, Adding
    <3>2. Defaults(b)' = Defaults(b)
      BY <1>1, <1>4, <2>3, <3>1 DEF Defaults
    <3> QED BY <1>1, <2>3, <3>1, <3>2 DEF WInv, OneDefault
  <2> QED BY <2>1, <2>2, <2>3
<1> QED BY <1>5, <1>6, <1>7 DEF WInv

\* What every other step does to the slot of its session.
LEMMA OtherSlots ==
  ASSUME TypeOK, NEW s \in Sessions,
         \/ ContactHandler(s)
         \/ \E b \in Businesses : \/ BeginCreate(s, b)
                                  \/ \E kind \in {"profile", "complete"} : BeginRow(s, kind, b)
         \/ CreateBusiness(s) \/ SaveProfile(s) \/ CompleteOnboarding(s) \/ Fail(s)
  PROVE  /\ Frame(s) /\ warehouse' = warehouse /\ raced' = raced
         /\ pc'[s] \notin {"checking", "inserting", "clearing", "locking", "stepping"}
<1> DEFINE Away == /\ Frame(s) /\ warehouse' = warehouse /\ raced' = raced
                   /\ pc'[s] \notin {"checking", "inserting", "clearing", "locking", "stepping"}
<1>1. ASSUME NEW r, NEW stage \in {"creating", "profile", "complete", "validating", "flagging"},
             Arrive(s, r, stage), UNCHANGED <<warehouse, raced>>
      PROVE  Away
  BY <1>1, ArriveFrame
<1>2. ASSUME End(s), UNCHANGED <<warehouse, raced>> PROVE Away
  BY <1>2, EndFrame DEF Idle
<1>3. ASSUME Goto(s, "writing"), req' = req, UNCHANGED <<warehouse, raced>> PROVE Away
  BY <1>3, GotoFrame
<1> HIDE DEF Away
<1>4. ASSUME ContactHandler(s) PROVE Away
  <2>1. ASSUME NEW c \in Contacts, NEW b, BeginAdd(s, c, b) \/ BeginEdit(s, c, b) PROVE Away
    BY <1>1, <2>1 DEF BeginAdd, BeginEdit, shop
  <2>2. ASSUME NEW c \in Contacts, NEW kind, BeginFlag(s, c, kind) PROVE Away
    BY <1>1, <2>2 DEF BeginFlag, shop
  <2>3. ASSUME ValidateLink(s) \/ WriteContact(s) \/ WriteFlag(s) PROVE Away
    BY <1>2, <1>3, <2>3 DEF ValidateLink, WriteContact, WriteFlag, shop
  <2> QED BY <1>4, <2>1, <2>2, <2>3 DEF ContactHandler
<1>5. ASSUME NEW b \in Businesses, BeginCreate(s, b) PROVE Away
  BY <1>1, <1>5 DEF BeginCreate, shop
<1>6. ASSUME NEW b \in Businesses, NEW kind \in {"profile", "complete"}, BeginRow(s, kind, b)
      PROVE  Away
  BY <1>1, <1>6 DEF BeginRow, shop
<1>7. ASSUME CreateBusiness(s) \/ SaveProfile(s) \/ CompleteOnboarding(s) \/ Fail(s) PROVE Away
  BY <1>2, <1>7 DEF CreateBusiness, SaveProfile, CompleteOnboarding, Fail, shop
<1> QED BY <1>4, <1>5, <1>6, <1>7 DEF Away

\* A form of a new warehouse arrives.
LEMMA BeginKeeps ==
  ASSUME WInv, TypeOK, NEW s \in Sessions, NEW b \in Businesses, NEW n \in Names,
         NEW wanted \in BOOLEAN, BeginWarehouse(s, b, n, wanted)
  PROVE  WInv'
<1>1. Frame(s) /\ pc'[s] = "checking" /\ req'[s].cleared = {}
  BY ArriveFrame DEF BeginWarehouse
<1>2. warehouse' = warehouse /\ raced' = raced
  BY DEF BeginWarehouse, shop
<1>3. Slot(s)' /\ ~Inserted(s)' /\ ~Adding(s)'
  BY <1>1 DEF Slot, Inserted, Adding
<1> QED BY <1>1, <1>2, <1>3, QuietWarehouses

\* Warehouses stay in order.
LEMMA WarehousesStep ==
  ASSUME WInv, TypeOK, [Next]_vars
  PROVE  WInv'
<1>1. ASSUME NEW s \in Sessions, ContactHandler(s) PROVE WInv'
  BY <1>1, OtherSlots, ElsewhereKeeps
<1>2. ASSUME NEW s \in Sessions, BusinessRequest(s) PROVE WInv'
  <2>1. ASSUME NEW b \in Businesses, NEW n \in Names, NEW wanted \in BOOLEAN,
               BeginWarehouse(s, b, n, wanted)
        PROVE  WInv'
    BY <2>1, BeginKeeps
  <2>2. ASSUME CheckWarehouse(s) \/ InsertWarehouse(s) \/ FindDefaults(s) \/ ClearDefaults(s)
        PROVE  WInv'
    BY <2>2, StatementsKeep
  <2>3. ASSUME CommitWarehouse(s) PROVE WInv'
    BY <2>3, CommitKeeps
  <2> QED BY <1>2, <2>1, <2>2, <2>3, OtherSlots, ElsewhereKeeps DEF BusinessRequest
<1>3. CASE UNCHANGED <<warehouse, pc, req, raced>>
  BY <1>3 DEF WInv, Slots, Slot, NamesApart, Alone, OneDefault, Adding, Inserted, HasWarehouse,
              Defaults
<1> QED BY <1>1, <1>2, <1>3 DEF Next, BusinessNext, Admin, vars, tenancyVars

\* They start in order: there are none.
LEMMA WarehousesStart == Init => WInv
  BY DEF Init, BusinessInit, WInv, Slots, Slot, NamesApart, Alone, OneDefault, Adding, Inserted,
         HasWarehouse

\* A business that has warehouses always has a default one, and only one unless two
\* were added at once, for any number of transactions in any interleaving.
THEOREM WarehousesHaveDefault == Spec => []DefaultWarehouse
<1>1. Init => IInv
  BY TypesStart DEF Init, BusinessInit, IInv, Known, Apart, Stages, AboutContact
<1>2. IInv /\ [Next]_vars => IInv'
  BY InvariantStep
<1>3. IInv /\ WInv /\ [Next]_vars => WInv'
  BY WarehousesStep DEF IInv
<1>4. WInv => DefaultWarehouse
  <2> SUFFICES ASSUME WInv, NEW b \in Businesses, HasWarehouse(b)
               PROVE  Defaults(b) # {} /\ (b \in raced \/ Cardinality(Defaults(b)) = 1)
    BY DEF DefaultWarehouse, Defaults
  <2>1. \A n \in Names : Cardinality({n}) = 1
    BY FS_Singleton
  <2> QED BY <2>1 DEF WInv, OneDefault
<1> QED BY <1>1, <1>2, <1>3, <1>4, WarehousesStart, PTL DEF Spec

(***************************************************************************)
(* The row                                                                  *)
(***************************************************************************)

\* A request to create a business finds none, and one about a business that is there
\* has read its row.
RowSlot(s) ==
  /\ pc[s] = "creating" => business[req[s].of].status = "none"
  /\ pc[s] \in {"profile", "complete", "checking"} \/ Adding(s) =>
       business[req[s].of].status # "none" /\ req[s].read.status # "none"

\* Businesses that are not there yet are blank.
Blank == \A b \in Businesses : business[b].status = "none" => ~business[b].done

\* Two requests create two businesses.
CreatedApart ==
  \A s, t \in Sessions :
    s # t /\ pc[s] = "creating" /\ pc[t] = "creating" => req[s].of # req[t].of

RInv == Blank /\ CreatedApart /\ \A s \in Sessions : RowSlot(s)

\* The business a request is about.
LEMMA AboutBusiness ==
  ASSUME TypeOK, NEW s \in Sessions,
         pc[s] \in {"creating", "profile", "complete", "checking"} \/ Adding(s)
  PROVE  req[s].of \in Businesses /\ req[s].read \in BusinessRow
  BY DEF TypeOK, SessionOK, Idle, Adding, RowRequest, WarehouseRequest

\* A step of s that destroys no business, and creates none that others are creating.
LEMMA RowsAfter ==
  ASSUME RInv, TypeOK, NEW s \in Sessions, Frame(s), RowSlot(s)', Blank',
         \A b \in Businesses : business[b].status # "none" => business'[b].status # "none",
         \A t \in Sessions \ {s} : pc[t] = "creating" =>
            business'[req[t].of].status = "none",
         pc'[s] = "creating" =>
            \A t \in Sessions \ {s} : pc[t] = "creating" => req[t].of # req'[s].of
  PROVE  RInv'
<1>1. \A t \in Sessions \ {s} : pc'[t] = pc[t] /\ req'[t] = req[t]
  BY DEF Frame
<1>2. CreatedApart'
  BY <1>1 DEF RInv, CreatedApart
<1>3. ASSUME NEW t \in Sessions \ {s} PROVE RowSlot(t)'
  <2>1. RowSlot(t)
    BY DEF RInv
  <2> QED BY <1>1, <2>1, AboutBusiness DEF RowSlot, Adding
<1> QED BY <1>2, <1>3 DEF RInv

\* A step of s that leaves the rows alone, and its slot in order.
LEMMA QuietRows ==
  ASSUME RInv, TypeOK, NEW s \in Sessions, Frame(s), business' = business, RowSlot(s)',
         pc'[s] = "creating" =>
            \A t \in Sessions \ {s} : pc[t] = "creating" => req[t].of # req'[s].of
  PROVE  RInv'
<1>1. \A t \in Sessions \ {s} : pc[t] = "creating" => business'[req[t].of].status = "none"
  BY DEF RInv, RowSlot
<1>2. Blank'
  BY DEF RInv, Blank
<1> QED BY <1>1, <1>2, RowsAfter

\* A step that ends a request about a business that is there, and keeps that business.
LEMMA WrittenRows ==
  ASSUME RInv, TypeOK, NEW s \in Sessions, Frame(s), pc'[s] = "idle",
         NEW b \in Businesses, business[b].status # "none",
         NEW row, business' = [business EXCEPT ![b] = row], row.status # "none"
  PROVE  RInv'
<1>1. business'[b] = row /\ \A d \in Businesses \ {b} : business'[d] = business[d]
  BY DEF TypeOK, BusinessTypeOK
<1>2. \A t \in Sessions \ {s} : pc[t] = "creating" => business'[req[t].of].status = "none"
  BY <1>1, AboutBusiness DEF RInv, RowSlot
<1>3. RowSlot(s)'
  BY DEF RowSlot, Adding
<1>4. Blank'
  BY <1>1 DEF RInv, Blank
<1> QED BY <1>1, <1>2, <1>3, <1>4, RowsAfter

\* The requests about a business.
LEMMA BusinessRows ==
  ASSUME RInv, TypeOK, NEW s \in Sessions, BusinessRequest(s)
  PROVE  RInv'
<1>0. RowSlot(s)
  BY DEF RInv
<1>1. ASSUME NEW b \in Businesses, BeginCreate(s, b) PROVE RInv'
  <2>1. Frame(s) /\ pc'[s] = "creating" /\ req'[s].of = b
    BY <1>1, ArriveFrame DEF BeginCreate
  <2>2. business' = business /\ business[b].status = "none"
    BY <1>1 DEF BeginCreate, shop
  <2>3. RowSlot(s)'
    BY <2>1, <2>2 DEF RowSlot, Adding
  <2>4. \A t \in Sessions : pc[t] = "creating" => req[t].of # b
    BY <1>1 DEF BeginCreate
  <2> QED BY <2>1, <2>2, <2>3, <2>4, QuietRows
<1>2. ASSUME NEW b \in Businesses, NEW kind \in {"profile", "complete"}, BeginRow(s, kind, b)
      PROVE  RInv'
  <2>1. Frame(s) /\ pc'[s] = kind /\ req'[s].of = b /\ req'[s].read = business[b]
    BY <1>2, ArriveFrame DEF BeginRow
  <2>2. business' = business /\ business[b].status # "none"
    BY <1>2 DEF BeginRow, shop
  <2>3. RowSlot(s)'
    BY <2>1, <2>2 DEF RowSlot
  <2> QED BY <2>1, <2>2, <2>3, QuietRows
<1>3. ASSUME NEW b \in Businesses, NEW n \in Names, NEW wanted \in BOOLEAN,
             BeginWarehouse(s, b, n, wanted)
      PROVE  RInv'
  <2>1. Frame(s) /\ pc'[s] = "checking" /\ req'[s].of = b /\ req'[s].read = business[b]
    BY <1>3, ArriveFrame DEF BeginWarehouse
  <2>2. business' = business /\ business[b].status # "none"
    BY <1>3 DEF BeginWarehouse, shop
  <2>3. RowSlot(s)'
    BY <2>1, <2>2 DEF RowSlot
  <2> QED BY <2>1, <2>2, <2>3, QuietRows
<1>4. ASSUME End(s), business' = business PROVE RInv'
  <2>1. Frame(s) /\ pc'[s] = "idle"
    BY <1>4, EndFrame DEF Idle
  <2>2. RowSlot(s)'
    BY <2>1 DEF RowSlot, Adding
  <2> QED BY <1>4, <2>1, <2>2, QuietRows
<1>5. ASSUME CheckWarehouse(s) \/ InsertWarehouse(s) \/ FindDefaults(s) \/ ClearDefaults(s),
             ~End(s)
      PROVE  RInv'
  <2>1. /\ pc[s] = "checking" \/ Adding(s)
        /\ business' = business
        /\ \E stage \in {"inserting", "clearing", "locking", "stepping"} : Goto(s, stage)
        /\ \/ req' = req
           \/ \E x : req' = [req EXCEPT ![s].is_default = x]
           \/ \E x : req' = [req EXCEPT ![s].seen = x]
           \/ \E x : req' = [req EXCEPT ![s].cleared = x]
    BY <1>5 DEF CheckWarehouse, InsertWarehouse, FindDefaults, ClearDefaults, Adding, shop
  <2>2. req[s] \in WarehouseRequest
    BY <2>1 DEF TypeOK, SessionOK, Idle, Adding
  <2>3. Frame(s) /\ req'[s].of = req[s].of /\ req'[s].read = req[s].read
    BY <2>1, <2>2 DEF Goto, Frame, TypeOK, BusinessTypeOK, WarehouseRequest
  <2>4. pc'[s] \in {"inserting", "clearing", "locking", "stepping"}
    BY <2>1 DEF Goto, TypeOK, BusinessTypeOK
  <2>5. RowSlot(s)'
    BY <1>0, <2>1, <2>3, <2>4 DEF RowSlot, Adding
  <2> QED BY <2>1, <2>3, <2>4, <2>5, QuietRows
<1>6. ASSUME CreateBusiness(s) PROVE RInv'
  <2> PICK b : b = req[s].of
    OBVIOUS
  <2>1. Frame(s) /\ pc'[s] = "idle"
    BY <1>6, EndFrame DEF CreateBusiness, Idle
  <2>2. b \in Businesses /\ pc[s] = "creating"
    BY <1>6, AboutBusiness DEF CreateBusiness
  <2>3. business'[b] = Created /\ \A d \in Businesses \ {b} : business'[d] = business[d]
    BY <1>6, <2>2 DEF CreateBusiness, TypeOK, BusinessTypeOK
  <2>4. \A t \in Sessions \ {s} : pc[t] = "creating" => business'[req[t].of].status = "none"
    BY <2>2, <2>3, AboutBusiness DEF RInv, CreatedApart, RowSlot
  <2>5. RowSlot(s)'
    BY <2>1 DEF RowSlot, Adding
  <2>6. Blank' /\ \A d \in Businesses : business[d].status # "none" => business'[d].status # "none"
    BY <2>2, <2>3 DEF RInv, Blank, Created
  <2> QED BY <2>1, <2>4, <2>5, <2>6, RowsAfter
<1>7. ASSUME SaveProfile(s) \/ CompleteOnboarding(s) \/ CommitWarehouse(s) PROVE RInv'
  <2> PICK b : b = req[s].of
    OBVIOUS
  <2>1. Frame(s) /\ pc'[s] = "idle"
    BY <1>7, EndFrame DEF SaveProfile, CompleteOnboarding, CommitWarehouse, Idle
  <2>2. pc[s] \in {"profile", "complete"} \/ Adding(s)
    BY <1>7 DEF SaveProfile, CompleteOnboarding, CommitWarehouse, Adding
  <2>3. /\ b \in Businesses /\ business[b] \in BusinessRow /\ req[s].read \in BusinessRow
        /\ business[b].status # "none" /\ req[s].read.status # "none"
    BY <1>0, <2>2, AboutBusiness DEF RowSlot, TypeOK, BusinessTypeOK
  <2>4. ASSUME NEW row, business' = [business EXCEPT ![b] = row], row.status # "none" PROVE RInv'
    BY <2>1, <2>3, <2>4, WrittenRows
  <2>5. CASE SaveProfile(s)
    <3>1. business' = [business EXCEPT ![b] = [req[s].read EXCEPT !.step = AtLeast(@, 2)]]
      BY <2>5 DEF SaveProfile
    <3>2. [req[s].read EXCEPT !.step = AtLeast(@, 2)].status # "none"
      BY <2>3 DEF BusinessRow
    <3> QED BY <2>4, <3>1, <3>2
  <2>6. CASE CompleteOnboarding(s)
    <3>1. business' = [business EXCEPT ![b] = [business[b] EXCEPT !.step = 99, !.done = TRUE]]
      BY <2>6 DEF CompleteOnboarding
    <3>2. [business[b] EXCEPT !.step = 99, !.done = TRUE].status # "none"
      BY <2>3 DEF BusinessRow
    <3> QED BY <2>4, <3>1, <3>2
  <2>7. CASE CommitWarehouse(s)
    <3>1. \/ business' = business /\ End(s)
          \/ business' = [business EXCEPT ![b] = [business[b] EXCEPT !.step = 3]]
      BY <2>7 DEF CommitWarehouse
    <3>2. [business[b] EXCEPT !.step = 3].status # "none"
      BY <2>3 DEF BusinessRow
    <3> QED BY <1>4, <2>4, <3>1, <3>2
  <2> QED BY <1>7, <2>5, <2>6, <2>7
<1>8. ASSUME CheckWarehouse(s) \/ InsertWarehouse(s) \/ Fail(s) PROVE business' = business
  BY <1>8 DEF CheckWarehouse, InsertWarehouse, Fail, shop
<1>9. ASSUME FindDefaults(s) \/ ClearDefaults(s), End(s) PROVE RInv'
  BY <1>4, <1>9 DEF FindDefaults, ClearDefaults, shop
<1>10. Fail(s) => End(s)
  BY DEF Fail
<1> QED BY <1>1, <1>2, <1>3, <1>4, <1>5, <1>6, <1>7, <1>8, <1>9, <1>10 DEF BusinessRequest

\* Rows stay in order.
LEMMA RowsStep ==
  ASSUME RInv, TypeOK, [Next]_vars
  PROVE  RInv'
<1>1. ASSUME NEW s \in Sessions, ContactHandler(s) PROVE RInv'
  <2>1. Frame(s) /\ pc'[s] \notin {"checking", "inserting", "clearing", "locking", "stepping"}
    BY <1>1, OtherSlots
  <2>2. pc'[s] \notin {"creating", "profile", "complete"} /\ business' = business
    <3>1. ASSUME NEW c, NEW b, BeginAdd(s, c, b) \/ BeginEdit(s, c, b) PROVE pc'[s] = "validating"
      BY <3>1, ArriveFrame DEF BeginAdd, BeginEdit
    <3>2. ASSUME NEW c, NEW kind, BeginFlag(s, c, kind) PROVE pc'[s] = "flagging"
      BY <3>2, ArriveFrame DEF BeginFlag
    <3>3. ASSUME ValidateLink(s) \/ WriteContact(s) \/ WriteFlag(s)
          PROVE  pc'[s] \in {"idle", "writing"}
      BY <3>3, EndFrame, GotoFrame DEF ValidateLink, WriteContact, WriteFlag, Idle
    <3>4. business' = business
      BY <1>1 DEF ContactHandler, BeginAdd, BeginEdit, BeginFlag, ValidateLink, WriteContact,
                  WriteFlag, shop
    <3> QED BY <1>1, <3>1, <3>2, <3>3, <3>4 DEF ContactHandler
  <2>3. RowSlot(s)'
    BY <2>1, <2>2 DEF RowSlot, Adding
  <2> QED BY <2>1, <2>2, <2>3, QuietRows
<1>2. ASSUME NEW s \in Sessions, BusinessRequest(s) PROVE RInv'
  BY <1>2, BusinessRows
<1>3. ASSUME NEW b \in Businesses, Admin(b) PROVE RInv'
  <2>1. PICK x \in {"active", "suspended"} :
          business' = [business EXCEPT ![b] = [business[b] EXCEPT !.status = x]]
    BY <1>3 DEF Admin, Suspend, Reinstate
  <2>2. /\ business[b].status # "none"
        /\ business'[b].status # "none"
        /\ \A d \in Businesses \ {b} : business'[d] = business[d]
    BY <1>3, <2>1 DEF Admin, Suspend, Reinstate, TypeOK, BusinessTypeOK, BusinessRow
  <2>3. pc' = pc /\ req' = req
    BY <1>3 DEF Admin
  <2>4. ASSUME NEW t \in Sessions PROVE RowSlot(t)'
    <3>1. RowSlot(t)
      BY DEF RInv
    <3> QED BY <2>2, <2>3, <3>1, AboutBusiness DEF RowSlot, Adding
  <2>5. Blank' /\ CreatedApart'
    BY <2>2, <2>3 DEF RInv, Blank, CreatedApart
  <2> QED BY <2>4, <2>5 DEF RInv
<1>4. CASE UNCHANGED vars
  BY <1>4 DEF vars, tenancyVars, RInv, Blank, CreatedApart, RowSlot, Adding
<1> QED BY <1>1, <1>2, <1>3, <1>4 DEF Next, BusinessNext

\* A step keeps what was settled about every business, unless an administrator or a
\* settings form with an older row takes it back.
LEMMA StepKeeps ==
  ASSUME RInv, TypeOK, [Next]_vars, NEW b \in Businesses
  PROVE  \/ Keeps(business[b], business'[b])
         \/ Admin(b)
         \/ \E s \in Sessions : /\ SaveProfile(s)
                                /\ req[s].of = b
                                /\ ~Keeps(business[b], req[s].read)
<1>1. ASSUME business'[b] = business[b] PROVE Keeps(business[b], business'[b])
  BY <1>1 DEF Keeps
<1>2. ASSUME NEW s \in Sessions, ContactHandler(s) PROVE business' = business
  BY <1>2 DEF ContactHandler, BeginAdd, BeginEdit, BeginFlag, ValidateLink, WriteContact,
              WriteFlag, shop
<1>3. ASSUME NEW s \in Sessions, BusinessRequest(s), ~SaveProfile(s)
      PROVE  Keeps(business[b], business'[b])
  <2>0. RowSlot(s) /\ Blank /\ business[b] \in BusinessRow
    BY DEF RInv, TypeOK, BusinessTypeOK
  <2>1. CASE CreateBusiness(s)
    <3>1. b = req[s].of => business[b].status = "none" /\ ~business[b].done
      BY <2>0, <2>1 DEF RowSlot, CreateBusiness, Blank
    <3>2. b # req[s].of => business'[b] = business[b]
      BY <2>1 DEF CreateBusiness, TypeOK, BusinessTypeOK
    <3> QED BY <1>1, <3>1, <3>2 DEF Keeps
  <2>2. CASE CompleteOnboarding(s)
    <3>1. b # req[s].of => business'[b] = business[b]
      BY <2>2 DEF CompleteOnboarding, TypeOK, BusinessTypeOK
    <3>2. b = req[s].of => business'[b] = [business[b] EXCEPT !.step = 99, !.done = TRUE]
      BY <2>2 DEF CompleteOnboarding, TypeOK, BusinessTypeOK
    <3> QED BY <1>1, <2>0, <3>1, <3>2 DEF Keeps, BusinessRow
  <2>3. CASE CommitWarehouse(s)
    <3>1. \/ business'[b] = business[b]
          \/ business'[b] = [business[b] EXCEPT !.step = 3]
      BY <2>3 DEF CommitWarehouse, TypeOK, BusinessTypeOK
    <3> QED BY <1>1, <2>0, <3>1 DEF Keeps, BusinessRow
  <2>4. ASSUME ~CreateBusiness(s), ~CompleteOnboarding(s), ~CommitWarehouse(s)
        PROVE  business' = business
    BY <1>3, <2>4 DEF BusinessRequest, BeginCreate, BeginRow, BeginWarehouse, CheckWarehouse,
                      InsertWarehouse, FindDefaults, ClearDefaults, Fail, shop
  <2> QED BY <1>1, <2>1, <2>2, <2>3, <2>4
<1>4. ASSUME NEW s \in Sessions, SaveProfile(s)
      PROVE  \/ Keeps(business[b], business'[b])
             \/ req[s].of = b /\ ~Keeps(business[b], req[s].read)
  <2>1. req[s].read \in BusinessRow
    BY <1>4, AboutBusiness DEF SaveProfile
  <2>2. b # req[s].of => business'[b] = business[b]
    BY <1>4 DEF SaveProfile, TypeOK, BusinessTypeOK
  <2>3. b = req[s].of => business'[b] = [req[s].read EXCEPT !.step = AtLeast(@, 2)]
    BY <1>4 DEF SaveProfile, TypeOK, BusinessTypeOK
  <2> QED BY <1>1, <2>1, <2>2, <2>3 DEF Keeps, BusinessRow
<1>5. ASSUME NEW d \in Businesses, Admin(d) PROVE Admin(b) \/ business'[b] = business[b]
  BY <1>5 DEF Admin, Suspend, Reinstate, TypeOK, BusinessTypeOK
<1> QED BY <1>1, <1>2, <1>3, <1>4, <1>5 DEF Next, BusinessNext, vars, tenancyVars

\* Nothing takes back a suspension or a finished onboarding but an administrator, or a
\* settings form that had read the row before.
THEOREM SettledStays == Spec => NothingTakenBack
<1>1. Init => IInv /\ RInv
  BY TypesStart DEF Init, BusinessInit, IInv, Known, Apart, Stages, AboutContact, RInv, Blank,
                    CreatedApart, RowSlot, Adding
<1>2. IInv /\ [Next]_vars => IInv'
  BY InvariantStep
<1>3. IInv /\ RInv /\ [Next]_vars => RInv'
  BY RowsStep DEF IInv
<1>4. IInv /\ RInv /\ [Next]_vars =>
        [\A b \in Businesses :
           \/ Keeps(business[b], business'[b])
           \/ Admin(b)
           \/ \E s \in Sessions : /\ SaveProfile(s)
                                  /\ req[s].of = b
                                  /\ ~Keeps(business[b], req[s].read)]_tenancyVars
  BY StepKeeps DEF IInv
<1> QED BY <1>1, <1>2, <1>3, <1>4, PTL DEF Spec, NothingTakenBack
=============================================================================
