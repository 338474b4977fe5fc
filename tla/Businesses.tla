----------------------------- MODULE Businesses -----------------------------
(***************************************************************************)
(* The row of a business and its warehouses (apps/businesses): sign-up,     *)
(* onboarding, the settings page, and an administrator who suspends.        *)
(*                                                                          *)
(* Every request reads the row of its business when it arrives (the         *)
(* middleware) and writes later: add_warehouse and complete_onboarding name *)
(* the columns they write, update_business_profile saves the whole row.     *)
(* add_warehouse is a transaction; its statements interleave with those of  *)
(* other requests, and what it writes shows when it commits. The slug,      *)
(* addresses and members other than the founder are left out.               *)
(***************************************************************************)
EXTENDS Naturals, FiniteSets

CONSTANTS Businesses,
          Names,      \* names of warehouses
          Sessions,   \* requests being handled
          NoRequest

VARIABLES business,   \* business[b]: its row
          warehouse,  \* warehouse[b][n]: the committed row of that name
          pc, req,    \* of each session
          raced       \* history: businesses to which two warehouses were added at once

shop == <<business, warehouse>>
tenancyVars == <<business, warehouse, pc, req, raced>>

BusinessRow == [status : {"none", "active", "suspended"},   \* none: not created yet
                step   : {1, 2, 3, 99},
                done   : BOOLEAN]                           \* onboarding_completed_at is set

\* first: how the row will be added; seen, cleared: the default warehouses found
\* by the update that clears them, and those it has locked and cleared.
WarehouseRequest == [kind : {"warehouse"}, of : Businesses, read : BusinessRow,
                     name : Names, is_default : BOOLEAN,
                     seen : SUBSET Names, cleared : SUBSET Names]
RowRequest == [kind : {"create", "profile", "complete"}, of : Businesses, read : BusinessRow]

BusinessTypeOK ==
  /\ business \in [Businesses -> BusinessRow]
  /\ warehouse \in [Businesses -> [Names -> {"none", "plain", "default"}]]
  /\ raced \subseteq Businesses
  /\ DOMAIN pc = Sessions /\ DOMAIN req = Sessions

Idle(s) == pc[s] = "idle" /\ req[s] = NoRequest

\* A request arrives, with the row the middleware read.
Arrive(s, r, stage) ==
  /\ Idle(s)
  /\ req' = [req EXCEPT ![s] = r]
  /\ pc' = [pc EXCEPT ![s] = stage]

\* It ends, answered, refused or failed.
End(s) ==
  /\ req' = [req EXCEPT ![s] = NoRequest]
  /\ pc' = [pc EXCEPT ![s] = "idle"]

Goto(s, stage) == pc' = [pc EXCEPT ![s] = stage]

-----------------------------------------------------------------------------
(* Requests about the row *)

Created == [status |-> "active", step |-> 2, done |-> FALSE]

\* onboarding_start: of a user who has no business yet; nothing stops a second
\* form sent before the first is handled, and each makes a business.
BeginCreate(s, b) ==
  /\ business[b].status = "none"
  /\ \A t \in Sessions : pc[t] = "creating" => req[t].of # b
  /\ Arrive(s, [kind |-> "create", of |-> b, read |-> business[b]], "creating")
  /\ UNCHANGED <<shop, raced>>

\* create_business_for_owner: the business and its owner's membership, in one
\* transaction.
CreateBusiness(s) ==
  /\ pc[s] = "creating"
  /\ business' = [business EXCEPT ![req[s].of] = Created]
  /\ End(s)
  /\ UNCHANGED <<warehouse, raced>>

BeginRow(s, kind, b) ==
  /\ business[b].status # "none"
  /\ Arrive(s, [kind |-> kind, of |-> b, read |-> business[b]], kind)
  /\ UNCHANGED <<shop, raced>>

AtLeast(step, k) == IF step < k THEN k ELSE step

\* update_business_profile: business.save() writes every column as it was read.
SaveProfile(s) ==
  /\ pc[s] = "profile"
  /\ business' = [business EXCEPT ![req[s].of] =
                    [req[s].read EXCEPT !.step = AtLeast(@, 2)]]
  /\ End(s)
  /\ UNCHANGED <<warehouse, raced>>

\* FAULTY: the whole row is saved.
FaultyCompleteOnboarding(s) ==
  /\ pc[s] = "complete"
  /\ business' = [business EXCEPT ![req[s].of] =
                    [req[s].read EXCEPT !.step = 99, !.done = TRUE]]
  /\ End(s)
  /\ UNCHANGED <<warehouse, raced>>

CompleteOnboarding(s) ==
  /\ pc[s] = "complete"
  /\ business' = [business EXCEPT ![req[s].of].step = 99, ![req[s].of].done = TRUE]
  /\ End(s)
  /\ UNCHANGED <<warehouse, raced>>

-----------------------------------------------------------------------------
(* add_warehouse *)

Adding(s) == pc[s] \in {"inserting", "clearing", "locking", "stepping"}

BeginWarehouse(s, b, n, wanted) ==
  /\ business[b].status # "none"
  /\ Arrive(s, [kind |-> "warehouse", of |-> b, read |-> business[b], name |-> n,
                is_default |-> wanted, seen |-> {}, cleared |-> {}], "checking")
  /\ UNCHANGED <<shop, raced>>

HasWarehouse(b) == \E n \in Names : warehouse[b][n] # "none"

\* The looks for the name and for any warehouse at all, one after the other; the
\* unique index answers for the first again.
CheckWarehouse(s) ==
  LET b == req[s].of
  IN /\ pc[s] = "checking"
     /\ IF warehouse[b][req[s].name] # "none" THEN End(s) /\ raced' = raced
        ELSE /\ req' = [req EXCEPT ![s].is_default = @ \/ ~HasWarehouse(b)]
             /\ Goto(s, "inserting")
             /\ raced' = IF \E t \in Sessions : Adding(t) /\ req[t].of = b
                         THEN raced \cup {b} ELSE raced
     /\ UNCHANGED shop

\* The insert waits for one of the same name that has not committed yet.
InsertWarehouse(s) ==
  LET b == req[s].of
      n == req[s].name
  IN /\ pc[s] = "inserting"
     /\ \A t \in Sessions \ {s} :
          ~(Adding(t) /\ pc[t] # "inserting" /\ req[t].of = b /\ req[t].name = n)
     /\ IF warehouse[b][n] # "none" THEN End(s)
        ELSE Goto(s, IF req[s].is_default THEN "clearing" ELSE "stepping") /\ req' = req
     /\ UNCHANGED <<shop, raced>>

\* The other default warehouses, as the update finds them when it starts ...
FindDefaults(s) ==
  /\ pc[s] = "clearing"
  /\ req' = [req EXCEPT ![s].seen = {n \in Names : warehouse[req[s].of][n] = "default"}]
  /\ Goto(s, "locking")
  /\ UNCHANGED <<shop, raced>>

\* ... and those of them that are default still, once no other request holds them.
ClearDefaults(s) ==
  LET b == req[s].of
  IN /\ pc[s] = "locking"
     /\ \A t \in Sessions \ {s} :
          Adding(t) /\ req[t].of = b => req[t].cleared \cap req[s].seen = {}
     /\ req' = [req EXCEPT ![s].cleared = {n \in req[s].seen : warehouse[b][n] = "default"}]
     /\ Goto(s, "stepping")
     /\ UNCHANGED <<shop, raced>>

\* FAULTY: the other warehouses stay default.
FaultyAdded(s) ==
  [warehouse[req[s].of] EXCEPT ![req[s].name] = IF req[s].is_default THEN "default" ELSE "plain"]

\* The warehouses as the transaction leaves them.
Added(s) ==
  [n \in Names |-> IF n = req[s].name THEN IF req[s].is_default THEN "default" ELSE "plain"
                   ELSE IF n \in req[s].cleared THEN "plain"
                   ELSE warehouse[req[s].of][n]]

\* onboarding_step, if it was below 3 when it was read; then the commit.
CommitWarehouse(s) ==
  LET b == req[s].of
  IN /\ pc[s] = "stepping"
     /\ warehouse' = [warehouse EXCEPT ![b] = Added(s)]
     /\ business' = IF req[s].read.step < 3 THEN [business EXCEPT ![b].step = 3] ELSE business
     /\ End(s)
     /\ raced' = raced

\* The worker dies, or the request fails: what was not committed is gone.
Fail(s) ==
  /\ pc[s] # "idle"
  /\ End(s)
  /\ UNCHANGED <<shop, raced>>

-----------------------------------------------------------------------------
Suspend(b) ==
  /\ business[b].status = "active"
  /\ business' = [business EXCEPT ![b].status = "suspended"]

Reinstate(b) ==
  /\ business[b].status = "suspended"
  /\ business' = [business EXCEPT ![b].status = "active"]

Admin(b) ==
  /\ Suspend(b) \/ Reinstate(b)
  /\ UNCHANGED <<warehouse, pc, req, raced>>

BusinessInit ==
  /\ business = [b \in Businesses |-> [status |-> "none", step |-> 1, done |-> FALSE]]
  /\ warehouse = [b \in Businesses |-> [n \in Names |-> "none"]]
  /\ pc = [s \in Sessions |-> "idle"]
  /\ req = [s \in Sessions |-> NoRequest]
  /\ raced = {}

BusinessRequest(s) ==
  \/ \E b \in Businesses :
       \/ BeginCreate(s, b)
       \/ \E kind \in {"profile", "complete"} : BeginRow(s, kind, b)
       \/ \E n \in Names, wanted \in BOOLEAN : BeginWarehouse(s, b, n, wanted)
  \/ CreateBusiness(s)
  \/ SaveProfile(s)
  \/ CompleteOnboarding(s)
  \/ CheckWarehouse(s)
  \/ InsertWarehouse(s)
  \/ FindDefaults(s)
  \/ ClearDefaults(s)
  \/ CommitWarehouse(s)
  \/ Fail(s)

BusinessNext == (\E s \in Sessions : BusinessRequest(s)) \/ (\E b \in Businesses : Admin(b))

BusinessSpec == BusinessInit /\ [][BusinessNext]_tenancyVars

-----------------------------------------------------------------------------
(* Properties *)

\* A business that has warehouses always has a default one, and only one unless
\* two were added to it at once, when neither clears the other's flag.
DefaultWarehouse ==
  \A b \in Businesses :
    LET defaults == {n \in Names : warehouse[b][n] = "default"}
    IN HasWarehouse(b) => /\ defaults # {}
                          /\ b \in raced \/ Cardinality(defaults) = 1

\* What an administrator or the founder has settled.
Keeps(old, new) == /\ old.status = "suspended" => new.status = "suspended"
                   /\ old.done => new.done

\* Nothing takes back a suspension or a finished onboarding but an administrator,
\* or a settings form that had read the row before.
NothingTakenBack ==
  [][\A b \in Businesses :
       \/ Keeps(business[b], business'[b])
       \/ Admin(b)
       \/ \E s \in Sessions : /\ SaveProfile(s)
                              /\ req[s].of = b
                              /\ ~Keeps(business[b], req[s].read)]_tenancyVars
==============================================================================
