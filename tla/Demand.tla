-------------------------------- MODULE Demand --------------------------------
(***************************************************************************)
(* The demand board: purchase requests, the private offers sellers make on  *)
(* them and the buyer's decisions (apps/purchase_requests).                 *)
(*                                                                          *)
(* A session is one web request. Its view reads the rows it needs in        *)
(* autocommit, the service then checks those objects, not the rows, and     *)
(* writes inside one transaction: each UPDATE takes the row's lock until    *)
(* the commit, and no SELECT ... FOR UPDATE precedes it. What a session has *)
(* written and not committed is writes[s]; its domain is what it has        *)
(* locked.                                                                  *)
(*                                                                          *)
(* Left out: the notifications written in the same transactions, terms and  *)
(* lots of offers, and the statuses no code sets (matching, withdrawn).     *)
(***************************************************************************)
EXTENDS Integers, FiniteSets

CONSTANTS Sessions,     \* web requests in progress
          Businesses,
          Requests,     \* purchase requests
          Buyer,        \* Buyer[p]: purchase_request.business
          OfferIds,     \* primary keys of offers: a bound on their number
          MaySuspend,   \* businesses the administrators may suspend
          None          \* no offer, no job

ASSUME DemandConstants ==
  /\ Buyer \in [Requests -> Businesses]
  /\ MaySuspend \subseteq Businesses
  /\ IsFiniteSet(OfferIds) /\ IsFiniteSet(Sessions)
  /\ None \notin OfferIds

VARIABLES request,   \* request[p]: the committed status; "none" before it is posted
          offer,     \* offer[i]: the committed row, or None
          active,    \* businesses whose status is ACTIVE
          pc,        \* the statement each session is about to run
          job,       \* what a session does and the rows its view has read
          writes,    \* its uncommitted writes
          raced      \* history: sessions on this request have overlapped

vars == <<request, offer, active, pc, job, writes, raced>>

Offer == [request : Requests,
          seller  : Businesses,
          status  : {"submitted", "accepted", "rejected"}]

Job == [kind    : {"submit", "accept", "reject", "close"},
        request : Requests,
        seller  : Businesses \cup {None},
        offer   : OfferIds \cup {None},  \* the offer decided on or revised
        sawOpen : BOOLEAN]               \* the request was OPEN when it was read

ASSUME NoneIsNoRow == None \notin Offer /\ None \notin Job

\* Uncommitted writes: offers by primary key, and the status of the request.
Writes == [offers  : UNION {[D -> Offer] : D \in SUBSET OfferIds},
           request : {"none", "offered", "closed", "cancelled"}]

NoWrites == [offers |-> <<>>, request |-> "none"]

TypeOK ==
  /\ request \in [Requests -> {"none", "open", "offered", "closed", "cancelled"}]
  /\ offer \in [OfferIds -> Offer \cup {None}]
  /\ active \in SUBSET Businesses
  /\ pc \in [Sessions -> {"idle", "finding", "offer", "request", "others", "done"}]
  /\ job \in [Sessions -> Job \cup {None}]
  /\ writes \in [Sessions -> Writes]
  /\ raced \in [Requests -> BOOLEAN]

Init ==
  /\ request = [p \in Requests |-> "none"]
  /\ offer = [i \in OfferIds |-> None]
  /\ active = Businesses
  /\ pc = [s \in Sessions |-> "idle"]
  /\ job = [s \in Sessions |-> None]
  /\ writes = [s \in Sessions |-> NoWrites]
  /\ raced = [p \in Requests |-> FALSE]

-----------------------------------------------------------------------------
(* Helpers *)

Rows(p) == {i \in OfferIds : offer[i] # None /\ offer[i].request = p}
RowsIn(p, status) == {i \in Rows(p) : offer[i].status = status}

InFlight(p) == {s \in Sessions : pc[s] # "idle" /\ job[s].request = p}

\* Bound: every submission in progress finds a primary key to insert under.
HasRoom ==
  Cardinality({i \in OfferIds : offer[i] # None})
    + Cardinality({s \in Sessions : pc[s] # "idle" /\ job[s].kind = "submit"})
    < Cardinality(OfferIds)

\* The view of s has read its rows and passed its checks, and those of the
\* service on the same objects.
Begin(s, j, to) ==
  /\ pc[s] = "idle"
  /\ pc' = [pc EXCEPT ![s] = to]
  /\ job' = [job EXCEPT ![s] = j]
  /\ raced' = [raced EXCEPT ![j.request] = @ \/ InFlight(j.request) # {}]
  /\ UNCHANGED <<request, offer, active, writes>>

Goto(s, from, to) ==
  /\ pc[s] = from
  /\ pc' = [pc EXCEPT ![s] = to]
  /\ UNCHANGED <<request, offer, active, raced>>

\* FAULTY: the transaction is left open, with the rows it has locked.
FaultyEnd(s) ==
  /\ pc' = [pc EXCEPT ![s] = "idle"]
  /\ job' = [job EXCEPT ![s] = None]
  /\ UNCHANGED <<active, raced, writes>>

\* The transaction of s is over.
End(s) ==
  /\ pc' = [pc EXCEPT ![s] = "idle"]
  /\ job' = [job EXCEPT ![s] = None]
  /\ writes' = [writes EXCEPT ![s] = NoWrites]
  /\ UNCHANGED <<active, raced>>

\* Row r would occupy the (request, seller) slot that s writes to.
SameSlot(s, r) ==
  /\ r # None
  /\ r.request = job[s].request
  /\ r.seller = job[s].seller
  /\ r.status = "submitted"

\* The sessions s has to wait for: those that hold a row it writes, or, for an
\* offer, an entry of uniq_open_offer_per_seller_pr that may yet go either way.
WaitsFor(s) ==
  LET Holds(t, i) == i \in DOMAIN writes[t].offers
      Waits(t) ==
        \/ /\ pc[s] = "offer"
           /\ Holds(t, job[s].offer)
        \/ /\ pc[s] = "offer"
           /\ job[s].kind = "submit"
           /\ \E i \in OfferIds : /\ Holds(t, i)
                                 /\ \/ SameSlot(s, offer[i])
                                    \/ SameSlot(s, writes[t].offers[i])
        \/ /\ pc[s] = "request"
           /\ job[t] # None
           /\ job[t].request = job[s].request
           /\ writes[t].request # "none"
        \/ /\ pc[s] = "others"
           /\ \E i \in RowsIn(job[s].request, "submitted") \ {job[s].offer} : Holds(t, i)
  IN {t \in Sessions \ {s} : Waits(t)}

-----------------------------------------------------------------------------
(* Views *)

\* create_purchase_request: a single INSERT.
CreateRequest(p) ==
  /\ request[p] = "none"
  /\ request' = [request EXCEPT ![p] = "open"]
  /\ UNCHANGED <<offer, active, pc, job, writes, raced>>

\* network_detail (POST): the request as get_network_request read it. The price
\* and the lot are valid.
BeginSubmit(s, p, b) ==
  /\ b # Buyer[p]
  /\ {b, Buyer[p]} \subseteq active
  /\ request[p] \in {"open", "offered"}
  /\ HasRoom
  /\ Begin(s, [kind |-> "submit", request |-> p, seller |-> b, offer |-> None,
               sawOpen |-> request[p] = "open"], "finding")

\* FAULTY: a decided offer is decided again.
RepeatedDecide(s, i, decision) ==
  /\ offer[i] # None
  /\ {Buyer[offer[i].request], offer[i].seller} \subseteq active
  /\ Begin(s, [kind |-> decision, request |-> offer[i].request, seller |-> None,
               offer |-> i, sawOpen |-> FALSE], "offer")

\* offer_decide: the offer as the view read it. The status of the request is not
\* looked at.
BeginDecide(s, i, decision) ==
  /\ offer[i] # None
  /\ {Buyer[offer[i].request], offer[i].seller} \subseteq active
  /\ offer[i].status = "submitted"
  /\ Begin(s, [kind |-> decision, request |-> offer[i].request, seller |-> None,
               offer |-> i, sawOpen |-> FALSE], "offer")

\* close: whatever the status of the request.
BeginClose(s, p) ==
  /\ request[p] # "none"
  /\ Begin(s, [kind |-> "close", request |-> p, seller |-> None, offer |-> None,
               sawOpen |-> FALSE], "request")

-----------------------------------------------------------------------------
(* Statements *)

\* The open offer of the seller, if it has one, to be revised.
FindOwnOffer(s) ==
  /\ Goto(s, "finding", "offer")
  /\ LET own == {i \in OfferIds : SameSlot(s, offer[i])}
     IN job' = [job EXCEPT ![s].offer = IF own = {} THEN None
                                        ELSE CHOOSE i \in own : TRUE]
  /\ UNCHANGED writes

\* Another committed row holds the slot.
SlotTaken(s) ==
  /\ job[s].kind = "submit"
  /\ \E i \in OfferIds \ {job[s].offer} : SameSlot(s, offer[i])

\* The primary key s writes under.
NewId ==
  CHOOSE i \in OfferIds :
    /\ offer[i] = None
    /\ \A t \in Sessions : i \notin DOMAIN writes[t].offers

WrittenId(s) == IF job[s].offer = None THEN NewId ELSE job[s].offer

WrittenRow(s) ==
  CASE job[s].kind = "submit" -> [request |-> job[s].request, seller |-> job[s].seller,
                                  status |-> "submitted"] \* save(): every column
    [] job[s].kind = "accept" -> [offer[job[s].offer] EXCEPT !.status = "accepted"]
    [] job[s].kind = "reject" -> [offer[job[s].offer] EXCEPT !.status = "rejected"]

Written(s) == [i \in {WrittenId(s)} |-> WrittenRow(s)]

\* FAULTY: no unique constraint on open offers.
FaultyWriteOffer(s) ==
  /\ Goto(s, "offer", CASE job[s].kind = "submit" /\ ~job[s].sawOpen -> "done"
                        [] job[s].kind = "reject" -> "done"
                        [] OTHER -> "request")
  /\ writes' = [writes EXCEPT ![s].offers = Written(s)]
  /\ UNCHANGED job

\* INSERT or UPDATE of the offer. The request is written next when it was OPEN
\* as the seller's view read it, or when the offer is accepted.
WriteOffer(s) ==
  /\ Goto(s, "offer", CASE job[s].kind = "submit" /\ ~job[s].sawOpen -> "done"
                        [] job[s].kind = "reject" -> "done"
                        [] OTHER -> "request")
  /\ WaitsFor(s) = {}
  /\ ~SlotTaken(s)
  /\ writes' = [writes EXCEPT ![s].offers = Written(s)]
  /\ UNCHANGED job

\* IntegrityError, that nothing catches: the transaction is rolled back.
OfferConflicts(s) ==
  /\ pc[s] = "offer"
  /\ WaitsFor(s) = {}
  /\ SlotTaken(s)
  /\ End(s)
  /\ UNCHANGED <<request, offer>>

\* UPDATE of the request, whatever its status has become.
WriteRequest(s) ==
  /\ Goto(s, "request", IF job[s].kind = "accept" THEN "others" ELSE "done")
  /\ WaitsFor(s) = {}
  /\ writes' = [writes EXCEPT ![s].request =
                  CASE job[s].kind = "submit" -> "offered"
                    [] job[s].kind = "accept" -> "closed"
                    [] job[s].kind = "close"  -> "cancelled"]
  /\ UNCHANGED job

\* FAULTY: the competing offers are left alone.
FaultyRejectOthers(s) ==
  /\ Goto(s, "others", "done")
  /\ UNCHANGED <<writes, job>>

\* FAULTY: the UPDATE has lost its filter on the status.
UnfilteredRejectOthers(s) ==
  /\ Goto(s, "others", "done")
  /\ WaitsFor(s) = {}
  /\ LET others == Rows(job[s].request) \ {job[s].offer}
     IN writes' = [writes EXCEPT ![s].offers =
                     [i \in DOMAIN @ \cup others |->
                        IF i \in DOMAIN @ THEN @[i] ELSE [offer[i] EXCEPT !.status = "rejected"]]]
  /\ UNCHANGED job

\* UPDATE of every other open offer of the request: it waits for the rows that are
\* locked and then looks at their status again.
RejectOthers(s) ==
  /\ Goto(s, "others", "done")
  /\ WaitsFor(s) = {}
  /\ LET others == RowsIn(job[s].request, "submitted") \ {job[s].offer}
     IN writes' = [writes EXCEPT ![s].offers =
                     [i \in DOMAIN @ \cup others |->
                        IF i \in DOMAIN @ THEN @[i] ELSE [offer[i] EXCEPT !.status = "rejected"]]]
  /\ UNCHANGED job

\* The rows as the transaction of s leaves them.
Merged(s) ==
  [i \in OfferIds |-> IF i \in DOMAIN writes[s].offers THEN writes[s].offers[i] ELSE offer[i]]

Commit(s) ==
  /\ pc[s] = "done"
  /\ offer' = Merged(s)
  /\ request' = IF writes[s].request = "none" THEN request
                ELSE [request EXCEPT ![job[s].request] = writes[s].request]
  /\ End(s)

\* FAULTY: no transaction, so that what was written stays written.
FaultyAbort(s) ==
  /\ pc[s] # "idle"
  /\ offer' = Merged(s)
  /\ request' = request
  /\ End(s)

\* The worker dies, or a statement fails: ROLLBACK.
Abort(s) ==
  /\ pc[s] # "idle"
  /\ End(s)
  /\ UNCHANGED <<request, offer>>

\* PostgreSQL finds that s waits for a session that waits, and so on, for s, and
\* cancels its statement.
Deadlocked(s) ==
  \E D \in SUBSET Sessions : s \in D /\ \A t \in D : WaitsFor(t) \cap D # {}

BreakDeadlock(s) ==
  /\ Deadlocked(s)
  /\ End(s)
  /\ UNCHANGED <<request, offer>>

-----------------------------------------------------------------------------
(* The administrators *)

Suspend(b) ==
  /\ b \in MaySuspend \cap active
  /\ active' = active \ {b}
  /\ UNCHANGED <<request, offer, pc, job, writes, raced>>

Reinstate(b) ==
  /\ b \in MaySuspend \ active
  /\ active' = active \cup {b}
  /\ UNCHANGED <<request, offer, pc, job, writes, raced>>

-----------------------------------------------------------------------------

View(s) ==
  \/ \E p \in Requests : BeginClose(s, p) \/ \E b \in Businesses : BeginSubmit(s, p, b)
  \/ \E i \in OfferIds, decision \in {"accept", "reject"} : BeginDecide(s, i, decision)

Statement(s) ==
  \/ FindOwnOffer(s)
  \/ WriteOffer(s)
  \/ OfferConflicts(s)
  \/ WriteRequest(s)
  \/ RejectOthers(s)
  \/ Commit(s)

Next ==
  \/ \E p \in Requests : CreateRequest(p)
  \/ \E s \in Sessions : View(s) \/ Statement(s) \/ Abort(s) \/ BreakDeadlock(s)
  \/ \E b \in Businesses : Suspend(b) \/ Reinstate(b)

Spec == Init /\ [][Next]_vars

\* A session runs its next statement once nobody holds what it needs; waiters
\* are queued. A deadlock is found when deadlock_timeout has passed.
Fairness == \A s \in Sessions : SF_vars(Statement(s)) /\ WF_vars(BreakDeadlock(s))

FairSpec == Spec /\ Fairness

-----------------------------------------------------------------------------
(* Properties *)

\* A seller has at most one open offer on a request, however often its form is
\* sent and whatever is decided meanwhile.
OneOpenOffer ==
  \A p \in Requests :
    \A i, j \in RowsIn(p, "submitted") : offer[i].seller = offer[j].seller => i = j

\* A request is OPEN only as long as it has no offer, and OFFERED or CLOSED only
\* when it has one: the first offer and the new status are committed together,
\* and nothing, however stale, takes a request back to OPEN.
StatusFollowsOffers ==
  \A p \in Requests :
    /\ request[p] = "open" => Rows(p) = {}
    /\ request[p] \in {"offered", "closed"} => Rows(p) # {}

\* The winner of a request is alone and the request is over, as data-model.md
\* says: one accepted offer, no open one, and no more offers on the board;
\* provided no two sessions on that request ever overlapped.
Settled(p) ==
  RowsIn(p, "accepted") # {} =>
    /\ Cardinality(RowsIn(p, "accepted")) = 1
    /\ RowsIn(p, "submitted") = {}
    /\ request[p] \in {"closed", "cancelled"}

SettledUnlessRaced == \A p \in Requests : raced[p] \/ Settled(p)

\* An offer becomes ACCEPTED in the very step in which its request becomes CLOSED,
\* under any interleaving and whenever a worker dies.
Accepted == {i \in OfferIds : offer[i] # None /\ offer[i].status = "accepted"}

AcceptanceIsWhole ==
  [][\A i \in Accepted' \ Accepted : request'[offer'[i].request] = "closed"]_vars

\* A decision is final, and a request that is over is never on the board again,
\* provided no two sessions on that request ever overlapped.
DecisionsStand ==
  [][/\ \A i \in OfferIds :
          offer[i] # None /\ offer[i].status # "submitted" /\ ~raced'[offer[i].request]
            => offer'[i] = offer[i]
     /\ \A p \in Requests :
          request[p] \in {"closed", "cancelled"} /\ ~raced'[p]
            => request'[p] \in {"closed", "cancelled"}]_vars

\* However the sessions overlap, an offer that was decided is touched again only by
\* a session whose own offer it is, a second decision on it or the revision of its
\* seller: no acceptance of another offer rejects it as one of the losers.
OthersDecisionsStand ==
  [][\A i \in OfferIds :
       offer[i] # None /\ offer[i].status # "submitted" /\ offer'[i] # offer[i]
         => \E s \in Sessions : pc[s] = "done" /\ pc'[s] = "idle" /\ job[s].offer = i]_vars

\* Every web request gets its answer, deadlocks between two decisions included.
EveryRequestEnds == \A s \in Sessions : pc[s] # "idle" ~> pc[s] = "idle"

\* "Accepting one closes the request and rejects the competing offers"
\* (data-model.md): the buyer accepts one.
OneAccepted == \A p \in Requests : Cardinality(RowsIn(p, "accepted")) <= 1
===============================================================================
