----------------------------- MODULE DemandProofs -----------------------------
(***************************************************************************)
(* Proofs about the demand board, for any businesses, requests, offers and  *)
(* overlapping sessions.                                                    *)
(***************************************************************************)
EXTENDS Demand, FiniteSetTheorems, TLAPS

(***************************************************************************)
(* The invariant                                                            *)
(***************************************************************************)

Busy(s) == pc[s] # "idle"

\* The offers s has written, and locked.
Ids(s) == DOMAIN writes[s].offers

\* What a session is at, and what it has read holds still.
JobOK(s) ==
  LET j == job[s]
  IN /\ j \in Job /\ request[j.request] # "none"
     /\ j.kind = "submit" => /\ j.seller \in Businesses
                             /\ ~j.sawOpen => request[j.request] # "open"
     /\ j.kind \in {"accept", "reject"} => j.offer \in OfferIds
     /\ j.offer # None => /\ offer[j.offer] # None
                          /\ offer[j.offer].request = j.request
                          /\ j.kind = "submit" => offer[j.offer].seller = j.seller
     /\ CASE pc[s] = "finding" -> j.kind = "submit" /\ j.offer = None
          [] pc[s] = "offer"   -> j.kind # "close"
          [] pc[s] = "request" -> j.kind # "reject" /\ (j.kind = "submit" => j.sawOpen)
          [] pc[s] = "others"  -> j.kind = "accept"
          [] OTHER             -> TRUE

\* The status a session gives its request.
Outcome(s) ==
  CASE job[s].kind = "submit" -> IF job[s].sawOpen THEN "offered" ELSE "none"
    [] job[s].kind = "accept" -> "closed"
    [] job[s].kind = "reject" -> "none"
    [] job[s].kind = "close"  -> "cancelled"

\* A row that s has written.
RowOK(s, i) ==
  LET j == job[s]
      w == writes[s].offers[i]
  IN /\ w.request = j.request
     /\ offer[i] # None => offer[i].request = w.request /\ offer[i].seller = w.seller
     /\ j.kind = "submit" => /\ w.seller = j.seller /\ w.status = "submitted"
                             /\ IF j.offer = None THEN offer[i] = None ELSE i = j.offer
     /\ j.kind = "accept" => /\ offer[i] # None
                             /\ w.status = IF i = j.offer THEN "accepted" ELSE "rejected"
                             /\ i = j.offer \/ offer[i].status = "submitted"
     /\ j.kind = "reject" => offer[i] # None /\ i = j.offer /\ w.status = "rejected"

\* What s has written so far.
WritesOK(s) ==
  /\ pc[s] \in {"idle", "finding", "offer"} => writes[s] = NoWrites
  /\ pc[s] = "request" => writes[s].request = "none"
  /\ pc[s] \in {"others", "done"} => writes[s].request = Outcome(s)
  /\ Busy(s) => \A i \in Ids(s) : RowOK(s, i)
  /\ pc[s] \in {"request", "others", "done"} =>
       /\ job[s].kind = "close" => Ids(s) = {}
       /\ job[s].kind = "submit" => \E i \in OfferIds : Ids(s) = {i}
       /\ job[s].kind \in {"accept", "reject"} => job[s].offer \in Ids(s)

SessionOK(s) == WritesOK(s) /\ (Busy(s) => JobOK(s))

\* No two sessions hold one row.
LocksApart == \A s, t \in Sessions : s # t => Ids(s) \cap Ids(t) = {}

\* A request with offers has left OPEN, and one that was offered or closed has some.
BoardOK ==
  /\ \A i \in OfferIds : offer[i] # None => request[offer[i].request] \notin {"none", "open"}
  /\ \A p \in Requests : request[p] \in {"offered", "closed"} => Rows(p) # {}

\* A session that has written an open offer is alone in its slot.
Offering(s) == Busy(s) /\ job[s].kind = "submit" /\ Ids(s) # {}

SlotsApart ==
  \A s \in Sessions : Offering(s) =>
    /\ \A k \in OfferIds \ Ids(s) : ~SameSlot(s, offer[k])
    /\ \A t \in Sessions \ {s} :
         Offering(t) => job[t].request # job[s].request \/ job[t].seller # job[s].seller

\* Submissions in progress find a primary key.
Used == {i \in OfferIds : offer[i] # None}
Submitting == {s \in Sessions : Busy(s) /\ job[s].kind = "submit"}
Room == Cardinality(Used) + Cardinality(Submitting) <= Cardinality(OfferIds)

IInv == /\ TypeOK /\ LocksApart /\ BoardOK /\ SlotsApart /\ Room /\ OneOpenOffer
        /\ \A s \in Sessions : SessionOK(s)

(***************************************************************************)
(* Types                                                                    *)
(***************************************************************************)

\* What a session has written: some rows, and a status.
LEMMA WritesType ==
  /\ NoWrites \in Writes /\ DOMAIN NoWrites.offers = {} /\ NoWrites.request = "none"
  /\ \A w \in Writes : /\ DOMAIN w.offers \subseteq OfferIds
                       /\ \A i \in DOMAIN w.offers : w.offers[i] \in Offer
                       /\ w.offers = [i \in DOMAIN w.offers |-> w.offers[i]]
  /\ \A w \in Writes, D \in SUBSET OfferIds : \A f \in [D -> Offer] :
       LET v == [w EXCEPT !.offers = f]
       IN  v \in Writes /\ v.offers = f /\ v.request = w.request
  /\ \A w \in Writes, status \in {"none", "offered", "closed", "cancelled"} :
       LET v == [w EXCEPT !.request = status]
       IN  v \in Writes /\ v.offers = w.offers /\ v.request = status
<1>1. NoWrites \in Writes /\ DOMAIN NoWrites.offers = {} /\ NoWrites.request = "none"
  <2>1. <<>> \in [{} -> Offer] /\ {} \in SUBSET OfferIds
    OBVIOUS
  <2>2. <<>> \in UNION {[D -> Offer] : D \in SUBSET OfferIds}
    BY <2>1
  <2> QED BY <2>1, <2>2 DEF NoWrites, Writes
<1>2. ASSUME NEW w \in Writes
      PROVE  /\ DOMAIN w.offers \subseteq OfferIds
             /\ \A i \in DOMAIN w.offers : w.offers[i] \in Offer
             /\ w.offers = [i \in DOMAIN w.offers |-> w.offers[i]]
  <2>1. PICK D \in SUBSET OfferIds : w.offers \in [D -> Offer]
    BY DEF Writes
  <2> QED BY <2>1
<1>3. ASSUME NEW w \in Writes, NEW D \in SUBSET OfferIds, NEW f \in [D -> Offer]
      PROVE  LET v == [w EXCEPT !.offers = f]
             IN  v \in Writes /\ v.offers = f /\ v.request = w.request
  <2>1. f \in UNION {[E -> Offer] : E \in SUBSET OfferIds}
    OBVIOUS
  <2> QED BY <2>1 DEF Writes
<1>4. ASSUME NEW w \in Writes, NEW status \in {"none", "offered", "closed", "cancelled"}
      PROVE  LET v == [w EXCEPT !.request = status]
             IN  v \in Writes /\ v.offers = w.offers /\ v.request = status
  BY DEF Writes
<1> QED BY <1>1, <1>2, <1>3, <1>4

\* A step of s leaves what the other sessions are at.
Frame(s) ==
  /\ DOMAIN pc' = Sessions /\ DOMAIN job' = Sessions /\ DOMAIN writes' = Sessions
  /\ \A t \in Sessions \ {s} : pc'[t] = pc[t] /\ job'[t] = job[t] /\ writes'[t] = writes[t]

\* The end of a transaction: the session is at rest, and its locks are free.
LEMMA EndFrame ==
  ASSUME TypeOK, NEW s \in Sessions, End(s)
  PROVE  /\ Frame(s) /\ pc'[s] = "idle" /\ job'[s] = None /\ writes'[s] = NoWrites
         /\ pc' \in [Sessions -> {"idle", "finding", "offer", "request", "others", "done"}]
         /\ job' \in [Sessions -> Job \cup {None}]
         /\ writes' \in [Sessions -> Writes]
<1>1. NoWrites \in Writes
  BY WritesType
<1> QED BY <1>1 DEF TypeOK, End, Frame

\* The start of a request.
LEMMA BeginFrame ==
  ASSUME TypeOK, NEW s \in Sessions, NEW j \in Job,
         NEW to \in {"finding", "offer", "request"}, Begin(s, j, to)
  PROVE  TypeOK' /\ Frame(s) /\ pc'[s] = to /\ job'[s] = j /\ writes'[s] = writes[s]
<1>1. j.request \in Requests /\ raced' \in [Requests -> BOOLEAN]
  BY DEF TypeOK, Begin, Job
<1> QED BY <1>1 DEF TypeOK, Begin, Frame

(***************************************************************************)
(* Steps that commit nothing                                                *)
(***************************************************************************)

\* There is room as long as no offer is added and no submission begins.
LEMMA RoomKept ==
  ASSUME IInv, offer' = offer, Submitting' \subseteq Submitting
  PROVE  Room'
<1>1. IsFiniteSet(Submitting) /\ IsFiniteSet(Used)
  BY DemandConstants, FS_Subset DEF Submitting, Used
<1>2. /\ Cardinality(Submitting') <= Cardinality(Submitting)
      /\ Cardinality(Submitting') \in Nat /\ Cardinality(Submitting) \in Nat
      /\ Cardinality(Used) \in Nat /\ Cardinality(OfferIds) \in Nat
  BY <1>1, DemandConstants, FS_Subset, FS_CardinalityType
<1>3. Used' = Used
  BY DEF Used
<1> QED BY <1>2, <1>3 DEF IInv, Room

\* A step of s that commits nothing and leaves s in order.
LEMMA QuietKeeps ==
  ASSUME IInv, NEW s \in Sessions, TypeOK', Frame(s), UNCHANGED <<offer, request>>,
         SessionOK(s)', Room',
         \A t \in Sessions \ {s} : Ids(s)' \cap Ids(t) = {},
         Offering(s)' =>
           /\ \A k \in OfferIds \ Ids(s)' : ~SameSlot(s, offer[k])'
           /\ \A t \in Sessions \ {s} :
                Offering(t) => \/ job[t].request # job'[s].request
                               \/ job[t].seller # job'[s].seller
  PROVE  IInv'
<1>1. \A t \in Sessions \ {s} :
        /\ Busy(t)' = Busy(t) /\ Ids(t)' = Ids(t) /\ Offering(t)' = Offering(t)
        /\ job'[t] = job[t]
  BY DEF Frame, Busy, Ids, Offering
<1>2. ASSUME NEW t \in Sessions \ {s} PROVE SessionOK(t)'
  <2>1. SessionOK(t)
    BY DEF IInv
  <2>2. pc'[t] = pc[t] /\ job'[t] = job[t] /\ writes'[t] = writes[t]
    BY DEF Frame
  <2>3. JobOK(t) => JobOK(t)'
    BY <2>2 DEF JobOK
  <2>4. \A i \in Ids(t) : RowOK(t, i) => RowOK(t, i)'
    BY <2>2 DEF RowOK
  <2>5. Outcome(t)' = Outcome(t)
    BY <2>2 DEF Outcome
  <2> QED BY <2>1, <2>2, <2>3, <2>4, <2>5, <1>1 DEF SessionOK, WritesOK, Busy, Ids
<1>3. LocksApart'
  BY <1>1 DEF IInv, LocksApart
<1>4. BoardOK' /\ OneOpenOffer'
  BY DEF IInv, BoardOK, OneOpenOffer, RowsIn, Rows
<1>5. SlotsApart'
  BY <1>1 DEF IInv, SlotsApart, SameSlot
<1> QED BY <1>2, <1>3, <1>4, <1>5 DEF IInv

\* A request that fails leaves everything as it was.
LEMMA EndKeeps ==
  ASSUME IInv, NEW s \in Sessions, End(s), UNCHANGED <<offer, request>>
  PROVE  IInv'
<1>1. /\ Frame(s) /\ pc'[s] = "idle" /\ job'[s] = None /\ writes'[s] = NoWrites
      /\ TypeOK'
  BY EndFrame DEF IInv, TypeOK, End
<1>2. Ids(s)' = {} /\ ~Busy(s)' /\ SessionOK(s)'
  BY <1>1, WritesType DEF Ids, Busy, SessionOK, WritesOK
<1>3. Submitting' \subseteq Submitting
  BY <1>1, <1>2 DEF Submitting, Frame, Busy
<1> QED BY <1>1, <1>2, <1>3, RoomKept, QuietKeeps DEF Offering

\* A request begins.
LEMMA BeginKeeps ==
  ASSUME IInv, NEW s \in Sessions, View(s)
  PROVE  IInv'
<1>1. pc[s] = "idle" /\ writes[s] = NoWrites /\ Ids(s) = {}
  BY WritesType DEF View, BeginSubmit, BeginDecide, BeginClose, Begin, IInv, SessionOK, WritesOK, Ids
<1>2. ASSUME NEW j \in Job, NEW to \in {"finding", "offer", "request"}, Begin(s, j, to),
             JobOK(s)', Room', to = "request" => j.kind = "close"
      PROVE  IInv'
  <2>1. /\ TypeOK' /\ Frame(s) /\ pc'[s] = to /\ job'[s] = j /\ writes'[s] = NoWrites
        /\ UNCHANGED <<offer, request>>
    BY <1>1, <1>2, BeginFrame DEF IInv, Begin
  <2>2. Ids(s)' = {} /\ SessionOK(s)'
    BY <1>2, <2>1, WritesType DEF Ids, SessionOK, WritesOK, Busy
  <2> QED BY <1>2, <2>1, <2>2, QuietKeeps DEF Offering
<1>3. ASSUME NEW p \in Requests, NEW b \in Businesses, BeginSubmit(s, p, b)
      PROVE  IInv'
  <2> DEFINE j == [kind |-> "submit", request |-> p, seller |-> b, offer |-> None,
                   sawOpen |-> request[p] = "open"]
  <2>1. j \in Job /\ Begin(s, j, "finding") /\ request[p] \in {"open", "offered"} /\ HasRoom
    BY <1>3 DEF BeginSubmit, Job
  <2>2. pc'[s] = "finding" /\ job'[s] = j /\ UNCHANGED <<offer, request>> /\ Frame(s)
    BY <2>1, BeginFrame DEF IInv, Begin
  <2>3. Submitting' = Submitting \cup {s} /\ s \notin Submitting /\ Used' = Used
    BY <1>1, <2>2 DEF Submitting, Busy, Frame, Used
  <2>4. IsFiniteSet(Submitting) /\ IsFiniteSet(Used)
    BY DemandConstants, FS_Subset DEF Submitting, Used
  <2>5. Cardinality(Submitting') = Cardinality(Submitting) + 1
    BY <2>3, <2>4, FS_AddElement
  <2>6. Cardinality(Used) + Cardinality(Submitting) < Cardinality(OfferIds)
    BY <2>1 DEF HasRoom, Used, Submitting, Busy
  <2>7. /\ Cardinality(Submitting) \in Nat /\ Cardinality(Used) \in Nat
        /\ Cardinality(OfferIds) \in Nat
    BY <2>4, DemandConstants, FS_CardinalityType
  <2>8. Room'
    BY <2>3, <2>5, <2>6, <2>7 DEF Room
  <2>9. JobOK(s)'
    <3>1. (j.sawOpen <=> request[p] = "open") /\ j.request = p /\ j.seller = b /\ j.kind = "submit"
          /\ j.offer = None
      BY Zenon
    <3> HIDE DEF j
    <3> QED BY <2>1, <2>2, <3>1 DEF JobOK
  <2> QED BY <1>2, <2>1, <2>8, <2>9
<1>4. ASSUME NEW i \in OfferIds, NEW decision \in {"accept", "reject"}, BeginDecide(s, i, decision)
      PROVE  IInv'
  <2> DEFINE j == [kind |-> decision, request |-> offer[i].request, seller |-> None,
                   offer |-> i, sawOpen |-> FALSE]
  <2>1. offer[i] # None /\ offer[i] \in Offer /\ Begin(s, j, "offer")
    BY <1>4 DEF BeginDecide, IInv, TypeOK
  <2>2. j \in Job
    BY <2>1 DEF Job, Offer
  <2>3. request[j.request] # "none"
    BY <2>1 DEF IInv, BoardOK
  <2>4. pc'[s] = "offer" /\ job'[s] = j /\ UNCHANGED <<offer, request>> /\ Frame(s)
    BY <2>1, <2>2, BeginFrame DEF IInv, Begin
  <2>5. JobOK(s)'
    BY <2>1, <2>2, <2>3, <2>4 DEF JobOK, Job
  <2>6. Submitting' \subseteq Submitting
    BY <2>4 DEF Submitting, Busy, Frame
  <2> QED BY <1>2, <2>1, <2>2, <2>4, <2>5, <2>6, RoomKept
<1>5. ASSUME NEW p \in Requests, BeginClose(s, p)
      PROVE  IInv'
  <2> DEFINE j == [kind |-> "close", request |-> p, seller |-> None, offer |-> None,
                   sawOpen |-> FALSE]
  <2>1. j \in Job /\ request[p] # "none" /\ Begin(s, j, "request")
    BY <1>5 DEF BeginClose, Job
  <2>2. pc'[s] = "request" /\ job'[s] = j /\ UNCHANGED <<offer, request>> /\ Frame(s)
    BY <2>1, BeginFrame DEF IInv, Begin
  <2>3. JobOK(s)'
    BY <2>1, <2>2 DEF JobOK, Job
  <2>4. Submitting' \subseteq Submitting
    BY <2>2 DEF Submitting, Busy, Frame
  <2> QED BY <1>2, <2>1, <2>2, <2>3, <2>4, RoomKept
<1> QED BY <1>3, <1>4, <1>5 DEF View

\* The look for an open offer of the seller.
LEMMA FindKeeps ==
  ASSUME IInv, NEW s \in Sessions, FindOwnOffer(s)
  PROVE  IInv'
<1> DEFINE own == {i \in OfferIds : SameSlot(s, offer[i])}
           found == IF own = {} THEN None ELSE CHOOSE i \in own : TRUE
<1>1. pc[s] = "finding" /\ SessionOK(s) /\ job[s] \in Job /\ writes[s] = NoWrites
  BY DEF FindOwnOffer, Goto, IInv, SessionOK, WritesOK, JobOK, Busy
<1>2. /\ Frame(s) /\ pc'[s] = "offer" /\ job'[s] = [job[s] EXCEPT !.offer = found]
      /\ writes'[s] = NoWrites /\ UNCHANGED <<offer, request, active, raced, writes>>
  BY <1>1 DEF FindOwnOffer, Goto, IInv, TypeOK, Frame
<1>3. found = None \/ found \in own
  OBVIOUS
<1> HIDE DEF found
<1>4. job'[s] \in Job
  BY <1>1, <1>2, <1>3 DEF Job
<1>5. TypeOK'
  <2>1. /\ pc' \in [Sessions -> {"idle", "finding", "offer", "request", "others", "done"}]
        /\ job' \in [Sessions -> Job \cup {None}]
    BY <1>4 DEF IInv, TypeOK, FindOwnOffer, Goto
  <2> QED BY <1>2, <2>1 DEF IInv, TypeOK
<1>6. JobOK(s)'
  <2>1. JobOK(s) /\ job[s].kind = "submit"
    BY <1>1 DEF SessionOK, Busy, JobOK
  <2>2. found # None => /\ offer[found] # None /\ offer[found].request = job[s].request
                        /\ offer[found].seller = job[s].seller
    BY <1>3 DEF SameSlot
  <2>3. /\ job'[s].kind = "submit" /\ job'[s].request = job[s].request
        /\ job'[s].seller = job[s].seller /\ job'[s].sawOpen = job[s].sawOpen
        /\ job'[s].offer = found
    BY <1>1, <1>2, <2>1 DEF Job
  <2> QED BY <1>2, <1>4, <2>1, <2>2, <2>3 DEF JobOK
<1>7. Ids(s)' = {} /\ SessionOK(s)'
  BY <1>2, <1>6, WritesType DEF Ids, SessionOK, WritesOK, Busy
<1>8. Submitting' \subseteq Submitting
  <2>1. job'[s].kind = job[s].kind
    BY <1>1, <1>2 DEF Job
  <2> QED BY <1>1, <1>2, <2>1 DEF Submitting, Busy, Frame
<1> QED BY <1>2, <1>5, <1>7, <1>8, RoomKept, QuietKeeps DEF Offering

\* A submission without an offer to revise finds a primary key.
LEMMA FreeId ==
  ASSUME IInv, NEW s \in Sessions, pc[s] = "offer", job[s].kind = "submit", job[s].offer = None
  PROVE  NewId \in OfferIds /\ offer[NewId] = None /\ \A t \in Sessions : NewId \notin Ids(t)
<1> DEFINE Pending == {i \in OfferIds : offer[i] = None /\ \E t \in Sessions : i \in Ids(t)}
           Others == Submitting \ {s}
           Owners == {t \in Others : \E i \in Pending : i \in Ids(t)}
           f == [t \in Owners |-> CHOOSE i \in Pending : i \in Ids(t)]
<1>1. ASSUME NEW t \in Sessions, NEW i \in Pending, i \in Ids(t)
      PROVE  t \in Others /\ Ids(t) = {i}
  <2>1. SessionOK(t) /\ SessionOK(s)
    BY DEF IInv
  <2>2. Ids(s) = {}
    BY <2>1, WritesType DEF SessionOK, WritesOK, Ids
  <2>3. pc[t] \in {"request", "others", "done"}
    <3>1. pc[t] \in {"idle", "finding", "offer", "request", "others", "done"}
      BY DEF IInv, TypeOK
    <3>2. pc[t] \notin {"idle", "finding", "offer"}
      BY <1>1, <2>1, WritesType DEF SessionOK, WritesOK, Ids
    <3> QED BY <3>1, <3>2
  <2>4. RowOK(t, i) /\ offer[i] = None /\ job[t] \in Job
    BY <1>1, <2>1, <2>3 DEF SessionOK, WritesOK, Busy, JobOK
  <2>5. job[t].kind = "submit"
    BY <1>1, <2>1, <2>3, <2>4 DEF RowOK, SessionOK, WritesOK, Job
  <2>6. \E k \in OfferIds : Ids(t) = {k}
    BY <2>1, <2>3, <2>5 DEF SessionOK, WritesOK
  <2> QED BY <1>1, <2>2, <2>3, <2>5, <2>6 DEF Submitting, Busy
<1>2. f \in Surjection(Owners, Pending)
  <2>1. f \in [Owners -> Pending]
    OBVIOUS
  <2>2. ASSUME NEW i \in Pending PROVE \E t \in Owners : f[t] = i
    <3>1. PICK t \in Sessions : i \in Ids(t)
      OBVIOUS
    <3>2. t \in Owners /\ Ids(t) = {i}
      BY <1>1, <3>1
    <3> QED BY <3>2
  <2> QED BY <2>1, <2>2 DEF Surjection
<1>3. /\ IsFiniteSet(Submitting) /\ IsFiniteSet(Used) /\ IsFiniteSet(Others) /\ IsFiniteSet(Owners)
  BY DemandConstants, FS_Subset DEF Submitting, Used
<1>4. s \in Submitting
  BY DEF Submitting, Busy
<1> HIDE DEF f
<1>5. /\ IsFiniteSet(Pending) /\ Cardinality(Pending) <= Cardinality(Owners)
  BY <1>2, <1>3, FS_Surjection
<1>6. Cardinality(Owners) <= Cardinality(Others) /\ Cardinality(Others) = Cardinality(Submitting) - 1
  BY <1>3, <1>4, FS_Subset, FS_RemoveElement
<1>7. /\ Cardinality(Owners) \in Nat /\ Cardinality(Others) \in Nat /\ Cardinality(Submitting) \in Nat
      /\ Cardinality(Used) \in Nat /\ Cardinality(Pending) \in Nat /\ Cardinality(OfferIds) \in Nat
  BY <1>3, <1>5, FS_CardinalityType, DemandConstants
<1>8. /\ IsFiniteSet(Used \cup Pending) /\ IsFiniteSet(Used \cap Pending)
      /\ Cardinality(Used \cup Pending) =
           Cardinality(Used) + Cardinality(Pending) - Cardinality(Used \cap Pending)
  BY <1>3, <1>5, FS_Union, FS_Intersection
<1>9. Cardinality(Used \cap Pending) \in Nat
  BY <1>8, FS_CardinalityType
<1>10. Cardinality(Used \cup Pending) < Cardinality(OfferIds)
  <2>1. Cardinality(Used) + Cardinality(Submitting) <= Cardinality(OfferIds)
    BY DEF IInv, Room
  <2> HIDE DEF Owners, Others, Pending
  <2> QED BY <1>5, <1>6, <1>7, <1>8, <1>9, <2>1
<1>11. PICK i \in OfferIds : i \notin Used \cup Pending
  <2>1. Used \cup Pending \in SUBSET OfferIds
    BY DEF Used
  <2>2. Used \cup Pending # OfferIds
    <3> HIDE DEF Pending
    <3> SUFFICES ASSUME Used \cup Pending = OfferIds PROVE FALSE
      OBVIOUS
    <3>1. Cardinality(Used \cup Pending) = Cardinality(OfferIds)
      BY Zenon
    <3> QED BY <1>7, <1>10, <3>1
  <2> QED BY <2>1, <2>2
<1>12. offer[i] = None /\ \A t \in Sessions : i \notin DOMAIN writes[t].offers
  BY <1>11 DEF Used, Ids
<1> QED BY <1>12 DEF NewId, Ids

\* The INSERT or UPDATE of an offer: the row and its slot are free.
LEMMA WriteKeeps ==
  ASSUME IInv, NEW s \in Sessions, WriteOffer(s)
  PROVE  IInv'
<1> DEFINE j == job[s]
<1> PICK id, row : id = WrittenId(s) /\ row = WrittenRow(s)
  OBVIOUS
<1>1. /\ pc[s] = "offer" /\ WritesOK(s) /\ JobOK(s) /\ j \in Job /\ writes[s] = NoWrites
      /\ WaitsFor(s) = {} /\ ~SlotTaken(s)
  BY DEF WriteOffer, Goto, IInv, SessionOK, WritesOK, JobOK, Busy
<1>2. /\ id \in OfferIds /\ \A t \in Sessions \ {s} : id \notin Ids(t)
      /\ j.offer = None => offer[id] = None
      /\ j.offer # None => id = j.offer
  <2>1. CASE j.offer = None
    <3>1. j.kind = "submit"
      BY <1>1, <2>1, DemandConstants DEF JobOK, Job
    <3> QED BY <1>1, <2>1, <3>1, FreeId DEF WrittenId
  <2>2. CASE j.offer # None
    <3>1. ASSUME NEW t \in Sessions \ {s} PROVE j.offer \notin Ids(t)
      BY <1>1, <2>2 DEF WaitsFor, Ids
    <3> QED BY <1>1, <2>2, <3>1 DEF WrittenId, Job
  <2> QED BY <2>1, <2>2
<1>3. /\ row \in Offer /\ row.request = j.request
      /\ offer[id] # None => offer[id].request = row.request /\ offer[id].seller = row.seller
      /\ j.kind = "submit" => row.seller = j.seller /\ row.status = "submitted"
      /\ j.kind = "accept" => row.status = "accepted"
      /\ j.kind = "reject" => row.status = "rejected"
      /\ j.kind \in {"accept", "reject"} => offer[id] # None /\ id = j.offer
  <2>1. CASE j.kind = "submit"
    BY <1>1, <1>2, <2>1 DEF WrittenRow, JobOK, Job, Offer
  <2>2. CASE j.kind \in {"accept", "reject"}
    <3>1. j.offer \in OfferIds /\ offer[j.offer] # None /\ offer[j.offer].request = j.request
          /\ j.offer # None
      BY <1>1, <2>2, DemandConstants DEF JobOK
    <3>2. offer[j.offer] \in Offer
      BY <3>1 DEF IInv, TypeOK
    <3>3. row = [offer[j.offer] EXCEPT !.status = IF j.kind = "accept" THEN "accepted" ELSE "rejected"]
      BY <2>2 DEF WrittenRow
    <3> QED BY <1>2, <2>2, <3>1, <3>2, <3>3 DEF Offer
  <2> QED BY <1>1, <2>1, <2>2 DEF JobOK, Job
<1> PICK to, new : /\ to = CASE j.kind = "submit" /\ ~j.sawOpen -> "done"
                             [] j.kind = "reject" -> "done"
                             [] OTHER -> "request"
                   /\ new = [i \in {id} |-> row]
  OBVIOUS
<1>4. /\ Frame(s) /\ pc'[s] = to /\ job' = job /\ writes'[s] = [writes[s] EXCEPT !.offers = new]
      /\ UNCHANGED <<offer, request, active, raced>>
  BY DEF WriteOffer, Goto, IInv, TypeOK, Frame, Written
<1>5. new \in [{id} -> Offer] /\ {id} \in SUBSET OfferIds
  BY <1>2, <1>3
<1>6. writes'[s].offers = new /\ writes'[s].request = "none" /\ Ids(s)' = {id} /\ writes'[s] \in Writes
  <2>1. writes[s] \in Writes
    BY DEF IInv, TypeOK
  <2>2. [writes[s] EXCEPT !.offers = new] \in Writes
    BY <1>5, <2>1, WritesType
  <2>3. writes'[s].offers = new /\ writes'[s].request = "none"
    BY <1>1, <1>4, <1>5, <2>1, WritesType
  <2> QED BY <1>4, <2>2, <2>3 DEF Ids
<1>7. TypeOK'
  <2>1. pc' \in [Sessions -> {"idle", "finding", "offer", "request", "others", "done"}]
    BY DEF WriteOffer, Goto, IInv, TypeOK
  <2>2. writes' \in [Sessions -> Writes]
    BY <1>6 DEF WriteOffer, IInv, TypeOK
  <2> QED BY <1>4, <2>1, <2>2 DEF IInv, TypeOK
<1>8. RowOK(s, id)'
  <2>1. writes'[s].offers[id] = row
    BY <1>6
  <2>2. JobOK(s)
    BY <1>1
  <2> QED BY <1>1, <1>2, <1>3, <1>4, <2>1 DEF RowOK
<1>9. to \in {"request", "done"} /\ (to = "done" <=> j.kind = "reject" \/ (j.kind = "submit" /\ ~j.sawOpen))
  OBVIOUS
<1>10. JobOK(s)'
  <2>1. j.kind # "close"
    BY <1>1 DEF JobOK
  <2> QED BY <1>1, <1>4, <1>9, <2>1 DEF JobOK
<1>11. SessionOK(s)'
  <2>1. to = "done" => Outcome(s)' = "none"
    BY <1>4, <1>9 DEF Outcome
  <2>2. j.kind # "close"
    BY <1>1 DEF JobOK
  <2> QED BY <1>2, <1>3, <1>4, <1>6, <1>8, <1>9, <1>10, <2>1, <2>2 DEF SessionOK, WritesOK, Busy
<1>12. Submitting' \subseteq Submitting
  BY <1>1, <1>4 DEF Submitting, Busy, Frame
<1>13. ASSUME j.kind = "submit"
       PROVE  /\ \A k \in OfferIds \ {id} : ~SameSlot(s, offer[k])'
              /\ \A t \in Sessions \ {s} :
                   Offering(t) => job[t].request # j.request \/ job[t].seller # j.seller
  <2>1. \A k \in OfferIds \ {id} : ~SameSlot(s, offer[k])
    BY <1>1, <1>2, <1>13, DemandConstants DEF SlotTaken
  <2>2. ASSUME NEW t \in Sessions \ {s}, Offering(t)
        PROVE  job[t].request # j.request \/ job[t].seller # j.seller
    <3>1. PICK i \in Ids(t) : TRUE
      BY <2>2 DEF Offering
    <3>2. RowOK(t, i) /\ job[t].kind = "submit"
      BY <2>2 DEF Offering, IInv, SessionOK, WritesOK
    <3>3. i \in OfferIds /\ writes[t].offers[i] \in Offer
      BY WritesType DEF IInv, TypeOK, Ids
    <3>4. ~SameSlot(s, writes[t].offers[i])
      BY <1>1, <1>13, <3>3 DEF WaitsFor, Ids
    <3> QED BY <3>2, <3>3, <3>4, NoneIsNoRow DEF RowOK, SameSlot
  <2> QED BY <1>4, <2>1, <2>2 DEF SameSlot
<1>14. Offering(s)' => j.kind = "submit"
  BY <1>4 DEF Offering
<1> QED BY <1>2, <1>4, <1>6, <1>7, <1>11, <1>12, <1>13, <1>14, RoomKept, QuietKeeps

\* The UPDATE of the request.
LEMMA RequestKeeps ==
  ASSUME IInv, NEW s \in Sessions, WriteRequest(s)
  PROVE  IInv'
<1> DEFINE j == job[s]
<1> PICK to, status : /\ to = IF j.kind = "accept" THEN "others" ELSE "done"
                      /\ status = CASE j.kind = "submit" -> "offered"
                                    [] j.kind = "accept" -> "closed"
                                    [] j.kind = "close"  -> "cancelled"
  OBVIOUS
<1>1. /\ pc[s] = "request" /\ WritesOK(s) /\ JobOK(s) /\ j.kind \in {"submit", "accept", "close"}
      /\ writes[s] \in Writes
  BY DEF WriteRequest, Goto, IInv, TypeOK, SessionOK, WritesOK, JobOK, Job, Busy
<1>2. /\ Frame(s) /\ pc'[s] = to /\ job' = job /\ writes'[s] = [writes[s] EXCEPT !.request = status]
      /\ UNCHANGED <<offer, request, active, raced>>
  BY DEF WriteRequest, Goto, IInv, TypeOK, Frame
<1>3. /\ writes'[s] \in Writes /\ writes'[s].offers = writes[s].offers
      /\ writes'[s].request = status
  <2>1. status \in {"none", "offered", "closed", "cancelled"}
    BY <1>1
  <2>2. /\ [writes[s] EXCEPT !.request = status] \in Writes
        /\ [writes[s] EXCEPT !.request = status].offers = writes[s].offers
        /\ [writes[s] EXCEPT !.request = status].request = status
    <3> HIDE DEF j
    <3>1. \A w \in Writes, x \in {"none", "offered", "closed", "cancelled"} :
            LET v == [w EXCEPT !.request = x]
            IN  v \in Writes /\ v.offers = w.offers /\ v.request = x
      BY WritesType
    <3> QED BY <1>1, <2>1, <3>1
  <2> QED BY <1>2, <2>2
<1>4. TypeOK'
  <2>1. pc' \in [Sessions -> {"idle", "finding", "offer", "request", "others", "done"}]
    BY DEF WriteRequest, Goto, IInv, TypeOK
  <2>2. writes' \in [Sessions -> Writes]
    BY <1>3 DEF WriteRequest, IInv, TypeOK
  <2> QED BY <1>2, <2>1, <2>2 DEF IInv, TypeOK
<1>5. JobOK(s)'
  BY <1>1, <1>2 DEF JobOK
<1>6. SessionOK(s)'
  <2>1. Ids(s)' = Ids(s) /\ \A i \in Ids(s) : RowOK(s, i) => RowOK(s, i)'
    BY <1>2, <1>3 DEF Ids, RowOK
  <2>2. Outcome(s)' = status
    BY <1>1, <1>2 DEF Outcome, JobOK
  <2> QED BY <1>1, <1>2, <1>3, <1>5, <2>1, <2>2 DEF SessionOK, WritesOK, Busy
<1>7. Submitting' \subseteq Submitting
  BY <1>1, <1>2 DEF Submitting, Busy, Frame
<1>8. Ids(s)' = Ids(s) /\ (Offering(s)' => Offering(s))
  BY <1>1, <1>2, <1>3 DEF Ids, Offering, Busy
<1>9. \A k \in OfferIds : SameSlot(s, offer[k])' = SameSlot(s, offer[k])
  BY <1>2 DEF SameSlot
<1> QED BY <1>2, <1>4, <1>6, <1>7, <1>8, <1>9, RoomKept, QuietKeeps DEF IInv, LocksApart, SlotsApart

\* The UPDATE of the competing offers: their rows are free.
LEMMA RejectKeeps ==
  ASSUME IInv, NEW s \in Sessions, RejectOthers(s)
  PROVE  IInv'
<1> DEFINE j == job[s]
<1> PICK others, mine, new :
      /\ others = RowsIn(j.request, "submitted") \ {j.offer}
      /\ mine = writes[s].offers
      /\ new = [i \in DOMAIN mine \cup others |->
                  IF i \in DOMAIN mine THEN mine[i] ELSE [offer[i] EXCEPT !.status = "rejected"]]
  OBVIOUS
<1>1. /\ pc[s] = "others" /\ WritesOK(s) /\ JobOK(s) /\ j.kind = "accept"
      /\ writes[s] \in Writes /\ WaitsFor(s) = {}
  BY DEF RejectOthers, Goto, IInv, TypeOK, SessionOK, WritesOK, JobOK, Busy
<1>2. /\ Frame(s) /\ pc'[s] = "done" /\ job' = job /\ writes'[s] = [writes[s] EXCEPT !.offers = new]
      /\ UNCHANGED <<offer, request, active, raced>>
  BY DEF RejectOthers, Goto, IInv, TypeOK, Frame
<1>3. \A i \in others : i \in OfferIds /\ offer[i] \in Offer /\ offer[i] # None
                        /\ offer[i].request = j.request /\ i # j.offer
                        /\ offer[i].status = "submitted"
  BY DEF RowsIn, Rows, IInv, TypeOK
<1>4. new \in [DOMAIN mine \cup others -> Offer] /\ DOMAIN mine \cup others \in SUBSET OfferIds
  <2>1. \A i \in DOMAIN mine : i \in OfferIds /\ mine[i] \in Offer
    BY <1>1, WritesType
  <2>2. \A i \in others : [offer[i] EXCEPT !.status = "rejected"] \in Offer
    BY <1>3 DEF Offer
  <2> QED BY <1>3, <2>1, <2>2
<1>5. /\ writes'[s] \in Writes /\ writes'[s].offers = new
      /\ writes'[s].request = writes[s].request /\ Ids(s)' = Ids(s) \cup others
  <2>1. /\ writes'[s] \in Writes /\ writes'[s].offers = new
        /\ writes'[s].request = writes[s].request
    <3>1. PICK D \in SUBSET OfferIds : new \in [D -> Offer]
      BY <1>4
    <3>2. [writes[s] EXCEPT !.offers = new] \in Writes
      BY <1>1, <3>1, WritesType
    <3>3. /\ [writes[s] EXCEPT !.offers = new].offers = new
          /\ [writes[s] EXCEPT !.offers = new].request = writes[s].request
      BY <1>1 DEF Writes
    <3> QED BY <1>2, <3>2, <3>3
  <2> QED BY <2>1 DEF Ids
<1>6. TypeOK'
  <2>1. pc' \in [Sessions -> {"idle", "finding", "offer", "request", "others", "done"}]
    BY DEF RejectOthers, Goto, IInv, TypeOK
  <2>2. writes' \in [Sessions -> Writes]
    BY <1>5 DEF RejectOthers, IInv, TypeOK
  <2> QED BY <1>2, <2>1, <2>2 DEF IInv, TypeOK
<1>7. ASSUME NEW i \in Ids(s) \cup others PROVE RowOK(s, i)'
  <2>1. CASE i \in Ids(s)
    <3>1. RowOK(s, i) /\ writes'[s].offers[i] = writes[s].offers[i]
      BY <1>1, <1>5, <2>1 DEF WritesOK, Busy, Ids
    <3> QED BY <1>2, <3>1 DEF RowOK
  <2>2. CASE i \notin Ids(s)
    <3>1. writes'[s].offers[i] = [offer[i] EXCEPT !.status = "rejected"] /\ i \in others
      BY <1>5, <2>2 DEF Ids
    <3>2. /\ writes'[s].offers[i].request = offer[i].request
          /\ writes'[s].offers[i].seller = offer[i].seller
          /\ writes'[s].offers[i].status = "rejected"
      BY <1>3, <3>1 DEF Offer
    <3> QED BY <1>1, <1>2, <1>3, <3>1, <3>2 DEF RowOK
  <2> QED BY <2>1, <2>2
<1>8. JobOK(s)'
  BY <1>1, <1>2 DEF JobOK
<1>9. SessionOK(s)'
  <2>1. Outcome(s)' = Outcome(s)
    BY <1>2 DEF Outcome
  <2> QED BY <1>1, <1>2, <1>5, <1>7, <1>8, <2>1 DEF SessionOK, WritesOK, Busy
<1>10. ASSUME NEW t \in Sessions \ {s} PROVE Ids(s)' \cap Ids(t) = {}
  <2>1. \A i \in others : i \notin Ids(t)
    BY <1>1 DEF WaitsFor, Ids
  <2> QED BY <1>5, <2>1 DEF IInv, LocksApart
<1>11. Submitting' \subseteq Submitting
  BY <1>1, <1>2 DEF Submitting, Busy, Frame
<1>12. ~Offering(s)'
  BY <1>1, <1>2 DEF Offering
<1> QED BY <1>2, <1>6, <1>9, <1>10, <1>11, <1>12, RoomKept, QuietKeeps

(***************************************************************************)
(* The commit                                                               *)
(***************************************************************************)

\* What a commit makes of the rows and of the requests: no row loses its request or
\* its seller, no request becomes OPEN, and one with a new row is not.
LEMMA CommitEffect ==
  ASSUME IInv, NEW s \in Sessions, Commit(s)
  PROVE  /\ pc[s] = "done" /\ WritesOK(s) /\ JobOK(s)
         /\ \A i \in Ids(s) : RowOK(s, i) /\ i \in OfferIds
         /\ offer' \in [OfferIds -> Offer \cup {None}]
         /\ request' \in [Requests -> {"none", "open", "offered", "closed", "cancelled"}]
         /\ \A i \in OfferIds : IF i \in Ids(s) THEN offer'[i] = writes[s].offers[i] /\ offer'[i] \in Offer
                                ELSE offer'[i] = offer[i]
         /\ \A i \in OfferIds : offer[i] # None => /\ offer'[i] # None
                                                   /\ offer'[i].request = offer[i].request
                                                   /\ offer'[i].seller = offer[i].seller
         /\ \A q \in Requests : request'[q] # request[q] =>
              q = job[s].request /\ request'[q] = Outcome(s) /\ request'[q] \notin {"none", "open"}
         /\ Ids(s) # {} => request'[job[s].request] \notin {"none", "open"}
<1>1. /\ pc[s] = "done" /\ WritesOK(s) /\ JobOK(s) /\ writes[s] \in Writes /\ job[s].request \in Requests
      /\ writes[s].request = Outcome(s)
  BY DEF Commit, IInv, TypeOK, SessionOK, WritesOK, JobOK, Job, Busy
<1>2. \A i \in Ids(s) : /\ RowOK(s, i) /\ i \in OfferIds /\ writes[s].offers[i] \in Offer
  BY <1>1, WritesType DEF WritesOK, Busy, Ids
<1>3. /\ offer' \in [OfferIds -> Offer \cup {None}]
      /\ \A i \in OfferIds : IF i \in Ids(s) THEN offer'[i] = writes[s].offers[i] /\ offer'[i] \in Offer
                             ELSE offer'[i] = offer[i]
  BY <1>2 DEF Commit, Merged, Ids, IInv, TypeOK
<1>4. ASSUME NEW i \in OfferIds, offer[i] # None
      PROVE  /\ offer'[i] # None /\ offer'[i].request = offer[i].request
             /\ offer'[i].seller = offer[i].seller
  BY <1>2, <1>3, <1>4, NoneIsNoRow DEF RowOK
<1>5. Outcome(s) \in {"none", "offered", "closed", "cancelled"}
  BY <1>1 DEF Outcome, JobOK, Job
<1>6. /\ request' \in [Requests -> {"none", "open", "offered", "closed", "cancelled"}]
      /\ \A q \in Requests : request'[q] # request[q] =>
           q = job[s].request /\ request'[q] = Outcome(s) /\ request'[q] \notin {"none", "open"}
      /\ Outcome(s) # "none" => request'[job[s].request] = Outcome(s)
      /\ Outcome(s) = "none" => request' = request
  BY <1>1, <1>5 DEF Commit, IInv, TypeOK
<1>7. ASSUME Ids(s) # {} PROVE request'[job[s].request] \notin {"none", "open"}
  <2>1. CASE job[s].kind = "submit"
    BY <1>1, <1>5, <1>6, <2>1 DEF Outcome, JobOK
  <2>2. CASE job[s].kind = "accept"
    BY <1>1, <1>5, <1>6, <2>2 DEF Outcome
  <2>3. CASE job[s].kind = "reject"
    <3>1. job[s].offer \in OfferIds /\ offer[job[s].offer] # None
          /\ offer[job[s].offer].request = job[s].request
      BY <1>1, <2>3, DemandConstants DEF JobOK
    <3>2. request[job[s].request] \notin {"none", "open"}
      BY <3>1 DEF IInv, BoardOK
    <3> QED BY <1>5, <1>6, <2>3, <3>2 DEF Outcome
  <2>4. CASE job[s].kind = "close"
    BY <1>1, <1>7, <2>4 DEF WritesOK
  <2> QED BY <1>1, <2>1, <2>2, <2>3, <2>4 DEF JobOK, Job
<1> QED BY <1>1, <1>2, <1>3, <1>4, <1>6, <1>7

\* There is room for the submissions in progress once one has committed.
LEMMA CommitRoom ==
  ASSUME IInv, NEW s \in Sessions, Commit(s)
  PROVE  Room'
<1>1. Frame(s) /\ ~Busy(s)' /\ s \notin Submitting'
  BY EndFrame DEF Commit, IInv, Busy, Submitting
<1>2. IsFiniteSet(Submitting) /\ IsFiniteSet(Used)
  BY DemandConstants, FS_Subset DEF Submitting, Used
<1>3. /\ Cardinality(Submitting) \in Nat /\ Cardinality(Used) \in Nat
      /\ Cardinality(OfferIds) \in Nat
  BY <1>2, DemandConstants, FS_CardinalityType
<1>4. Submitting' \subseteq Submitting \ {s}
  BY <1>1 DEF Submitting, Busy, Frame
<1>5. CASE job[s].kind = "submit"
  <2>1. PICK i \in OfferIds : Ids(s) = {i}
    BY <1>5, CommitEffect DEF WritesOK
  <2>2. Used' \subseteq Used \cup {i}
    BY <2>1, CommitEffect DEF Used
  <2>3. s \in Submitting
    BY <1>5, CommitEffect DEF Submitting, Busy
  <2>4. /\ IsFiniteSet(Submitting \ {s}) /\ IsFiniteSet(Used \cup {i})
        /\ Cardinality(Submitting \ {s}) = Cardinality(Submitting) - 1
        /\ Cardinality(Used \cup {i}) <= Cardinality(Used) + 1
    <3>1. /\ IsFiniteSet(Submitting \ {s})
          /\ Cardinality(Submitting \ {s}) = Cardinality(Submitting) - 1
      BY <1>2, <2>3, FS_RemoveElement
    <3>2. /\ IsFiniteSet(Used \cup {i})
          /\ Cardinality(Used \cup {i}) = IF i \in Used THEN Cardinality(Used) ELSE Cardinality(Used) + 1
      BY <1>2, FS_AddElement
    <3> QED BY <1>3, <3>1, <3>2
  <2>5. /\ IsFiniteSet(Submitting') /\ IsFiniteSet(Used')
        /\ Cardinality(Submitting') <= Cardinality(Submitting \ {s})
        /\ Cardinality(Used') <= Cardinality(Used \cup {i})
    BY <1>4, <2>2, <2>4, FS_Subset
  <2>6. Cardinality(Submitting') \in Nat /\ Cardinality(Used') \in Nat
        /\ Cardinality(Used \cup {i}) \in Nat
    BY <2>4, <2>5, FS_CardinalityType
  <2>7. Cardinality(Used) + Cardinality(Submitting) <= Cardinality(OfferIds)
    BY DEF IInv, Room
  <2>8. Cardinality(Used') + Cardinality(Submitting') <= Cardinality(OfferIds)
    BY <1>3, <2>4, <2>5, <2>6, <2>7
  <2> QED BY <2>8 DEF Room
<1>6. CASE job[s].kind # "submit"
  <2>1. \A i \in Ids(s) : offer[i] # None
    BY <1>6, CommitEffect DEF RowOK, JobOK, Job, WritesOK
  <2>2. Used' = Used
    BY <2>1, CommitEffect DEF Used
  <2>3. IsFiniteSet(Submitting') /\ Cardinality(Submitting') <= Cardinality(Submitting)
    BY <1>2, <1>4, FS_Subset
  <2>4. Cardinality(Submitting') \in Nat
    BY <2>3, FS_CardinalityType
  <2> QED BY <1>3, <2>2, <2>3, <2>4 DEF Room, IInv
<1> QED BY <1>5, <1>6

\* A commit keeps everything in order.
LEMMA CommitKeeps ==
  ASSUME IInv, NEW s \in Sessions, Commit(s)
  PROVE  IInv'
<1>1. /\ Frame(s) /\ pc'[s] = "idle" /\ writes'[s] = NoWrites /\ TypeOK'
  BY EndFrame, CommitEffect DEF Commit, IInv, TypeOK, End
<1>2. Ids(s)' = {} /\ ~Busy(s)'
  BY <1>1, WritesType DEF Ids, Busy
<1>3. \A t \in Sessions \ {s} :
        /\ Busy(t)' = Busy(t) /\ Ids(t)' = Ids(t) /\ Offering(t)' = Offering(t)
        /\ pc'[t] = pc[t] /\ job'[t] = job[t] /\ writes'[t] = writes[t]
  BY <1>1 DEF Frame, Busy, Ids, Offering
<1>4. ASSUME NEW t \in Sessions \ {s} PROVE SessionOK(t)'
  <2>1. SessionOK(t)
    BY DEF IInv
  <2>2. ASSUME JobOK(t) PROVE JobOK(t)'
    <3>1. job[t].request \in Requests /\ (job[t].offer # None => job[t].offer \in OfferIds)
      BY <2>2 DEF JobOK, Job
    <3>2. request'[job[t].request] = request[job[t].request]
          \/ request'[job[t].request] \notin {"none", "open"}
      BY <3>1, CommitEffect
    <3>3. job[t].offer # None =>
            /\ offer'[job[t].offer] # None
            /\ offer'[job[t].offer].request = offer[job[t].offer].request
            /\ offer'[job[t].offer].seller = offer[job[t].offer].seller
      BY <2>2, <3>1, CommitEffect DEF JobOK
    <3> QED BY <1>3, <2>2, <3>2, <3>3 DEF JobOK
  <2>3. ASSUME NEW i \in Ids(t), RowOK(t, i) PROVE RowOK(t, i)'
    <3>1. i \notin Ids(s) /\ i \in OfferIds
      BY WritesType DEF IInv, TypeOK, LocksApart, Ids
    <3>2. offer'[i] = offer[i]
      BY <3>1, CommitEffect
    <3> QED BY <1>3, <2>3, <3>2 DEF RowOK
  <2>4. Outcome(t)' = Outcome(t)
    BY <1>3 DEF Outcome
  <2> QED BY <1>3, <2>1, <2>2, <2>3, <2>4 DEF SessionOK, WritesOK
<1>5. SessionOK(s)'
  BY <1>1, <1>2 DEF SessionOK, WritesOK
<1>6. LocksApart'
  BY <1>2, <1>3 DEF IInv, LocksApart
<1>7. BoardOK'
  <2>1. ASSUME NEW i \in OfferIds, offer'[i] # None
        PROVE  request'[offer'[i].request] \notin {"none", "open"}
    <3>1. CASE i \in Ids(s)
      BY <3>1, CommitEffect DEF RowOK
    <3>2. CASE i \notin Ids(s)
      <4>1. offer'[i] = offer[i] /\ offer[i].request \in Requests
        BY <2>1, <3>2, CommitEffect DEF IInv, TypeOK, Offer
      <4>2. request[offer[i].request] \notin {"none", "open"}
        BY <2>1, <4>1 DEF IInv, BoardOK
      <4> QED BY <4>1, <4>2, CommitEffect
    <3> QED BY <3>1, <3>2
  <2>2. ASSUME NEW q \in Requests, request'[q] \in {"offered", "closed"} PROVE Rows(q)' # {}
    <3>1. CASE request'[q] = request[q]
      <4>1. PICK i \in Rows(q) : TRUE
        BY <2>2, <3>1 DEF IInv, BoardOK
      <4>2. i \in Rows(q)'
        BY <4>1, CommitEffect DEF Rows
      <4> QED BY <4>2
    <3>2. CASE request'[q] # request[q]
      <4>1. q = job[s].request /\ Outcome(s) \in {"offered", "closed"}
        BY <2>2, <3>2, CommitEffect
      <4>2. job[s].kind \in {"submit", "accept"}
        BY <4>1, CommitEffect DEF Outcome, JobOK, Job
      <4>3. PICK i \in Ids(s) : TRUE
        BY <4>2, CommitEffect DEF WritesOK
      <4>4. i \in OfferIds /\ offer'[i] # None /\ offer'[i].request = q
        BY <4>1, <4>3, CommitEffect, NoneIsNoRow DEF RowOK
      <4> QED BY <4>4 DEF Rows
    <3> QED BY <3>1, <3>2
  <2> QED BY <2>1, <2>2 DEF BoardOK
<1>8. \A i \in Ids(s) : offer'[i].status = "submitted" =>
        /\ Offering(s) /\ Ids(s) = {i}
        /\ offer'[i].request = job[s].request /\ offer'[i].seller = job[s].seller
  <2> SUFFICES ASSUME NEW i \in Ids(s), offer'[i].status = "submitted"
               PROVE  /\ Offering(s) /\ Ids(s) = {i}
                      /\ offer'[i].request = job[s].request /\ offer'[i].seller = job[s].seller
    OBVIOUS
  <2>1. RowOK(s, i) /\ offer'[i] = writes[s].offers[i] /\ job[s].kind \in {"submit", "accept", "reject", "close"}
    BY CommitEffect DEF JobOK, Job
  <2>2. job[s].kind = "submit"
    <3>1. job[s].kind # "close"
      BY CommitEffect DEF WritesOK
    <3> QED BY <2>1, <3>1 DEF RowOK
  <2>3. \E k \in OfferIds : Ids(s) = {k}
    BY <2>2, CommitEffect DEF WritesOK
  <2> QED BY <2>1, <2>2, <2>3, CommitEffect DEF RowOK, Offering, Busy
<1>9. SlotsApart'
  <2> SUFFICES ASSUME NEW t \in Sessions \ {s}, Offering(t), NEW k \in OfferIds \ Ids(t), SameSlot(t, offer[k])'
               PROVE  FALSE
    BY <1>2, <1>3 DEF SlotsApart, IInv, Offering
  <2>1. /\ offer'[k] # None /\ offer'[k].request = job[t].request
        /\ offer'[k].seller = job[t].seller /\ offer'[k].status = "submitted"
    BY <1>3 DEF SameSlot
  <2>2. ~SameSlot(t, offer[k])
    BY DEF IInv, SlotsApart
  <2>3. k \in Ids(s)
    BY <2>1, <2>2, CommitEffect DEF SameSlot
  <2>4. /\ Offering(s) /\ job[s].request = job[t].request /\ job[s].seller = job[t].seller
    BY <1>8, <2>1, <2>3
  <2> QED BY <2>4 DEF IInv, SlotsApart
<1>10. OneOpenOffer'
  <2> SUFFICES ASSUME NEW p \in Requests, NEW i \in RowsIn(p, "submitted")', NEW k \in RowsIn(p, "submitted")',
                      offer'[i].seller = offer'[k].seller, i # k
               PROVE  FALSE
    BY DEF OneOpenOffer
  <2>1. \A n \in {i, k} : /\ n \in OfferIds /\ offer'[n] # None /\ offer'[n].request = p
                          /\ offer'[n].status = "submitted"
    BY DEF RowsIn, Rows
  <2>2. ASSUME NEW m \in {i, k}, NEW n \in {i, k}, m # n, m \in Ids(s) PROVE FALSE
    <3>1. /\ Offering(s) /\ Ids(s) = {m} /\ job[s].request = p /\ job[s].seller = offer'[m].seller
      BY <1>8, <2>1, <2>2
    <3>2. n \notin Ids(s) /\ offer'[n] = offer[n] /\ n \in OfferIds
      BY <2>1, <2>2, <3>1, CommitEffect
    <3>3. SameSlot(s, offer[n])
      BY <2>1, <2>2, <3>1, <3>2 DEF SameSlot
    <3> QED BY <3>1, <3>2, <3>3 DEF IInv, SlotsApart
  <2>3. i \notin Ids(s) /\ k \notin Ids(s)
    BY <2>2
  <2>4. i \in RowsIn(p, "submitted") /\ k \in RowsIn(p, "submitted")
        /\ offer[i].seller = offer[k].seller
    BY <2>1, <2>3, CommitEffect DEF RowsIn, Rows
  <2> QED BY <2>4 DEF IInv, OneOpenOffer
<1> QED BY <1>1, <1>4, <1>5, <1>6, <1>7, <1>9, <1>10, CommitRoom DEF IInv

(***************************************************************************)
(* The theorems                                                             *)
(***************************************************************************)

\* A board without requests is in order.
LEMMA InvariantStarts == Init => IInv
<1> SUFFICES ASSUME Init PROVE IInv
  OBVIOUS
<1>1. TypeOK /\ \A s \in Sessions : pc[s] = "idle" /\ writes[s] = NoWrites /\ Ids(s) = {}
  BY WritesType DEF Init, TypeOK, Ids
<1>2. Used = {} /\ Submitting = {}
  BY <1>1 DEF Init, Used, Submitting, Busy
<1>3. Room
  <2>1. Cardinality(OfferIds) \in Nat
    BY DemandConstants, FS_CardinalityType
  <2> QED BY <1>2, <2>1, FS_EmptySet DEF Room
<1>4. BoardOK /\ OneOpenOffer
  BY DEF Init, BoardOK, OneOpenOffer, RowsIn, Rows
<1>5. LocksApart /\ SlotsApart /\ \A s \in Sessions : SessionOK(s)
  BY <1>1 DEF LocksApart, SlotsApart, Offering, SessionOK, WritesOK, Busy
<1> QED BY <1>1, <1>3, <1>4, <1>5 DEF IInv

\* What changes neither an offer nor a session.
LEMMA OutsideKeeps ==
  ASSUME IInv, UNCHANGED <<offer, pc, job, writes>>, TypeOK',
         \A q \in Requests : request'[q] # request[q] => request[q] = "none" /\ request'[q] = "open"
  PROVE  IInv'
<1>1. ASSUME NEW s \in Sessions PROVE SessionOK(s)'
  <2>1. SessionOK(s)
    BY DEF IInv
  <2>2. ASSUME JobOK(s) PROVE JobOK(s)'
    <3>1. job[s].request \in Requests /\ request[job[s].request] # "none"
      BY <2>2 DEF JobOK, Job
    <3>2. request'[job[s].request] = request[job[s].request]
      BY <3>1
    <3> QED BY <2>2, <3>2 DEF JobOK
  <2> QED BY <2>1, <2>2 DEF SessionOK, WritesOK, RowOK, Outcome, Busy, Ids
<1>2. BoardOK'
  <2>1. ASSUME NEW i \in OfferIds, offer[i] # None
        PROVE  request'[offer[i].request] \notin {"none", "open"}
    BY <2>1 DEF IInv, TypeOK, BoardOK, Offer
  <2> QED BY <2>1 DEF IInv, BoardOK, Rows
<1>3. LocksApart' /\ SlotsApart' /\ OneOpenOffer' /\ Room'
  BY DEF IInv, LocksApart, SlotsApart, OneOpenOffer, Room, Offering, SameSlot, RowsIn, Rows, Used,
         Submitting, Busy, Ids
<1> QED BY <1>1, <1>2, <1>3 DEF IInv

\* The invariant is inductive.
LEMMA InvariantStep == IInv /\ [Next]_vars => IInv'
<1> SUFFICES ASSUME IInv, [Next]_vars PROVE IInv'
  OBVIOUS
<1>1. ASSUME NEW s \in Sessions, View(s) \/ Statement(s) \/ Abort(s) \/ BreakDeadlock(s) PROVE IInv'
  BY <1>1, BeginKeeps, FindKeeps, WriteKeeps, RequestKeeps, RejectKeeps, CommitKeeps, EndKeeps
     DEF Statement, OfferConflicts, Abort, BreakDeadlock
<1>2. ASSUME NEW p \in Requests, CreateRequest(p) PROVE IInv'
  BY <1>2, OutsideKeeps DEF CreateRequest, IInv, TypeOK
<1>3. ASSUME NEW b \in Businesses, Suspend(b) \/ Reinstate(b) PROVE IInv'
  BY <1>3, OutsideKeeps, DemandConstants DEF Suspend, Reinstate, IInv, TypeOK
<1>4. CASE UNCHANGED vars
  BY <1>4, OutsideKeeps DEF vars, IInv, TypeOK
<1> QED BY <1>1, <1>2, <1>3, <1>4 DEF Next

\* The inductive invariant, type correctness included, for any businesses, requests
\* and overlapping sessions.
THEOREM DemandInvariant == Spec => []IInv
  BY InvariantStarts, InvariantStep, PTL DEF Spec

\* A seller has at most one open offer on a request, whatever overlaps.
THEOREM OffersAreSingle == Spec => []OneOpenOffer
<1>1. IInv => OneOpenOffer
  BY DEF IInv
<1> QED BY <1>1, DemandInvariant, PTL

\* The status of a request follows its offers.
THEOREM StatusIsOfOffers == Spec => []StatusFollowsOffers
<1>1. IInv => StatusFollowsOffers
  BY DEF IInv, BoardOK, StatusFollowsOffers, Rows
<1> QED BY <1>1, DemandInvariant, PTL

\* Only a commit changes an offer, and only a commit or a new request a status.
LEMMA OnlyCommits ==
  ASSUME [Next]_vars
  PROVE  \/ UNCHANGED <<offer, request>>
         \/ offer' = offer /\ \E p \in Requests : CreateRequest(p)
         \/ UNCHANGED <<raced, active>> /\ \E s \in Sessions : Commit(s)
<1>1. ASSUME NEW s \in Sessions, View(s) PROVE UNCHANGED <<offer, request>>
  BY <1>1 DEF View, BeginSubmit, BeginDecide, BeginClose, Begin
<1>2. ASSUME NEW s \in Sessions, Statement(s), ~Commit(s) PROVE UNCHANGED <<offer, request>>
  BY <1>2 DEF Statement, FindOwnOffer, WriteOffer, OfferConflicts, WriteRequest, RejectOthers, Goto
<1>3. ASSUME NEW s \in Sessions, Abort(s) \/ BreakDeadlock(s) PROVE UNCHANGED <<offer, request>>
  BY <1>3 DEF Abort, BreakDeadlock
<1>4. ASSUME NEW s \in Sessions, Commit(s) PROVE UNCHANGED <<raced, active>>
  BY <1>4 DEF Commit, End
<1>5. ASSUME NEW p \in Requests, CreateRequest(p) PROVE offer' = offer
  BY <1>5 DEF CreateRequest
<1>6. ASSUME NEW b \in Businesses, Suspend(b) \/ Reinstate(b) PROVE UNCHANGED <<offer, request>>
  BY <1>6 DEF Suspend, Reinstate
<1> QED BY <1>1, <1>2, <1>3, <1>4, <1>5, <1>6 DEF Next, vars

\* An offer is accepted in the step that closes its request.
THEOREM AcceptancesAreWhole == Spec => AcceptanceIsWhole
<1>1. ASSUME IInv, [Next]_vars, NEW i \in Accepted' \ Accepted
      PROVE  request'[offer'[i].request] = "closed"
  <2>1. PICK s \in Sessions : Commit(s)
    <3>1. offer' # offer
      BY <1>1 DEF Accepted
    <3> QED BY <1>1, <3>1, OnlyCommits
  <2>2. i \in OfferIds /\ offer'[i] # offer[i] /\ offer'[i].status = "accepted"
    BY <1>1 DEF Accepted
  <2>3. i \in Ids(s) /\ RowOK(s, i) /\ writes[s].offers[i].status = "accepted" /\ offer'[i] = writes[s].offers[i]
    BY <1>1, <2>1, <2>2, CommitEffect
  <2>4. job[s].kind = "accept"
    BY <1>1, <2>1, <2>3, CommitEffect DEF RowOK, WritesOK, JobOK, Job
  <2>5. writes[s].request = "closed" /\ job[s].request \in Requests
    BY <1>1, <2>1, <2>4, CommitEffect DEF WritesOK, Outcome, JobOK, Job
  <2>6. request'[job[s].request] = "closed"
    BY <1>1, <2>1, <2>5 DEF Commit, IInv, TypeOK
  <2> QED BY <2>3, <2>6 DEF RowOK
<1>2. IInv /\ [Next]_vars => [\A i \in Accepted' \ Accepted : request'[offer'[i].request] = "closed"]_vars
  BY <1>1
<1> QED BY <1>2, DemandInvariant, PTL DEF Spec, AcceptanceIsWhole

(***************************************************************************)
(* Requests whose sessions never overlapped                                 *)
(***************************************************************************)

\* The only session on its request: what it has read is what there is.
Lone(s) ==
  LET j == job[s]
  IN /\ \A t \in Sessions : Busy(t) /\ job[t].request = j.request => t = s
     /\ j.kind = "submit" => request[j.request] \in {"open", "offered"}
     /\ j.offer # None => offer[j.offer].status = "submitted"
     /\ \A i \in Ids(s) : offer[i] # None => offer[i].status = "submitted"
     /\ j.kind = "accept" /\ pc[s] = "done" => RowsIn(j.request, "submitted") \subseteq Ids(s)

\* A winner is alone and the request is over.
Won(p) ==
  RowsIn(p, "accepted") # {} =>
    /\ \E i \in OfferIds : RowsIn(p, "accepted") = {i}
    /\ RowsIn(p, "submitted") = {} /\ request[p] \in {"closed", "cancelled"}

Quiet ==
  /\ \A p \in Requests : raced[p] \/ Won(p)
  /\ \A s \in Sessions : Busy(s) => raced[job[s].request] \/ Lone(s)

\* What a statement before the commit does: it keeps to its request and to offers
\* it has found open or was asked to decide.
LEMMA StatementEffect ==
  ASSUME IInv, NEW s \in Sessions,
         FindOwnOffer(s) \/ WriteOffer(s) \/ WriteRequest(s) \/ RejectOthers(s)
  PROVE  /\ Frame(s) /\ Busy(s) /\ UNCHANGED <<offer, request, active, raced>>
         /\ job'[s].request = job[s].request /\ job'[s].kind = job[s].kind
         /\ job'[s].offer = job[s].offer \/ offer[job'[s].offer].status = "submitted"
         /\ job[s].kind # "submit" => job'[s].offer = job[s].offer
         /\ \A i \in Ids(s)' : \/ i \in Ids(s) \/ offer[i] = None \/ i = job[s].offer
                               \/ offer[i].status = "submitted"
         /\ job[s].kind = "accept" /\ pc'[s] = "done" =>
              RowsIn(job[s].request, "submitted") \subseteq Ids(s)'
<1>1. Frame(s) /\ Busy(s) /\ UNCHANGED <<offer, request, active, raced>>
  BY DEF FindOwnOffer, WriteOffer, WriteRequest, RejectOthers, Goto, Frame, IInv, TypeOK, Busy
<1>2. JobOK(s) /\ WritesOK(s) /\ job[s] \in Job /\ writes[s] \in Writes
  BY <1>1 DEF IInv, TypeOK, SessionOK, JobOK
<1>3. CASE FindOwnOffer(s)
  <2> DEFINE own == {i \in OfferIds : SameSlot(s, offer[i])}
  <2>1. PICK found : /\ found = IF own = {} THEN None ELSE CHOOSE i \in own : TRUE
                     /\ job'[s] = [job[s] EXCEPT !.offer = found]
    BY <1>3 DEF FindOwnOffer, IInv, TypeOK
  <2>2. found = None \/ found \in own
    BY <2>1
  <2>3. job[s].offer = None /\ job[s].kind = "submit"
    BY <1>2, <1>3 DEF FindOwnOffer, Goto, JobOK
  <2>4. Ids(s)' = Ids(s)
    BY <1>3 DEF FindOwnOffer, Ids
  <2>5. /\ job'[s].request = job[s].request /\ job'[s].kind = job[s].kind
        /\ job'[s].offer = found
    BY <1>2, <2>1 DEF Job
  <2> QED BY <1>1, <2>2, <2>3, <2>4, <2>5 DEF SameSlot
<1>4. CASE WriteOffer(s)
  <2>1. PICK id : id = WrittenId(s)
    OBVIOUS
  <2>2. Ids(s)' = {id}
    <3>1. writes'[s] = [writes[s] EXCEPT !.offers = Written(s)]
      BY <1>4 DEF WriteOffer, IInv, TypeOK
    <3>2. writes'[s].offers = Written(s)
      BY <1>2, <3>1 DEF Writes
    <3> QED BY <2>1, <3>2 DEF Written, Ids
  <2>3. job' = job /\ pc[s] = "offer" /\ (job[s].kind = "accept" => pc'[s] = "request")
    BY <1>4 DEF WriteOffer, Goto, IInv, TypeOK
  <2>4. id = job[s].offer \/ offer[id] = None
    <3>1. job[s].offer = None => job[s].kind = "submit"
      BY <1>2, <2>3, DemandConstants DEF JobOK, Job
    <3> QED BY <2>1, <2>3, <3>1, FreeId DEF WrittenId
  <2> QED BY <1>1, <2>2, <2>3, <2>4
<1>5. CASE WriteRequest(s)
  <2>1. writes'[s].offers = writes[s].offers
    <3>1. \E status : writes'[s] = [writes[s] EXCEPT !.request = status]
      BY <1>5 DEF WriteRequest, IInv, TypeOK
    <3> QED BY <1>2, <3>1 DEF Writes
  <2>2. job' = job /\ (job[s].kind = "accept" => pc'[s] = "others")
    BY <1>5 DEF WriteRequest, Goto, IInv, TypeOK
  <2> QED BY <1>1, <2>1, <2>2 DEF Ids
<1>6. CASE RejectOthers(s)
  <2>1. PICK others : others = RowsIn(job[s].request, "submitted") \ {job[s].offer}
    OBVIOUS
  <2>2. job' = job /\ pc[s] = "others"
    BY <1>6 DEF RejectOthers, Goto
  <2>3. Ids(s)' = Ids(s) \cup others
    <3>1. PICK mine, new : /\ mine = writes[s].offers
                           /\ new = [i \in DOMAIN mine \cup others |->
                                       IF i \in DOMAIN mine THEN mine[i]
                                       ELSE [offer[i] EXCEPT !.status = "rejected"]]
      OBVIOUS
    <3>2. writes'[s] = [writes[s] EXCEPT !.offers = new]
      BY <1>6, <2>1, <3>1 DEF RejectOthers, IInv, TypeOK
    <3> QED BY <1>2, <3>1, <3>2 DEF Writes, Ids
  <2>4. job[s].kind = "accept" /\ job[s].offer \in Ids(s)
    BY <1>2, <2>2 DEF JobOK, WritesOK
  <2>5. \A i \in others : offer[i].status = "submitted"
    BY <2>1 DEF RowsIn
  <2> QED BY <1>1, <2>1, <2>2, <2>3, <2>4, <2>5
<1> QED BY <1>3, <1>4, <1>5, <1>6

\* A session that takes no part keeps its request, unless the request is marked.
LEMMA OthersLone ==
  ASSUME IInv, Quiet, NEW t \in Sessions, Busy(t), ~raced[job[t].request],
         pc'[t] = pc[t], job'[t] = job[t], writes'[t] = writes[t],
         request'[job[t].request] = request[job[t].request],
         \A i \in OfferIds : \/ offer'[i] = offer[i]
                             \/ /\ offer'[i] # None /\ offer'[i].request # job[t].request
                                /\ offer[i] # None => offer[i].request # job[t].request
                                /\ i \notin Ids(t),
         \A u \in Sessions : Busy(u)' /\ job'[u].request = job[t].request => u = t
  PROVE  Lone(t)'
<1>1. Lone(t) /\ JobOK(t) /\ job[t] \in Job
  BY DEF Quiet, IInv, SessionOK, JobOK
<1>2. job[t].offer # None => offer'[job[t].offer] = offer[job[t].offer]
  BY <1>1 DEF JobOK, Job
<1>3. RowsIn(job[t].request, "submitted")' \subseteq RowsIn(job[t].request, "submitted")
  BY DEF RowsIn, Rows
<1>4. Ids(t) \subseteq OfferIds /\ Ids(t)' = Ids(t)
  BY WritesType DEF IInv, TypeOK, Ids
<1>5. \A i \in Ids(t) : offer'[i] = offer[i]
  BY <1>4
<1> QED BY <1>1, <1>2, <1>3, <1>4, <1>5 DEF Lone

\* Requests stay in order while no row changes.
LEMMA WonKept ==
  ASSUME NEW p \in Requests, Won(p), offer' = offer,
         \/ request'[p] = request[p]
         \/ request'[p] \in {"closed", "cancelled"}
         \/ \A i \in OfferIds : offer[i] # None => offer[i].request # p
  PROVE  Won(p)'
<1>1. \A status : RowsIn(p, status)' = RowsIn(p, status)
  BY DEF RowsIn, Rows
<1>2. (\A i \in OfferIds : offer[i] # None => offer[i].request # p) => RowsIn(p, "accepted") = {}
  BY DEF RowsIn, Rows
<1> QED BY <1>1, <1>2 DEF Won

\* A request that begins, or goes on.
LEMMA SessionQuiet ==
  ASSUME IInv, Quiet, NEW s \in Sessions, Frame(s), UNCHANGED <<offer, request>>,
         \A p \in Requests : raced[p] => raced'[p],
         Busy(s)' => /\ job'[s].request \in Requests
                     /\ raced'[job'[s].request] \/ Lone(s)'
                     /\ \A t \in Sessions \ {s} :
                          Busy(t) /\ job[t].request = job'[s].request => raced'[job[t].request]
  PROVE  Quiet'
<1>1. ASSUME NEW p \in Requests, ~raced'[p] PROVE Won(p)'
  BY <1>1, WonKept DEF Quiet
<1>2. ASSUME NEW t \in Sessions, t # s, Busy(t)' PROVE raced'[job'[t].request] \/ Lone(t)'
  <2>1. Busy(t) /\ pc'[t] = pc[t] /\ job'[t] = job[t] /\ writes'[t] = writes[t]
    BY <1>2 DEF Frame, Busy
  <2>2. job[t].request \in Requests
    BY <2>1 DEF IInv, SessionOK, JobOK, Job
  <2>3. SUFFICES ASSUME ~raced'[job[t].request] PROVE Lone(t)'
    BY <2>1
  <2>4. ~raced[job[t].request] /\ Lone(t)
    BY <2>1, <2>2, <2>3 DEF Quiet
  <2>5. \A u \in Sessions : Busy(u)' /\ job'[u].request = job[t].request => u = t
    BY <1>2, <2>1, <2>3, <2>4 DEF Frame, Busy, Lone
  <2> QED BY <2>1, <2>4, <2>5, OthersLone
<1>3. Busy(s)' => raced'[job'[s].request] \/ Lone(s)'
  OBVIOUS
<1> QED BY <1>1, <1>2, <1>3 DEF Quiet

\* A request that begins.
LEMMA BeginQuiet ==
  ASSUME IInv, Quiet, NEW s \in Sessions, View(s)
  PROVE  Quiet'
<1>1. Ids(s) = {} /\ ~Busy(s)
  BY WritesType DEF View, BeginSubmit, BeginDecide, BeginClose, Begin, IInv, SessionOK, WritesOK, Ids, Busy
<1>2. ASSUME NEW j \in Job, NEW to \in {"finding", "offer", "request"}, Begin(s, j, to),
             j.kind = "submit" => request[j.request] \in {"open", "offered"} /\ j.offer = None,
             j.offer # None => offer[j.offer].status = "submitted"
      PROVE  Quiet'
  <2>1. /\ Frame(s) /\ pc'[s] = to /\ job'[s] = j /\ UNCHANGED <<offer, request, writes>>
        /\ j.request \in Requests
    BY <1>2, BeginFrame DEF IInv, Begin, Job
  <2>2. /\ \A p \in Requests : raced[p] => raced'[p]
        /\ InFlight(j.request) # {} => raced'[j.request]
    BY <1>2, <2>1 DEF Begin, IInv, TypeOK
  <2>3. \A t \in Sessions : Busy(t) /\ job[t].request = j.request => raced'[j.request]
    BY <2>2 DEF InFlight, Busy
  <2>4. raced'[j.request] \/ Lone(s)'
    <3> SUFFICES ASSUME ~raced'[j.request] PROVE Lone(s)'
      OBVIOUS
    <3>1. \A t \in Sessions : Busy(t)' /\ job'[t].request = j.request => t = s
      BY <2>1, <2>3 DEF Frame, Busy
    <3>2. Ids(s)' = {}
      BY <1>1, <2>1 DEF Ids
    <3> QED BY <1>2, <2>1, <3>1, <3>2 DEF Lone
  <2> QED BY <2>1, <2>2, <2>3, <2>4, SessionQuiet
<1>3. ASSUME NEW p \in Requests, NEW b \in Businesses, BeginSubmit(s, p, b) PROVE Quiet'
  <2> DEFINE j == [kind |-> "submit", request |-> p, seller |-> b, offer |-> None,
                   sawOpen |-> request[p] = "open"]
  <2>1. /\ j \in Job /\ Begin(s, j, "finding") /\ request[p] \in {"open", "offered"}
        /\ j.kind = "submit" /\ j.offer = None /\ j.request = p
    BY <1>3 DEF BeginSubmit, Job
  <2> HIDE DEF j
  <2> QED BY <1>2, <2>1
<1>4. ASSUME NEW i \in OfferIds, NEW decision \in {"accept", "reject"}, BeginDecide(s, i, decision)
      PROVE  Quiet'
  <2> DEFINE j == [kind |-> decision, request |-> offer[i].request, seller |-> None,
                   offer |-> i, sawOpen |-> FALSE]
  <2>1. /\ offer[i] \in Offer /\ Begin(s, j, "offer") /\ offer[i].status = "submitted"
    BY <1>4 DEF BeginDecide, IInv, TypeOK
  <2>2. j \in Job /\ j.kind = decision /\ j.offer = i /\ j.request = offer[i].request
    BY <2>1 DEF Job, Offer
  <2> HIDE DEF j
  <2> QED BY <1>2, <2>1, <2>2
<1>5. ASSUME NEW p \in Requests, BeginClose(s, p) PROVE Quiet'
  <2> DEFINE j == [kind |-> "close", request |-> p, seller |-> None, offer |-> None,
                   sawOpen |-> FALSE]
  <2>1. j \in Job /\ Begin(s, j, "request") /\ j.kind = "close" /\ j.offer = None
    BY <1>5 DEF BeginClose, Job
  <2> HIDE DEF j
  <2> QED BY <1>2, <2>1
<1> QED BY <1>3, <1>4, <1>5 DEF View

\* A request that goes on, or fails.
LEMMA StatementQuiet ==
  ASSUME IInv, Quiet, NEW s \in Sessions,
         \/ FindOwnOffer(s) \/ WriteOffer(s) \/ WriteRequest(s) \/ RejectOthers(s)
         \/ End(s) /\ UNCHANGED <<offer, request>>
  PROVE  Quiet'
<1>1. CASE End(s) /\ UNCHANGED <<offer, request>>
  <2>1. Frame(s) /\ ~Busy(s)' /\ UNCHANGED <<active, raced>>
    BY <1>1, EndFrame DEF IInv, Busy, End
  <2> QED BY <1>1, <2>1, SessionQuiet
<1>2. CASE FindOwnOffer(s) \/ WriteOffer(s) \/ WriteRequest(s) \/ RejectOthers(s)
  <2>1. /\ Frame(s) /\ Busy(s) /\ UNCHANGED <<offer, request, active, raced>>
        /\ job'[s].request = job[s].request /\ job'[s].kind = job[s].kind
        /\ job'[s].offer = job[s].offer \/ offer[job'[s].offer].status = "submitted"
        /\ job[s].kind # "submit" => job'[s].offer = job[s].offer
        /\ \A i \in Ids(s)' : \/ i \in Ids(s) \/ offer[i] = None \/ i = job[s].offer
                              \/ offer[i].status = "submitted"
        /\ job[s].kind = "accept" /\ pc'[s] = "done" =>
             RowsIn(job[s].request, "submitted") \subseteq Ids(s)'
    BY <1>2, StatementEffect
  <2>2. JobOK(s) /\ job[s].request \in Requests
    BY <2>1 DEF IInv, SessionOK, JobOK, Job
  <2>3. ASSUME ~raced[job[s].request]
        PROVE  Lone(s)' /\ \A t \in Sessions \ {s} : ~(Busy(t) /\ job[t].request = job[s].request)
    <3>1. Lone(s)
      BY <2>1, <2>3 DEF Quiet
    <3>2. \A t \in Sessions \ {s} : ~(Busy(t) /\ job[t].request = job[s].request)
      BY <3>1 DEF Lone
    <3>3. \A t \in Sessions : Busy(t)' /\ job'[t].request = job[s].request => t = s
      BY <2>1, <3>2 DEF Frame, Busy
    <3>4. \A i \in Ids(s)' : offer[i] # None => offer[i].status = "submitted"
      <4> SUFFICES ASSUME NEW i \in Ids(s)', offer[i] # None PROVE offer[i].status = "submitted"
        OBVIOUS
      <4>1. CASE i = job[s].offer /\ i # None
        BY <3>1, <4>1 DEF Lone
      <4>2. CASE i = None
        <5>1. IInv'
          BY <1>2, FindKeeps, WriteKeeps, RequestKeeps, RejectKeeps
        <5>2. Ids(s)' \subseteq OfferIds
          BY <5>1, WritesType DEF IInv, TypeOK, Ids
        <5> QED BY <4>2, <5>2, DemandConstants
      <4> QED BY <2>1, <3>1, <4>1, <4>2 DEF Lone
    <3>5. RowsIn(job[s].request, "submitted")' = RowsIn(job[s].request, "submitted")
      BY <2>1 DEF RowsIn, Rows
    <3> QED BY <2>1, <3>1, <3>2, <3>3, <3>4, <3>5 DEF Lone
  <2> QED BY <2>1, <2>2, <2>3, SessionQuiet
<1> QED BY <1>1, <1>2

\* The request of a session that commits is settled, if the session was alone on it.
LEMMA CommitWon ==
  ASSUME IInv, Quiet, NEW s \in Sessions, Commit(s), NEW p, p = job[s].request, ~raced[p]
  PROVE  Won(p)'
<1>1. /\ Lone(s) /\ Won(p) /\ p \in Requests /\ JobOK(s) /\ WritesOK(s)
      /\ job[s].kind \in {"submit", "accept", "reject", "close"}
  BY CommitEffect DEF Quiet, JobOK, Job, Busy
<1>2. ASSUME job[s].kind # "close", NEW i \in OfferIds PROVE i \notin RowsIn(p, "accepted")
  <2>1. CASE job[s].kind = "submit"
    BY <1>1, <2>1 DEF Won, Lone
  <2>2. CASE job[s].kind \in {"accept", "reject"}
    <3>1. job[s].offer \in RowsIn(p, "submitted")
      BY <1>1, <2>2, DemandConstants DEF Lone, JobOK, RowsIn, Rows
    <3> QED BY <1>1, <3>1 DEF Won
  <2> QED BY <1>1, <1>2, <2>1, <2>2
<1>3. ASSUME NEW i \in OfferIds, i \notin Ids(s), NEW status
      PROVE  i \in RowsIn(p, status)' <=> i \in RowsIn(p, status)
  BY <1>3, CommitEffect DEF RowsIn, Rows
<1>4. CASE job[s].kind = "close"
  <2>1. \A status : RowsIn(p, status)' = RowsIn(p, status)
    BY <1>1, <1>3, <1>4, CommitEffect DEF WritesOK, RowsIn, Rows
  <2>2. request'[p] = "cancelled" \/ request'[p] = request[p]
    BY <1>1, <1>4, CommitEffect DEF Outcome
  <2> QED BY <1>1, <2>1, <2>2 DEF Won
<1>5. CASE job[s].kind \in {"submit", "reject"}
  <2>1. ASSUME NEW i \in OfferIds PROVE i \notin RowsIn(p, "accepted")'
    <3>1. CASE i \in Ids(s)
      <4>1. offer'[i].status # "accepted"
        BY <1>5, <3>1, CommitEffect DEF RowOK
      <4> QED BY <4>1 DEF RowsIn
    <3>2. CASE i \notin Ids(s)
      BY <1>2, <1>3, <1>5, <3>2
    <3> QED BY <3>1, <3>2
  <2>2. RowsIn(p, "accepted")' = {}
    BY <2>1 DEF RowsIn, Rows
  <2> QED BY <2>2 DEF Won
<1>6. CASE job[s].kind = "accept"
  <2>1. job[s].offer \in OfferIds /\ job[s].offer \in Ids(s)
    BY <1>1, <1>6, CommitEffect DEF WritesOK
  <2>2. ASSUME NEW i \in OfferIds
        PROVE  i \in RowsIn(p, "accepted")' <=> i = job[s].offer
    <3>1. CASE i \in Ids(s)
      <4>1. /\ offer'[i] # None /\ offer'[i].request = p
            /\ offer'[i].status = IF i = job[s].offer THEN "accepted" ELSE "rejected"
        BY <1>6, <3>1, CommitEffect, NoneIsNoRow DEF RowOK
      <4> QED BY <4>1 DEF RowsIn, Rows
    <3>2. CASE i \notin Ids(s)
      BY <1>2, <1>3, <1>6, <2>1, <3>2
    <3> QED BY <3>1, <3>2
  <2>3. RowsIn(p, "accepted")' = {job[s].offer}
    <3>1. RowsIn(p, "accepted")' \subseteq OfferIds
      BY DEF RowsIn, Rows
    <3> QED BY <2>1, <2>2, <3>1
  <2>4. ASSUME NEW i \in OfferIds PROVE i \notin RowsIn(p, "submitted")'
    <3>1. CASE i \in Ids(s)
      <4>1. offer'[i].status # "submitted"
        BY <1>6, <3>1, CommitEffect DEF RowOK
      <4> QED BY <4>1 DEF RowsIn
    <3>2. CASE i \notin Ids(s)
      BY <1>1, <1>3, <1>6, <3>2, CommitEffect DEF Lone
    <3> QED BY <3>1, <3>2
  <2>5. RowsIn(p, "submitted")' = {}
    BY <2>4 DEF RowsIn, Rows
  <2>6. request'[p] = "closed"
    <3>1. writes[s].request = "closed"
      BY <1>1, <1>6, CommitEffect DEF WritesOK, Outcome
    <3> QED BY <1>1, <3>1 DEF Commit, IInv, TypeOK
  <2>7. \E i \in OfferIds : RowsIn(p, "accepted")' = {i}
    BY <2>1, <2>3
  <2> QED BY <2>5, <2>6, <2>7 DEF Won
<1> QED BY <1>1, <1>4, <1>5, <1>6

\* A commit leaves the other requests alone.
LEMMA CommitQuiet ==
  ASSUME IInv, Quiet, NEW s \in Sessions, Commit(s)
  PROVE  Quiet'
<1>1. Frame(s) /\ ~Busy(s)' /\ UNCHANGED <<active, raced>>
  BY EndFrame DEF Commit, IInv, Busy, End
<1>2. job[s].request \in Requests /\ Busy(s)
  BY CommitEffect DEF JobOK, Job, Busy
<1>3. ASSUME NEW q \in Requests, ~raced[q], q # job[s].request PROVE Won(q)'
  <2>1. ASSUME NEW i \in OfferIds, NEW status
        PROVE  i \in RowsIn(q, status)' <=> i \in RowsIn(q, status)
    BY <1>3, CommitEffect DEF RowsIn, Rows, RowOK
  <2>2. \A status : RowsIn(q, status)' = RowsIn(q, status)
    BY <2>1 DEF RowsIn, Rows
  <2>3. request'[q] = request[q]
    BY <1>3, CommitEffect
  <2> QED BY <1>3, <2>2, <2>3 DEF Quiet, Won
<1>4. ASSUME NEW t \in Sessions, Busy(t)', ~raced[job'[t].request] PROVE Lone(t)'
  <2>1. t # s
    BY <1>1, <1>4
  <2>2. Busy(t) /\ pc'[t] = pc[t] /\ job'[t] = job[t] /\ writes'[t] = writes[t]
    BY <1>1, <1>4, <2>1 DEF Frame, Busy
  <2>3. Lone(t) /\ job[t].request # job[s].request /\ job[t].request \in Requests
    <3>1. Lone(t)
      BY <1>4, <2>2 DEF Quiet
    <3> QED BY <1>2, <2>1, <2>2, <3>1 DEF Lone, IInv, SessionOK, JobOK, Job
  <2>4. request'[job[t].request] = request[job[t].request]
    BY <2>3, CommitEffect
  <2>5. ASSUME NEW i \in OfferIds
        PROVE  \/ offer'[i] = offer[i]
               \/ /\ offer'[i] # None /\ offer'[i].request # job[t].request
                  /\ offer[i] # None => offer[i].request # job[t].request
                  /\ i \notin Ids(t)
    <3>1. CASE i \in Ids(s)
      BY <2>1, <2>3, <3>1, CommitEffect, NoneIsNoRow DEF RowOK, IInv, LocksApart
    <3>2. CASE i \notin Ids(s)
      BY <3>2, CommitEffect
    <3> QED BY <3>1, <3>2
  <2>6. \A u \in Sessions : Busy(u)' /\ job'[u].request = job[t].request => u = t
    BY <1>1, <2>3 DEF Frame, Busy, Lone
  <2> QED BY <1>1, <1>4, <2>2, <2>4, <2>5, <2>6, OthersLone
<1>5. ASSUME NEW q \in Requests, ~raced[q] PROVE Won(q)'
  BY <1>3, <1>5, CommitWon
<1> QED BY <1>1, <1>4, <1>5 DEF Quiet

\* What the administrators do, and a new request.
LEMMA OutsideQuiet ==
  ASSUME IInv, Quiet,
         \/ \E p \in Requests : CreateRequest(p)
         \/ \E b \in Businesses : Suspend(b) \/ Reinstate(b)
         \/ UNCHANGED vars
  PROVE  Quiet'
<1>1. UNCHANGED <<offer, pc, job, writes>>
  BY DEF CreateRequest, Suspend, Reinstate, vars
<1>2. ASSUME NEW q \in Requests, request'[q] # request[q]
      PROVE  request[q] = "none" /\ \A i \in OfferIds : offer[i] # None => offer[i].request # q
  <2>1. request[q] = "none"
    BY <1>2 DEF CreateRequest, Suspend, Reinstate, vars, IInv, TypeOK
  <2> QED BY <2>1 DEF IInv, BoardOK
<1>3. \A q \in Requests : raced[q] => raced'[q]
  BY DEF CreateRequest, Suspend, Reinstate, vars, IInv, TypeOK
<1>4. ASSUME NEW q \in Requests, ~raced'[q] PROVE Won(q)'
  BY <1>1, <1>2, <1>3, <1>4, WonKept DEF Quiet
<1>5. ASSUME NEW t \in Sessions, Busy(t)', ~raced'[job[t].request] PROVE Lone(t)'
  <2>1. Busy(t) /\ JobOK(t) /\ job[t].request \in Requests
    BY <1>1, <1>5 DEF Busy, IInv, SessionOK, JobOK, Job
  <2>2. Lone(t) /\ ~raced[job[t].request] /\ request'[job[t].request] = request[job[t].request]
    BY <1>2, <1>3, <1>5, <2>1 DEF Quiet, JobOK
  <2> QED BY <1>1, <2>1, <2>2, OthersLone DEF Lone, Busy
<1> QED BY <1>1, <1>4, <1>5 DEF Quiet, Busy

\* The invariant of the requests without overlaps is inductive.
LEMMA QuietStep == IInv /\ Quiet /\ [Next]_vars => Quiet'
  BY BeginQuiet, StatementQuiet, CommitQuiet, OutsideQuiet
     DEF Next, Statement, OfferConflicts, Abort, BreakDeadlock

\* Nothing overlaps at the start.
LEMMA QuietStarts == Init => Quiet
  BY DEF Init, Quiet, Won, RowsIn, Rows, Busy

\* The invariant of the requests on which no two sessions overlapped.
THEOREM QuietInvariant == Spec => [](IInv /\ Quiet)
<1>1. IInv /\ Quiet /\ [Next]_vars => (IInv /\ Quiet)'
  BY InvariantStep, QuietStep
<1> QED BY <1>1, InvariantStarts, QuietStarts, PTL DEF Spec

\* The winner of a request is alone and the request over, unless two sessions on it
\* overlapped, for any businesses, requests and sessions.
THEOREM WinnersAreAlone == Spec => []SettledUnlessRaced
<1>1. Quiet => SettledUnlessRaced
  <2>1. \A i : Cardinality({i}) = 1
    BY FS_Singleton
  <2> QED BY <2>1 DEF Quiet, Won, SettledUnlessRaced, Settled
<1> QED BY <1>1, QuietInvariant, PTL

\* A decision is final and a request that is over stays so, unless two sessions on
\* it overlapped.
THEOREM DecisionsAreFinal == Spec => DecisionsStand
<1> DEFINE Over(q) == request[q] \in {"closed", "cancelled"}
           Kept(i) == offer[i] # None /\ offer[i].status # "submitted" /\ ~raced'[offer[i].request]
                        => offer'[i] = offer[i]
           Stays(q) == Over(q) /\ ~raced'[q] => request'[q] \in {"closed", "cancelled"}
<1>1. ASSUME IInv, Quiet, [Next]_vars
      PROVE  (\A i \in OfferIds : Kept(i)) /\ (\A q \in Requests : Stays(q))
  <2>1. CASE UNCHANGED <<offer, request>>
    BY <2>1
  <2>2. ASSUME offer' = offer, NEW p \in Requests, CreateRequest(p)
        PROVE  (\A i \in OfferIds : Kept(i)) /\ (\A q \in Requests : Stays(q))
    BY <1>1, <2>2 DEF CreateRequest, IInv, TypeOK
  <2>3. ASSUME NEW s \in Sessions, Commit(s), raced' = raced
        PROVE  (\A i \in OfferIds : Kept(i)) /\ (\A q \in Requests : Stays(q))
    <3>1. Busy(s) /\ job[s].request \in Requests
          /\ job[s].kind \in {"submit", "accept", "reject", "close"}
      BY <1>1, <2>3, CommitEffect DEF Busy, JobOK, Job
    <3>2. raced[job[s].request] \/ Lone(s)
      BY <1>1, <3>1 DEF Quiet
    <3>3. ASSUME NEW i \in OfferIds PROVE Kept(i)
      <4>1. CASE i \in Ids(s)
        <5>1. offer[i] # None => offer[i].request = job[s].request
          BY <1>1, <2>3, <4>1, CommitEffect DEF RowOK
        <5> QED BY <2>3, <3>2, <4>1, <5>1 DEF Lone
      <4>2. CASE i \notin Ids(s)
        BY <1>1, <2>3, <4>2, CommitEffect
      <4> QED BY <4>1, <4>2
    <3>4. ASSUME NEW q \in Requests PROVE Stays(q)
      <4>1. CASE request'[q] = request[q]
        BY <4>1
      <4>2. CASE request'[q] # request[q]
        <5>1. q = job[s].request /\ request'[q] = Outcome(s)
          BY <1>1, <2>3, <4>2, CommitEffect
        <5>2. Outcome(s) \in {"closed", "cancelled"} \/ job[s].kind = "submit" \/ Outcome(s) = "none"
          BY <3>1 DEF Outcome
        <5>3. Outcome(s) # "none"
          BY <1>1, <2>3, <4>2, <5>1, CommitEffect
        <5> QED BY <2>3, <3>2, <5>1, <5>2, <5>3 DEF Lone
      <4> QED BY <4>1, <4>2
    <3> QED BY <3>3, <3>4
  <2> QED BY <1>1, <2>1, <2>2, <2>3, OnlyCommits
<1>2. IInv /\ Quiet /\ [Next]_vars
      => [/\ \A i \in OfferIds :
               offer[i] # None /\ offer[i].status # "submitted" /\ ~raced'[offer[i].request]
                 => offer'[i] = offer[i]
          /\ \A p \in Requests :
               request[p] \in {"closed", "cancelled"} /\ ~raced'[p]
                 => request'[p] \in {"closed", "cancelled"}]_vars
  BY <1>1
<1> QED BY <1>2, QuietInvariant, PTL DEF Spec, DecisionsStand

\* A decided offer is touched again only by a session whose own offer it is, for any
\* businesses, requests and overlapping sessions.
THEOREM DecisionsOfOthersStand == Spec => OthersDecisionsStand
<1>1. ASSUME IInv, [Next]_vars, NEW i \in OfferIds,
             offer[i] # None, offer[i].status # "submitted", offer'[i] # offer[i]
      PROVE  \E s \in Sessions : pc[s] = "done" /\ pc'[s] = "idle" /\ job[s].offer = i
  <2>1. PICK s \in Sessions : Commit(s)
    BY <1>1, OnlyCommits
  <2>2. /\ i \in Ids(s) /\ RowOK(s, i) /\ JobOK(s) /\ WritesOK(s) /\ pc[s] = "done"
    BY <1>1, <2>1, CommitEffect
  <2>3. pc'[s] = "idle"
    BY <1>1, <2>1 DEF Commit, End, IInv, TypeOK
  <2>4. job[s].kind \in {"submit", "accept", "reject"}
    BY <2>2 DEF WritesOK, JobOK, Job
  <2>5. job[s].offer = i
    BY <1>1, <2>2, <2>4 DEF RowOK
  <2> QED BY <2>2, <2>3, <2>5
<1>2. IInv /\ [Next]_vars
      => [\A i \in OfferIds :
            offer[i] # None /\ offer[i].status # "submitted" /\ offer'[i] # offer[i]
              => \E s \in Sessions : pc[s] = "done" /\ pc'[s] = "idle" /\ job[s].offer = i]_vars
  BY <1>1
<1> QED BY <1>2, DemandInvariant, PTL DEF Spec, OthersDecisionsStand
===============================================================================
