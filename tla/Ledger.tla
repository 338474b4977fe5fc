-------------------------------- MODULE Ledger --------------------------------
(***************************************************************************)
(* The accounting services as the database runs them: each request is a     *)
(* transaction of several statements, interleaved with those of the other   *)
(* requests at READ COMMITTED. A session is one request handler (a thread   *)
(* of a web worker) acting for one membership; two clicks on the same       *)
(* button are two sessions.                                                 *)
(*                                                                          *)
(* A session sees committed rows only, and its own. What it has written and *)
(* not committed is a function of its request and of the balance it read    *)
(* (NewRow), so it needs no variable: pc says how far the writes have got.  *)
(*                                                                          *)
(* Operators marked FAULTY are plausible bugs, no part of any action: each  *)
(* stands in for the definition after it to show that a property can fail.  *)
(***************************************************************************)
EXTENDS LedgerRows, FiniteSets

CONSTANTS Sessions,    \* request handlers
          Works,       \* Works[s]: membership.business
          Managers,    \* sessions whose membership has ledger.manage
          NoSession,   \* the lock of a contact nobody holds
          NoRequest,   \* the request of an idle session
          Types,       \* entry types the requests choose from
          MaxEntries   \* bound: rows of each contact, those being written included

Request == [kind    : {"post", "trade", "reverse"},
            contact : Contacts,
            type    : PostTypes,
            amount  : Int,
            day     : Int,
            offer   : Offers \cup {NoOffer},
            target  : Nat]    \* row to reverse; 0 otherwise

ASSUME SessionConstants ==
  /\ Works \in [Sessions -> Businesses]
  /\ Managers \subseteq Sessions
  /\ NoSession \notin Sessions
  /\ NoRequest \notin Request
  /\ Types \subseteq PostTypes
  /\ MaxEntries \in [Contacts -> Nat]

VARIABLES book,    \* committed rows, as in LedgerBook
          lock,    \* lock[c]: the session holding the row lock of contact c
          pc,      \* the statement each session is about to run
          req,     \* what each session was asked to do
          seen,    \* the balance each session has read
          answer   \* the offer whose trade a session was last told is on the books

vars == <<book, lock, pc, req, seen, answer>>

TypeOK ==
  /\ book \in [Contacts -> Seq(Entry)]
  /\ lock \in [Contacts -> Sessions \cup {NoSession}]
  /\ pc \in [Sessions -> {"idle", "locking", "checking", "reading",
                          "writing", "stamped", "inserted"}]
  /\ req \in [Sessions -> Request \cup {NoRequest}]
  /\ seen \in [Sessions -> Int]
  /\ answer \in [Sessions -> Offers \cup {NoOffer}]

Init ==
  /\ book = [c \in Contacts |-> <<>>]
  /\ lock = [c \in Contacts |-> NoSession]
  /\ pc = [s \in Sessions |-> "idle"]
  /\ req = [s \in Sessions |-> NoRequest]
  /\ seen = [s \in Sessions |-> 0]
  /\ answer = [s \in Sessions |-> NoOffer]

-----------------------------------------------------------------------------
(* Helpers *)

\* s runs its statement `from` and moves on to `to`.
Goto(s, from, to) ==
  /\ pc[s] = from
  /\ pc' = [pc EXCEPT ![s] = to]

\* Bound on the rows of a contact, counting the requests on their way.
HasRoom(c) ==
  Len(book[c]) + Cardinality({s \in Sessions : pc[s] # "idle" /\ req[s].contact = c})
    < MaxEntries[c]

\* FAULTY: a transaction left open keeps its row lock.
FaultyEnd(s, reply) ==
  /\ pc' = [pc EXCEPT ![s] = "idle"]
  /\ req' = [req EXCEPT ![s] = NoRequest]
  /\ seen' = [seen EXCEPT ![s] = 0]
  /\ answer' = [answer EXCEPT ![s] = reply]
  /\ UNCHANGED lock

\* The transaction of s is over: its lock is released and its caller answered,
\* with the offer whose trade it is told is on the books, if any.
End(s, reply) ==
  /\ pc' = [pc EXCEPT ![s] = "idle"]
  /\ req' = [req EXCEPT ![s] = NoRequest]
  /\ seen' = [seen EXCEPT ![s] = 0]
  /\ answer' = [answer EXCEPT ![s] = reply]
  /\ lock' = [c \in Contacts |-> IF lock[c] = s THEN NoSession ELSE lock[c]]

\* The request arrives; its handler has passed its checks.
Begin(s, request) ==
  /\ Goto(s, "idle", "locking")
  /\ s \in Managers
  /\ Owner[request.contact] = Works[s]
  /\ HasRoom(request.contact)
  /\ req' = [req EXCEPT ![s] = request]
  /\ answer' = [answer EXCEPT ![s] = NoOffer]
  /\ UNCHANGED <<book, lock, seen>>

\* The row s is about to insert, or has inserted and not committed.
NewRow(s) ==
  LET r == req[s] IN
  IF r.kind = "reverse"
  THEN ReversalRow(seen[s], book[r.contact], r.target, r.day)
  ELSE PostedRow(seen[s], r.type, r.amount, r.offer, r.day)

\* The log of the contact of s once s commits.
NewLog(s) ==
  LET r == req[s] IN
  IF r.kind = "reverse"
  THEN WithReversal(book[r.contact], r.target, NewRow(s))
  ELSE Append(book[r.contact], NewRow(s))

IsOfferTrade(r) == r.kind = "trade" /\ r.offer # NoOffer

-----------------------------------------------------------------------------
(* Requests *)

\* add_entry: any type, on any contact of the business.
BeginPost(s, c, type, amount, day) ==
  /\ amount > 0
  /\ Begin(s, [kind |-> "post", contact |-> c, type |-> type, amount |-> amount,
               day |-> day, offer |-> NoOffer, target |-> 0])

\* record_trade: the view looks for an earlier trade of the offer first, in a
\* statement of its own and under no lock, and answers with what it finds.
AnswerRecorded(s, o) ==
  /\ pc[s] = "idle"
  /\ s \in Managers
  /\ Works[s] \in Parties[o]
  /\ TradeRecorded(book, Works[s], o)
  /\ answer' = [answer EXCEPT ![s] = o]
  /\ UNCHANGED <<book, lock, pc, req, seen>>

\* It found none and takes the form; that may be stale once the lock is held.
BeginTrade(s, c, type, amount, day, o) ==
  /\ type \in TradeTypes
  /\ amount > 0
  /\ o # NoOffer => /\ Works[s] \in Parties[o]
                    /\ ~TradeRecorded(book, Works[s], o)
  /\ Begin(s, [kind |-> "trade", contact |-> c, type |-> type, amount |-> amount,
               day |-> day, offer |-> o, target |-> 0])

\* reverse_view fetches the entry; whether it was reversed is asked later.
\* The type and amount of the request are those of no row, and unused.
BeginReverse(s, c, k, day) ==
  /\ book[c][k].type # "reversal"
  /\ Begin(s, [kind |-> "reverse", contact |-> c, type |-> "sale", amount |-> 0,
               day |-> day, offer |-> NoOffer, target |-> k])

-----------------------------------------------------------------------------
(* Statements *)

\* FAULTY: get() without select_for_update().
FaultyLockContact(s) ==
  /\ Goto(s, "locking", IF req[s].kind = "post" THEN "reading" ELSE "checking")
  /\ lock' = [lock EXCEPT ![req[s].contact] = s]
  /\ UNCHANGED <<book, req, seen, answer>>

\* SELECT ... FOR UPDATE on the contact: waits for the session that holds it.
\* post_entry has nothing to check under the lock.
LockContact(s) ==
  LET c == req[s].contact IN
  /\ Goto(s, "locking", IF req[s].kind = "post" THEN "reading" ELSE "checking")
  /\ lock[c] = NoSession
  /\ lock' = [lock EXCEPT ![c] = s]
  /\ UNCHANGED <<book, req, seen, answer>>

\* trade_entry_for_offer found a live trade: LedgerDuplicateError.
FindDuplicate(s) ==
  /\ pc[s] = "checking"
  /\ IsOfferTrade(req[s])
  /\ TradeRecorded(book, Works[s], req[s].offer)
  /\ End(s, req[s].offer)
  /\ UNCHANGED book

\* filter(reverses=entry).exists(): the entry was reversed meanwhile.
FindReversal(s) ==
  /\ pc[s] = "checking"
  /\ req[s].kind = "reverse"
  /\ HasReversal(book[req[s].contact], req[s].target)
  /\ End(s, NoOffer)
  /\ UNCHANGED book

\* FAULTY: no look for a reversal under the lock.
FaultyFindNothing(s) ==
  /\ Goto(s, "checking", "reading")
  /\ IsOfferTrade(req[s]) => ~TradeRecorded(book, Works[s], req[s].offer)
  /\ UNCHANGED <<book, lock, req, seen, answer>>

FindNothing(s) ==
  /\ Goto(s, "checking", "reading")
  /\ IsOfferTrade(req[s]) => ~TradeRecorded(book, Works[s], req[s].offer)
  /\ req[s].kind = "reverse" => ~HasReversal(book[req[s].contact], req[s].target)
  /\ UNCHANGED <<book, lock, req, seen, answer>>

\* _last_balance.
ReadBalance(s) ==
  /\ Goto(s, "reading", "writing")
  /\ seen' = [seen EXCEPT ![s] = Balance(book[req[s].contact])]
  /\ UNCHANGED <<book, lock, req, answer>>

\* UPDATE ... SET reversed_at on the original, seen by nobody until the commit.
StampOriginal(s) ==
  /\ Goto(s, "writing", "stamped")
  /\ req[s].kind = "reverse"
  /\ UNCHANGED <<book, lock, req, seen, answer>>

\* FAULTY: the look for an earlier trade locks the offer FOR SHARE, and an insert
\* for it waits for all who share the lock.
FaultyContests(t, b, o) ==
  /\ Works[t] = b
  /\ pc[t] \in {"reading", "writing", "inserted"}
  /\ IsOfferTrade(req[t])
  /\ req[t].offer = o

\* The slot of offer o of business b is in the hands of t: it has inserted a
\* trade for it, or stamped the trade that occupies it, and not committed. A
\* unique index makes an insert wait for either to end.
Contests(t, b, o) ==
  /\ Works[t] = b
  /\ \/ /\ pc[t] = "inserted"
        /\ IsOfferTrade(req[t])
        /\ req[t].offer = o
     \/ /\ pc[t] \in {"stamped", "inserted"}
        /\ req[t].kind = "reverse"
        /\ IsLiveTrade(book[req[t].contact][req[t].target], o)

SlotContested(s, b, o) == \E t \in Sessions \ {s} : Contests(t, b, o)

\* The sessions whose end the next statement of s has to wait for.
WaitsFor(s) ==
  {t \in Sessions :
     \/ pc[s] = "locking" /\ lock[req[s].contact] = t
     \/ /\ pc[s] = "writing"
        /\ IsOfferTrade(req[s])
        /\ t # s
        /\ Contests(t, Works[s], req[s].offer)}

\* FAULTY: no unique constraint.
FaultyInsertEntry(s) ==
  /\ Goto(s, "writing", "inserted")
  /\ req[s].kind # "reverse"
  /\ UNCHANGED <<book, lock, req, seen, answer>>

\* INSERT of the entry, which the unique index lets through.
InsertEntry(s) ==
  /\ Goto(s, "writing", "inserted")
  /\ req[s].kind # "reverse"
  /\ IsOfferTrade(req[s]) => /\ ~SlotContested(s, Works[s], req[s].offer)
                             /\ ~TradeRecorded(book, Works[s], req[s].offer)
  /\ UNCHANGED <<book, lock, req, seen, answer>>

\* FAULTY: the INSERT is refused at once, by a trade that may yet be rolled back
\* or a stamp that may yet be committed.
FaultyInsertConflicts(s) ==
  /\ pc[s] = "writing"
  /\ IsOfferTrade(req[s])
  /\ \/ SlotContested(s, Works[s], req[s].offer)
     \/ TradeRecorded(book, Works[s], req[s].offer)
  /\ End(s, req[s].offer)
  /\ UNCHANGED book

\* INSERT refused by uniq_trade_entry_per_offer: IntegrityError, the savepoint
\* is rolled back and LedgerDuplicateError rolls back the rest.
InsertConflicts(s) ==
  /\ pc[s] = "writing"
  /\ IsOfferTrade(req[s])
  /\ ~SlotContested(s, Works[s], req[s].offer)
  /\ TradeRecorded(book, Works[s], req[s].offer)
  /\ End(s, req[s].offer)
  /\ UNCHANGED book

\* INSERT of the reversal: outside the condition of the index.
InsertReversal(s) ==
  /\ Goto(s, "stamped", "inserted")
  /\ UNCHANGED <<book, lock, req, seen, answer>>

\* COMMIT: stamp and rows become visible together, the lock is released and the
\* user of a trade is told that it is recorded.
Commit(s) ==
  /\ pc[s] = "inserted"
  /\ book' = [book EXCEPT ![req[s].contact] = NewLog(s)]
  /\ End(s, req[s].offer)

\* FAULTY: reverse_entry without @transaction.atomic keeps its stamp.
FaultyAbort(s) ==
  /\ pc[s] # "idle"
  /\ book' = IF pc[s] = "stamped"
             THEN [book EXCEPT ![req[s].contact][req[s].target].reversed = TRUE]
             ELSE book
  /\ End(s, NoOffer)

\* The worker dies, the connection is lost or a statement fails: ROLLBACK.
Abort(s) ==
  /\ pc[s] # "idle"
  /\ End(s, NoOffer)
  /\ UNCHANGED book

-----------------------------------------------------------------------------

Arrive(s) ==
  \E c \in Contacts, day \in Days :
    \/ \E type \in Types, amount \in Amounts : BeginPost(s, c, type, amount, day)
    \/ \E type \in Types, amount \in Amounts, o \in Offers \cup {NoOffer} :
         BeginTrade(s, c, type, amount, day, o)
    \/ \E k \in DOMAIN book[c] : BeginReverse(s, c, k, day)

Answer(s) == \E o \in Offers : AnswerRecorded(s, o)
Check(s)  == FindDuplicate(s) \/ FindReversal(s) \/ FindNothing(s)
Insert(s) == InsertEntry(s) \/ InsertConflicts(s)
Proceed(s) == ReadBalance(s) \/ StampOriginal(s) \/ InsertReversal(s) \/ Commit(s)

Next ==
  \E s \in Sessions :
    Answer(s) \/ Arrive(s) \/ LockContact(s) \/ Check(s) \/ Insert(s) \/ Proceed(s) \/ Abort(s)

Spec == Init /\ [][Next]_vars

\* A handler runs its next statement; PostgreSQL queues waiters for a row lock
\* and for a unique index entry, so a wait that can end again and again ends.
\* Nothing makes a request arrive or a worker die.
Fairness ==
  \A s \in Sessions :
    /\ WF_vars(Check(s) \/ Proceed(s))
    /\ SF_vars(LockContact(s))
    /\ SF_vars(Insert(s))

FairSpec == Spec /\ Fairness

-----------------------------------------------------------------------------
(* Properties *)

\* balance_after is the running balance: each row continues the one before it
\* (accounting.md section 3). Two unserialised postings would both continue
\* the same row.
Running(log) ==
  \A k \in DOMAIN log :
    log[k].after = (IF k = 1 THEN 0 ELSE log[k - 1].after) + log[k].delta

RunningBalance == \A c \in Contacts : Running(book[c])

\* An offer yields at most one live trade per business ledger, whichever
\* contacts the two postings chose (accounting.md section 5).
OneLiveTrade ==
  \A o \in Offers, c, d \in Contacts :
    Owner[c] = Owner[d] =>
      \A i \in DOMAIN book[c], j \in DOMAIN book[d] :
        IsLiveTrade(book[c][i], o) /\ IsLiveTrade(book[d][j], o)
          => c = d /\ i = j

\* A row is stamped exactly when its reversal is there to see, a reversal
\* negates an earlier row that is not a reversal, and no row is reversed twice.
Negates(log, j, k) ==
  /\ k \in 1..(j - 1)
  /\ log[k].type # "reversal"
  /\ log[j].delta = -log[k].delta
  /\ log[j].amount = log[k].amount

Paired(log) ==
  /\ \A k \in DOMAIN log : log[k].reversed <=> HasReversal(log, k)
  /\ \A j \in DOMAIN log : log[j].type = "reversal" <=> log[j].reverses # 0
  /\ \A j \in DOMAIN log : log[j].reverses # 0 => Negates(log, j, log[j].reverses)
  /\ \A i, j \in DOMAIN log :
       log[i].reverses # 0 /\ log[i].reverses = log[j].reverses => i = j

ReversalPaired == \A c \in Contacts : Paired(book[c])

\* A posted row is never edited, deleted or un-reversed; a log only grows.
Immutable(old, new) ==
  \A k \in DOMAIN old :
    /\ k \in DOMAIN new
    /\ new[k] \in {old[k], [old[k] EXCEPT !.reversed = TRUE]}

EntriesImmutable == [][\A c \in Contacts : Immutable(book[c], book'[c])]_book

\* Whoever was told that the trade of an offer is on the books, by its own commit,
\* by the view or by the index, may rely on it from then on, whatever the others
\* post, reverse or roll back: a trade row of the offer stands in a ledger of the
\* business, and if it is stamped its reversal stands beside it. No accepted trade
\* is dropped because of a row that later turns out not to be there.
OnTheBooks(b, o) ==
  \E c \in Contacts :
    /\ Owner[c] = b
    /\ \E k \in DOMAIN book[c] :
         /\ book[c][k].type \in TradeTypes
         /\ book[c][k].offer = o
         /\ book[c][k].reversed => HasReversal(book[c], k)

NoTradeDropped ==
  \A s \in Sessions : answer[s] # NoOffer => OnTheBooks(Works[s], answer[s])

\* Every step of the transactions is one step of the abstract book or none.
Abstract == INSTANCE LedgerBook WITH book <- book
ImplementsBook == Abstract!BookSpec

\* No two or more requests wait for each other, on row locks and on the unique index
\* taken together: PostgreSQL never has to cancel a posting to break a deadlock, whatever
\* contacts, offers and reversals meet.
NoCircularWait ==
  ~ \E D \in (SUBSET Sessions) \ {{}} : \A s \in D : WaitsFor(s) \cap D # {}

\* Row locks and index waits never tie two requests up for good.
EveryRequestEnds == \A s \in Sessions : pc[s] # "idle" ~> pc[s] = "idle"
===============================================================================
