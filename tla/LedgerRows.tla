------------------------------ MODULE LedgerRows ------------------------------
(***************************************************************************)
(* The rows of accounting.LedgerEntry and the arithmetic that produces      *)
(* them, shared by the abstract book (LedgerBook) and the transactional     *)
(* ledger (Ledger).                                                         *)
(*                                                                          *)
(* Money is counted in units of 0.01, the quantum of services._quantize.    *)
(* A contact belongs to one business, and every row of a contact is written *)
(* for that business, so (business, contact) is just the contact and its    *)
(* log is the sequence of its rows in posting order.                        *)
(***************************************************************************)
EXTENDS Integers, Sequences

CONSTANTS Businesses,  \* tenants
          Contacts,    \* private contacts, each of one business
          Owner,       \* Owner[c]: contact.business
          Offers,      \* accepted purchase offers
          Parties,     \* Parties[o]: the seller's and the buyer's business
          NoOffer,     \* related_offer IS NULL
          Amounts,     \* amounts a form may carry, in 0.01
          Days         \* business dates (occurred_on), as day numbers

ASSUME LedgerConstants ==
  /\ Owner \in [Contacts -> Businesses]
  /\ Parties \in [Offers -> SUBSET Businesses]
  /\ NoOffer \notin Offers
  /\ Amounts \subseteq Int
  /\ Days \subseteq Int

DebitTypes  == {"sale", "payment_made", "adjust_debit"}
CreditTypes == {"purchase", "payment_received", "adjust_credit"}
PostTypes   == DebitTypes \cup CreditTypes

\* The trade types of the partial unique index.
TradeTypes == {"sale", "purchase"}

Direction(type) == IF type \in DebitTypes THEN 1 ELSE -1

Entry == [type     : PostTypes \cup {"reversal"},
          amount   : Int,
          delta    : Int,
          after    : Int,
          offer    : Offers \cup {NoOffer},
          day      : Int,
          reverses : Nat,       \* position of the original; 0 when NULL
          reversed : BOOLEAN]   \* reversed_at IS NOT NULL

\* The balance a log ends with: balance_after of its last row.
Balance(log) == IF log = <<>> THEN 0 ELSE log[Len(log)].after

\* FAULTY: a blank form field stored where NULL belongs.
FaultyPostedRow(previous, type, amount, offer, day) ==
  [type     |-> type,
   amount   |-> amount,
   delta    |-> Direction(type) * amount,
   after    |-> previous + Direction(type) * amount,
   offer    |-> IF offer = NoOffer THEN "" ELSE offer,
   day      |-> day,
   reverses |-> 0,
   reversed |-> FALSE]

\* The row post_entry inserts on top of the balance it has read.
PostedRow(previous, type, amount, offer, day) ==
  [type     |-> type,
   amount   |-> amount,
   delta    |-> Direction(type) * amount,
   after    |-> previous + Direction(type) * amount,
   offer    |-> offer,
   day      |-> day,
   reverses |-> 0,
   reversed |-> FALSE]

\* The row reverse_entry inserts to negate row k of log.
ReversalRow(previous, log, k, day) ==
  [type     |-> "reversal",
   amount   |-> log[k].amount,
   delta    |-> -log[k].delta,
   after    |-> previous - log[k].delta,
   offer    |-> NoOffer,
   day      |-> day,
   reverses |-> k,
   reversed |-> FALSE]

HasReversal(log, k) == \E j \in DOMAIN log : log[j].reverses = k

\* FAULTY: the correction also zeroes the original.
FaultyWithReversal(log, k, row) ==
  Append([log EXCEPT ![k].reversed = TRUE, ![k].amount = 0], row)

\* FAULTY: the original is not stamped.
UnstampedReversal(log, k, row) == Append(log, row)

\* The log once row k has been stamped and its reversal appended.
WithReversal(log, k, row) ==
  Append([log EXCEPT ![k].reversed = TRUE], row)

\* A row that occupies the slot of offer o in the partial unique index.
IsLiveTrade(row, o) ==
  /\ row.type \in TradeTypes
  /\ row.offer = o
  /\ ~row.reversed

\* Some row of the books of business b occupies the slot of offer o.
TradeRecorded(books, b, o) ==
  \E c \in Contacts :
    /\ Owner[c] = b
    /\ \E k \in DOMAIN books[c] : IsLiveTrade(books[c][k], o)
===============================================================================
