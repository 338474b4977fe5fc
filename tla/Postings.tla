------------------------------- MODULE Postings -------------------------------
(***************************************************************************)
(* The books as a screen or a report finds them: they move by the steps of  *)
(* LedgerBook, which Ledger implements, while somebody is looking. A        *)
(* recorded trade is to a reader one more posting.                          *)
(***************************************************************************)
EXTENDS LedgerBook, FiniteSets, Functions

CONSTANTS Types,    \* entry types posted
          MaxRows   \* bound: rows of all the books together

ASSUME PostingConstants ==
  /\ IsFiniteSet(Contacts)
  /\ Types \subseteq PostTypes
  /\ MaxRows \in Nat

HasRoom == SumFunction([c \in Contacts |-> Len(book[c])]) < MaxRows

PostEntry(c) ==
  /\ HasRoom
  /\ \E type \in Types, amount \in Amounts, day \in Days : Post(c, type, amount, day)

ReverseEntry(c) ==
  /\ HasRoom
  /\ \E k \in DOMAIN book[c], day \in Days : ReverseRow(c, k, day)

BooksMove == \E c \in Contacts : PostEntry(c) \/ ReverseEntry(c)
===============================================================================
