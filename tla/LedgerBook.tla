------------------------------ MODULE LedgerBook ------------------------------
(***************************************************************************)
(* What the ledger promises, with no transactions in sight: every posting   *)
(* and every reversal happens in one indivisible step on the committed      *)
(* books. Ledger implements it.                                             *)
(***************************************************************************)
EXTENDS LedgerRows

VARIABLE book          \* book[c]: the committed log of contact c

BookInit == book = [c \in Contacts |-> <<>>]

\* post_entry: any entry type, no offer.
Post(c, type, amount, day) ==
  /\ amount > 0
  /\ book' = [book EXCEPT ![c] =
                Append(@, PostedRow(Balance(@), type, amount, NoOffer, day))]

\* post_trade_entry for an accepted offer: one live row per offer and business.
RecordTrade(c, type, amount, day, o) ==
  /\ type \in TradeTypes
  /\ amount > 0
  /\ Owner[c] \in Parties[o]
  /\ ~TradeRecorded(book, Owner[c], o)
  /\ book' = [book EXCEPT ![c] =
                Append(@, PostedRow(Balance(@), type, amount, o, day))]

\* reverse_entry: once per row, and never a reversal.
ReverseRow(c, k, day) ==
  /\ book[c][k].type # "reversal"
  /\ ~HasReversal(book[c], k)
  /\ book' = [book EXCEPT ![c] =
                WithReversal(@, k, ReversalRow(Balance(@), @, k, day))]

BookStep(c) ==
  \E day \in Days :
    \/ \E type \in PostTypes, amount \in Amounts : Post(c, type, amount, day)
    \/ \E type \in TradeTypes, amount \in Amounts, o \in Offers :
         RecordTrade(c, type, amount, day, o)
    \/ \E k \in DOMAIN book[c] : ReverseRow(c, k, day)

BookNext == \E c \in Contacts : BookStep(c)

BookSpec == BookInit /\ [][BookNext]_book
===============================================================================
