------------------------------- MODULE Statement -------------------------------
(***************************************************************************)
(* The statement of a contact on the screen. The view reads the books in    *)
(* several statements of its own, outside any transaction: the balance, the *)
(* footer's sums, the footer's last row and, when the template iterates the *)
(* queryset, the rows. Postings commit in between.                          *)
(*                                                                          *)
(* The print-out (print_statement) runs the same reads with no filter.      *)
(***************************************************************************)
EXTENDS Postings

CONSTANTS Filters,  \* the filters a viewer may set
          NoRow     \* no last row: totals["closing"] is None

ASSUME StatementConstants == NoRow \notin Int

VARIABLES step,   \* the query the view is about to run
          page    \* what it has read so far

statementVars == <<book, step, page>>

\* A filter of the query string; type "" stands for every type.
Everything == [type |-> "", from |-> 0, to |-> 0]
Matches(row, filter) ==
  \/ filter = Everything
  \/ /\ filter.type \in {"", row.type}
     /\ row.day \in filter.from .. filter.to

BlankPage(c, filter) ==
  [contact |-> c, filter |-> filter, balance |-> 0, row_count |-> 0,
   debit |-> 0, credit |-> 0, closing |-> NoRow, rows |-> <<>>]

-----------------------------------------------------------------------------
(* The queries *)

\* The rows that match among the first n, in posting order, for each n.
MatchingUpTo(log, filter) ==
  LET upTo[n \in 0 .. Len(log)] ==
        IF n = 0 THEN <<>>
        ELSE IF Matches(log[n], filter) THEN Append(upTo[n - 1], log[n])
        ELSE upTo[n - 1]
  IN upTo

\* FAULTY: newest first.
FaultyContactStatement(log, filter) ==
  LET rows == MatchingUpTo(log, filter)[Len(log)]
  IN [n \in DOMAIN rows |-> rows[Len(rows) + 1 - n]]

\* contact_statement: the rows that match, in posting order.
ContactStatement(log, filter) == MatchingUpTo(log, filter)[Len(log)]

\* FAULTY: the column follows from the entry type, which a reversal does not have.
FaultyDebit(row) == row.type \in DebitTypes

\* The column a row belongs to: LedgerEntry.is_debit, and the two aggregates.
IsDebit(row)  == row.delta > 0
IsCredit(row) == row.delta < 0

\* Sum("amount") over the rows at some places of the table.
SumOfAmounts(rows, places) ==
  SumFunctionOnSet([n \in DOMAIN rows |-> rows[n].amount], places)

-----------------------------------------------------------------------------
(* Steps *)

Now == ContactStatement(book[page.contact], page.filter)

OpenStatement ==
  /\ step = "closed"
  /\ \E c \in Contacts, filter \in Filters : page' = BlankPage(c, filter)
  /\ step' = "balance"
  /\ UNCHANGED book

\* current_balance, before the footer and the rows are read.
ReadBalance ==
  /\ step = "balance"
  /\ page' = [page EXCEPT !.balance = Balance(book[page.contact])]
  /\ step' = "sums"
  /\ UNCHANGED book

\* entries.aggregate(...) of statement_totals.
ReadSums ==
  /\ step = "sums"
  /\ page' = [page EXCEPT
                !.row_count = Len(Now),
                !.debit     = SumOfAmounts(Now, {n \in DOMAIN Now : IsDebit(Now[n])}),
                !.credit    = SumOfAmounts(Now, {n \in DOMAIN Now : IsCredit(Now[n])})]
  /\ step' = "closing"
  /\ UNCHANGED book

\* entries.last() of statement_totals.
ReadClosing ==
  /\ step = "closing"
  /\ page' = [page EXCEPT !.closing = IF Now = <<>> THEN NoRow ELSE Balance(Now)]
  /\ step' = "rows"
  /\ UNCHANGED book

\* {% for entry in entries %}.
RenderRows ==
  /\ step = "rows"
  /\ page' = [page EXCEPT !.rows = Now]
  /\ step' = "shown"
  /\ UNCHANGED book

LeaveStatement ==
  /\ step = "shown"
  /\ step' = "closed"
  /\ UNCHANGED <<book, page>>

StatementInit ==
  /\ BookInit
  /\ step = "closed"
  /\ page \in {BlankPage(c, Everything) : c \in Contacts}

StatementNext ==
  \/ OpenStatement
  \/ ReadBalance
  \/ ReadSums
  \/ ReadClosing
  \/ RenderRows
  \/ LeaveStatement
  \/ BooksMove /\ UNCHANGED <<step, page>>

StatementSpec == StatementInit /\ [][StatementNext]_statementVars

-----------------------------------------------------------------------------
(* Properties *)

\* The footer describes an earlier moment of the very table it stands under:
\* its count, sums and closing row are those of leading parts of the rows shown,
\* because posted rows keep their place and their amounts.
FooterIsOfThisTable ==
  step = "shown" =>
    /\ page.row_count \in 0 .. Len(page.rows)
    /\ page.debit + page.credit = SumOfAmounts(page.rows, 1 .. page.row_count)
    /\ \/ page.closing = NoRow /\ page.row_count = 0
       \/ \E n \in DOMAIN page.rows :
            n >= page.row_count /\ page.closing = page.rows[n].after

\* On an unfiltered statement the two columns add up to the running balance of
\* the last row they count, reversals included: each row is in the one column
\* that its effect on the balance belongs to.
ColumnsAddUp ==
  step = "shown" /\ page.filter = Everything =>
    page.debit - page.credit = Balance(SubSeq(page.rows, 1, page.row_count))

\* "The same number as its balance cell, so the footer can never contradict the
\* table" (selectors.py, statement_totals; accounting.md section 6.1).
ClosingMatchesLastRow ==
  step = "shown" /\ page.row_count > 0 =>
    page.closing = page.rows[Len(page.rows)].after
===============================================================================
