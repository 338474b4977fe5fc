-------------------------------- MODULE Reports --------------------------------
(***************************************************************************)
(* The figures accounting draws from the committed books: the balance of a  *)
(* contact, the financial summary of a business and the aging report. Each  *)
(* is computed along its own path over the same rows (the last              *)
(* balance_after, a sum of balance_delta, a FIFO allocation of live         *)
(* entries), and the screens show them side by side.                        *)
(*                                                                          *)
(* The books move by the steps of Postings. Contacts are archived and       *)
(* restored, and days pass.                                                 *)
(***************************************************************************)
EXTENDS Postings

CONSTANTS Dates     \* the days on which somebody looks at a report

ASSUME ReportConstants ==
  /\ Dates \subseteq Int
  /\ Dates # {}

VARIABLES active,   \* active[c]: contact.is_active
          today     \* timezone.localdate()

reportVars == <<book, active, today>>

-----------------------------------------------------------------------------
(* accounting/reports.py *)

\* The age buckets, youngest first.
Buckets == <<"current", "days_31_60", "days_61_90", "over_90">>

\* FAULTY: a debt dated in the future falls through all the ranges.
FaultyBucket(age) ==
  IF age \in 0..30 THEN 1 ELSE IF age \in 31..60 THEN 2 ELSE IF age \in 61..90 THEN 3 ELSE 4

\* _bucket_key: a position in Buckets. A debt dated in the future is current.
Bucket(age) ==
  IF age <= 30 THEN 1 ELSE IF age <= 60 THEN 2 ELSE IF age <= 90 THEN 3 ELSE 4

\* The rows that still carry weight: a reversed row and its reversal are both
\* dropped.
Live(log) == {k \in DOMAIN log : ~log[k].reversed /\ log[k].type # "reversal"}

\* FAULTY: ordered by created_at alone.
FaultyOlder(log, j, k) == j < k

\* order_by("occurred_on", "created_at"): posting order breaks ties.
Older(log, j, k) ==
  \/ log[j].day < log[k].day
  \/ log[j].day = log[k].day /\ j < k

OldestFirst(log, rows) ==
  CHOOSE s \in [1 .. Cardinality(rows) -> rows] :
    /\ Range(s) = rows
    /\ \A m, n \in DOMAIN s : m < n => Older(log, s[m], s[n])

LiveEntries(log) == OldestFirst(log, Live(log))

Lesser(x, y) == IF x < y THEN x ELSE y

\* FAULTY: a credit is charged to the debit in full, however small the debit.
FaultyPay(aging, debit, bucket) ==
  LET applied == IF aging.unapplied_credit > 0 THEN debit ELSE 0
  IN [unapplied_credit |-> aging.unapplied_credit - applied,
      buckets |-> [aging.buckets EXCEPT ![bucket] = @ + debit - applied]]

\* The pool pays what it can of a debit; the rest goes to the bucket of its age.
Pay(aging, debit, bucket) ==
  LET applied == Lesser(aging.unapplied_credit, debit)
  IN [unapplied_credit |-> aging.unapplied_credit - applied,
      buckets |-> [aging.buckets EXCEPT ![bucket] = @ + debit - applied]]

\* Before any debit is paid: all the credits among the entries are pooled.
PooledCredits(log, entries) ==
  [unapplied_credit |->
     SumFunctionOnSet([k \in DOMAIN log |-> -log[k].delta],
                      {k \in Range(entries) : log[k].delta < 0}),
   buckets |-> [i \in DOMAIN Buckets |-> 0]]

\* The aging once the debits among the first n entries are paid, for each n.
AgingUpTo(log, entries, asOf) ==
  LET upTo[n \in 0 .. Len(entries)] ==
        IF n = 0 THEN PooledCredits(log, entries)
        ELSE LET row == log[entries[n]]
             IN IF row.delta > 0
                THEN Pay(upTo[n - 1], row.delta, Bucket(asOf - row.day))
                ELSE upTo[n - 1]
  IN upTo

\* aging_from_entries: credits are pooled and pay the oldest debits first; what
\* a debit still owes goes to the bucket of its own age.
AgingFromEntries(log, entries, asOf) == AgingUpTo(log, entries, asOf)[Len(entries)]

\* contact_aging over the rows of one contact: no filter of the viewer applies.
Aging(log, asOf) == AgingFromEntries(log, LiveEntries(log), asOf)

ContactAging(c) == Aging(book[c], today)

ContactsOf(b) == {c \in Contacts : Owner[c] = b}

\* Aging.total.
Total(aging) == SumFunction(aging.buckets)

\* business_aging(...)["total"]: every contact is aged, archived ones included.
BusinessAging(b) ==
  LET aged == [c \in ContactsOf(b) |-> ContactAging(c)]
  IN [unapplied_credit |->
        SumFunction([c \in ContactsOf(b) |-> aged[c].unapplied_credit]),
      buckets |->
        [i \in DOMAIN Buckets |->
           SumFunction([c \in ContactsOf(b) |-> aged[c].buckets[i]])]]

-----------------------------------------------------------------------------
(* accounting/selectors.py *)

\* current_balance: balance_after of the last row.
CurrentBalance(c) == Balance(book[c])

\* The balance annotation of contact_balances: the sum of balance_delta.
SummedBalance(c) == SumFunction([k \in DOMAIN book[c] |-> book[c][k].delta])

\* FAULTY: archived contacts are left out, whatever they owe.
FaultyContactBalances(b) == {c \in ContactsOf(b) : active[c]}

\* The rows of contact_balances: the active contacts, and the archived ones
\* whose account is not settled.
ContactBalances(b) == {c \in ContactsOf(b) : active[c] \/ SummedBalance(c) # 0}

BusinessFinancialSummary(b) ==
  LET balance == [c \in Contacts |-> SummedBalance(c)]
      rows    == ContactBalances(b)
      debtors == {c \in rows : balance[c] > 0}
  IN [receivable_total |-> SumFunctionOnSet(balance, debtors),
      payable_total    |-> -SumFunctionOnSet(balance, rows \ debtors),
      net_balance      |-> SumFunctionOnSet(balance, rows)]

-----------------------------------------------------------------------------
(* Steps *)

\* archive_contact, with no look at the balance.
ArchiveContact(c) ==
  /\ active[c]
  /\ active' = [active EXCEPT ![c] = FALSE]
  /\ UNCHANGED <<book, today>>

RestoreContact(c) ==
  /\ ~active[c]
  /\ active' = [active EXCEPT ![c] = TRUE]
  /\ UNCHANGED <<book, today>>

DaysPass ==
  /\ today' \in {d \in Dates : d > today}
  /\ UNCHANGED <<book, active>>

ReportsInit ==
  /\ BookInit
  /\ active = [c \in Contacts |-> TRUE]
  /\ today \in {d \in Dates : \A e \in Dates : d <= e}

ReportsNext ==
  \/ BooksMove /\ UNCHANGED <<active, today>>
  \/ \E c \in Contacts : ArchiveContact(c) \/ RestoreContact(c)
  \/ DaysPass

ReportsSpec == ReportsInit /\ [][ReportsNext]_reportVars

-----------------------------------------------------------------------------
(* Properties *)

\* The aged debt of a contact is exactly what its last row says it owes and the
\* unapplied credit exactly what it is owed, never both: dropping reversed rows with their
\* reversals and pooling credits loses and invents nothing.
AgingMatchesBalance ==
  \A c \in Contacts :
    LET aging   == ContactAging(c)
        balance == CurrentBalance(c)
    IN /\ Total(aging) = IF balance > 0 THEN balance ELSE 0
       /\ aging.unapplied_credit = IF balance < 0 THEN -balance ELSE 0

\* The aging report and the financial summary of a business, shown on one page,
\* agree on what it is owed and what it owes, whoever was archived meanwhile. The
\* summary sums deltas: with AgingMatchesBalance, the two ways of computing a
\* balance agree, reversals included.
SummaryReconciles ==
  \A b \in Businesses :
    LET aging   == BusinessAging(b)
        summary == BusinessFinancialSummary(b)
    IN /\ Total(aging) = summary.receivable_total
       /\ aging.unapplied_credit = summary.payable_total
       /\ summary.net_balance = summary.receivable_total - summary.payable_total

\* While a bucket holds unpaid debt, no debit of a younger bucket has been paid
\* in any part: that is what makes the over-90 bucket mean what it says.
LiveDebits(c, i) ==
  LET log == book[c]
  IN SumFunctionOnSet([k \in DOMAIN log |-> log[k].delta],
                      {k \in Live(log) :
                         log[k].delta > 0 /\ Bucket(today - log[k].day) = i})

OldestPaidFirst ==
  \A c \in Contacts :
    LET buckets == ContactAging(c).buckets
    IN \A i, j \in DOMAIN Buckets :
         i < j /\ buckets[j] > 0 => buckets[i] = LiveDebits(c, i)

\* Time alone only moves debt to older buckets: of what is at least so old,
\* none disappears or grows young again while nobody pays.
OwedFrom(aging, i) == SumFunctionOnSet(aging.buckets, i..Len(Buckets))

DebtOnlyAges ==
  [][today' # today =>
       \A c \in Contacts :
         LET before == Aging(book[c], today)
             after  == Aging(book'[c], today')
         IN \A i \in DOMAIN Buckets : OwedFrom(after, i) >= OwedFrom(before, i)]_reportVars

\* Reversing a row leaves the aging as if it had never been posted: the reversal
\* of a sale is no payment of another sale, that of a payment no new debt.
ReversalUndoes ==
  [][\A c \in Contacts : \A k \in DOMAIN book[c] :
       ~HasReversal(book[c], k) /\ HasReversal(book'[c], k) =>
         Aging(book'[c], today) =
           AgingFromEntries(book[c], OldestFirst(book[c], Live(book[c]) \ {k}), today)]_reportVars
===============================================================================
