# SANGA: TLA+ models, checks and proofs

SANGA is a Django application for stone merchants: a private ledger per contact, a stock of
lots whose availability has to be confirmed, a storefront, and a board on which businesses ask
for stone and others answer with private offers. This directory models its core logic in TLA+,
checks it on small instances with TLC and proves the central results with TLAPS. Paths are
relative to the repository, which stands under `src/`.

## 1. The system

Everything runs in web workers (Gunicorn) and one Celery worker with a beat schedule, over one
PostgreSQL database. No setting changes the isolation level or wraps requests in a transaction
(`config/settings/base.py` has neither `ATOMIC_REQUESTS` nor an isolation option): a view's
queries each see what is committed when they start (READ COMMITTED), and only the services that
say `transaction.atomic` group their writes. That is the source of most of what is hard here: an
object read by a view is a copy, and `save()` writes the copy back.

| Component | State | Operations | Interacts with | What is hard | What makes it correct |
|---|---|---|---|---|---|
| Ledger services (`accounting/services.py`) | rows of `LedgerEntry`, ordered per contact; the partial unique index on live trades | `post_entry`, `post_trade_entry`, `reverse_entry` | contacts (row lock), accepted offers | two postings on one balance, one offer recorded on two contacts, a second reversal, a crash between stamp and reversal, waits on the index while a row is locked | append-only, running balance, one live trade per offer and business, a stamp and a reversal always together |
| Ledger reports (`accounting/reports.py`, `selectors.py`) | none of their own | balance, balance list, financial summary, FIFO aging | ledger rows, archived contacts | several computations of one figure, back-dated rows, reversals, bucket edges | the reports agree on the same books |
| Statement (`accounting/views.py`, `selectors.py`) | one page while it is built | five queries and a template | postings that commit in between | no snapshot | the footer belongs to the table |
| Demand board (`purchase_requests/`) | `PurchaseRequest.status`, `PurchaseOffer` rows, the unique open offer per seller | create, submit or revise, accept, reject, close | businesses (suspension), ledger (accepted offers) | checks on stale objects, row locks taken in different orders, deadlocks | one open offer, acceptance in one piece, decisions are final |
| Contacts (`contacts/`) | `is_active`, link to a business | create, update, archive, restore | pricing, ledger, reports | a link looked for before it is written, edits that overlap archives | one contact per linked business, no change undone by another |
| Inventory (`inventory/`) | a lot's status, visibility, quantity, confirmation date, archive flag, media | drafts, the edit form, publish, hide, confirm, sell, archive, duplicate; the hourly freshness task | catalog, marketplace, saved searches, demand board | whole-row saves of stale copies, a task that walks a bulk read | what is sold, archived or stale is off the market |
| Pricing (`pricing/`) | tiers, per-contact overrides, audiences | resolve and set prices | contacts, lots, viewers | precedence over links, archive flags and switches; a page read in two queries | a viewer is shown the price meant for that viewer, and nobody else's |
| Shared catalogs (`catalog/`) | catalogs, items, expiry, view count | create, set lots, view | lots, contacts | items that outlive their lots, delete-and-recreate, counts saved as they were read | a visitor sees the whole list and only what may be shown |
| Marketplace, saved searches (`marketplace/`) | saved searches, `last_notified_at` | search, save, the periodic task | lots, notifications | a window on creation, a pause, a retry after a crash, runs that overlap | a match is reported in time, and not twice |
| Businesses (`businesses/`) | status, onboarding step, memberships, warehouses | sign-up, onboarding, settings, suspension, default warehouse | everything (tenancy) | check before insert, a whole row saved as it was read | a default warehouse, no suspension or onboarding undone |
| Login codes (`accounts/`) | one-time codes and their timers | request, verify | SMS gateway | check before insert, expiry | at most one live code |
| Inquiries (`inquiries/`, the inbox in `catalog/views_manage.py`) | status, two time stamps | create, answer | catalog | two handlers of one inquiry | no document says |
| Notifications | rows | one INSERT, one UPDATE | demand board, marketplace | nothing concurrent | - |
| Text normalisation (`core/persian.py`) | none | digits and letters | forms | a pure conversion | idempotence |
| Retired apps (`partners`, `matching`, `reservations`) | none | only migrations remain | - | - | - |

`PROJECT.json` lists the same components with what is modelled of each, and the hazards, each at
its line, with the properties that would catch it going wrong.

## 2. The modules

```
LedgerRows  <--  LedgerBook (abstract)  <--  Postings  <--  Reports, Statement  <--  AccountingProofs (TLAPS)
     ^               ^
     |               | refined by
     +----------  Ledger  <--  LedgerProofs (TLAPS)
Demand  <--  DemandProofs (TLAPS)
Lots  <--  LotsProofs (TLAPS)
ContactBook (abstract)  <--  Pricing  <--  PricingProofs (TLAPS)
     ^
     | refined by
Contacts  <--  ContactsProofs (TLAPS)
     |
     +--->  Businesses
CatalogProofs (TLAPS)  --->  Catalog  --->  Inquiries
SavedSearch  <--  SavedSearchProofs (TLAPS)
```

Each `MC*.tla` gives the constants their values for TLC; each `.cfg` is one run.
Operators whose comment starts with FAULTY occur in no action. Each is the mistake a programmer
could have made in the definition after it, kept to show that the properties can fail: put in
the place of that definition, it makes TLC report a violation (`PROJECT.json`, "mutants").

### Ledger (`LedgerRows`, `LedgerBook`, `Ledger`)

`LedgerRows` has the row, its fields as in `accounting/models.py`, the direction of each type,
and what `post_entry` and `reverse_entry` insert. Amounts are integers in units of 0.01, the
quantum of `_quantize`. A contact belongs to one business, so its log is simply a sequence.

`LedgerBook` is the promise: each posting, trade and reversal is one indivisible step.

`Ledger` is the code. A session is a request handler with one request; `pc` is the statement it
is about to run:

| Action | Code |
|---|---|
| `BeginPost`, `BeginTrade`, `BeginReverse` | the views `add_entry`, `record_trade`, `reverse_view` with their checks, the early look for an earlier trade included |
| `LockContact` | `Contact.objects.select_for_update().get(...)`: waits for the holder |
| `FindDuplicate`, `FindReversal`, `FindNothing` | the same questions asked again under the lock |
| `ReadBalance` | `_last_balance` |
| `StampOriginal`, `InsertReversal` | the two writes of `reverse_entry` |
| `InsertEntry`, `InsertConflicts` | the INSERT of a posting: it waits while the index entry is contested, then succeeds or raises `IntegrityError`, which becomes `LedgerDuplicateError` |
| `AnswerRecorded` | the view's own answer to a trade it finds recorded, before any lock |
| `Commit`, `Abort` | COMMIT; ROLLBACK after an error or the death of the worker, at any statement |

`book` holds committed rows only. What a session has written and not committed is computed from
its request and the balance it has read (`NewRow`, `NewLog`). `answer[s]` is the offer whose trade
the session's last request was told is on the books, by the view, by the service under its lock, by the
index or because it was posted just then.

### Postings, Reports

`Postings` is the books as a reader finds them: they move by the steps of `LedgerBook` while somebody
looks. A trade for an accepted offer is to a reader one more posting, so the runs post ordinary entries only;
the theorems about `BookSpec` (section 5) have trades too.

`Reports` has the selectors and reports as operators over these books; contacts are archived and restored and
days pass. Each report is evaluated in one state. The pages run a query per report, or several, without a snapshot:
what a commit between two of them does is modelled for the statement only. `Live` are the rows that still carry weight, `OldestFirst` is the `order_by` of `_live_entries`,
`PooledCredits`, `Pay` and `AgingUpTo` the loop of `aging_from_entries`, and `Bucket` the boundaries.
The loop is a recursive function of the number of entries handled.

### Statement

`MatchingUpTo` is the filtered queryset, as the rows that match among the first n. One statement page: `ReadBalance`, `ReadSums`, `ReadClosing`, `RenderRows` are its queries in the
order the view and the template run them; `BooksMove` is a commit in between.

### Demand

A session is one web request on the board. `BeginSubmit`, `BeginDecide` and `BeginClose` read,
in autocommit, the rows their view reads and make its checks; nothing is asked again.
`FindOwnOffer`, `WriteOffer`, `WriteRequest` and `RejectOthers` are the statements of
`submit_private_offer`, `decide_offer` and `close_purchase_request`; each UPDATE locks what it
writes until the commit. `WaitsFor` is the wait-for relation of row locks and of the partial unique index;
`BreakDeadlock` is PostgreSQL cancelling a statement that waits in a cycle. `Suspend` and
`Reinstate` are the administrators' actions. `raced` is a history variable: it records that two
sessions on one request have overlapped, and the weaker properties say what holds if they never do. A
suspension is no session and leaves it alone; it is seen by what begins after it, and a decision under
way when the seller is suspended goes through.

### Lots

The lots of one business. Views read a lot in autocommit (`Found`), change the object and save it
whole or some of its columns (`Saved`); `job[s]` holds the objects still to be saved, two for the
edit form and for the last page of the wizard, whose services save one after the other in
transactions of their own. The edit form's validation has put visibility and status into the object
before either service runs, so the comparisons with the old values find no difference: `EditLot` saves
what was chosen. The freshness task (`ListBusiness`, `ReadLots`, `Visit`, `Die`) reads its businesses, then the lots of
one, then saves their status one by one by `NextStatus`, from the copy. `stale[w]` is a history variable: the lots somebody has saved since run `w` read
them. A lot leaves it as the run comes to it, and all of them do when the run dies or reads anew.

### ContactBook, Contacts, Businesses

`ContactBook` is the promise of `contacts/services.py`: adding, editing, archiving and restoring a
contact are indivisible, touch nothing else, and link a partner to one contact at most.

`Businesses` and `Contacts` are the code, one session per request. A request arrives with what the
middleware and the form have read (`Arrive`): `add_warehouse`, `complete_onboarding` and the
services of contacts name the columns they write, `update_business_profile` saves the whole row as it
was read (`SaveProfile`). `ValidateLink` is the look for another contact with the same link,
`WriteContact` the INSERT or UPDATE, which the unique index may refuse. `add_warehouse` is a
transaction of several statements: `CheckWarehouse` (the two looks), `InsertWarehouse`,
`FindDefaults` and `ClearDefaults` (the UPDATE in `Warehouse.save`: which rows it finds, and which of them
are default still once their locks are free), `CommitWarehouse`. `raced` records that two such
transactions of one business overlapped.

### Pricing

One lot, the prices of its tiers, and the overrides for contacts. It EXTENDS `ContactBook`: links and
archive flags move by the steps `Contacts` is shown to implement. A page is built by `ReadPrices`
and `ReadOverrides`, the two prefetches of `marketplace_lots_for`, and everything may change between
them; a public page has the first only. `Shown` is the resolution in `pricing/services.py`.
`OfferedTo` and `MeantFor` say, without the code's order of queries, what the owner has on offer for a
reader; `Watch` collects both while a page is built.

### Catalog, Inquiries

One shared catalog. A visit is `OpenLink` and `ReadItems` (`get_shareable_catalog`), then `RecordView`,
which writes one more than the count it read, or `SendInquiry`. An editor saves the whole row
(`SaveSettings`), then replaces the list in a transaction: `CheckLots`, `DeleteItems`, `InsertItems`,
`CommitItems`; the last two wait for other editors as the row locks and the unique index of
`CustomCatalogItem` make them. Lots come and go (`ChangeLot`), the link expires. `Inquiries` is the inbox:
`BeginReply` reads a row, `UpdateStatus` writes it with its stamps. Of the inbox itself no property is stated:
a handler who has read the row before a colleague noted a call does erase the note, and no document says otherwise.

### SavedSearch

The task `match_saved_searches`, in beats of the schedule: `Start` fixes the cutoff and reads the
searches, `Look` passes over one or counts its matches, `Notify` commits the notification, `SaveTime` the time
of it. A run may be late, overlap another one, or die between any two of these. The code compares times of day, the
model beats of half an hour: of two moments exactly `Pause` beats apart either outcome of the comparison is possible
(`Paused`), and so it is of a lot created in the very beat of the cutoff (`Matching`). A `Pause` after a
report a run may thus still find the search paused, as it does in the code, where the comparison precedes the save of
the time. `counted[r]` remembers which lots a run counted, since they may change before it notifies.

## 3. The runs

| Run | Instance | What it shows |
|---|---|---|
| `ledger` | 1 business, 2 contacts, 1 accepted offer, 2 handlers | `RunningBalance`, `OneLiveTrade`, `ReversalPaired`, `EntriesImmutable`; a user who is told that a trade is on the books finds it there (`NoTradeDropped`); every step is a step of `LedgerBook` or a stutter (`ImplementsBook`); waits on row locks and on the unique index never close a circle (`NoCircularWait`) nor tie requests up for good (`EveryRequestEnds`) |
| `reports` | 2 contacts, at most 4 rows, 2 amounts, 2 business dates, 4 viewing days | balance list, summary and aging agree; oldest debt is paid first; time only ages a debt; a reversal undoes exactly one row |
| `statement` | 1 contact, at most 3 rows, filters by type and date | the footer is that of leading rows of its own table, and on an unfiltered page the columns add up |
| `statement_footer` | the same | a counterexample to `ClosingMatchesLastRow`, see section 6 |
| `demand` | 1 request, 2 sellers, 3 offer rows, 2 handlers, 1 business that may be suspended | one open offer per seller; the request's status follows its offers; acceptance is whole; decisions stand unless requests raced; a decided offer is touched again only by a session on that very offer; every web request ends |
| `demand_accepts` | the same | a counterexample to `OneAccepted`, see section 6 |
| `lots` | 1 lot, 1 person, 1 run of the task at a time and 4 days, or 2 runs that may overlap and 2 days | a run makes up for those that were missed; an archived lot rests once nobody is at it any more; a run spares sold, reserved and draft lots, whatever another does, unless somebody has saved the lot since it read it; what is overdue leaves the market; a wrongly doubted lot is put right |
| `lots_sold` | as `lots` | a counterexample to `TaskSparesSettled`, see section 6 |
| `prices` | 2 contacts, 2 partners of whom one reads, an anonymous visitor, a quote or two per tier and contact | a partner matches one override at most; a page shows what was on offer to its reader, and what was meant for it unless the tier's price changed between the two queries |
| `contacts` | 2 requests; 2 contacts and 1 partner, or 1 business with 2 warehouses | the requests implement `ContactBook`; a business with warehouses has a default one; a suspension or finished onboarding is undone only by a settings form that read the row before |
| `catalog` | 2 lots with a visitor and an editor or with 2 editors; 2 visitors and an editor; 1 inquiry with a visitor or with 2 handlers | a visit sees the whole list and nothing withdrawn; the list is that of one editor unless two overlapped; the count is exact unless a row was saved from an old one |
| `searches` | 1 search, 1 lot, 2 runs, a window of 5 beats, a pause of 2, 6 beats | a search is reported at most once in a pause unless runs overlapped or died; a lot that goes on the market a pause and two beats before its window ends is reported to every search saved two beats before it |

Why the bounds are enough. In the ledger, two handlers compete for one contact, or for one slot from
two contacts; `c1` has room for a trade, its reversal
and a second trade, the shortest history in which a slot is taken, freed and taken again, and
`c2` gives the second contact of the same business on which the same offer can be recorded.
In the reports, a FIFO allocation that goes wrong does so with two
debits and two credits in some order of business dates: four rows; the viewing days and the
business dates make ages of -1, 0, 30, 31, 60, 61, 90 and 91 days. In the statement, three rows are
one before, one between and one after two of the queries. The four days of the lots, with limits of 0, 1 and 2
days, meet every level and both sides of every limit; one lot suffices because no step of the code relates two. Two
runs that overlap (`overlap` in `MCLots`) have two days, in which a lot comes to be questioned and is confirmed again,
and a lot that no wizard holds and that stays private: what a run spares, and who gets hold of an archived lot, depends
on neither. In the demand board, two sellers and
two overlapping requests make each pair of operations overlap, and three offer rows let a seller
offer again after a rejection.

Prices: two contacts are what it takes to link one partner twice, and the quotes of tiers and contacts
are all different, so that a price tells where it comes from. Searches: six beats hold a whole
window and a pause inside it, with a lot that is published in the beat after its creation; with one
beat less in any of the conditions of `ReportedInTime`, TLC finds a lot that is missed. Searches do not touch each
other, and lots count one by one.

For every safety and action property the proofs of section 5 lift these bounds; they remain for liveness.

Three runs say more than their constants. In `MCLots` the variable `overlap` chooses between one run of the
task and two, as above; only the first is fair. In `MCContacts` the variable `half` chooses between the
contacts with their partner and the row with its warehouses: the two share no variable but the request slots, so
an interleaving of both is one of each. In `MCCatalog` the variable `cast` chooses who takes part, since
visits, editors and handlers meet in pairs: at the list a visit and an editor, or two editors; at the
count two visits and an editor; at an inquiry two handlers, or a visitor. Each is restricted in
the next-state relation of the MC module, and no action is left out of all of them.

Bounds are constants: `MaxEntries` (Ledger), `MaxRows` (`Postings`, for Reports and Statement), `OfferIds` (Demand), `LastDay` (Lots), `MaxVisits` (Catalog), `MaxTime` (SavedSearch).
The guards they appear in (`HasRoom`, and `OpenLink` for the visits) hold back only new requests, never one in progress.

Deadlock checking is off where the system may come to rest: with every log full no request
arrives any more, and in `SavedSearch` time stops: the bounds, and not the program.

## 4. Fairness

Nothing makes a request arrive, a worker die, a business be suspended or a day pass. A session
that is running runs its next statement (weak fairness). A statement that may have to wait, on a
row lock or on a unique index entry, has strong fairness: PostgreSQL queues the waiters, so one
that could go on again and again does. In `Demand`, `BreakDeadlock` is weakly fair: the server
looks for a cycle once `deadlock_timeout` has passed. In
`Lots`, the beat starts the task for ever (hourly, `config/settings/base.py`), and not every run is killed before it has read the lots or
before it comes to a given one (strong fairness of `ReadLots` and `Visit`); nobody has to edit anything. The run
`lots` checks under less than this `FairSpec`: where two runs overlap only one of them is fair. No liveness property is checked without these.

## 5. What is proved

`LedgerProofs` proves, for any sets of businesses, contacts, offers, handlers and amounts, and
for books of any length:

| Theorem | Statement |
|---|---|
| `LedgerInvariant` | `Spec => []IInv` |
| `LedgerTypes` | `Spec => []TypeOK` |
| `BalancesRun` | `Spec => []RunningBalance` |
| `TradesAreSingle` | `Spec => []OneLiveTrade` |
| `ReversalsArePaired` | `Spec => []ReversalPaired` |
| `EntriesStay` | `Spec => EntriesImmutable` |
| `AnswersStand` | `Spec => []NoTradeDropped` |
| `WaitsEnd` | `Spec => []NoCircularWait` |
| `LedgerImplementsBook` | `Spec => ImplementsBook`, the refinement |

They rest on the constants' assumptions `LedgerConstants` and `SessionConstants`, which TLC
evaluates in every ledger run: each contact has one business, the markers for NULL are no
values, the requests' types are entry types.

The argument. None of the three safety properties is inductive: `RunningBalance` survives a
commit only if the balance the session read is still the last one. `IInv` adds what the code
keeps true between the statements:

- `RequestsValid`: what a running request asks is what its view let through;
- `LocksHeld`: past `LockContact` a session holds the row lock of its contact, and nobody holds
  a lock otherwise; so two sessions past that point work on different contacts;
- `SeenFresh`: past `ReadBalance`, what was read is the contact's balance still: only the
  holder of the lock changes the log;
- `TargetOpen`: past its check, a reversal's row has no reversal;
- `SlotFree`: past its INSERT, an offer trade has the slot of its offer to itself: no committed row and no other
  uncommitted one occupies it. It is what the unique index gives, since a contact's lock says
  nothing about a second contact of the same business.

`CommitInv` is the step where they meet; the lemmas before it (`AppendGrows` to `GrownLive`) say
what appending a row does to a log. `BooksGrow` and `CommitRefines` reuse them for immutability
and for the refinement.

`AnswersStand` follows a session beyond its own request: books only grow, a stamp and its reversal come in one
commit (`BooksKeepTrades`), so that an answer given on what was committed stays true; the answer of a session that
posts is given by the commit itself (`RecordedOnBooks`).

`WaitsEnd` is the safety half of `EveryRequestEnds`. It needs that a lock belongs to a session past its
`LockContact` (`LocksOwned`); then whoever waits for a lock waits for somebody who waits at most for the index, and
whoever waits for the index for somebody with nothing left to wait for (`WaitsAreShort`). `WaitsAreGuards` shows that
`WaitsFor` is what the guards of the actions say. On the demand board the like does not hold, and `BreakDeadlock` is needed.

`AccountingProofs` proves, for any businesses, contacts, amounts, days and filters, and for books of any
length:

| Theorem | Statement |
|---|---|
| `BooksStayInOrder` | `BookSpec => []BooksOK` |
| `BooksAgeExactly` | `BookSpec => []...`: the aging of each contact on each day is its balance |
| `ReportsReadTheBook`, `StatementReadsTheBook` | `ReportsSpec => BookSpec`, `StatementSpec => BookSpec` |
| `ReportsInvariant` | `ReportsSpec => []ReportsOK` |
| `AgingIsExact` | `ReportsSpec => []AgingMatchesBalance` |
| `ReportsReconcile` | `ReportsSpec => []SummaryReconciles` |
| `OldestDebtsPaidFirst` | `ReportsSpec => []OldestPaidFirst` |
| `TimeOnlyAgesDebt` | `ReportsSpec => DebtOnlyAges` |
| `ReversalsUndo` | `ReportsSpec => ReversalUndoes` |
| `StatementInvariant` | `StatementSpec => []StatementOK` |
| `FootersFit` | `StatementSpec => []FooterIsOfThisTable` |
| `ColumnsReconcile` | `StatementSpec => []ColumnsAddUp` |

They assume `LedgerConstants`, `PostingConstants` (finitely many contacts, types that may be posted),
`ReportConstants` (days are numbers) and `StatementConstants`. The first two theorems are about any books that follow `LedgerBook`:
with `LedgerImplementsBook` above they hold of the books the code keeps, statement by statement, trades included.

The argument. `LogOK` is the invariant of one contact's rows: every row moves the balance by its amount, and the last
`balance_after` is the sum of all the deltas *and* the sum of the live ones. A posting adds its delta to all three; a
reversal adds the opposite of a live row's delta to the first two, while that row leaves the third
(`PostedOK`, `ReversedOK`). So a running balance, a sum over every row and a sum that skips what was
reversed are one figure, which is what the three screens show.

The reports then need what a loop computes. `Allocated` is the invariant of `aging_from_entries` over the entries paid so far,
oldest first: the buckets less the credit left over are the debits less the pool (nothing lost), and the
allocation is `FIFO` (where an older bucket holds debt, nothing was paid of a younger one). It is kept because the next debit
is of no earlier a day than those before it (`NoneLater`), hence of no older a bucket, and `Pay` cannot
leave credit beside debt. `AgingBalances` is what the theorems on balances, on summaries and on the oldest debts take from it. The summary adds up over contacts
what the aging adds up over buckets, and `SumSwap` exchanges the two. `DebtOnlyAges` runs the loop on two days
at once (`AgesTo`), `ReversalUndoes` on the log with and without the reversal: the live rows are the same but for
the row that was reversed, and nothing the loop reads of them has changed.

The statement needs that rows keep their place and what is shown of them (`Keeps`; a stamp is not shown): then what a query has read
of the table is true of any longer table (`Counted`, `Closed`), the rows rendered last included.

Sums over finite sets and the recursive functions of the models are induction over data. The first section of the module proves
what is needed from the well-foundedness of the numbers and from the library's facts on finite sets, with the predicate given as a set of
numbers or of subsets (`NatSetInduction`, `FiniteInduction`) instead of an operator. From there come
the equations of `SumFunctionOnSet` (`SumEmpty`, `SumAdd`, `SumPart`, `SumSwap`) and the existence of the functions
that the loops define (`Iterates`).

`LotsProofs` proves, for any lots, people, overlapping runs of the task and freshness policy:

| Theorem | Statement |
|---|---|
| `LaterRunCatchesUp` | on one row: a transition now and one on a later day are the later one |
| `LotsInvariant`, `LotsTypes` | `Spec => []IInv`, `Spec => []TypeOK` |
| `RunsMayBeMissed` | `Spec => []RunsCatchUp` |
| `ArchivedLotsRest` | `Spec => ArchivedRests` |
| `TaskSpares` | `Spec => TaskSparesUnlessSaved` |

The first is a case analysis on the level of a row, which can only grow older; it needs no order
between the three limits of the policy. `TaskSpares` rests on `ReadSettled`: a lot becomes sold, reserved or a
draft by a save only, since what a run writes is never one of these (`VisitStatus`); so a lot that is so now, and
that nobody has saved since a run read it, was so when it was read, and the transition leaves it. Another run may have
moved it meanwhile, out of that set but never into it. `ArchivedLotsRest` goes through the steps: whoever fetches a lot
skips the archived ones, and only who holds a copy writes (`RestStep`). TLC's runs have one person and two runs of the
task; the proof has any number.

`PricingProofs` proves, for any contacts, partners, readers and quotes:

| Theorem | Statement |
|---|---|
| `PartnersMatchOneOverride` | `Spec => []OneOverride` |
| `PricingInvariant` | `Spec => []IInv` |
| `PagesShowWhatWasOffered` | `Spec => []OnlyWhatWasOffered` |
| `PagesShowWhatWasMeant` | `Spec => []ShownWasMeant` |

`OneOverride` is inductive once every link counts, the archived ones included: the unique index covers
them, and a restore could otherwise make two overrides apply. The other two follow what a page holds between its
queries: the price it found has been on offer since the page was opened (`WatchGrows`), and it is still that of the tier
unless `torn`. When the second query finds no override, the price of the tier is the one meant at that
moment; when it finds one, that one is.

`ContactsProofs` proves, for any businesses, warehouses, contacts and overlapping requests:

| Theorem | Statement |
|---|---|
| `ContactsTypes` | `Spec => []TypeOK` |
| `ContactsImplementBook` | `Spec => ImplementsContactBook`, the refinement |
| `WarehousesHaveDefault` | `Spec => []DefaultWarehouse` |
| `SettledStays` | `Spec => NothingTakenBack` |

Types are not inductive alone: an edit writes a row of the table, so the row must be there. `IInv` adds
`Known` (an edit, archive or restore in progress is of a contact there is, an add is not), `Apart` (two
adds are of two contacts) and `Stages`. A write is then an `AddContact` or `EditContact` of the book if the link is free when
it is written, whatever the earlier look found, and a stutter if the index refuses it.

A commit keeps a default warehouse because of what its transaction found still holds: `Slots` says that
without an overlap the defaults it clears are all there are, and that a warehouse which is not to be
the default is added only where others stand. `NamesApart` is the unique index, which keeps two
transactions past their inserts from writing one name; `Alone` says that an overlap has left its mark.
`NothingTakenBack` needs that a form in progress is about a business that exists (`RowSlot`), and that no two
creations are of one business (`CreatedApart`): otherwise a creation could overwrite a suspended row.

`DemandProofs` proves, for any sellers, offer rows and overlapping sessions, on the assumptions
`DemandConstants` and `NoneIsNoRow` (the marker for nothing is neither a row nor a request):

| Theorem | Statement |
|---|---|
| `DemandInvariant` | `Spec => []IInv` |
| `OffersAreSingle` | `Spec => []OneOpenOffer` |
| `StatusIsOfOffers` | `Spec => []StatusFollowsOffers` |
| `AcceptancesAreWhole` | `Spec => AcceptanceIsWhole` |
| `QuietInvariant` | `Spec => [](IInv /\ Quiet)` |
| `WinnersAreAlone` | `Spec => []SettledUnlessRaced` |
| `DecisionsAreFinal` | `Spec => DecisionsStand` |
| `DecisionsOfOthersStand` | `Spec => OthersDecisionsStand` |

The views decide on what they have read, so the invariant is about copies. `JobOK` says what of a copy still
holds although others have written since: an offer that was read has its row, its seller and its request for ever.
`WritesOK` and `RowOK` say what the uncommitted writes of a session look like at each statement, `LocksApart` that no
two sessions have written one row, `SlotsApart` that a session past its INSERT has its seller's slot
to itself, which is the partial unique index. `BoardOK` adds what the committed rows keep among
themselves. A new offer finds an unused key because `HasRoom` counts the requests in progress (`Room`, a
cardinality argument). The two properties that are about a request nobody raced for need `Quiet`: such a request has
one session at most, which has read it as it is (`Lone`), and its winner has no rivals left (`Won`).
`OthersDecisionsStand` holds of any request, raced for or not: `RowOK` says that what an acceptance has written of other
offers are rejections of offers still SUBMITTED, which its locks keep so until the commit.

`CatalogProofs` proves, for any lots, visitors, editors, inquiries and handlers:

| Theorem | Statement |
|---|---|
| `CatalogInvariant` | `Spec => []IInv` |
| `PagesAreWhole` | `Spec => []PageIsWhole` |
| `ListsAreOneEditors` | `Spec => []ListIsOneEditors` |
| `CountsAreOfVisits` | `Spec => []ViewsCounted` |

`Replaces` is what makes the list one editor's: without an overlap, whoever is replacing it is alone, and
the rows to delete are the whole list, so that the new list takes its place. A page is whole because of `Due`: until
it is read, what it would show lies between what it ought to show and what it may. `Counts` follows the
copies of the count, each of them exact until somebody saves the row, and `Creation` keeps
all that from a catalog that does not exist yet.

`SavedSearchProofs` proves, for any lots, searches, runs, window and pause:

| Theorem | Statement |
|---|---|
| `SavedSearchInvariant` | `Spec => []IInv` |
| `ReportsKeepPause` | `Spec => OncePerPause` |
| `TimelyInvariant` | `Spec => [](Typed /\ ...)`, `Timely` for every search and lot |
| `ReportsInTime` | `Spec => []ReportedInTime` |

For a search that no run may report early, `Alone` says that no two runs overlap, `OnRecord` that a
report has its time saved, unless a run is about to, and `Current` that what a run has read of the search is
true until it has reported it.

`ReportedInTime` speaks of the end of a window that began many beats ago, so `Timely` keeps what makes it come
out: while no beat has gone without a run to its end, every run under way began in this beat (`OnItsWay`), and a
run that has ended has left no search `Expecting` to hear of a lot that is not `Served`. In the last beat in which the
lot is sure to count that means: the lot was reported, or the search had been reported at most a `Pause` before. That report
is later than the lot's publication, and a report later than the publication counted the lot (`Reported`). This is where
the property's condition comes from. Of the two beats beside the `Pause`, one is the beat of the publication, whose
run may have come before it, and one is the beat in which the pause, or the window, may end either way.

What is not proved: liveness (`EveryRequestEnds` of the ledger and of the demand board, `OverdueLeaves`,
`DoubtsEnd`), which is out of the prover's reach and stays with TLC. Every other property of the passing runs is
the subject of a theorem.

## 6. Where documents and code disagree

1. `statement_footer`. `statement_totals` promises a closing balance that is "the running balance
   of the last row shown" (`apps/accounting/selectors.py:234`). Footer and rows are separate queries: a
   posting that commits between them adds a row below. `FooterIsOfThisTable` is what does hold.
2. `demand_accepts`. "Accepting one closes the request and rejects the competing offers"
   (`docs/data-model.md:231`). `decide_offer` decides on the object its view has read and never
   looks at the request again: two decisions that overlap accept two offers. `SettledUnlessRaced` and
   `AcceptanceIsWhole` are what does hold.
3. `lots_sold`. `apply_freshness_transition` "does not touch sold/reserved lots"
   (`apps/inventory/freshness.py:80`). It looks at the status the task's query has read, which may be old: a lot sold
   while the task walks is put back as NEEDS_CONFIRMATION, which is on the market. `TaskSparesUnlessSaved`
   is what does hold.

## 7. What is assumed and what is left out

- READ COMMITTED with no request-wide transaction, as configured.
- The rows of a contact are ordered by `(created_at, pk)`; the model orders them by their commits
  under the contact's lock, which is the same as long as the clock does not run backwards between two postings on one contact.
- Amounts fit their columns: an amount too long fails its INSERT, which is an `Abort`.
- Wording, formatting, pagination, text search and notifications carry no state that the
  properties depend on.
- The retired apps have no code; deployment is configuration; notifications are single statements that
  nothing reads back.
- In `Lots`, quantities and media: no guard reads them. In `Pricing`, currencies, units and rounding; the
  price of a lot that is off the market is not read.
- Login codes (`accounts/`): timers and limits on one table that no other component reads.
- The demand board and the ledger are not composed. The ledger takes an accepted offer as given; that a later
  decision may reject an offer whose trade is recorded follows from `Demand` alone, and no document speaks of it.
- Businesses: the slug, the switch between businesses and the dashboard; `invite_member` has no caller. In
  `BeginCreate` two sign-up forms of one user make two businesses, as in the code.
- Catalogs: the order and the notes of items; the storefront is a query, and the lots to compare are kept in the
  visitor's session.

## 8. Plan

Done, in this order: `LedgerRows`, `LedgerBook`, `Ledger`, `LedgerProofs`, `Reports`,
`Statement`, `Demand`, `Lots`, `LotsProofs`, `ContactBook`, `Pricing`, `PricingProofs`, `Businesses`, `Contacts`,
`ContactsProofs`, `SavedSearch`, `Inquiries`, `Catalog`, `DemandProofs`, `CatalogProofs`, `SavedSearchProofs`, `Postings`,
`AccountingProofs`.

Next: the reports of the code's own ledger as theorems in one specification (today they meet in `BookSpec`), and the price and
quantity of an offer on the demand board, which a seller may revise between the page a buyer reads and the click on accept.
