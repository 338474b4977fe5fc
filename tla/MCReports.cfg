CONSTANTS
  b1 = b1
  c1 = c1
  c2 = c2
  NoOffer = NoOffer
  Businesses <- MCBusinesses
  Contacts <- MCContacts
  Owner <- MCOwner
  Offers <- MCOffers
  Parties <- MCParties
  Types = {"sale", "payment_received"}
  Amounts = {1, 2}
  Days = {0, 1}
  Dates <- MCDates
  MaxRows = 4
SYMMETRY MCSymmetry
SPECIFICATION ReportsSpec
INVARIANTS
  AgingMatchesBalance
  SummaryReconciles
  OldestPaidFirst
PROPERTIES
  DebtOnlyAges
  ReversalUndoes
CHECK_DEADLOCK FALSE
