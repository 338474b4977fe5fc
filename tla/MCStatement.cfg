CONSTANTS
  b1 = b1
  c1 = c1
  NoOffer = NoOffer
  NoRow = NoRow
  Businesses <- MCBusinesses
  Contacts <- MCContacts
  Owner <- MCOwner
  Offers <- MCOffers
  Parties <- MCParties
  Types = {"sale", "payment_received"}
  Amounts = {1, 2}
  Days = {1, 2}
  Filters <- MCFilters
  MaxRows = 3
SPECIFICATION StatementSpec
INVARIANTS
  FooterIsOfThisTable
  ColumnsAddUp
