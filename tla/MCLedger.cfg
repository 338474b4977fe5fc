CONSTANTS
  b1 = b1
  c1 = c1
  c2 = c2
  o1 = o1
  s1 = s1
  s2 = s2
  NoOffer = NoOffer
  NoSession = NoSession
  NoRequest = NoRequest
  Businesses <- MCBusinesses
  Contacts <- MCContacts
  Owner <- MCOwner
  Offers <- MCOffers
  Parties <- MCParties
  Sessions <- MCSessions
  Works <- MCWorks
  Managers <- MCSessions
  Types = {"sale", "payment_received"}
  Amounts = {1}
  Days = {0}
  MaxEntries <- MCMaxEntries
SPECIFICATION FairSpec
INVARIANTS
  TypeOK
  RunningBalance
  OneLiveTrade
  ReversalPaired
  NoCircularWait
  NoTradeDropped
PROPERTIES
  EntriesImmutable
  ImplementsBook
  EveryRequestEnds
CHECK_DEADLOCK FALSE
