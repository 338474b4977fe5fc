CONSTANTS
  b0 = b0
  b1 = b1
  b2 = b2
  p1 = p1
  s1 = s1
  s2 = s2
  None = None
  Businesses <- MCBusinesses
  Requests <- MCRequests
  Buyer <- MCBuyer
  OfferIds <- MCOfferIds
  MaySuspend <- MCSuspects
  Sessions <- MCSessions
SPECIFICATION FairSpec
INVARIANTS
  OneOpenOffer
  StatusFollowsOffers
  SettledUnlessRaced
PROPERTIES
  AcceptanceIsWhole
  DecisionsStand
  OthersDecisionsStand
  EveryRequestEnds
CHECK_DEADLOCK FALSE
