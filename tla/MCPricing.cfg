CONSTANTS
  c1 = c1
  c2 = c2
  v = v
  w = w
  Contacts <- MCContacts
  Partners <- MCPartners
  Readers <- MCReaders
  NoLink = NoLink
  Public = Public
  NoReader = NoReader
  Quotes <- MCQuotes
  Inquiry = Inquiry
  NoPrice = NoPrice
SPECIFICATION Spec
INVARIANTS
  OneOverride
  OnlyWhatWasOffered
  ShownWasMeant
