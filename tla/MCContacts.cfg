CONSTANTS
  c1 = c1
  c2 = c2
  me = me
  v = v
  s1 = s1
  s2 = s2
  Contacts <- MCContacts
  Businesses <- MCBusinesses
  Sessions <- MCSessions
  Self = me
  Names = {"hall", "yard"}
  NoLink = NoLink
  NoRequest = NoRequest
SPECIFICATION MCSpec
INVARIANTS
  DefaultWarehouse
PROPERTIES
  NothingTakenBack
  ImplementsContactBook
