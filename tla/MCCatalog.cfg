CONSTANTS
  slab = slab
  tile = tile
  v = v
  w = w
  e = e
  f = f
  h = h
  k = k
  Lots <- MCLots
  Visitors <- MCVisitors
  Editors <- MCEditors
  Staff <- MCStaff
  i = i
  Inquiries <- MCInquiries
  NoReply = NoReply
  MaxVisits = 2
SPECIFICATION MCSpec
INVARIANTS
  PageIsWhole
  ListIsOneEditors
  ViewsCounted
