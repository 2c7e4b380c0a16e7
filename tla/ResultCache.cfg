\* Two tables, with a shared store or without, and a query of each, one of
\* which a caller's tag ties to the other table; stores of one entry.
CONSTANTS
  users = users
  orders = orders
  one = one
  joined = joined
  Clients = {c1, c2}
  Queries = {one, joined}
  Tables = {users, orders}
  Table <- TableOf
  ExtraTags <- Extra
  MaxEntries = 1
  Shared = shared
  MaxWrites = 2
  MaxFaults = 1
SYMMETRY AnyClient
SPECIFICATION Spec
INVARIANTS
  FreshUnlessOverlapped
