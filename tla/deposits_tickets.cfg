SPECIFICATION FairTSpec
CONSTANTS
  h1 = h1
  H1 = H1
  c0 = c0
  c1 = c1
  r1 = r1
  v1 = v1
  v2 = v2
  d1 = d1
  a1 = a1
  a2 = a2
  NoHash = NoHash
  Hashes = {h1}
  Lower <- LowerCase
  Creators = {c1}
  Scanner = c0
  Requests = {r1}
  Verifiers = {v1}
  Syncs = {}
  MaxRows = 2
  MaxBlock = 2
  Confirmations = 1
  MaxAttempts = 1
  Lookback = 2
  MayRestart = FALSE
  Staff = {a1, a2}
  Drafts = {d1}
  MaxTickets = 2
  MaxOpenTickets = 2
INVARIANTS TicketSettledOnce CreditedOneWay
PROPERTY PendingResolves
