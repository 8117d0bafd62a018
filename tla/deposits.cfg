SPECIFICATION Spec
CONSTANTS
  h1 = h1
  H1 = H1
  r1 = r1
  v1 = v1
  v2 = v2
  c0 = c0
  c1 = c1
  s1 = s1
  s2 = s2
  NoHash = NoHash
  Hashes = {h1, H1}
  Lower <- LowerCase
  Requests = {r1}
  Verifiers = {v1, v2}
  Creators = {c0, c1}
  Scanner = c0
  Syncs = {s1}
  MaxRows = 2
  MaxBlock = 3
  Confirmations = 2
  MaxAttempts = 1
  Lookback = 2
  MayRestart = TRUE
INVARIANTS CreditsReal CreditedOnce StatusTruthful CursorHonest
