SPECIFICATION LSpec
CONSTANTS
  w1 = w1
  w2 = w2
  rd1 = rd1
  p1 = p1
  p2 = p2
  Writers = {w1}
  Readers = {rd1}
  Postings = {p1}
  Amounts <- MCAmounts
  Costs = {1}
  Reward = 2
  Opening = 3
  MaxMoves = 3
INVARIANT RollbackRestores
