SPECIFICATION FairBSpec
CONSTANTS
  r1 = r1
  r2 = r2
  Open = Open
  Players = {1, 2}
  Runs = {r1, r2}
  MaxTime = 1
  Intervals = {1, 2}
  Rewards = {0, 3}
  Rates = {0, 1, 2}
  p1 = p1
  p2 = p2
  s1 = s1
  Pipelines = {p1, p2}
  NoPipeline = NoPipeline
  StopCalls = {s1}
  MaxAttempts = 1
  MaxRetries = 2
  w1 = w1
  w2 = w2
  rd1 = rd1
  o1 = o1
  Writers = {w1, w2}
  Readers = {rd1}
  Postings = {o1}
  Amounts <- SpentOrReceived
  Costs = {1}
  Reward = 2
  Opening = 3
  MaxMoves = 3
INVARIANTS WithinPool ToldOnce StreamsHeld StopsHold BooksBalance NoPhantomBalance
PROPERTIES ImplementsWindows ToldAll KeepsTrying SpendsWritten
CHECK_DEADLOCK FALSE
