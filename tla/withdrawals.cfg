CONSTANTS
  r1 = r1
  r2 = r2
  a1 = a1
  t1 = t1
  Requests = {r1, r2}
  Admins = {a1}
  Ticks = {t1}
  MaxWithdrawals = 2
  Amounts = {10}
  Opening = 20
  Unsendable = {1}
SPECIFICATION FairSpec
INVARIANTS Accounting SettledOnce MemoryInStep OneRequestCovered
PROPERTIES SettledForGood ApprovedSettles
CHECK_DEADLOCK FALSE
