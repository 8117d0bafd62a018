CONSTANTS
  r1 = r1
  r2 = r2
  a1 = a1
  t1 = t1
  Requests = {r1}
  Admins = {a1}
  Ticks = {t1}
  MaxWithdrawals = 2
  Amounts = {10, 15}
  Opening = 30
  Unsendable = {}
SPECIFICATION Spec
PROPERTIES SentOnlyIfApproved
CHECK_DEADLOCK FALSE
