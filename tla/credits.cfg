SPECIFICATION CreditSpec
CONSTANTS
  d1 = d1
  d2 = d2
  w1 = w1
  w2 = w2
  Demand = {d1, d2}
  Readers = {w1, w2}
  Maxima = {1, 2}
  MaxOffered = 2
  Limits = {1}
  MaxPeriod = 1
  q1 = q1
  q2 = q2
  Errand = {q1, q2}
  MaxTime = 3
  DayTicks = 2
  WatchCost = 1
  GpuCost = 1
  WatchLimit = 1
  GpuLimit = 1
  Gpus = {1, 2}
  Cooldown = 2
  n1 = n1
  n2 = n2
  k1 = k1
  k2 = k2
  Hands = {n1, n2}
  MaxTick = 3
  Rest = 2
  Duration = 2
  Early = 1
  Late = 1
  MaxRounds = 2
  Sockets = {k1, k2}
  Goal = 2
  MinPlay = 1
INVARIANTS ErrandsPaced CampaignsPaid GamesPaced
CHECK_DEADLOCK FALSE
