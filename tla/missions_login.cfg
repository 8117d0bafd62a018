SPECIFICATION ESpec
CONSTANTS
  p1 = p1
  p2 = p2
  mLogin = mLogin
  mGame = mGame
  tLogin = tLogin
  g1 = g1
  b1 = b1
  b2 = b2
  Players = {p1, p2}
  NoPlayer = NoPlayer
  Missions = {mLogin, mGame}
  Tasks = {tLogin}
  LoginGoals = {mLogin, tLogin}
  Target <- TaskTwo
  MissionXp = 2
  Games = {g1}
  GameOwner <- OwnedByFirst
  MaxDay = 2
  Buyers = {b1, b2}
  XpPerLevel = 3
  MaxLevel = 2
  LevelPrice = 4
  PassPrice = 4
  RewardLevels = {2}
  LevelReward = 1
  OpeningPol <- FirstHasFour
  k1 = k1
  k2 = k2
  hGood = hGood
  HGood = HGood
  hBad = hBad
  Visits = {k1, k2}
  Payments = {hGood, HGood, hBad}
  Transaction <- PaidBy
  Valid = {hGood, HGood}
  FreeHash <- FreeHashes
  MaxDate = 2
  Milestones = {2}
INVARIANT LoginCounts
CHECK_DEADLOCK FALSE
