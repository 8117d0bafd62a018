SPECIFICATION TradeSpec
CONSTANTS
  u1 = u1
  u2 = u2
  c1 = c1
  c2 = c2
  inPol = inPol
  inUsdc = inUsdc
  Customers = {u1, u2}
  Calls = {c1, c2}
  Quantities = {1, 2}
  ShopPrice = 1
  RoomPrices <- RoomPricesShort
  Currencies = {inPol, inUsdc}
  PolCurrency = inPol
  SwapAmounts <- EitherSign
  OpeningBalance = 2
  StockLevels = {1, 3}
  OfferPrice = 1
  OfferLimit = 2
  MaxTries = 2
  MaxEdits = 1
  MaxPurchases = 3
  x1 = x1
  x2 = x2
  Taps = {x1, x2}
  Cycle = 2
  Skew = 1
  DayLength = 3
  ClickDelay = 1
  ClickGrace = 2
  HashPerCycle <- OneOrTwo
  DailyLimit = 2
  MaxClock = 5
  MaxSessions = 2
  MaxBanners = 1
SYMMETRY CallSymmetry
INVARIANTS PurchasesCovered GrantsPaced
PROPERTY ImplementsStock
CHECK_DEADLOCK FALSE
