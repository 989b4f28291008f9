SPECIFICATION BackgroundSpec
CONSTANTS
  MaxSpecials = 1
  MaxRebates = 1
  MaxPriceEdits = 2
  MaxPriceFaults = 1
  r1 = r1
  r2 = r2
  Runs = {r1, r2}
  MaxPrices = 2
  MaxImages = 2
  MaxShopEdits = 2
  MaxShopFaults = 1
  c1 = c1
  c2 = c2
  empty = empty
  a = a
  Clerks = {c1, c2}
  Texts = {empty, a}
  EmptyText = empty
  Setups = {0, 1}
  Clearing = {1}
  Retries = 1
  MaxSent = 1
  MaxEdits = 1
  MaxMishaps = 1
  s1 = s1
  s2 = s2
  Slots = {s1, s2}
  MaxVisits = 3
  MaxOutages = 2
  d1 = d1
  d2 = d2
  art1 = art1
  art2 = art2
  x = x
  y = y
  Articles = {art1, art2}
  Options = {x, y}
  VariantRuns = {d1, d2}
  MaxFamilyEdits = 1
  MaxFamilyFaults = 1
  Offices = {d1, d2}
  Prices = {3, 5}
  Rebates = {0, 2}
  NewTargets = {0, 4}
  Percents = {1, 2}
  Factor = 2
  MaxVisitsPaid = 3
  MaxPriceMoves = 1
  pens = pens
  mugs = mugs
  Paths = {pens, mugs}
  TreeRows = {1, 2, 3}
  Sw5Ids = {1, 2}
  MaxTreeEdits = 1
INVARIANTS TypesOK RebateSurvives HashTellsMedia SkippedIsTranslated ShopIsTold FlagTellsWindow VariantsMatch IncreasedOnce IdsAreKept
PROPERTIES ExpiredSpecialLeaves ShopCatchesUp ChangesAreTranslated FlagIsCleared
CHECK_DEADLOCK FALSE
