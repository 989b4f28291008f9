SPECIFICATION RecordsSpec
CONSTANTS
  t1 = t1
  t2 = t2
  Threads = {t1, t2}
  MaxWorkflows = 2
  MaxJobs = 10
  NewCustomer = TRUE
  SameBilling = FALSE
  OldShipping = TRUE
  OldBilling = TRUE
  MaxDups = 1
  MaxActs = 2
  MaxFaults = 1
  a1 = a1
  a2 = a2
  Agents = {a1, a2}
  MaxRequests = 3
  MaxAgain = 1
  MaxBreaks = 1
  o1 = o1
  Orders = {o1}
  Contacts <- MCContacts
  Mails = {"mail"}
  ShopTells <- MCShopTells
  ErpTells <- MCErpTells
  MaxRows = 3
  MaxErrands = 3
  v1 = v1
  v2 = v2
  Commands = {v1, v2}
  MaxBelege = 3
  MaxOutcomes = 3
  MaxStarts = 3
  MaxChanges = 1
  p = p
  q = q
  Conditions = {p, q}
  MaxSaves = 3
  Cats = {1, 2, 3}
  Root = 1
  PageSize = 2
  variant = variant
  family = family
  Products = {variant}
  Variants = {variant}
  Parent = family
  MaxLinks = 1
  MaxCatEvents = 2
  MaxImports = 1
  r1 = r1
  r2 = r2
  d1 = d1
  d2 = d2
  Vacations = {r1, r2}
  Desks = {d1, d2}
  LastDay = 3
  YearEnd = 2
  WorkDays = {1, 2, 3}
  MaxForms = 2
  DayMinutes = 5
  MaxHalves = 1
  w1 = w1
  w2 = w2
  Addresses = {w1, w2}
  u1 = u1
  u2 = u2
  Clients = {u1, u2}
  MaxNumbers = 2
  MaxUpsertEvents = 1
  MaxUpsertFaults = 1
  m1 = m1
  Transfers = {m1}
  Spots = {0, 1, 2, 9}
  NoSpot = 0
  Wordings = {1, 2, 3}
  Phones = {"", "phone"}
  NoPhone = ""
  Rests = {"at", "de", "desk"}
  Placed <- MCPlaced
  Worded <- MCWorded
  Country <- MCCountry
  Typed <- MCTyped
  MaxEntries = 3
  MaxShopEntries = 2
  MaxEntryEdits = 1
INVARIANTS TypesOK ChainIsCarriedOut OneCallRepeatedPerAct LatestRequestWins ImportSettlesAddresses OneVorgang EnginesAgree PathsAgree TreeStaysATree SyncsAgree NoDayIsChargedTwice YearsAddUp  UpsertLands MirrorHolds
PROPERTY OrdersAreNotLost
SYMMETRY Interchanged
CHECK_DEADLOCK FALSE
