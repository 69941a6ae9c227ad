SPECIFICATION ShopSpec
CONSTANTS
  s1 = s1 s2 = s2 k1 = k1 k2 = k2 g1 = g1 g2 = g2 g3 = g3
  m1 = m1 m2 = m2 m3 = m3 m4 = m4 m5 = m5 c1 = c1 x1 = x1
  Communities = {v1}
  Identities = {x1, x2} Phones = {p1} Devices = {d1, d2} Nothing = Nothing
  Householders = {h1} Addresses = {i1, i2, i3} Forms = {d1, d2} NoOne = NoOne
  Shops = {s1, s2} Categories = {k1, k2} Goods = {g1, g2, g3} Editors = {d1, d2}
  NoShop = NoShop NoCategory = NoCategory MaxStock = 1
  Slots = {x1, x2} Times = {0, 1, 2} LastDay = 7
  Taps = {d1, d2} Minimum = 1
  Matters = {m1, m2, m3, m4, m5} KindOf <- MatterKinds
  Refreshers = {d1, d2} Readers = {w1} AlertBatch = 1 NoMatter = NoMatter
  Callers = {c1, c2, c3} ProviderOf <- CallerProviders MaxTokens = 3
  Sales = {x1, x2} ShopOf <- SaleShops LastDate = 3 TrendDays = 2
SYMMETRY Symmetry
CHECK_DEADLOCK FALSE
INVARIANTS
  ShopTypeOK PhoneHasOneOwner OneDefaultAddress ShelvesInOrder DashboardBalances
  RaisedInTime LoneCallGetsThrough
