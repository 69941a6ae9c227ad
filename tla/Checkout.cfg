SPECIFICATION CheckoutSpec
CONSTANTS
  u1 = u1  u2 = u2  p1 = p1  p2 = p2  r1 = r1  r2 = r2  c1 = c1  c2 = c2
  Residents = {u1, u2}
  Products = {p1, p2}
  Requests = {r1, r2}
  Calls = {c1, c2}
  Prices = {1, 2}
  InitialStock = 1
  InitialPrice = 1
  MaxCapacity = 1
  MaxQuantity = 2
  MaxCarts = 1
  MaxEdits = 2
CHECK_DEADLOCK FALSE
SYMMETRY Symmetric
INVARIANTS TypeOK StockConserved OneOrderPerCart ConfirmedIsOrdered
PROPERTIES RetriesReplay CapacityKept SoldOnlyOnSale
