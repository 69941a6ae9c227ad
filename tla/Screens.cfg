SPECIFICATION ScreensSpec
CONSTANTS
  Choices = {x1, x2} Bills = {x1, x2} Entries = {x1, x2} Rows = {x1, x2} Areas = {x1, x2}
  Sends = {d1, d2} Queries = {d1, d2} Clicks = {d1, d2} Fetches = {d1, d2} Asks = {d1, d2}
  Submissions = {i1, i2} Remarks = {n1}
  Nearby = {n1} Offers = {x1, x2} Shelving = {n1} Loads = {d1, d2, d3}
  LastOffer = 1
  Filters <- TwoFilters AllOrders = "ALL"
  NoChoice = NoChoice NoSubmission = NoSubmission NoBill = NoBill NoQuery = NoQuery
  NoEntry = NoEntry NoRemark = NoRemark NoStatus = NoStatus
  NewRow = NewRow NoRow = NoRow NoArea = NoArea NoProfile = NoProfile
  Nowhere = Nowhere NoOffer = NoOffer AllShelves = AllShelves Nothing = Nothing Failed = Failed
SYMMETRY Symmetry
INVARIANTS
  ScreensTypeOK SubmittedIsRemembered  WrittenWhereMeant  ShownIsAsked
