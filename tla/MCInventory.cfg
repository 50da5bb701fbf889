\* Two requests, three items, one of them free, and a key that expires.
SPECIFICATION Spec
CONSTANTS
  r1 = r1
  r2 = r2
  i1 = i1
  i2 = i2
  i3 = i3
  kPaid = kPaid
  Requests = {r1, r2}
  Items = {i1, i2, i3}
  NoItem = NoItem
  NoKey = NoKey
  Keys = {NoKey, kPaid}
  Tiers = {"free", "paid"}
  Free = "free"
  KeyTier <- PaidTier
  Expiry <- Expires
  Cap <- OneFreeItem
  MaxImport = 2
  MaxTime = 1
SYMMETRY InventorySymmetry
INVARIANTS
  TypeOK
  AddedSurvives
  InSync
  CapBounded
  KeySurvives
