CONSTANTS
  Shops = {a1, a2}
  Items = {i1}
  Groups = {g1}
  Options = {o1}
  Prices = {1, 2}
  Places = {a1, a2}
  MaxFinishes = 3
  Versions = {a1, a2}
  Orders = {b1, b2}
  Requests = {r1, r2}
SPECIFICATION AllSpec
SYMMETRY Symmetry
CHECK_DEADLOCK FALSE
INVARIANTS
  TypesOK
  ShownIsOrderable
  RatingsCurrent
  DriversSound
  SettingsWhole
PROPERTIES
  NothingReturns
