CONSTANTS
  Calls = {k1, k2}
  Customer = customer
  Couriers = {courier}
  Strangers = {stranger}
  Shop = shop
  Drivers = {d1, d2}
  Requests = {r1, r2}
  MaxMessages = 2
  Subscribers = {u1, u2}
  Sockets = {s1, s2}
  Rooms = {x1}
  Senders = {m1}
  MaxEntries = 3
  None = None
SPECIFICATION AllSpec
SYMMETRY Symmetry
CHECK_DEADLOCK FALSE
INVARIANTS
  TypesOK
  CallsAreFinal
  TalkStaysInOrder
  ConnectionsSound
  SendReachesAll
