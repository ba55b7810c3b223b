CONSTANTS
  u1 = u1
  u2 = u2
  Users = {u1, u2}
  Tokens = {t1, t2, t3}
  Passwords = {p1}
  s1 = s1
  s2 = s2
  Slugs <- SlugSequence
  Merchants = {m1}
  Requests = {r1, r2}
  Operations <- OperationsOf
  Grants <- Promotion
  None = None
SPECIFICATION Spec
SYMMETRY Symmetry
CHECK_DEADLOCK FALSE
INVARIANTS
  TypeOK
  RotationRevokes
  LogoutAllEndsSessions
  KeysUnique
