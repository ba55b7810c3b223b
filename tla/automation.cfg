CONSTANTS
  Carts = {c1}
  Requests = {r1, r2}
  Activities <- ActivitiesOf
  MaxOrders = 1
  MaxFailures = 1
  u1 = u1
  u2 = u2
  code = code
  codeU = codeU
  codeU1 = codeU1
  codeU2 = codeU2
  Users = {u1, u2}
  Candidates <- CandidatesOf
  MaxOffers = 3
  Ids = {i1, i2}
  MaxAnswers = 2
  Campaigns = {k1, k2}
  Vouchers = {code}
  MaxDate = 2
  Devices = {d1}
  MaxInbox = 2
  None = None
SPECIFICATION AllSpec
CHECK_DEADLOCK FALSE
INVARIANTS
  TypesOK
  ReportedOnce
  OffersUnique
  AcceptedOnce
  CampaignsSound
  PushesReachOwner
PROPERTIES
  ConversionKept
  DueReported
