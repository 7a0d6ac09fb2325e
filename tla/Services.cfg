SPECIFICATION ServicesSpec
CONSTANTS
  u1 = u1
  u2 = u2
  u3 = u3
  s1 = s1
  s2 = s2
  t1 = t1
  r1 = r1
  r2 = r2
  a1 = a1
  a2 = a2
  w1 = w1
  w2 = w2
  f1 = f1
  f2 = f2
  j1 = j1
  j2 = j2
  x1 = x1
  x2 = x2
  Focuses = {"refreshes", "resets", "admins", "restrictions", "hub", "reads",
             "support", "account", "reviews", "threads", "moderators", "breaker",
             "limiter"}
  Accounts = {u1}
  SessionIds = {s1, s2}
  ResetIds = {t1}
  Calls = {r1, r2}
  LockThreshold = 2
  LockDuration = 2
  SessionLife = 1
  ResetLife = 1
  Refreshing = {s1}
  MaxRotations = 2
  MaxLost = 1
  Admins = {a1, a2}
  Managers = {a1, a2}
  FirstAdmins = {a1}
  AdminSessions = {s1, s2}
  Desks = {r1, r2}
  Reports = {x1}
  Measures = {s1, s2}
  Outcomes = {"mute_chat"}
  Moderators = {a1, a2}
  KnownAsUsers = {a1}
  MaxEnd = 1
  Sockets = {w1, w2}
  Posts = {r1, r2}
  MaxPosted = 2
  ChatUsers = {u1, u2}
  MaxMessages = 2
  MaxThreads = 2
  SupportCalls = {r1, r2}
  ChatPhotos = {f1}
  TaskPhotos = {f2}
  Devices = {r1, r2}
  Categories <- MCCategories
  Members = {u1, u2, u3}
  Jobs = {j1, j2}
  Customer <- MCCustomer
  Performer <- MCPerformer
  Leaving = {u3}
  Writers = {r1, r2}
  Listings = {r1, r2}
  MaxOfferThreads = 2
  Speakers = {a1, a2}
  Chairs = {r1, r2}
  Sides = {s1}
  Callers = {r1, r2}
  Threshold = 3
  Window = 2
  OpenTime = 2
  Retries = 2
  Limits <- MCLimits
  Guests = {r1, r2}
  MaxNow = 3
  MaxGuests = 3
INVARIANTS
  ServicesTypeOK
  ClientKeepsUp
  NoLateAdmission
  AnAdminRemains
  NoSessionWhileDisabled
  LiftedIsOver
  OutcomeHasRestriction
  NothingMissed
  TruthfulReceipts
  NothingUnreadAgain
  QuietCallHeals
  UserStaysHeard
  ReferencedIsStored
  NothingLiveOfDeleted
  QuietSetsRight
  ThreadSettles
  IntroducedFirst
  WithinLimits
PROPERTIES
  OpensForCause
  TimeHeals
CHECK_DEADLOCK FALSE
