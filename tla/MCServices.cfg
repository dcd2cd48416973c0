SPECIFICATION Spec
CONSTANTS
  Parts = {"payouts", "offers", "web", "phone", "gateway", "wallet", "support", "tracking",
           "uploads", "identity", "nfe", "twofa", "accounts", "favorites", "reviews", "notices",
           "follows", "methods", "search"}
  Slots = {x1, x2, x3}
  Keys = {k1, k2}
  Resolving = {k2}
  MaxReplies = 1
  Users = {"ana", "bia"}
  Payouts = {"p1", "p2", "p3"}
  Owner <- OwnerDef
  Amount <- AmountDef
  Earned <- EarnedDef
  Reviewed = {"p1"}
  Ops = {d1, d2}
  MaxFaults = 1
  MaxCrashes = 1
  MaxCounters = 1
  PageSize = 2
  MaxMessages = 3
  MaxPolls = 2
  MaxDrops = 1
  Sockets = {w1, w2, w3}
  MaxSockets = 2
  MaxNews = 2
  Ads = {a1, a2, a3}
  Reward = 2
  PriceOf <- PricesDef
  MaxCompletions = 2
  MaxFailures = 1
  Tries = {c1, c2}
  Hosts = {h1, h2}
  Goods = {g1}
  Backs = {b1}
  BatchSize = 1
  MaxTrouble = 1
  Uploaders = {u1, u2}
  ObjectKeys = {k1}
  Admins = {d1}
  MaxLosses = 1
  CafSessions = {s1, s2}
  CafEvents = {e1, e2}
  HasEventId = {e1}
  MaxDeaths = 1
  Askers = {n1, n2}
  Attempts = 2
  MaxOutages = 2
  Senders = {s1, s2}
  Users2fa = {u1, u2}
  Phones = {p1}
  MaxSends = 1
  MaxCodes = 3
  MaxMisses = 1
  AccountIds = {i1, i2}
  Registrars = {r1, r2}
  Links = {l1, l2}
  MaxChanges = 1
  Screens = {f1, f2}
  Handset = f1
  MaxBreaks = 1
  Completed = {o1, o2}
  Clicks = {c1, c2}
  MaxCutOffs = 1
  Causes = {c1, c2, c3}
  Urgent = {c3}
  DailyCap = 1
  Devices = {t1}
  DeviceUsers = {v1, v2}
  Addressee = v1
  MaxAway = 1
  Members = {y1, y2}
  MaxFollows = 3
  PixKeys = {q1, q2, q3}
  Forms = {f1, f2}
  MaxMethods = 2
  MaxForms = 4
  SyncJobs = {s1, s2}
  MaxEdits = 2
  MaxWrites = 3
  MaxAdrift = 1
CHECK_DEADLOCK FALSE
INVARIANTS NoOverdraft RefundedOnce AutomaticRefundIsRight OfferChain MessagesShownOnce SocketsTracked WalletAddsUp RetriesWriteOnce AnsweredIsKept ProvidersBelieved SignInsKept RowsAgree
