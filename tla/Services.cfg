SPECIFICATION Spec
CONSTANTS
  Parts = {"plans", "autopilot", "payments"}
  Plans = {p1, p2}
  ItemIds = {i1, i2}
  Subjects = {s1}
  Values = {x1, x2}
  Editors = {e1, e2}
  Appliers = {a1, a2}
  MoreImports = {"change_plan_tasks"}
  Orgs = {o1}
  Problems = {q1, q2}
  Windows = {d1}
  RunIds = {r1, r2}
  Handlers = {h1}
  Workers = {w1}
  PayIds = {y1, y2}
  TxIds = {t1, t2, t3, t4}
  Tops = {c1}
  Groups = {g1}
  Ads = {k1}
  TreeUsers = {z1}
  Statuses = {}
  Drafts = {z1}
  MagicRuns = {m1}
  ExtIds = {z1}
  LaunchIds = {l1}
  Publishers = {z1}
  MaxAds = 1
  VkLimit = 1
  Asked = {"yandex"}
  Tenants = {z1}
  Conns = {z1}
  Exps = {v1}
  Camps = {z1}
  Channels = {"yandex"}
  Kinds = {"clicks"}
  MaxDay = 1
  MaxRows = 1
  MaxListed = 0
  Amounts = {0, 2}
  Tests = {v1}
  Starters = {z1}
  TestChannels = {"yandex"}
  MaxList = 1
  Budgets = {5}
  ListedIds = {z1}
  CatalogAds = {k1}
  BuiltAds = {k2}
  Pages = {"page"}
  UtmKeys = {"utm_campaign"}
  Reconcilers = {z1}
  UrlEditors = {z1}
  ErirIds = {j1}
  MaxDeliveries = 1
  MaxEdits = 2
  Services = {}
  MaxWorth = 0
  MaxItems = 0
  MaxThemes = 0
  MaxVoices = 0
  MaxVideos = 0
  MaxImages = 0
  MaxMsgs = 1
  Links = {c1}
  Kids = {}
  Servers = {w1}
  Rotators = {}
  Codes = {202}
  MaxTries = 1
  MaxChanges = 0
  None = None
SYMMETRY Symmetry
CHECK_DEADLOCK FALSE
INVARIANTS
  AppliedPlansAreWhole
  DesiredFromPlans
  OneDraftEach
  SuccessIsDrafted
  LedgerFollowsProvider
  BookedOnce
