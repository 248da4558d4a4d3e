SPECIFICATION FairSpec
CONSTANTS
  Parts = {"plans", "autopilot", "payments", "urls"}
  Plans = {p1, p2}
  ItemIds = {i1}
  Subjects = {s1}
  Values = {x1, x2}
  Editors = {e1}
  Appliers = {a1}
  MoreImports = {"change_plan_tasks"}
  Orgs = {o1}
  Problems = {q1}
  Windows = {d1}
  RunIds = {r1, r2}
  Handlers = {h1}
  Workers = {w1}
  PayIds = {y1}
  TxIds = {t1, t2, t3, t4}
  Tops = {c1}
  Groups = {g1}
  Ads = {k1}
  TreeUsers = {e1}
  Statuses = {}
  Drafts = {r1}
  MagicRuns = {m1}
  ExtIds = {a1}
  LaunchIds = {l1}
  Publishers = {e1}
  MaxAds = 1
  VkLimit = 1
  Asked = {"yandex"}
  Tenants = {e1}
  Conns = {a1}
  Exps = {v1}
  Camps = {r1}
  Channels = {"yandex"}
  Kinds = {"clicks"}
  MaxDay = 1
  MaxRows = 1
  MaxListed = 0
  Amounts = {0, 2}
  Tests = {v1}
  Starters = {a1}
  TestChannels = {"yandex"}
  MaxList = 1
  Budgets = {5}
  ListedIds = {r1}
  CatalogAds = {k1}
  BuiltAds = {k2}
  Pages = {"page"}
  UtmKeys = {"utm_campaign"}
  Reconcilers = {a1, a2}
  UrlEditors = {}
  ErirIds = {}
  MaxDeliveries = 1
  MaxEdits = 2
  Services = {}
  MaxWorth = 0
  MaxItems = 0
  MaxThemes = 0
  MaxVoices = 0
  MaxVideos = 0
  MaxImages = 0
  MaxMsgs = 1
  Links = {c1}
  Kids = {}
  Servers = {w1}
  Rotators = {}
  Codes = {202}
  MaxTries = 1
  MaxChanges = 0
  None = None
CHECK_DEADLOCK FALSE
PROPERTIES
  ExecutedPlansEnd
  AutomationRunsEnd
  PaidIsRecorded
  UrlsConverge
