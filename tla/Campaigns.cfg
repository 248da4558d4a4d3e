SPECIFICATION Spec
CONSTANTS
  Parts = {"tree", "launches", "figures", "experiments", "urls", "erir", "assistant", "keys", "fetches"}
  Plans = {p1}
  ItemIds = {i1}
  Subjects = {s1}
  Values = {x1}
  Editors = {e1}
  Appliers = {a1}
  MoreImports = {"change_plan_tasks"}
  Orgs = {o1}
  Problems = {q1}
  Windows = {d1}
  RunIds = {r1}
  Handlers = {h1}
  Workers = {w1}
  PayIds = {y1}
  TxIds = {t1}
  Tops = {c1}
  Groups = {g1}
  Ads = {k1}
  TreeUsers = {e1, e2}
  Statuses = {"paused"}
  Drafts = {r1, r2}
  MagicRuns = {m1}
  ExtIds = {a1, a2}
  LaunchIds = {l1}
  Publishers = {b1, b2}
  MaxAds = 2
  VkLimit = 1
  Asked = {"yandex", "vk"}
  Tenants = {e1, e2}
  Conns = {a1, a2}
  Exps = {v1}
  Camps = {r1, r2}
  Channels = {"yandex", "vk"}
  Kinds = {"clicks", "leads"}
  MaxDay = 2
  MaxRows = 2
  MaxListed = 1
  Amounts = {0, 2}
  Tests = {v1}
  Starters = {a1, a2}
  TestChannels = {"yandex", "vk"}
  MaxList = 2
  Budgets = {5, 7}
  ListedIds = {r1, r2}
  CatalogAds = {k1}
  BuiltAds = {k2}
  Pages = {"page"}
  UtmKeys = {"utm_campaign"}
  Reconcilers = {a1, a2}
  UrlEditors = {e1}
  ErirIds = {j1}
  MaxDeliveries = 2
  MaxEdits = 2
  Services = {"gigachat", "openrouter", "openai", "elevenlabs", "heygen"}
  MaxWorth = 2
  MaxItems = 1
  MaxThemes = 1
  MaxVoices = 2
  MaxVideos = 1
  MaxImages = 1
  MaxMsgs = 1
  Links = {c1, g1}
  Kids = {y1, t1}
  Servers = {a1}
  Rotators = {b1, b2}
  Codes = {202, 400, 404, 502}
  MaxTries = 5
  MaxChanges = 2
  None = None
CHECK_DEADLOCK FALSE
INVARIANTS
  TypeOK
  LogAccountsForTree
  LaunchesAreWhole
  DashboardsAgree
  BudgetConserved
  ErirFollows
  ErrandsSpendWell
  ConnectionsServe
