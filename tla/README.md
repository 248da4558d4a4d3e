# Verification of parser2 (advertising analytics service)

TLA+ models of the service in `src/app/` (FastAPI + SQLAlchemy on PostgreSQL,
Celery workers on a Redis broker), model-checked with TLC and, where it says so,
proved with TLAPS for every value of the constants.

## 1. The system

An *organization* has *members* with roles and *connections* to advertising
platforms (Yandex, VK, Ozon, ...). A *sync run* fetches the daily figures of a
connection and upserts them as *metric snapshots*; visitor *events* posted by a
site add conversions to the snapshots of the same campaign. From the
snapshots the service computes dashboards, recommendations and automations, and
it applies *change plans* and *budget experiments*. Tenants pay through a
provider (YooKassa). All state is in PostgreSQL; an HTTP request and a Celery task
each have a database session, several of both run at the same time, and the
code commits often within one operation, so what matters is what another
session can see between two commits.

### Components

| Part | State | Operations | Hard behaviour |
|---|---|---|---|
| Sync runs and jobs (`api/sync_runs.py`, `api/connections.py`, `api/experiments.py`, `services/sync_run_service.py`, `jobs/service.py`, `workers/sync_tasks.py`, `services/lock_service.py`) | `sync_runs`, `job_runs`, broker queue, advisory locks | request, create job and run, enqueue, execute, succeed, fail, reject | check-then-create race, lock gone at the first commit, redelivery, loss of a worker, two rows that must agree |
| Auto-sync scheduler (`workers/auto_sync_tasks.py`) | `connections.last_auto_sync_at`, advisory lock | scan, create, stamp | stale reads in the loop, overlap with requests and other executions |
| Metric store (`services/sync_service.py`, `services/event_service.py`, `api/integrations.py`, `workers/yandex_tasks.py`) | `metric_snapshots`, `ad_campaigns` | sync of a connection, of an experiment; event; import | concurrent upserts under two unique indexes, lost update of a counter, partial commits |
| Catalogue and UTM (`services/ad_catalog_service.py`, `services/utm_service.py`, `services/utm_reconcile_service.py`, `workers/utm_tasks.py`, `api/catalog.py`) | `ad_ad_groups`, `ad_ads`, `org_utm_settings`, `org_utm_rules` | refresh after a sync, change settings, rules and targets, reconcile | a reconciliation that works with what it read before a change |
| Organizations (`api/orgs.py`, `api/invites.py`, `api/auth.py`, `api/deps.py`, `services/rbac.py`, `services/invite_service.py`) | `organizations`, `memberships`, `org_invites`, `users.active_organization_id` | create, invite, accept, revoke, resend, change role, remove, leave, switch | owner count checked and changed in separate steps, invite accepted while revoked, stale active organization |
| Change plans (`services/change_plans_service.py`, `api/change_plans.py`, `workers/change_plan_tasks.py`) | `change_plans`, `change_plan_items`, the `desired_*` columns of the catalogue | create, add item, make ready, execute, apply | a status checked and committed in separate steps, execute requested twice, two workers on one plan, items of which some fail, a task the worker does not know |
| Automations (`services/automation_service.py`, `workers/automation_tasks.py`, `api/automation.py`) | `org_automation_settings`, `org_automation_runs`, `org_automation_actions` | schedule, run, switch on and off | check-then-create of the running run, partial commit by a failure, a run left running, drafts made twice |
| Recommendations (`services/recommendations_service.py`, `api/recommendations.py`) | `org_recommendations` | compute, upsert, resolve | a recompute that meets a resolve or a run |
| ERIR (`api/erir.py`, `workers/erir_tasks.py`) | `erir_events`, `job_runs` | register, execute | event and job committed one after the other, each may be lost or fail, and the message may be delivered twice |
| Billing and payments (`services/billing.py`, `services/yookassa_service.py`, `api/billing.py`, `api/payments.py`) | `billing_transactions`, `billing_accounts`, `billing_documents` | create payment, webhook, demo top-up, open account, invoice | a webhook repeated, or handled before the answer to the creation; an answer that is lost |
| Budget experiments (`services/experiment_service.py`, `services/experiment_engine.py`, `workers/experiment_tasks.py`, `api/experiments.py`, `api/plans.py`) | `experiments`, `experiment_rounds`, `budget_allocations` | start a test, start, close a round, replace the campaigns | several commits in one start, starts at once, remainders of the split |
| Campaigns and builder (`api/campaigns.py`, `api/builder.py`, `services/campaign_service.py`) | `campaigns`, `campaign_ad_groups`, `campaign_ads`, `campaign_events`, `builder_*`, `audit_events` | create, update, delete, publish, pause, archive, list | rows deleted under a request, cascades with stale reads, a log in a second commit |
| Magic runs, drafts, publishing (`services/magic.py`, `services/magic_launch.py`, `services/integrations.py`, `services/campaign_publisher.py`, `services/platforms/`) | `magic_runs`, `draft_*`, campaigns at the platform | process, launch, import, publish | remote calls that half succeed, a draft published twice, a draft made in part |
| Dashboards (`api/metrics.py`, `api/dashboard.py`, `services/metrics_service.py`, `services/dashboard_service.py`, `services/dashboard_unified_service.py`) | none: they read `metric_snapshots` | series, totals, breakdown, KPI, charts, report | the same clicks at several levels, under several keys, asked for in ten ways |
| AI helpers (`core/ai/`, `services/ai_intelligence.py`, `services/creative_studio.py`, `services/cascade_pipeline.py`, `services/competitor_intelligence.py`) | a cached token, the answers of an errand | ask one service, fall back, ask all, make media | refusals midway, answers lost after they were paid for, tokens that expire, replies that cannot be read |
| Connections (`api/connections.py`, `security/credentials_crypto.py`, `cli.py`, `connectors/`, `services/connector_service.py`) | `connections`, the keys each process has read | create, check, rotate, fetch | processes with different keys, a rotation that overlaps others, reports that are not ready |
| A/B tests, optimizers, analytics, reports, notifications, accounts | | | see section 5 |

The web UI (`src/apps/web`), OAuth, report rendering, notifications, migrations
and scripts keep no state of their own that a model would say something about;
`PROJECT.json` lists each with the reason.

How they interact: a sync asks a connector (`Connections`) for figures, stores
them (`MetricStore`) and reports its end (`SyncRuns`); the stored rows are what
the dashboards (`Figures`) and automations (`Autopilot`) read; a change plan sets
the desired URLs that the reconciliation marks (`AdUrls`); generated ads
(`Assistant`) become drafts that are published (`Launches`). Each of these is a
hand-over of rows that were committed, so each component is modelled with its
own writers, and what another one hands over is an arbitrary row.

## 2. Modules

| Module | Models | Rests on |
|---|---|---|
| `SyncRuns` | sync runs, jobs, the scheduler, the broker, advisory locks | |
| `SyncRunLifecycle` | the abstract lifecycle a client that polls a run relies on | |
| `MetricStore` | `metric_snapshots` and `ad_campaigns` under all their writers | |
| `OrgMembers` | accounts, organizations, memberships, invites, the active organization | |
| `ChangePlans` | change plans, their items, the task that applies them | `Deployment` |
| `Autopilot` | automation runs, settings, scheduler, drafts of actions; recommendations | `Deployment` |
| `Payments` | payments at the provider, their webhooks, the transactions | `Deployment` |
| `CampaignTree` | campaigns, ad groups, ads, and the builder's; their logs and listings | `Deployment` |
| `Launches` | magic runs, one-click launches, drafts, both publications | `Deployment` |
| `Figures` | what every screen counts of `metric_snapshots` | `Deployment` |
| `Experiments` | budget tests: starts, rounds, splits | `Deployment` |
| `AdUrls` | UTM marks and their reconciliation; the registration with ERIR | `Deployment` |
| `Assistant` | AI errands: choice of services, fallback, tokens, media | |
| `Connections` | connections, keys and their rotation, fetches | `Deployment` |
| `Deployment` | the constants they share: `None`, messages in the broker | |
| `MCSyncRuns`, `MCMetricStore`, `MCOrgMembers` | symmetry and constant values for TLC | the module they extend |
| `MCServices` | the ten components from `ChangePlans` on, side by side | these |
| `SyncRunsProofs`, `MetricStoreProofs`, `OrgMembersProofs` | theorems and proofs | the module they extend, TLAPS |
| `ChangesProofs` | theorems and proofs | `ChangePlans`, `Autopilot`, `Payments`, TLAPS |
| `CampaignsProofs` | theorems and proofs | `CampaignTree`, `Launches`, TLAPS |
| `LinksProofs` | theorems and proofs | `Connections`, `AdUrls`, TLAPS |
| `FiguresProofs` | what sums over finite sets are; theorems and proofs | `Experiments`, `Figures`, TLAPS |
| `ServicesProofs` | theorems and proofs of `Assistant` and of the composition | `MCServices` and the four before |

Common conventions. One action is one statement or one commit that another
process can come between; consecutive statements that only touch a session's own
objects are part of the same action. A table is a function from row identities
to rows, with `None` for a row that does not exist. A process has a control
variable (`cpc`, `wpc`, `spc`, `hpc`, `pc`) and what it has read, because the
code goes on with what it read whatever happened since. What SQLAlchemy does at
a commit is modelled: it writes only the columns that the session changed, by
primary key, and a deleted row makes the write fail. Definitions followed by
"Mutant of" in their comment are plausible bugs; no specification uses them.

### SyncRuns

A request or a scheduler (a *creator*) checks that its connection has no run
`queued` or `running`, commits the job row, commits the run row, then sends the
message. A worker takes a message, tries the advisory lock of the target,
commits `running` (which ends the transaction and with it the lock), updates the
job in a further transaction, runs the sync logic, and commits `success` or
`failed` and again the job. `Released` is where an advisory lock is lost; a
`Raise` can come at every statement between `MarkRunning` and the end, and
`FailRun` then writes what the ORM object still shows (`OrmStatus`). `Redeliver` and
`Crash*` are the broker's and the operating system's part, bounded by `MaxDup`
and `MaxCrash`. An experiment's run has no job row and no check before it.
`JobStatus` and `RunStatus` have `"none"` for a row that does not exist.

`SyncRunLifecycle` says what a client that polls may rely on: waiting,
working, done, in this order, or turned away at once; every run that was
accepted ends. `SyncRuns` instantiates it with the phase of each run's status.

### MetricStore

A sync fetches figures, then for each record inserts it or, if a unique index
has it already, updates it when it differs, and commits everything at once;
then it refreshes the catalogue in a second transaction. The model has
PostgreSQL's part: a row written by an open transaction is locked, an insert
that conflicts with it waits, a cycle of waits loses one transaction. The
conflict target is the code's: a sync of an experiment names
`uq_metric_campaign`, so a day that its plan's connection already synced
violates `uq_metric_connection_campaign` and the sync fails. `force` skips the
comparison, `task` is the bulk upsert of the Celery task, `import` inserts
without a conflict clause. A handler records an event (known events are
answered at once), reads the snapshot in a new transaction and adds one to what
it read. `leads` stands for all figures of a row, and `truth` is what the platform
would report at the moment. Two behaviours the model contains and no property
forbids, because nothing in the repository promises otherwise: an event's
`leads += 1` overwrites what a sync wrote in between, and an event whose process is
lost between its two commits is never counted.

### OrgMembers

`pc` and `req` are the state of an HTTP request: the statement it executes next,
its parameters and what it has read. `Start` begins one (authentication and the
membership that `_require_membership` reads are in its guard, at the moment they
are read), `MemberStep` and `InviteStep` go on. `HasRead`/`gone` model a row that is
deleted while another session holds it: that session's `UPDATE` or `DELETE` by id
then finds nothing, even if the user has joined again in the meantime.
`create_org` commits the organization before its first membership, `register`
with an invite commits the user before the invite is looked at, `leave_org`
moves the user's active organization in a further transaction; `Crash` may come at
each of these points. The invite keeps the code's redundancy: a status column and
two dates, of which requests that read earlier overwrite the status only.
Not in the model: tokens (a request with an old one ends with 404), passwords,
emails (a resend succeeds or fails), the rate limit.

### ChangePlans

A request that adds an item or makes a plan ready first reads that the plan is a
draft (`ReadDraft`) and commits later (`AddItem`, `MarkReady`), whatever became of
the plan: the code holds no lock and looks at the status no second time. `Execute`
sends a message and leaves the plan `ready`. A worker reads the plan (`Fetch`),
then items and catalogue rows (`ReadItems`), then commits items, catalogue, plan
and audit event at once (`Apply`; `log_org_event` is what commits). A column
that has the value the session read already is not written, nor is a status. An
item's data are reduced to what it does: it sets a subject to a value, to nothing,
or raises. `Registered` is whether the worker process knows the task at all: with
`conf.imports` alone it does not, and `Fetch` discards the message; `MoreImports`
says what a worker is given besides. `sealed` is history: the items a plan had
when it became ready.

### Autopilot

A run passes `create`, `compute`, `read`, `finish`: it looks for a running run of the
organization (`Begin`), commits its own, commits the upserted recommendations,
reads those of the window and which have a draft, and commits drafts, success
and `last_run_at`. `FailCompute` is the handler of an exception of the computation, which
commits what was upserted before; after a failed statement the session cannot
commit, which is `LoseRun`, as is a lost process. The scheduler works on one session: its
stamps are committed by the creation of a missing settings row or at the end, and
are lost when `should_run` raises, which it does for every organization that
ran before, because it subtracts a time with a zone from one without
(`ScanRaises`). `crossed` and `found` are history. Which problems the metrics of
a window show is arbitrary.

### Payments

The provider's payment goes from pending to succeeded or canceled, and its
webhook is repeated until it is answered. `create_payment` waits only at its POST, so
it is two actions (`CreateAtProvider`, then `SavePending` or `LoseAnswer`); a webhook is one action,
because `payment_webhook` is a coroutine of the only API process
(`docker-compose.yml`) and awaits nothing between its query and its commit.
`overtaken` is history: payments whose webhook came while their creation
was waiting; the creation then adds a second row. Neither a webhook nor a top-up
changes a balance: `_credit_balance` has `pass` in its place, and `process_topup`
raises (a float added to a `Decimal`). The webhook writes the status
`completed`, which the type `TransactionStatus` of the column does not have
(`succeeded`); the column is a string and takes it.

### CampaignTree

One module for two trees of the same shape: `tables` says which. A request reads
a row (`Find`), inserts (`InsertRow`) or gathers what it will write (`Gather`,
which is the loop of `cascade_campaign_status` over groups and ads), and commits
(`FinishChange`, `FailChange`). A row is `None`, there, or `"gone"`: ids are not used again.
`Under` is the foreign keys' ON DELETE CASCADE. The session writes a status only if
the loaded one differs, so a cascade that changes nothing on a deleted row still
logs. A campaign's event is in the commit of the change; the builder's audit of a
creation or update is a second commit (`Audit`), which a loss leaves out.
`ListCampaigns`, `ListAdGroups`, `ListAds`, `BuildTree` and `AdsCount` are the reads.

### Launches

`process_run` is `ProcessRun`, `CreateDrafts` and `FailRun`: status, result and drafts in one
commit, also after an exception half way through the ads. An import makes
an empty draft per campaign of the adapter. A launch has one set of ads, of which the first
`sound` have the form of an ad, and commits a draft per platform. Its handler of an
exception (`magic_launch.py:123`) does not roll back: a draft that broke off at a malformed ad stays
in the session (`held`, `MalformedAd`), and the next platform's commit would store it (`kept`,
`CreatePlatformCampaign`). It never does, since all platforms get the same ads and so break off
alike, and after a failed statement or commit the session serves nobody (`FlushFails`). That
is what `kept = {}` in `ReportedDraftsAreWhole` says. A publication (`pub`) creates
campaign, group and ads at the platform, call by call, before it commits anything;
`offered` is what the platform has. VK takes ten ads (`VkLimit`), the publication
for Ozon ends early. `services/magic_launch.py` imports names that do not exist
(`VKAdsConnector`, `OzonConnector`), so `app.main` cannot be imported as the
repository stands; the handlers are modelled as they are written.

### Figures

Rows of `metric_snapshots` arrive one at a time: a connection's sync or import stores any level, campaign
and day of its platform, an experiment's sync a row of a campaign it lists, with the connection
of its plan; each endpoint is an operator of the rows. The report of an experiment
has impressions, clicks and spend (`Reported`), the others all figures. The set of ids an endpoint is
asked for has no repetition (one that has is answered with 404), an experiment without a plan
has no rows to show, and a breakdown is its pages put together. Nothing else happens in the module:
the property compares the answers of endpoints that ask the same thing. Not in
the property, because nothing promises it: `/metrics/summary` sums all levels,
and pages of the breakdown are not stable when rows tie.

### Experiments

Starting commits the status, looks for a round, and inserts it with its allocations
(`uq_round_index` refuses a second one); closing sets `processing`, works, and
clears it. `_create_round` sets `ended_at` seven days ahead and `close_round`
returns at once for a round that has an end, so the reallocation is reached by nothing; what it
would compute is the operator `Reallocated`, over which `BudgetConserved` quantifies. A platform named twice in
one list keeps one share of the plan; the property speaks of lists without repetition.
A loss between two commits leaves `processing` set or an experiment running
without a round, and nothing repairs either. `ExperimentService.create_experiment` omits the
`organization_id` the table requires and is left out.

### AdUrls

A URL is a page and the values of its UTM keys, or one of the three kinds the code
rejects (`NoPage`). The reconciliation takes an ad's `target_url` and only without one its
`desired_url`; nothing under `src/app` writes `target_url`, so the ad has the field `desired` alone. `StartReconcile`, `ReadAds`,
`CommitReconcile`: settings and rules are read first, ads later, everything is written in one commit. An ad whose
target has become bad keeps its old final URL, as in the code. The builder's
PATCH changes the base URL, the marks or both; it reads, computes and commits, and two at once
leave a URL of neither. ERIR: event and job are separate rows with separate commits. `delivery[e]` has the
copies of the message: the broker may give it out again while it is unacknowledged
(`RedeliverErir`, at most `MaxDeliveries` copies in all), and `execute_erir_register` begins each copy
anew, whatever the event says already. `ExecuteErir(e, d)` is one step of one copy: it loads
the row that is to be marked, or writes what differs from what it loaded and commits, or raises,
each of them with the session's own view (`seen`). A job's mark is read back after its commit
(`mark_succeeded` refreshes it), which may fail when the success is stored already; then the handler marks event and job as failed
(`unread`). `ErirFollows` therefore says what holds for all copies, that a job reported as done has
an event whose result is stored, and only for a single copy that the event still says so: a second
delivery does take a succeeded event back.

### Assistant

An errand (`Tasks`) is a handler: which services it may ask, for how many texts,
what a text must be good for, which media the request wants (`generate_images`, `generate_voice`,
`generate_video`). `call` is the state of each
service's request: GigaChat's goes through its token (`Authorize`), a 401 and one
renewal. A service may refuse, or write the text and have its answer lost, too late for the
client's timeout or not of the shape the provider reads (`Lost`); the code goes on alike, to the next
service, and `lost` keeps account of texts that were written for nothing. Without any key
nobody is asked (`AskNobody`): `predict_roi` and the skipped analyses go on, the others fail. A reply has
`worth`, how many ads or scores it holds, of which the first `sound` are what the code takes them for, or is
`Broken`. A score that is no number fails `score_batch` after all texts were paid, an ad that is no object
fails a cascade (`Unfit`) and, when its voice or video is due, a package with everything made for
it (`Shoot`); both are stated as what an errand may be lost for, not excluded. Each handler builds its own
orchestrator, so `token` lives as long as an errand.

### Connections

`env` is the environment, `ring` what each process has read of it (`lru_cache`),
`making` a connection encrypted and not yet committed, `rotation` what a run of
`rotate-credentials` has read. A ciphertext is its key. `AddKeys` and `DropKeys` are
the operator's: he removes keys only after a rotation that reported no failure, was
the only one, and began when every process had been restarted with the keys of now
(`Settled`, `swept`). README.md:171 of the repository says only "after changing
the active key"; without that discipline credentials become unreadable, which is
why the model states it. `fetch` is a report being asked for,
by the connector's `fetch_metrics`, its `get_daily_stats` or the client of
`/integrations/yandex/reports/sync` (`Clients`), with the different lists of answers they wait on, or is over at once:
a process in a mock mode (`YANDEX_DIRECT_MOCK`, `OZON_PERF_MOCK`; `mocked`) makes figures up. A report that
comes is then read: `_parse_tsv` uses a `datetime` its module does not import and raises at
every full line, so `fetch_metrics` succeeds with empty reports only (`ParseTsv`). A request that fails
without an answer ends the fetch as `"broke"`. `VkAdsConnector` lacks the abstract `stop`
and cannot be made; Ozon's fetch is not implemented although its check is.

### MCServices

The components share no table, so they are checked as a sum, not as a
product: `part` says whose behaviour it is, and the others stay as they began. What
a component takes from another is arbitrary in it. `Connections` has two parts,
`keys` and `fetches`, since a fetch depends on no other fetch and on keys only in
whether it may begin. `Pinned` fixes initial values a part does not read, and swaps of
names that mean the same (which connection is of the first organization); it varies either the
connections or what an experiment lists, since listed campaigns are compared only with rows of one
experiment, which all have the connection of its plan. `LaunchesPart`
lets a launch or a magic run begin, not both: they share no row.

## 3. Runs

`tlc -workers 2 -config X.cfg M`, times on two cores.

| Run | Module, configuration | Checks | States, time |
|---|---|---|---|
| `sync_safety` | `MCSyncRuns`, `SyncRunsSafety.cfg` | types; a job never ahead of its run and success means stored (`ReportsHold`); no run forgotten without a crash; job and run agree; one active run per creator; finished stays finished | 3.6M, 140 s |
| `sync_fair` | `MCSyncRuns`, `SyncRunsFair.cfg` | refinement of `SyncRunLifecycle` with liveness; jobs catch up | 64k, 20 s |
| `sync_one_active` | `MCSyncRuns`, `SyncRunsOneActive.cfg` | *violated*: one active run per connection | |
| `metrics_safety` | `MCMetricStore`, `MetricStoreSafety.cfg` | types; a commit stores what was fetched; counters are true; success is catalogued | 3.1M, 210 s |
| `metrics_fair` | `MCMetricStore`, `MetricStoreFair.cfg` | no conversion is booked twice; syncs and requests end | 94k, 90 s |
| `org_tenants` | `MCOrgMembers`, `OrgMembersSafety.cfg` | types; tenants stay apart; closed invites stay closed; only owners change roles | 1.6M, 110 s |
| `org_serial` | `MCOrgMembers`, `OrgMembersSerial.cfg` | an owner remains, one request at a time | 305k, 20 s |
| `org_last_owner` | `MCOrgMembers`, `OrgMembersLastOwner.cfg` | *violated*: an owner remains | |
| `services` | `MCServices`, `Services.cfg` | applied plans are whole; desired values come from plans; one draft per recommendation; success is drafted; the ledger says what the provider did; a payment is booked once | 664k, 80 s |
| `services_fair` | `MCServices`, `ServicesFair.cfg` | executed plans end, automation runs end, what is paid is recorded, URLs converge | 47k, 35 s |
| `campaigns` | `MCServices`, `Campaigns.cfg` | types; the log accounts for the tree; launches are whole; screens agree; budgets add up; ERIR jobs are right; AI errands spend well; connections serve | 1.2M, 190 s |
| `plans_lost` | `MCServices`, `ServicesLost.cfg` | *violated*: executed plans end | |

### The three violations

`sync_one_active`: docs/TODO.md:181 promises at most one active sync on a connection
by the check of `queued`/`running`. Two requests both find none before either
commits its run, and both runs are created; the advisory lock does not help, it
guards the execution and ends at the first commit. What does hold is
`OneActivePerCreator`, and `SerialRequests` proves the promise for one creating
process and no redelivery.

`org_last_owner`: docs/TODO.md:184 promises that the last owner cannot leave or
remove himself. Two owners who leave at the same time both count two owners.
`org_serial` and the theorem `OwnerRemainsSerially` show that the check is right
when requests do not overlap.

`plans_lost`: docs/TODO.md:173 says that the tasks are imported explicitly.
`celery_app.conf.imports` leaves out `change_plan_tasks`, which only the API
imports; a worker discards the message as one of an unregistered task, and the plan stays
`ready`. With the module imported (`services_fair`) every executed plan gets its outcome.

### Bounds

*Sync.* Two runs and two callers are what the check-then-create race and a
pair of jobs need; two workers meet on one run only through redelivery, hence
one duplicate; one crash is enough for each property that says what a crash
may do, since they speak of one run. *Metrics.* Two campaign-days give lock
cycles; two syncs and a handler give every pair of writers of a row; figures
of 0 and 1 tell stale from current. Two row identities are enough for two keys under
one connection, since duplicate rows need a third only where an event books on rows
no index protects. `metrics_fair` has two as well, and keeps the
figures at 0: their change does not enable or disable a step that waits.
*Organizations.* Two requests make every race of a check with a write, between
two users of two organizations in `org_tenants`; the three users of `org_serial` are an
owner, a second owner and an outsider; two organizations let a membership of
one be confused with the other; `AskedRoles` has the owner and one
lower role, since admin and member differ in the guards of `can_invite` and
`can_manage_members` only, and `org_serial` has the admin. Two invites occur in
`org_serial`; the interleavings of two requests on one invite are in
`org_tenants`. *Services.* Two editors and two appliers make every race of a check
with a commit; two plans and two items let a worker apply what is not its plan's,
and an item fail beside one that does not; two values, one subject, since subjects do
not interact. Two runs, in a worker and in a request, with two problems, in one organization and
one window: rows of different organizations are never related by the code, a second one
multiplies the states by ten and shows nothing else, and the theorems have any number; a run's
windows all overlap. Two payments, and four rows: each payment may get two, and demo
top-ups fill the table. One message per task and subject waits at a time, and
another can be sent once it is taken. `services_fair` has one payment, so that its
table cannot be full. *Campaigns.* One campaign,
group and ad, since rows of one level meet only over a parent, and two requests, which
make every race of an insert, a change or a cascade with a deletion above it. Two drafts, two
publications and two campaigns at the platform let a draft be published twice, or two
drafts get one campaign; `MaxAds` 2 and `VkLimit` 1 tell all, some and too many ads apart. Two rows
of two organizations, connections, experiments' campaigns, platforms and days: an
endpoint that counts a row it should not, or groups it wrongly, does so with one, and
leaves out one because of another with two. A figure of a row is 0 or 2 (`Amounts`), so a
sum that counts a row twice or not at all differs, and ratios meet their zero. Budgets 5 and 7 leave remainders for every
number of platforms; two starters. One ad of the catalogue, since each is marked by itself; two
changes and two reconcilers, so that one reads before a change and commits after the
other. One registration with two copies of its message (`MaxDeliveries`), which meet at every commit. All five AI services; errands of one to
two texts, replies of up to two ads, of which none, one or both are sound; two voices and one
medium of each other kind, so that an ad that is malformed comes after one that is not. Two keys, two changes,
two rotations, two connections; `MaxTries` is the 5 of the source; answers are one that is waited for by all, one by none, and two that the clients disagree on. One process is enough
for `keys`: others neither read nor write what it holds, and if all but the process that
encrypted the violating credentials are left out of a behaviour, rotations fail no
more often and the operator's conditions stay true, so the violation remains.

`CHECK_DEADLOCK FALSE` is set where tables of bounded size fill
up: a process about to insert a row then stays there.

Symmetry is used in the safety runs (permutations of interchangeable rows,
processes and users; no run with symmetry checks liveness).

### Fairness

`FairSpec` of `SyncRuns`: the broker delivers, and a worker, a request and a
scheduler that started run on (weak fairness of each process's next step); no
crash and no redelivery happens, because after one the code leaves a run in
`running` for ever and nothing is promised. New requests are not fair: nobody must
ask. `FairSpec` of `MetricStore`: strong fairness of each sync and request,
because PostgreSQL queues the transactions that wait for a row and each is
served, and the deadlock detector is part of a sync's step. `OrgMembers` states
no fairness: a request never waits there, so it has no liveness of its own. `MCServices`: a worker
takes a message that stays in its queue and goes on with a task it began, an
automation run goes on, and the provider repeats a notification until it is
answered (`WF` of each; nothing is lost, but an answer of the provider may be). The
reconciliation is fair as well (`WF` of each `Reconcile(r)`): celery's beat sends it
periodically (`celery_app.py:42`), for ever. Users, the scheduler and settlements are not fair, nor is
any request or task of the other parts; `UrlsConverge` speaks only of the time after the last
change (`MaxEdits` bounds how many there are), as convergence needs.

## 4. Proofs

All theorems hold for every value of the constants that satisfies the module's
named assumption (`SyncRunsAssumption`, `MetricStoreAssumption`,
`OrgMembersAssumption`, `ChangePlansAssumption`, `AutopilotAssumption`,
`PaymentsAssumption`, `CampaignTreeAssumption`, `LaunchesAssumption`, `ConnectionsAssumption`,
`AdUrlsAssumption`, `ExperimentsAssumption`, `FiguresAssumption`, `AssistantAssumption`,
`ServersAssumption`, `DeploymentAssumption`): disjointness of identities and `None` (and, in the tree, of
the ids of campaigns, groups and ads, which are in tables of their own), naturals, the bound of HTTP
statuses, the six columns of figures, one process at least, and `IsFiniteSet(EventIds)`. `tlapm M.tla`
checks a module from nothing in one to seven minutes.

**SyncRuns.** `IInv` adds to the properties: which row a creator or worker has
created (`Links`), that a run with a job past `queued` was started
(`StartedRuns`), that an active run is carried by a message, a creator or a worker
(`Carried`), that without redelivery it is in one place only (`OnePlace`), what
status a worker's run has at each step (`WorkerStatus`), and that what the
active-run check saw still holds of the creator's own runs (`CheckHolds`). From it:
`TypeCorrect`, `ReportsAreTrue` (both halves of `ReportsHold`), `NothingForgotten`, `JobsMirrorRuns`, `ChecksHold`,
`FinishedForGood`, and the safety part of the refinement, `RefinesLifecycle`. The
condition of `SerialRequests` (one creator, no redelivery) is what
`sync_one_active` shows to be needed.

**MetricStore.** `IInv` has the types, the links of rows, syncs and handlers, what
a sync has stored so far (`Covered`), the rows it holds locked (`Held`), and that
the leads of a snapshot are bounded by the platform's figure plus the events that
were booked on it, each by at most one handler (`BookedOnce`). From it `TypeCorrect`,
`BookedAtMostOnce` and `CommitsAreExact`. `CatalogIInv` adds that a committed row keeps its
connection and its key for good (`KeepsConn`, `RowsLast`) and that a connection sync that committed
has all its rows in the table (`Stored`), which holds because at the commit it holds them all locked
(`Held`); the catalogue only grows, so the second transaction finds them: `SuccessMeansCatalogued`.
For the counters each open sync keeps a ledger (`Ledger`): it holds one row for each record that is
done and no other (`OneRowEach`), and counts apart the rows it made, changed and found as they were
(`Counted`). A record's row is never one it holds already, because those are of other records, so a
step adds one row to one of the three sets (`InsertTakes`, `UpdateTakes`, `CountedMore`); every other
step leaves its rows, dirty and committed, alone (`ApartStep`). At the commit those sets are the
difference the commit makes to the table: `ReportsAreTrue`.

**OrgMembers.** `IInv` has the types, that members and invites are of created
organizations (`Founded`), `TenantsApart`, and for each request `Linked`: the
parameters it has at its step (`Parameters`), that the membership it works on
exists unless it knows that it is gone (`Found`), and that whoever is about to get
an organization is entitled to it or holds its invite (`Backed`). The argument: no
step takes back a founder, an invite or an acceptance (`StepGrows`), so
entitlement is stable (`EntitledKept`); a request changes nothing of another but the
rows it deletes (`StepsAside`, `AsideLinked`). From it `TypeCorrect` and
`TenantsStayApart`. Three more invariants are proved on top of it: a status that
closes an invite has its date (`AllMarked`), for `ClosedStayClosed`; an organization that
waits for its first membership is known to nobody else (`AllNew`), for
`OnlyOwnersChangeRoles`; and with one handler what was read is current and a second
owner was counted (`AllCurrent`), for `OwnerRemainsSerially`.

**ChangePlans.** `IInv` has the types, that items, requests and jobs are of plans that
exist, that a plan a worker loaded left the draft, that a job has read at least the
items the plan was made ready with, and both properties. `AppliedAreWhole`: a plan is
applied only by a job whose items hold all of `sealed` and none of them bad, and a late
failure of another worker that would mark one of them failed is impossible, because what an item
does never changes. `DesiredIsPlanned`: a value is written
together with the status of the item it comes from.

**Autopilot.** `IInv` ties an active process to a running run of its own (`Linked`), says that two
runs of an organization that are running at once have crossed (`Crossed`), and what has become of a
run's recommendations (`TakenUp`): they are there, then in `todo` or drafted; and as long
as nothing crossed none of `todo` has a draft. `Moves` and `Ending` are the two lemmas the steps
of a run reduce to. From it `DraftedOnce` and `SuccessDrafts`; a run that crossed another
still drafts all it computed, which is why the latter has no condition.

**Payments.** `IInv` says that a row's payment exists at the provider, that a payment
still being created has no row unless it was overtaken, and both properties. From it
`LedgerIsTrue` and `PaymentsBookedOnce`.

**CampaignTree.** A deletion takes away what has the row in its line, so `LogAccountsForTree` is
inductive only with the shape of the tree: a row is under a row of the table above it, which is
there while it is (`TreeShape`), and then a line is a row and the line of the row above it (`LineUp`).
A row that is created must find nothing of its own in the log (`LogOfRows`), and the log of the builder
and the write of an update or a cascade come after what the request read, so a request is about rows
that are or were there (`RequestsOfRows`, with `Asks` for its parameters). Every step but the
creation and the deletion of a row loses no row and logs no deletion (`TreeKept`); those two are
proved by themselves. `TreesShow` derives what the listings hold from the shape: `LogAccounts`.

**Launches.** `Progress` says how many ads a publication has offered at each of its steps: none before
its group, `AdsToSend` less what is left while it sends them, `AdsToSend` when it commits.
`HeldByMalformed` says that what a launch holds in its session are drafts broken off at an ad of its one
list, so a launch that holds one commits none. `OwnCampaigns` says that two publications, and a publication and a published draft, are never about one
campaign of the platform; without it a late step of one publication could offer ads to the campaign
of another. `TasksOpen` ties a magic run's task to its status, so that a
finished run has no task that could still add to its drafts. A draft that is added disturbs no publication (`AddingDisturbsNothing`). From it `LaunchesWhole`.

**Connections.** What must be readable is more than what is stored: `Covered` also has the keys that
running processes, rotations and connections in the making would still encrypt with, and `OneKeyring`
says what the operator relies on: from the start of a rotation that can be trusted to
the next change of keys all processes have one keyring, and every connection has its active key or
was read by that rotation under another. When it has committed (`swept`) all have the active one, and
`DropKeys` takes only the others. For the fetches `StillWaits` says that one that goes on has had
no answer but those it may wait on, fewer than `MaxTries`, and `EndsRight` what is known of one that has
ended (`AnswerEndsRight`: one more answer keeps both). From them `ConnectionsAlwaysServe`.

**AdUrls.** `UrlsIInv` has the types of the rows and of what a reconciliation read (`ReconciledTyped`: what
it writes is a URL with a sequence of marks for each key). `ErirIInv` says of each copy of an ERIR message that it is about to mark the job as done only when the
event's result is stored (`ResultFirst`), which no other copy takes away, and of a registration with one
copy in which order its two rows are written (`InOrder`): the job says success only when the event does, or
when the copy is on the way from a success it could not read back to marking both as failed. From them
`UrlsTypeCorrect` and `JobsTellTheTruth`.

**Sums.** `SumFunction` is a fold over a finite set, defined by a recursive function on its subsets.
`FiguresProofs` first proves that the function exists (`FoldExists`, by induction over finite sets,
stated for sets of sets so that no operator is a parameter: `SubsetInduction`), that any
element may be taken out of a sum first (`SumTake`), that sums split over parts (`SumUnion`), over
groups (`SumOfGroups`: what is grouped adds up to what there was), and that renaming what is added
changes nothing (`SumRenamed`). The arithmetic of the experiments and of the screens rests on these.

**Experiments.** `ExpInv` says that the entries of an experiment are the whole of one share-out, of
a start's budget or of its one round's plan, or none (`EntriesWhole`), and that a round's plan is
that of its platforms and budget (`RoundsPlanned`): a start that is lost leaves nothing by halves, and of two at once one
inserts. `SplitAddsUp` adds the shares of a split, `AllocationsAddUp` those of platforms and
creatives; a platform that is named twice is why the sum of a plan has its condition. `NextPlanIsWhole`
holds for all figures, where TLC tries clicks up to 2: shares rounded down add up to no more than
the total (`SharesFit`), and the platform of least weight gets what they leave. From them
`ExperimentsConserve`.

**Figures.** `FigInv` is modest: rows are whole, finitely many, and of the organization and platform
their connection has. What is proved is about the screens: each of them
counts the same rows (`SelectedAre`: by connection, by organization, by platform) and groups them in its
own way, which does not change what they add up to (`GroupsAddUp`). An average of percentages
is one (`AverageIs`). `FiguresAlwaysAgree` holds for any number of rows and any figures; TLC has
few rows of 0 or 2.

**Assistant.** `EInv` says of an errand what it has at each status. While a text is asked (`Asking`),
a service's call is refused or answered exactly if the errand has noted so (a lost answer is noted as
one that gave no text, too), no service but those to be
asked is, and one at most at a time unless all are; no text up to then was answered by two, or by
a service that was asked before one that gave none (`Once`), and each is held or may be missed (`Held`). When all are done the best is kept
(`Gotten`), and media so far are the first of the plan (`Shot`); a package that is lost although its ads were read has one that is no object (`LostFor`). `TokenFits` is why a stale token costs
nothing: a call that was refused dropped its token, so that its repetition has one fetched in this call (`renewed`). From them
`ErrandsAlwaysSpendWell`.

**The composition.** A behaviour of `MCServices` is one of every component in it: each step
is one the component takes by itself or leaves its state alone (`PlansAmongOthers` to `LinksAmongOthers`). So what
is proved of each is true of all together: `ServicesTypeCorrect`, `ServicesAgree` and
`ServicesKeepTheirPromises`, which are the invariants of `services` and `campaigns`.

**Only model-checked.** `ImplementsLifecycle` in its liveness part, `JobsCatchUp`,
`WritersEnd`, `ExecutedPlansEnd`, `AutomationRunsEnd`, `PaidIsRecorded` and `UrlsConverge`: liveness
under fairness is out of the prover's reach. Every other property of a passing run is
stated by a theorem.

## 5. Not modelled, and the plan

Limits of what is modelled. `MetricStore` has the level `campaign`; `ad_group` and
`ad` rows have indexes of their own and the same code. One platform and one
organization are modelled there, since every key of the code contains both.
Database isolation is READ COMMITTED as configured, at the grain of statements.
`ChangePlans`: a worker reads items and
catalogue rows at one instant (`ReadItems`), where the code reads rows one by one.
`Autopilot`: the recommendations and their drafts are likewise read at one instant; the first
run of an organization commits `last_run_at` right after the commit that creates the
settings, which is one action here. `Payments`: refunds are left out, no
endpoint calls `create_refund`; so are invoices, and amounts.

What the models contain and no property forbids, because nothing in the repository
promises otherwise:

- an event's `leads += 1` (`event_service.py:112`) overwrites what a sync wrote in
  between, and an event whose process is lost between its two commits is never counted;
- a sync that fetched earlier and commits later restores older figures (`sync_service.py:158`);
- `create_org` and `register` commit before the membership (`orgs.py:130`, `auth.py:62`);
  a revoked invite keeps its address from being invited again (`orgs.py:269`);
- a lost automation run, magic run or experiment start stays as it was
  (`automation_service.py:57`, `magic.py`, `experiment_service.py:80`); the scheduler of automations
  stops at the first organization that ran before (`automation_service.py:166`);
- two PATCHes of a builder ad leave a `final_url` of neither (`builder.py`);
- a publication that fails leaves its campaign at the platform, and two of one draft leave
  two (`campaign_publisher.py:105`);
- the ERIR job is committed before its event (`erir.py`), so a loss leaves a job pending; a second
  delivery of the message sets a succeeded event to running and perhaps to failed while the job of
  the first says success (`erir_tasks.py:14`);
- a text that was written and whose answer was lost is asked of, and paid to, the next service as
  well (`orchestrator.py:247`); a malformed ad or score loses a package or a batch that was paid for
  (`elevenlabs_provider.py:251`, `ai_intelligence.py:496`);
- `fetch_metrics` of Yandex raises on every report with figures, as `datetime` is not imported
  (`yandex_direct.py:265`);
- after five answers "being prepared" a report of Yandex is empty and the sync a success
  (`yandex_direct.py:252`); `sync_yandex_reports` parses the header it asks for, and
  raises.

Not modelled. A/B tests: written for an `AsyncSession` while `get_session` gives a
`Session`, so the first `await` of every endpoint raises and nothing is ever stored; no
migration creates the tables. Optimizers: the same, and `models_optimizer` declares a second
table `budget_allocations`; the other optimizers compare floating point figures and
store nothing. Analytics, reports, `platform_strategies` and `industry_templates`: ratios, wording and
tables of text. Password hashing, tokens, outgoing messages, the web UI, migrations
and scripts: library calls or pure I/O; `PROJECT.json` has the reason for each.

The plan. Every property that is not about liveness has its theorem. Next is the composition of
`SyncRuns`, whose `StoreRows` would be the transaction of `MetricStore`, so that "success is stored" is
about the figures.
