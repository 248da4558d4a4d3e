------------------------------- MODULE AdUrls -------------------------------
(***************************************************************************)
(* UTM marks on the URLs of ads (api/catalog.py, services/utm_service.py,  *)
(* utm_reconcile_service.py, workers/utm_tasks.py, utils/utm.py and the    *)
(* URLs of api/builder.py), and the registration of ads with ERIR          *)
(* (api/erir.py, workers/erir_tasks.py).  Settings, rules and targets      *)
(* change while a reconciliation, which read them before, works through    *)
(* the ads; nothing is locked.                                             *)
(*                                                                         *)
(* A URL is a page and, for a UTM key, the values it has, in order; other  *)
(* parts of its query stay as they are and are part of the page.  What a   *)
(* template makes of platform and ids is its value.                        *)
(*                                                                         *)
(* The broker may deliver an ERIR message again while its first copy still *)
(* waits, as it may any message (SyncRuns).                                *)
(***************************************************************************)
EXTENDS Deployment, FiniteSets, Sequences

CONSTANTS
  CatalogAds, BuiltAds, \* rows of ad_ads and of builder_ads
  Pages, UtmKeys,
  Reconcilers,            \* reconciliations at the same time
  UrlEditors,             \* requests to the builder at the same time
  ErirIds,                \* registrations, each with its job
  MaxDeliveries,          \* bound: copies of a registration's message
  MaxEdits                \* bound: changes of settings, rules and targets

Utm == [UtmKeys -> Seq({"default", "set", "rule", "custom", "given"})]

NoUtm == [k \in UtmKeys |-> <<>>]

\* normalize_and_validate_url: what is wrong with a URL, "ok" if nothing is.
Problem(url) ==
  IF url = None THEN "missing_url" ELSE IF url.page \in Pages THEN "ok" ELSE url.page

\* What a URL has for a page if it is none of http, or has no host.
NoPage == {"blocked_scheme", "invalid_url"}

\* The URLs a change plan or the builder gets: they may have a mark already.
Given == {None} \cup {[page |-> p, utm |-> NoUtm] : p \in NoPage} \cup
         {[page |-> p, utm |-> [k \in UtmKeys |-> IF k \in K THEN <<"given">> ELSE <<>>]] :
            p \in Pages, K \in SUBSET UtmKeys}

\* Templates of the settings or of a rule; a value that is empty makes no mark.
Templates(value) == [UtmKeys -> {value, ""}]

Rule == [is_enabled : BOOLEAN, matches : SUBSET CatalogAds, template : Templates("rule")]

UrlStatus == {None, "ok", "missing_url"} \cup NoPage

\* desired_url, which is what counts: target_url comes before it and is written
\* nowhere.
AdUrl == [desired : Given, final : [page : Pages, utm : Utm] \cup {None}, status : UrlStatus]

ErirStatus == {"none", "pending", "running", "success", "failed"}

\* What a copy of a registration's message is at: it waits or is done with, or
\* a row is due to get a status, and had one when it was loaded.
Mark == [row : {"message", "event", "job"},
         status : {"none", "queued", "done", "running", "success", "failed"},
         seen : ErirStatus \cup {None}]

Due(row, status) == [row |-> row, status |-> status, seen |-> None]

ASSUME AdUrlsAssumption ==
  /\ MaxEdits \in Nat /\ MaxDeliveries \in Nat \ {0}
  /\ Pages \cap NoPage = {} /\ None \notin ErirStatus

VARIABLES
  utmSettings, \* org_utm_settings
  rule,     \* org_utm_rules, the first that is there
  ad,       \* ad_ads: desired_url, final_url, url_status
  reconcile,\* reconciliations that are not finished: what they read
  builder,  \* builder_ads: base_url, utm_json, final_url
  patch,    \* requests to the builder that are not finished
  erir,     \* erir_events: status and result_json; their job_runs and requests,
            \* and whether a job's success, committed, could not be read back
  delivery, \* the copies of each registration's message
  edits

erirVars == <<erir, delivery>>
catalogueVars == <<utmSettings, rule, ad, reconcile, builder, patch, edits>>
urlVars == <<utmSettings, rule, ad, reconcile, builder, patch, erir, delivery, edits>>

UrlsInit ==
  /\ utmSettings = None /\ rule = None
  /\ ad = [a \in CatalogAds |-> [desired |-> None, final |-> None, status |-> None]]
  /\ reconcile = [r \in Reconcilers |-> None]
  /\ builder = [b \in BuiltAds |-> None]
  /\ patch = [u \in UrlEditors |-> None]
  /\ erir = [e \in ErirIds |->
       [event |-> "none", result |-> FALSE, job |-> "none", request |-> "none", unread |-> FALSE]]
  /\ delivery = [e \in ErirIds |-> [d \in 1..MaxDeliveries |-> Due("message", "none")]]
  /\ edits = 0

Edit == edits < MaxEdits /\ edits' = edits + 1

-----------------------------------------------------------------------------
(* Marks *)

\* _build_from_settings; without settings the platform, "cpc" and the ids.
FromSettings(set) == IF set = None THEN [k \in UtmKeys |-> "default"] ELSE set

\* A rule overrides the marks it has a template for.
BuildUtmParams(set, r) ==
  [k \in UtmKeys |-> IF r # None /\ r.template[k] # "" THEN r.template[k] ELSE FromSettings(set)[k]]

\* apply_utm: the marks the URL has are taken away.
ApplyUtm(url, params) ==
  [url EXCEPT !.utm = [k \in UtmKeys |-> IF params[k] = "" THEN <<>> ELSE <<params[k]>>]]

\* build_utm_url and /utm/build append: a mark the URL has stays.
BuildUtmUrl(url, params) ==
  [url EXCEPT !.utm = [k \in UtmKeys |-> IF params[k] = "" THEN @[k] ELSE Append(@[k], params[k])]]

\* build_utm_from_org_settings: the custom marks take precedence.
BuilderUrl(set, base, custom) ==
  LET own == IF set = None THEN [k \in UtmKeys |-> ""] ELSE set
  IN BuildUtmUrl(base, [k \in UtmKeys |-> IF custom[k] # "" THEN custom[k] ELSE own[k]])

\* pick_matching_rule, of the rules an organization has in their order.
PickMatchingRule(r, a) == IF r # None /\ r.is_enabled /\ a \in r.matches THEN r ELSE None

-----------------------------------------------------------------------------
(* The catalogue *)

\* PUT /settings/utm: only the fields that are given change.
UpdateUtmSettings ==
  /\ Edit
  /\ \E new \in [UtmKeys -> {"set", "", None}] :
       utmSettings' = [k \in UtmKeys |-> IF new[k] = None THEN FromSettings(utmSettings)[k] ELSE new[k]]
  /\ UNCHANGED <<rule, ad, reconcile, builder, patch, erirVars>>

SaveUtmRule ==
  /\ Edit
  /\ rule' \in Rule /\ rule' # rule
  /\ UNCHANGED <<utmSettings, ad, reconcile, builder, patch, erirVars>>

\* A change plan is applied (ChangePlans): the URL that is wanted of an ad.
SetDesiredUrl(a) ==
  /\ Edit
  /\ \E url \in Given \ {None} : ad' = [ad EXCEPT ![a].desired = url]
  /\ ad' # ad
  /\ UNCHANGED <<utmSettings, rule, reconcile, builder, patch, erirVars>>

\* reconcile_ads_utm_for_connection, by a request or by the scheduler: it reads
\* settings and rules, then the ads,
StartReconcile(r) ==
  /\ reconcile[r] = None
  /\ reconcile' = [reconcile EXCEPT ![r] = [utmSettings |-> utmSettings, rule |-> rule, ads |-> None]]
  /\ UNCHANGED <<utmSettings, rule, ad, builder, patch, erirVars, edits>>

ReadAds(r) ==
  /\ reconcile[r] # None /\ reconcile[r].ads = None
  /\ reconcile' = [reconcile EXCEPT ![r].ads = ad]
  /\ UNCHANGED <<utmSettings, rule, ad, builder, patch, erirVars, edits>>

FinalUrl(set, r, a, target) == ApplyUtm(target, BuildUtmParams(set, PickMatchingRule(r, a)))

\* Mutant of Reconciled: an ad that has a final URL is not looked at again.
ReconciledOnce(seen, now, set, r, a) ==
  IF seen.final # None THEN now
  ELSE [now EXCEPT !.status = Problem(seen.desired),
                   !.final = IF Problem(seen.desired) = "ok"
                             THEN FinalUrl(set, r, a, seen.desired) ELSE @]

\* and writes, of an ad seen, what differs from it; an ad whose URL is not
\* good keeps its final one.
Reconciled(seen, now, set, r, a) ==
  LET status == Problem(seen.desired)
      final == IF status = "ok" THEN FinalUrl(set, r, a, seen.desired) ELSE seen.final
  IN [now EXCEPT !.status = IF status = seen.status THEN @ ELSE status,
                 !.final = IF final = seen.final THEN @ ELSE final]

CommitReconcile(r) ==
  /\ reconcile[r] # None /\ reconcile[r].ads # None
  /\ LET read == reconcile[r]
     IN ad' = [a \in CatalogAds |-> Reconciled(read.ads[a], ad[a], read.utmSettings, read.rule, a)]
  /\ reconcile' = [reconcile EXCEPT ![r] = None]
  /\ UNCHANGED <<utmSettings, rule, builder, patch, erirVars, edits>>

LoseReconcile(r) ==
  /\ reconcile[r] # None
  /\ reconcile' = [reconcile EXCEPT ![r] = None]
  /\ UNCHANGED <<utmSettings, rule, ad, builder, patch, erirVars, edits>>

-----------------------------------------------------------------------------
(* The builder *)

\* final_url of a base URL and custom marks; of settings only if there are.
BuilderFinal(base, custom) == IF base = None THEN None ELSE BuilderUrl(utmSettings, base, custom)

\* 422 for a URL without scheme or host; any scheme will do.
CreateBuilderAd(b) ==
  /\ builder[b] = None
  /\ \E base \in Given, custom \in Templates("custom") :
       /\ base # None => base.page # "invalid_url"
       /\ builder' = [builder EXCEPT ![b] = [base |-> base, utm |-> custom,
                                             final |-> BuilderFinal(base, custom)]]
  /\ Edit
  /\ UNCHANGED <<utmSettings, rule, ad, reconcile, patch, erirVars>>

\* update_builder_ad reads the ad; base_url, utm_json, or both are given.
PatchBuilderAd(u, b) ==
  /\ patch[u] = None /\ builder[b] # None
  /\ \E base \in Given \cup {builder[b].base}, custom \in Templates("custom") \cup {builder[b].utm} :
       /\ base # None => base.page # "invalid_url"
       /\ patch' = [patch EXCEPT ![u] = [ad |-> b, seen |-> builder[b], new |-> [base |-> base, utm |-> custom],
                                         final |-> BuilderFinal(base, custom)]]
  /\ Edit
  /\ UNCHANGED <<utmSettings, rule, ad, reconcile, builder, erirVars>>

\* and writes the columns that differ from what it read.
CommitPatch(u) ==
  /\ patch[u] # None
  /\ LET p == patch[u]
     IN builder' = [builder EXCEPT ![p.ad] =
          [base  |-> IF p.new.base = p.seen.base THEN @.base ELSE p.new.base,
           utm   |-> IF p.new.utm = p.seen.utm THEN @.utm ELSE p.new.utm,
           final |-> IF p.final = p.seen.final THEN @.final ELSE p.final]]
  /\ patch' = [patch EXCEPT ![u] = None]
  /\ UNCHANGED <<utmSettings, rule, ad, reconcile, erirVars, edits>>

-----------------------------------------------------------------------------
(* ERIR *)

\* The job, then the event, then the message; each may be the last that is done.
Register(e) ==
  /\ \/ /\ erir[e].request = "none"
        /\ erir' = [erir EXCEPT ![e].job = "pending", ![e].request = "registering"]
        /\ delivery' = delivery
     \/ /\ erir[e].request = "registering"
        /\ erir' = [erir EXCEPT ![e].event = "pending", ![e].request = "done"]
        /\ delivery' = [delivery EXCEPT ![e][1] = Due("message", "queued")]
  /\ UNCHANGED catalogueVars

\* The broker gives out a message again that was not taken yet.
RedeliverErir(e) ==
  /\ \E d, copy \in 1..MaxDeliveries :
       /\ delivery[e][d].status = "queued" /\ delivery[e][copy].status = "none"
       /\ delivery' = [delivery EXCEPT ![e][copy] = Due("message", "queued")]
  /\ UNCHANGED <<erir, catalogueVars>>

\* Mutant of AfterCommit: the job is marked before the event.
AfterCommitJobFirst(m) ==
  CASE m.row = "event" /\ m.status = "running" -> Due("job", "running")
    [] m.row = "job" /\ m.status = "running"   -> Due("job", "success")
    [] m.row = "job" /\ m.status = "success"   -> Due("event", "success")
    [] OTHER                                   -> Due("message", "done")

\* execute_erir_register: running, then the outcome, of the event before the job.
AfterCommit(m) ==
  CASE m.row = "event"                       -> Due("job", m.status)
    [] m.row = "job" /\ m.status = "running" -> Due("event", "success")
    [] OTHER                                 -> Due("message", "done")

\* A statement fails: of success, both rows are failed; any other fails the job
\* alone; and the last handler may fail itself.
AfterRaise(m) ==
  CASE m.status = "success"                 -> {Due("event", "failed")}
    [] m.row = "job" /\ m.status = "failed" -> {Due("job", "failed"), Due("message", "done")}
    [] OTHER                                -> {Due("job", "failed")}

\* A row is loaded before it is marked, but the event when it succeeded: the
\* last commit has left it unloaded.
MustLoad(m) == m.seen = None /\ ~(m.row = "event" /\ m.status = "success")

\* One copy of the message, whatever the event says already.  What is assigned
\* is written unless the row said so when it was loaded; a job is read back
\* after its commit, which may fail.
ExecuteErir(e, d) ==
  LET m == delivery[e][d]
      now == IF m.row = "event" THEN erir[e].event ELSE erir[e].job
      new == IF m.seen = m.status THEN now ELSE m.status
      goesOn(next) == delivery' = [delivery EXCEPT ![e][d] = next]
  IN /\ \/ m.status = "queued" /\ goesOn(Due("event", "running")) /\ erir' = erir
        \/ /\ m.row \in {"event", "job"}
           /\ \/ MustLoad(m) /\ goesOn([m EXCEPT !.seen = now]) /\ erir' = erir
              \/ (\E next \in AfterRaise(m) : goesOn(next)) /\ erir' = erir
        \/ /\ m.row = "event" /\ ~MustLoad(m)
           /\ erir' = [erir EXCEPT ![e].event = new, ![e].result = @ \/ m.status = "success"]
           /\ goesOn(AfterCommit(m))
        \/ /\ m.row = "job" /\ ~MustLoad(m)
           /\ \/ /\ erir' = [erir EXCEPT ![e].job = new]
                 /\ goesOn(AfterCommit(m))
              \/ /\ erir' = [erir EXCEPT ![e].job = new, ![e].unread = @ \/ m.status = "success"]
                 /\ \E next \in AfterRaise(m) : goesOn(next)
     /\ UNCHANGED catalogueVars

\* The process, or the message, is lost.
LoseErir(e) ==
  /\ \/ \E d \in 1..MaxDeliveries :
          /\ delivery[e][d].status \notin {"none", "done"}
          /\ delivery' = [delivery EXCEPT ![e][d] = Due("message", "done")] /\ erir' = erir
     \/ /\ erir[e].request = "registering"
        /\ erir' = [erir EXCEPT ![e].request = "done"] /\ delivery' = delivery
  /\ UNCHANGED catalogueVars

-----------------------------------------------------------------------------
Reconcile(r) == StartReconcile(r) \/ ReadAds(r) \/ CommitReconcile(r)

\* The two halves of the module share nothing.
CatalogueStep ==
  \/ UpdateUtmSettings \/ SaveUtmRule
  \/ \E a \in CatalogAds : SetDesiredUrl(a)
  \/ \E r \in Reconcilers : Reconcile(r)
  \/ \E b \in BuiltAds : CreateBuilderAd(b) \/ \E u \in UrlEditors : PatchBuilderAd(u, b)
  \/ \E u \in UrlEditors : CommitPatch(u)

ErirStep == \E e \in ErirIds : Register(e) \/ \E d \in 1..MaxDeliveries : ExecuteErir(e, d)

CatalogueFault == \E r \in Reconcilers : LoseReconcile(r)

ErirFault == \E e \in ErirIds : LoseErir(e) \/ RedeliverErir(e)

UrlsStep == CatalogueStep \/ ErirStep
UrlsFault == CatalogueFault \/ ErirFault

UrlsSpec == UrlsInit /\ [][UrlsStep \/ UrlsFault]_urlVars

\* The scheduler goes through the connections again and again.
UrlsFairSpec ==
  UrlsInit /\ [][UrlsStep]_urlVars /\ \A r \in Reconcilers : WF_urlVars(Reconcile(r))

-----------------------------------------------------------------------------
UrlsTypeOK ==
  /\ utmSettings = None \/ utmSettings \in [UtmKeys -> {"default", "set", ""}]
  /\ rule = None \/ rule \in Rule
  /\ \A a \in CatalogAds : ad[a].desired \in Given /\ ad[a].status \in UrlStatus
  /\ edits \in 0..MaxEdits

\* An ad is as its desired URL, the rule and the settings say: each mark once, the
\* rule's where it has one; without a good URL it says what is wrong.
Marked(a) ==
  LET own == IF utmSettings = None THEN [k \in UtmKeys |-> "default"] ELSE utmSettings
      ruled == rule # None /\ rule.is_enabled /\ a \in rule.matches
  IN /\ ad[a].status = Problem(ad[a].desired)
     /\ ad[a].status = "ok" =>
          /\ ad[a].final.page = ad[a].desired.page
          /\ \A k \in UtmKeys :
               LET mark == IF ruled /\ rule.template[k] # "" THEN rule.template[k] ELSE own[k]
               IN ad[a].final.utm[k] = IF mark = "" THEN <<>> ELSE <<mark>>

\* After the last change the scheduler brings every ad up to date for good
\* (run_utm_reconcile_scheduler), whatever reconciliations that were under way
\* had read before it.
UrlsConverge == edits = MaxEdits ~> [](\A a \in CatalogAds : Marked(a))

\* A job that reports a registration as done has an event that was registered:
\* its result is there, whichever copies of the message were worked on at the
\* same time, failed or were lost.  With one copy the event goes on saying so,
\* but where the job's success could not be read back and the handler took the
\* event for failed; a second copy may take it back (execute_erir_register does
\* not look at the event's status).
ErirFollows ==
  \A e \in ErirIds : erir[e].job = "success" =>
    /\ erir[e].result
    /\ (\A d \in 2..MaxDeliveries : delivery[e][d].status = "none") =>
          erir[e].event = "success" \/ (erir[e].unread /\ erir[e].event = "failed")
=============================================================================
