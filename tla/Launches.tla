------------------------------ MODULE Launches ------------------------------
(***************************************************************************)
(* From generated ads to a platform: magic runs (api/magic.py,             *)
(* services/magic.py), the one-click launch (services/magic_launch.py),    *)
(* and the publication of a draft, by the API (services/integrations.py)   *)
(* or by the publisher (services/campaign_publisher.py with the clients of *)
(* services/platforms).  A run is processed once, after its request was    *)
(* answered; a publication calls the platform step by step and commits at  *)
(* the end.  Nothing is locked, and a process may be lost anywhere.        *)
(*                                                                         *)
(* A draft has one group; its ads are counted.                             *)
(***************************************************************************)
EXTENDS Deployment, FiniteSets

CONSTANTS
  Drafts, MagicRuns, ExtIds,  \* the rows and platform campaigns there may be
  LaunchIds,                  \* one-click launches
  Publishers,                 \* publications at the same time
  MaxAds,                     \* bound: ads in a draft
  VkLimit,                    \* ads[:10], the ads VK takes in a group
  Asked                       \* bound: the platforms that are asked for

Platforms == {"yandex", "vk", "ozon"}

Draft == [of : MagicRuns \cup LaunchIds \cup {None}, platform : Platforms, ads : 0..MaxAds,
          status : {"draft", "published"}, ext : ExtIds \cup {None}]

Magic == [status : {"pending", "running", "success", "failed"}, ads : 0..MaxAds]

\* left are the platforms that come yet.  held are those whose draft failed half
\* way, with its rows left in the session; kept, those whose half draft another
\* one's commit stored.  The ads are written once: the first sound of them have
\* the form of an ad.
Launch == [left : SUBSET Platforms, launched : SUBSET Platforms,
           held : SUBSET Platforms, kept : SUBSET Platforms,
           ads : 0..MaxAds, sound : 0..MaxAds]

Publication == [draft : Drafts, step : {"campaign", "group", "ads", "sent"},
                ext : ExtIds \cup {None}, left : 0..MaxAds]

ASSUME LaunchesAssumption ==
  /\ MaxAds \in Nat /\ VkLimit \in Nat /\ Asked \subseteq Platforms
  /\ None \notin MagicRuns \cup LaunchIds \cup ExtIds \cup 0..MaxAds
  /\ None \notin Draft \cup Magic \cup Launch \cup Publication

VARIABLES
  magic,   \* magic_runs
  task,    \* background tasks of magic runs
  draft,   \* draft_campaigns with their group and draft_ads
  launch,  \* one-click launches, and what they report so far
  offered, \* campaigns on the platforms: the ads each was offered
  pub      \* publications

launchVars == <<magic, task, draft, launch, offered, pub>>

LaunchesInit ==
  /\ magic = [r \in MagicRuns |-> None]
  /\ task = [r \in MagicRuns |-> "none"]
  /\ draft = [d \in Drafts |-> None]
  /\ launch = [l \in LaunchIds |-> None]
  /\ offered = [x \in ExtIds |-> None]
  /\ pub = [h \in Publishers |-> None]

\* A draft with its group and n ads is added.
AddDraft(of, platform, n) ==
  \E d \in Drafts :
    /\ draft[d] = None
    /\ draft' = [draft EXCEPT ![d] = [of |-> of, platform |-> platform, ads |-> n,
                                      status |-> "draft", ext |-> None]]

-----------------------------------------------------------------------------
(* Magic runs *)

CreateMagicRun(r) ==
  /\ magic[r] = None
  /\ magic' = [magic EXCEPT ![r] = [status |-> "pending", ads |-> 0]]
  /\ task' = [task EXCEPT ![r] = "queued"]
  /\ UNCHANGED <<draft, launch, offered, pub>>

\* process_run commits "running" and asks the models.
ProcessRun(r) ==
  /\ task[r] = "queued"
  /\ magic' = [magic EXCEPT ![r].status = "running"]
  /\ task' = [task EXCEPT ![r] = "asking"]
  /\ UNCHANGED <<draft, launch, offered, pub>>

\* The ads of generate_creatives_public: those of the model, or the templates
\* if it raised or answered no JSON; images never fail.
GeneratedAds == 0..MaxAds

StatusAfter(raised) == IF raised THEN "failed" ELSE "success"

\* The result, the status, and the draft of _create_drafts in one commit.  An
\* ad that is no object raises there; the ads before it are committed, too.
CreateDrafts(r) ==
  /\ task[r] = "asking"
  /\ \E n \in GeneratedAds, raised \in BOOLEAN :
       \E k \in 0..n :
         /\ raised <=> k < n
         /\ magic' = [magic EXCEPT ![r] = [status |-> StatusAfter(raised), ads |-> n]]
         /\ \E p \in Asked : AddDraft(r, p, k)
  /\ task' = [task EXCEPT ![r] = "none"]
  /\ UNCHANGED <<launch, offered, pub>>

\* The answer is JSON but no object: it fails before there is a draft.
FailRun(r) ==
  /\ task[r] = "asking"
  /\ magic' = [magic EXCEPT ![r].status = "failed"]
  /\ task' = [task EXCEPT ![r] = "none"]
  /\ UNCHANGED <<draft, launch, offered, pub>>

\* The process is lost, or the database refuses a row (a name too long) and
\* then the commit of the failure, too.
LoseMagic(r) ==
  /\ task[r] # "none"
  /\ task' = [task EXCEPT ![r] = "none"]
  /\ UNCHANGED <<magic, draft, launch, offered, pub>>

\* save_creatives: a draft from ads that were generated before registration.
CreateDraftsFromPublic(n) ==
  /\ AddDraft(None, "yandex", n)
  /\ UNCHANGED <<magic, task, launch, offered, pub>>

\* import_campaigns, import_campaigns_to_drafts: one draft and one commit for
\* each campaign of the adapter; its ads are not imported.
ImportCampaign ==
  /\ AddDraft(None, "yandex", 0)
  /\ UNCHANGED <<magic, task, launch, offered, pub>>

-----------------------------------------------------------------------------
(* One-click launch *)

\* magic_launch has the campaigns generated for the platforms asked for, or
\* those with an active connection, or the default ones: all with the same ads,
\* of which k come before one that is no object, if there is one.
MagicLaunch(l, ps, n, k) ==
  /\ launch[l] = None
  /\ ps # {}
  /\ k <= n
  /\ launch' = [launch EXCEPT ![l] = [left |-> ps, launched |-> {}, held |-> {}, kept |-> {},
                                      ads |-> n, sound |-> k]]
  /\ UNCHANGED <<magic, task, draft, offered, pub>>

\* _create_platform_campaign commits one draft per platform, and with it what
\* the session holds of others.
CreatePlatformCampaign(l, p) ==
  /\ launch[l] # None
  /\ p \in launch[l].left
  /\ launch[l].sound = launch[l].ads
  /\ AddDraft(l, p, launch[l].ads)
  /\ \E started \in BOOLEAN :  \* auto_start, and there is a connection
       launch' = [launch EXCEPT ![l].left = @ \ {p},
                                ![l].launched = IF started THEN @ \cup {p} ELSE @,
                                ![l].kept = @ \cup launch[l].held, ![l].held = {}]
  /\ UNCHANGED <<magic, task, offered, pub>>

\* What one raises is reported while the others go on.  Its query, before there
\* is a row: the platform is unknown.
PlatformError(l, p) ==
  /\ launch[l] # None
  /\ p \in launch[l].left
  /\ launch' = [launch EXCEPT ![l].left = @ \ {p}]
  /\ UNCHANGED <<magic, task, draft, offered, pub>>

\* Its ad that is no object, when the campaign and the group are flushed: no
\* rollback, so the session holds them and the ads before.
MalformedAd(l, p) ==
  /\ launch[l] # None
  /\ p \in launch[l].left
  /\ launch[l].sound < launch[l].ads
  /\ launch' = [launch EXCEPT ![l].left = @ \ {p}, ![l].held = @ \cup {p}]
  /\ UNCHANGED <<magic, task, draft, offered, pub>>

\* A flush or the commit, or the process is lost: all that is held is rolled
\* back, and the session serves none of those that are left.
FlushFails(l) ==
  /\ launch[l] # None
  /\ launch[l].left # {}
  /\ launch' = [launch EXCEPT ![l].left = {}, ![l].held = {}]
  /\ UNCHANGED <<magic, task, draft, offered, pub>>

-----------------------------------------------------------------------------
(* Publication *)

\* publish reads the draft.  For Ozon it ends there: no draft has product ids.
Publish(h, d) ==
  /\ pub[h] = None
  /\ draft[d] # None
  /\ draft[d].platform # "ozon"
  /\ pub' = [pub EXCEPT ![h] = [draft |-> d, step |-> "campaign", ext |-> None, left |-> 0]]
  /\ UNCHANGED <<magic, task, draft, launch, offered>>

\* The platform makes a campaign.
NewCampaign(h, next, n) ==
  \E x \in ExtIds :
    /\ offered[x] = None
    /\ offered' = [offered EXCEPT ![x] = n]
    /\ pub' = [pub EXCEPT ![h].step = next, ![h].ext = x]

CreateExternalCampaign(h) ==
  /\ pub[h] # None /\ pub[h].step = "campaign"
  /\ NewCampaign(h, "group", 0)
  /\ UNCHANGED <<magic, task, draft, launch>>

\* Mutant of AdsToSend: VK takes one ad less.
AdsToSendLess(d) == IF draft[d].platform = "vk" /\ draft[d].ads >= VkLimit
                      THEN VkLimit - 1 ELSE draft[d].ads

AdsToSend(d) == IF draft[d].platform = "vk" /\ draft[d].ads > VkLimit
                  THEN VkLimit ELSE draft[d].ads

\* The group is made and the ads are read; that the platform refused the group
\* is not noticed, its id is None.
CreateGroup(h) ==
  /\ pub[h] # None /\ pub[h].step = "group"
  /\ pub' = [pub EXCEPT ![h].step = "ads", ![h].left = AdsToSend(pub[h].draft)]
  /\ UNCHANGED <<magic, task, draft, launch, offered>>

\* Nor that it refused an ad.
CreateAd(h) ==
  /\ pub[h] # None /\ pub[h].step = "ads" /\ pub[h].left > 0
  /\ offered' = [offered EXCEPT ![pub[h].ext] = @ + 1]
  /\ pub' = [pub EXCEPT ![h].left = @ - 1]
  /\ UNCHANGED <<magic, task, draft, launch>>

\* publish_draft of the API gives the whole draft to the adapter.
AdapterPublish(h) ==
  /\ pub[h] # None /\ pub[h].step = "campaign"
  /\ draft[pub[h].draft].platform = "yandex"
  /\ NewCampaign(h, "sent", draft[pub[h].draft].ads)
  /\ UNCHANGED <<magic, task, draft, launch>>

\* The status and the external id, whatever the status is meanwhile.
Published(h) ==
  /\ pub[h] # None
  /\ pub[h].step = "sent" \/ (pub[h].step = "ads" /\ pub[h].left = 0)
  /\ draft' = [draft EXCEPT ![pub[h].draft].status = "published", ![pub[h].draft].ext = pub[h].ext]
  /\ pub' = [pub EXCEPT ![h] = None]
  /\ UNCHANGED <<magic, task, launch, offered>>

\* The campaign is refused, or a call or the commit raises: the error is
\* reported, the draft stays as it was, and so does what the platform has.
PublishFails(h) ==
  /\ pub[h] # None
  /\ pub' = [pub EXCEPT ![h] = None]
  /\ UNCHANGED <<magic, task, draft, launch, offered>>

-----------------------------------------------------------------------------
LaunchesStep ==
  \/ \E r \in MagicRuns : CreateMagicRun(r) \/ ProcessRun(r) \/ CreateDrafts(r) \/ FailRun(r)
  \/ \E n \in 0..MaxAds : CreateDraftsFromPublic(n)
  \/ ImportCampaign
  \/ \E l \in LaunchIds :
       \/ \E ps \in SUBSET Asked, n, k \in 0..MaxAds : MagicLaunch(l, ps, n, k)
       \/ \E p \in Asked : CreatePlatformCampaign(l, p) \/ PlatformError(l, p) \/ MalformedAd(l, p)
       \/ FlushFails(l)
  \/ \E h \in Publishers :
       \/ \E d \in Drafts : Publish(h, d)
       \/ CreateExternalCampaign(h) \/ CreateGroup(h) \/ CreateAd(h) \/ AdapterPublish(h)
       \/ Published(h) \/ PublishFails(h)

LaunchesFault == \E r \in MagicRuns : LoseMagic(r)

LaunchesSpec == LaunchesInit /\ [][LaunchesStep \/ LaunchesFault]_launchVars

-----------------------------------------------------------------------------
(* Properties *)

LaunchesTypeOK ==
  /\ magic \in [MagicRuns -> Magic \cup {None}]
  /\ task \in [MagicRuns -> {"none", "queued", "asking"}]
  /\ draft \in [Drafts -> Draft \cup {None}]
  /\ launch \in [LaunchIds -> Launch \cup {None}]
  /\ offered \in [ExtIds -> 0..MaxAds \cup {None}]
  /\ pub \in [Publishers -> Publication \cup {None}]

\* What is reported as made is there in full: the draft of a successful magic
\* run, or of a platform that was launched, has every ad that was generated;
\* and no commit of a launch stores the half draft of another platform, though
\* nothing rolls it back.
ReportedDraftsAreWhole ==
  LET Whole(of, n) == \E d \in Drafts : draft[d] # None /\ draft[d].of = of /\ draft[d].ads = n IN
    /\ \A r \in MagicRuns : magic[r] # None =>
         (magic[r].status = "success" => Whole(r, magic[r].ads))
    /\ \A l \in LaunchIds : launch[l] # None =>
         \A p \in launch[l].launched :
           \E d \in Drafts : draft[d] # None /\ draft[d].of = l /\ draft[d].platform = p
                               /\ draft[d].ads = launch[l].ads
    /\ \A l \in LaunchIds : launch[l] # None => launch[l].kept = {}

\* A published draft names a campaign of its platform that was offered all its
\* ads that fit, whichever publications of it failed or ran at the same time.
PublishedIsWhole ==
  \A d \in Drafts : draft[d] # None =>
    (draft[d].status = "published" =>
       /\ draft[d].ext # None
       /\ offered[draft[d].ext] =
            IF draft[d].platform = "vk" /\ draft[d].ads > VkLimit THEN VkLimit ELSE draft[d].ads)

\* What a launch reports and what a publication leaves is the whole campaign
\* (process_run, launch_campaign, publish_*).
LaunchesAreWhole == ReportedDraftsAreWhole /\ PublishedIsWhole
=============================================================================
