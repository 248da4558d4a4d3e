---------------------------- MODULE Connections -----------------------------
(***************************************************************************)
(* Connections to the platforms: api/connections.py, their credentials     *)
(* under keys that change (security/credentials_crypto.py and the command  *)
(* rotate-credentials of cli.py), and the fetches that use them            *)
(* (connectors/, services/connector_service.py, api/integrations.py).      *)
(*                                                                         *)
(* The keys are in the environment.  A process reads them once, at their   *)
(* first use (lru_cache), and keeps them until it is restarted; so old and *)
(* new keys are in use side by side while the operator changes them.       *)
(* A ciphertext is its key; who has the key has the credentials.           *)
(***************************************************************************)
EXTENDS Deployment, FiniteSets, Sequences

CONSTANTS
  Links,       \* connections that may be created
  Kids,        \* keys
  Servers,     \* processes of the API and the workers
  Rotators,    \* runs of rotate-credentials at the same time
  Codes,       \* bound: the HTTP statuses a platform answers with
  MaxTries,    \* max_retries, 5 in the source
  MaxChanges   \* bound: changes of the environment

\* What credentials hold: the fields of their platform, not all of them, a
\* code to be exchanged, or "mock" (the flag, or no token for Yandex).
CredKinds == {"mock", "whole", "partial", "code"}

Plain == "plain"  \* the key of credentials that are not encrypted

Keyring == [keys : SUBSET Kids, active : Kids \cup {None}, serial : 0..MaxChanges]

LinkPlatforms == {"yandex", "vk", "ozon", "stub"}

Link == [platform : LinkPlatforms, creds : CredKinds,
         kid : Kids \cup {Plain}, status : {"active", "error"}]

\* Who asks a platform: fetch_metrics of a connector, its get_daily_stats, and
\* the client of POST yandex/reports/sync.
Clients == {"connector", "stats", "reports"}

Ends == {"none", "report", "empty", "raised", "broke"}

ASSUME ConnectionsAssumption ==
  /\ Codes \subseteq 201..599 /\ MaxTries \in Nat \ {0} /\ MaxChanges \in Nat
  /\ Plain \notin Kids /\ None \notin Kids \cup Link \cup Keyring

VARIABLES
  env,      \* CREDENTIALS_ENC_KEYS and CREDENTIALS_ENC_ACTIVE_KID
  ring,     \* the keys a process has read
  link,     \* connections
  making, \* connections that are encrypted and not committed yet
  rotation, \* runs of rotate-credentials: their keys and what they read
  swept,    \* whether the operator has seen that no other key is needed
  fetch     \* the last fetch of a process

linkVars == <<env, ring, link, making, rotation, swept, fetch>>

ConnectionsInit ==
  /\ env \in {[keys |-> {}, active |-> None, serial |-> 0]} \cup
             {[keys |-> {k}, active |-> k, serial |-> 0] : k \in Kids}
  /\ ring = [s \in Servers |-> None]
  /\ link = [l \in Links |-> None]
  /\ making = [s \in Servers |-> None]
  /\ rotation = [o \in Rotators |-> None]
  /\ swept = FALSE
  /\ fetch = [s \in Servers |-> None]

-----------------------------------------------------------------------------
(* Keys *)

\* _get_keyring: cached at the first use.
RingOf(s) == IF ring[s] = None THEN env ELSE ring[s]

UsesRing(s) == ring' = [ring EXCEPT ![s] = RingOf(s)]

\* maybe_encrypt: without keys credentials stay as they are.
MaybeEncrypt(keyring) == IF keyring.keys = {} THEN Plain ELSE keyring.active

\* maybe_decrypt raises if the key is not there.
CanDecrypt(keyring, kid) == kid = Plain \/ kid \in keyring.keys

\* Mutant of RotateWrapper: any known key is good.
RotateWrapperKnown(keyring, kid) == IF kid \in keyring.keys THEN kid ELSE MaybeEncrypt(keyring)

RotateWrapper(keyring, kid) == IF kid = keyring.active THEN kid ELSE MaybeEncrypt(keyring)

Change(e) ==
  /\ env.serial < MaxChanges
  /\ env' = [e EXCEPT !.serial = env.serial + 1]
  /\ swept' = FALSE
  /\ UNCHANGED <<ring, link, making, rotation, fetch>>

\* The operator adds keys and changes the active one ...
AddKeys ==
  \E K \in SUBSET Kids : \E k \in K :
    /\ env.keys \subseteq K
    /\ <<K, k>> # <<env.keys, env.active>>
    /\ Change([env EXCEPT !.keys = K, !.active = k])

\* ... and takes the others away when he has seen that they are not needed.
DropKeys ==
  /\ swept
  /\ env.keys # {env.active}
  /\ Change([env EXCEPT !.keys = {env.active}])

\* A process is restarted, or lost.
Restart(s) ==
  /\ ring' = [ring EXCEPT ![s] = None]
  /\ making' = [making EXCEPT ![s] = None]
  /\ fetch' = [fetch EXCEPT ![s] = None]
  /\ UNCHANGED <<env, link, rotation, swept>>

-----------------------------------------------------------------------------
(* rotate-credentials, a process of its own *)

\* Every process that runs has the keys of now, and nothing else rotates.
Settled ==
  /\ \A s \in Servers : ring[s] \in {None, env}
  /\ \A o \in Rotators : rotation[o] = None

\* It reads every connection ...
StartRotation(o) ==
  /\ rotation[o] = None
  /\ env.keys # {}
  /\ rotation' = [rotation EXCEPT ![o] = [ring |-> env, read |-> link, settled |-> Settled]]
  /\ UNCHANGED <<env, ring, link, making, swept, fetch>>

\* ... and commits those it encrypted anew; one it cannot decrypt is counted
\* as failed.  The operator trusts a run without failures that was the only
\* one, and began when all processes had the keys that are still those of now.
CommitRotation(o) ==
  /\ rotation[o] # None
  /\ LET r == rotation[o]
         read == {l \in Links : r.read[l] # None}
         failed == {l \in read : ~CanDecrypt(r.ring, r.read[l].kid)}
         new(l) == RotateWrapper(r.ring, r.read[l].kid)
     IN /\ link' = [l \in Links |->
             IF l \in read \ failed /\ new(l) # r.read[l].kid THEN [link[l] EXCEPT !.kid = new(l)] ELSE link[l]]
        /\ swept' = (swept \/ (failed = {} /\ r.settled /\ r.ring = env))
  /\ rotation' = [rotation EXCEPT ![o] = None]
  /\ UNCHANGED <<env, ring, making, fetch>>

LoseRotation(o) ==
  /\ rotation[o] # None
  /\ rotation' = [rotation EXCEPT ![o] = None]
  /\ UNCHANGED <<env, ring, link, making, swept, fetch>>

-----------------------------------------------------------------------------
(* api/connections.py *)

\* validate_credentials_for_platform; credentials_mode "dev" is not checked.
ValidOffer(platform, creds) ==
  creds \in {"mock", "whole"} \/ platform \in {"yandex", "stub"}

\* The code of VK is exchanged for a token, without the version it needs.
Exchanged(platform, creds) == IF platform = "vk" /\ creds = "code" THEN "partial" ELSE creds

\* 422 for what is not valid, 400 if the exchange fails: nothing is stored.
CreateConnection(s, platform, creds, dev) ==
  /\ making[s] = None
  /\ dev \/ ValidOffer(platform, creds)
  /\ UsesRing(s)
  /\ making' = [making EXCEPT ![s] =
       [platform |-> platform, creds |-> Exchanged(platform, creds),
        kid |-> MaybeEncrypt(RingOf(s)), status |-> "active"]]
  /\ UNCHANGED <<env, link, rotation, swept, fetch>>

CommitConnection(s) ==
  /\ making[s] # None
  /\ \E l \in Links : link[l] = None /\ link' = [link EXCEPT ![l] = making[s]]
  /\ making' = [making EXCEPT ![s] = None]
  /\ UNCHANGED <<env, ring, rotation, swept, fetch>>

\* validate_connection of the connectors.
Validates(c) == c.platform \in {"yandex", "stub"} \/ c.creds = "whole"

\* 400 without the key; VkAdsConnector lacks stop and cannot be made, 500.
CheckConnection(s, l) ==
  /\ link[l] # None
  /\ UsesRing(s)
  /\ link' = IF CanDecrypt(RingOf(s), link[l].kid) /\ link[l].platform # "vk"
             THEN [link EXCEPT ![l].status = IF Validates(link[l]) THEN "active" ELSE "error"]
             ELSE link
  /\ UNCHANGED <<env, making, rotation, swept, fetch>>

-----------------------------------------------------------------------------
(* Fetching.  The sync of a connection asks the connector for records, that  *)
(* of an experiment asks it for the stats of some campaigns.                 *)

\* What ends without a request.  The environment of a process may ask for mock
\* data of Yandex or Ozon (YANDEX_DIRECT_MOCK, OZON_PERF_MOCK); Ozon has no
\* other, and VkAdsConnector cannot be made.  (The mock stats of Yandex need
\* campaigns whose identifiers are numbers, as they are.)
Immediate(c, mocked) ==
  CASE c.platform = "stub"                                   -> "report"
    [] c.platform = "yandex" /\ (mocked \/ c.creds # "whole") -> "report"
    [] c.platform = "ozon" /\ mocked                         -> "report"
    [] c.platform = "vk" \/ (c.platform = "ozon" /\ ~mocked)  -> "raised"
    [] OTHER                                                 -> "none"

\* /integrations/yandex/reports/sync asks for a connection to Yandex (404) and
\* a token in its credentials (400), and never looks at the mock modes.
Reportable(c) == c.platform = "yandex" /\ c.creds = "whole"

BeginFetch(s, l, client, mocked) ==
  /\ link[l] # None
  /\ fetch[s] # None => fetch[s].end # "none"
  /\ client = "reports" => Reportable(link[l]) /\ ~mocked
  /\ UsesRing(s)
  /\ fetch' = [fetch EXCEPT ![s] =
       [client |-> client, answers |-> <<>>,
        end |-> IF CanDecrypt(RingOf(s), link[l].kid) THEN Immediate(link[l], mocked) ELSE "raised"]]
  /\ UNCHANGED <<env, link, making, rotation, swept>>

\* raise_for_status lets them pass: 201 and 202 say that the report is being
\* prepared, and no other one is told apart from these.
Unready == 201..299

\* Mutant of Retries: a report that is being prepared is not waited for.
RetriesBusyOnly(client, code) ==
  IF client = "reports" THEN code \notin Unready \cup {200, 400, 500, 502}
                        ELSE code \in {429, 500, 502, 503, 504}

\* Both wait for a report that is being prepared; _fetch_report of the
\* connector also when the platform is busy, the reports client whatever else
\* is wrong.
Retries(client, code) ==
  IF client = "reports" THEN code \notin {200, 400, 500, 502}
                        ELSE code \in Unready \cup {429, 500, 502, 503, 504}

\* After the last try the connector returns an empty report, or raises.
Exhausted(client, code) ==
  IF client # "reports" /\ code \in Unready THEN "empty" ELSE "raised"

\* How a line of as many columns as were asked for is read: parse_tsv_metrics
\* and get_daily_stats raise at a heading or anything else that is no figure;
\* _parse_tsv raises whatever the line is, as its module does not import the
\* datetime it uses.  Shorter lines are skipped.
ParseTsv == {"raised"}
ParseTsvMetrics == {"report", "raised"}

Reading(client, lines) ==
  CASE ~lines                -> {"report"}
    [] client = "connector"  -> ParseTsv
    [] client = "reports"    -> ParseTsvMetrics
    [] OTHER                 -> {"report", "raised"}

ReportComes(s) ==
  /\ fetch[s] # None /\ fetch[s].end = "none"
  /\ \E lines \in BOOLEAN : \E end \in Reading(fetch[s].client, lines) :
       fetch' = [fetch EXCEPT ![s].answers = Append(@, 200), ![s].end = end]
  /\ UNCHANGED <<env, ring, link, making, rotation, swept>>

NoReport(s, code) ==
  /\ fetch[s] # None /\ fetch[s].end = "none"
  /\ fetch' = [fetch EXCEPT ![s].answers = Append(@, code),
       ![s].end = IF ~Retries(fetch[s].client, code) THEN "raised"
                  ELSE IF Len(fetch[s].answers) + 1 = MaxTries THEN Exhausted(fetch[s].client, code)
                  ELSE "none"]
  /\ UNCHANGED <<env, ring, link, making, rotation, swept>>

\* The request itself raises.
FetchBreaks(s) ==
  /\ fetch[s] # None /\ fetch[s].end = "none"
  /\ fetch' = [fetch EXCEPT ![s].end = "broke"]
  /\ UNCHANGED <<env, ring, link, making, rotation, swept>>

-----------------------------------------------------------------------------
KeysStep ==
  \/ AddKeys \/ DropKeys
  \/ \E o \in Rotators : StartRotation(o) \/ CommitRotation(o)

LinksStep(s, platforms, given) ==
  \/ \E p \in platforms, creds \in given, dev \in BOOLEAN : CreateConnection(s, p, creds, dev)
  \/ CommitConnection(s)
  \/ \E l \in Links : CheckConnection(s, l)

FetchesStep(s) ==
  \/ \E l \in Links, client \in Clients, mocked \in BOOLEAN : BeginFetch(s, l, client, mocked)
  \/ ReportComes(s)
  \/ \E code \in Codes : NoReport(s, code)

ConnectionsStep ==
  KeysStep \/ \E s \in Servers : LinksStep(s, LinkPlatforms, CredKinds) \/ FetchesStep(s)

ConnectionsFault ==
  \/ \E o \in Rotators : LoseRotation(o)
  \/ \E s \in Servers : Restart(s) \/ FetchBreaks(s)

ConnectionsSpec == ConnectionsInit /\ [][ConnectionsStep \/ ConnectionsFault]_linkVars

-----------------------------------------------------------------------------
(* Properties *)

ConnectionsTypeOK ==
  /\ env \in Keyring
  /\ ring \in [Servers -> Keyring \cup {None}]
  /\ link \in [Links -> Link \cup {None}]
  /\ making \in [Servers -> Link \cup {None}]
  /\ swept \in BOOLEAN
  /\ \A s \in Servers : fetch[s] # None => fetch[s].end \in Ends /\ Len(fetch[s].answers) <= MaxTries

\* Whatever overlaps a rotation - processes with older keys, connections that
\* are being created, another rotation -, keys that were dropped after one the
\* operator could trust are needed by no connection: every process that starts
\* now can read all credentials (rotate_credentials, rotate_wrapper).
CredentialsReadable ==
  \A l \in Links : link[l] # None => CanDecrypt(env, link[l].kid)

\* A fetch waits for its report as long as it may and no longer.  Nothing is
\* asked for again that has come, or that the platform called a wrong request;
\* what passes for a report did come, or, if it is empty without having come,
\* was asked for as often as there are tries and still being prepared; and no
\* fetch gives up before the last try on a report that is being prepared
\* (_fetch_report, fetch_report).
FetchesEndRight ==
  \A s \in Servers : fetch[s] # None =>
    LET a == fetch[s].answers
        last == a[Len(a)]
    IN /\ \A i \in 1..(Len(a) - 1) : a[i] \notin {200, 400}
       /\ fetch[s].end = "report" /\ a # <<>> => last = 200
       /\ fetch[s].end = "empty" => Len(a) = MaxTries /\ last \in Unready
       /\ fetch[s].end = "raised" /\ a # <<>> /\ last \in Unready => Len(a) = MaxTries

\* Connections serve: their credentials can be read, and fetches end as they
\* should.
ConnectionsServe == CredentialsReadable /\ FetchesEndRight
=============================================================================
