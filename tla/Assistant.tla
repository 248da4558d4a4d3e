----------------------------- MODULE Assistant -----------------------------
(***************************************************************************)
(* The AI helpers: core/ai/orchestrator.py picks a text service, falls     *)
(* back to the others, asks several at once, and adds pictures, voices and *)
(* videos; services/ai_intelligence.py, creative_studio.py,                *)
(* cascade_pipeline.py and competitor_intelligence.py run their errands    *)
(* through it or through the one default service.  An errand is a handler  *)
(* that asks for one or more texts, one after the other, each a call that  *)
(* may be refused or whose answer may be lost, and then for media, each of *)
(* which may fail alone.                                                   *)
(*                                                                         *)
(* Prompts, scores and texts are abstracted to what a reply is worth: how  *)
(* many ads (or scores) it holds and how many of them, from the first, are *)
(* what the code takes them for; or Broken, when it is no JSON object.     *)
(***************************************************************************)
EXTENDS Integers, Sequences, FiniteSets, SequencesExt

CONSTANTS
    Services,   \* the services that may have a key in the environment
    MaxWorth,   \* most ads a reply holds
    MaxItems,   \* most competitors or creatives of an errand (the source reads 5 competitors)
    MaxThemes,  \* pictures of a creatives package (5 in the source)
    MaxVoices,  \* ads that get a voiceover (3 in the source)
    MaxVideos,  \* ads that get a video (2 in the source)
    MaxImages   \* ads of a cascade that get an image (3, or what the request says, in the source)

ASSUME AssistantAssumption ==
    /\ Services \subseteq {"gigachat", "openrouter", "openai", "elevenlabs", "heygen"}
    /\ MaxWorth \in Nat /\ MaxItems \in Nat
    /\ MaxThemes \in Nat /\ MaxVoices \in Nat /\ MaxVideos \in Nat /\ MaxImages \in Nat

VARIABLES
    keys,    \* the services that have a key
    token,   \* GigaChat's cached access token: none, good, old (its last five minutes)
             \* or dead (the cache takes it for good, the server refuses it)
    errand   \* the errand under way, or the last one

assistVars == <<keys, token, errand>>

Broken == -1
NoObject == [worth |-> Broken, sound |-> 0]

-----------------------------------------------------------------------------
(* The text services of an orchestrator, in the order they are registered. *)

TextServices == {"gigachat", "gpt4o", "claude", "mixtral"}
Providers  == TextServices \cup {"openai", "mock"}

Ready ==
    (IF "gigachat" \in keys THEN <<"gigachat">> ELSE <<>>)
      \o (IF "openrouter" \in keys THEN <<"gpt4o", "claude", "mixtral">> ELSE <<>>)

Rating ==
    [quality |-> [gigachat |-> 7, gpt4o |-> 9, claude |-> 10, mixtral |-> 7],
     speed   |-> [gigachat |-> 8, gpt4o |-> 7, claude |-> 6,  mixtral |-> 9]]

\* The one of these places of ps that has the best rated; the sort is stable, so the
\* first registered wins a tie.
Best(ps, places, goal) ==
    LET rate(i) == Rating[goal][ps[i]]
    IN  CHOOSE i \in places :
             \A j \in places : rate(j) < rate(i) \/ (rate(j) = rate(i) /\ i <= j)

\* Whom a text is asked of: the best first, then the others as registered.
Fallbacks(goal) ==
    IF Ready = <<>> THEN <<>>
    ELSE LET first == Best(Ready, DOMAIN Ready, goal)
         IN  <<Ready[first]>> \o RemoveAt(Ready, first)

DefaultProvider ==
    IF "gigachat" \in keys THEN "gigachat"
    ELSE IF "openai" \in keys THEN "openai" ELSE "mock"

-----------------------------------------------------------------------------
(* Errands.  by: chain (generate_text), all (generate_parallel) or one (the  *)
(* default service).  failed: what a text nobody answered, or a reply that   *)
(* cannot be read, does to the errand: it fails, or goes on without it.      *)
(* media: what the request wants besides texts.                              *)

Task(kind, by, goal, texts, failed) ==
    [kind |-> kind, by |-> by, goal |-> goal, texts |-> texts, failed |-> failed, media |-> {}]

With(t, media) == [t EXCEPT !.media = media]

GenerateAdCreatives(m) == With(Task("creatives", "chain", "quality", 1, "fails"), m)
GenerateParallel    == Task("parallel", "all", "quality", 1, "fails")
AnalyzeMultiple(n)  == Task("competitors", "chain", "quality", n + 1, "skipped")
PredictRoi          == Task("roi", "chain", "speed", 1, "skipped")
ScoreBatch(n)       == Task("scores", "chain", "quality", n, "fails")
FindAudiences       == Task("audiences", "chain", "quality", 1, "fails")
ExpandKeywords      == Task("keywords", "chain", "speed", 1, "fails")
ProcessCommand      == Task("command", "chain", "speed", 2, "fails")
StudioText          == Task("studio", "one", "quality", 1, "skipped")
AiAnalyze           == Task("rival", "one", "quality", 1, "skipped")
FindCompetitors     == Task("rivals", "one", "quality", 1, "skipped")
CascadeGenerate(m)  == With(Task("cascade", "one", "quality", 1, "skipped"), m)

Tasks ==
    {GenerateParallel, PredictRoi, FindAudiences, ExpandKeywords, ProcessCommand,
     StudioText, AiAnalyze, FindCompetitors}
      \cup {GenerateAdCreatives(m) : m \in SUBSET {"picture", "voice", "video"}}
      \cup {CascadeGenerate(m) : m \in SUBSET {"image"}}
      \cup {AnalyzeMultiple(n) : n \in 0 .. MaxItems} \cup {ScoreBatch(n) : n \in 1 .. MaxItems}

AskedOf(t) ==
    CASE t.by = "chain" -> Fallbacks(t.goal)
      [] t.by = "one"   -> <<DefaultProvider>>
      [] t.by = "all"   -> SubSeq(Ready, 1, IF Len(Ready) < 3 THEN Len(Ready) ELSE 3)

\* The synthesis of several analyses is not among those that are skipped.
MayMiss(t, item) == t.failed = "skipped" /\ (t.kind = "competitors" => item < t.texts)

\* Replies handed on as they are; the others are read as an object.
HandedOn(t, item) ==
    \/ t.kind \in {"audiences", "keywords", "command", "parallel"}
    \/ t.kind = "competitors" /\ item = t.texts

-----------------------------------------------------------------------------
(* The steps of one text.  Each operator below returns the errand after it.  *)

Opening(p) == IF p = "gigachat" THEN "token" ELSE "post"

BeginText(e) ==
    LET asked == AskedOf(e.task)
        now   == IF e.task.by = "all" THEN ToSet(asked)
                 ELSE {asked[i] : i \in DOMAIN asked \cap {1}}
    IN  [e EXCEPT !.asked = asked,
                  !.call = [p \in Providers |-> IF p \in now THEN Opening(p) ELSE "idle"],
                  !.status = "texts"]

\* The ads of the reply a package is made of, and how many of them, from the first, are objects.
AdsWritten(e)  == IF e.got = {} THEN 0 ELSE (CHOOSE g \in e.got : TRUE).worth
SoundAds(e) == IF e.got = {} THEN 0 ELSE (CHOOSE g \in e.got : TRUE).sound

\* generate_ad_creatives and the cascade: pictures, then voices, then videos.
MediaPlan(e) ==
    LET few(n) == IF AdsWritten(e) < n THEN AdsWritten(e) ELSE n
        shots(w, n, ready) ==
            IF w \in e.task.media /\ ready THEN [i \in 1 .. n |-> <<w, i>>] ELSE <<>>
    IN  shots("picture", MaxThemes, "openrouter" \in keys)
          \o shots("voice", few(MaxVoices), "elevenlabs" \in keys)
          \o shots("video", few(MaxVideos), "heygen" \in keys)
          \o shots("image", few(MaxImages), TRUE)

\* What the texts hold and the code takes for something else: a command that is no object, a
\* score that is no number (score_batch sums them), one of a cascade's ads that is no object.
Unfit(e) ==
    \/ e.task.kind = "command" /\ \E g \in e.got : g.item = 1 /\ g.worth = Broken
    \/ e.task.kind \in {"scores", "cascade"} /\ \E g \in e.got : g.sound < g.worth

Ended(e) ==
    [e EXCEPT !.call = [p \in Providers |-> "idle"],
              !.status = IF Unfit(e) THEN "failed" ELSE IF MediaPlan(e) = <<>> THEN "done" ELSE "media"]

\* Mutant of NextText: one text too many is asked for.
NextTextTooMany(e) ==
    IF e.item > e.task.texts THEN Ended(e)
    ELSE BeginText([e EXCEPT !.item = @ + 1])

NextText(e) ==
    IF e.item = e.task.texts THEN Ended(e)
    ELSE BeginText([e EXCEPT !.item = @ + 1])

NoText(e) ==
    IF MayMiss(e.task, e.item) THEN NextText(e)
    ELSE [e EXCEPT !.status = "failed", !.call = [p \in Providers |-> "idle"]]

\* generate_parallel waits for all of them and keeps the best rated answer.
Gathered(e) ==
    LET answered == {i \in DOMAIN e.asked : e.call[e.asked[i]] = "ok"}
        best     == e.asked[Best(e.asked, answered, "quality")]
    IN  IF \E p \in ToSet(e.asked) : e.call[p] \notin {"ok", "refused"} THEN e
        ELSE IF answered = {} THEN NoText(e)
        ELSE Ended([e EXCEPT !.got = {[item |-> 1, by |-> best, worth |-> 0, sound |-> 0]}])

\* Mutant of Refused: the fallbacks are not tried when the first choice gives no text.
RefusedAtOnce(e, p) ==
    LET e2 == [e EXCEPT !.refusals = @ \cup {<<e.item, p>>}, !.call[p] = "refused"]
    IN  IF e.task.by = "all" THEN Gathered(e2) ELSE NoText(e2)

\* p gave no text: the next is asked.
Refused(e, p) ==
    LET e2   == [e EXCEPT !.refusals = @ \cup {<<e.item, p>>}, !.call[p] = "refused"]
        rest == {i \in DOMAIN e.asked : e2.call[e.asked[i]] = "idle"}
        next == e.asked[Min(rest)]
    IN  CASE e.task.by = "all" -> Gathered(e2)
          [] e.task.by # "all" /\ rest = {} -> NoText(e2)
          [] OTHER -> [e2 EXCEPT !.call[next] = Opening(next)]

\* p wrote the text, and it is lost on the way: the answer comes too late (GigaChat is given
\* 120 s, OpenAI 60 s) or is not of the shape the provider reads (data["choices"]).
Lost(e, p) == Refused([e EXCEPT !.lost = @ \cup {<<e.item, p>>}], p)

Answered(e, p, reply) ==
    LET e2   == [e EXCEPT !.answers = @ \cup {<<e.item, p>>}, !.call[p] = "ok"]
        new  == [item |-> e.item, by |-> p, worth |-> reply.worth, sound |-> reply.sound]
        kept == [e2 EXCEPT !.got = @ \cup {new}]
    IN  CASE e.task.by = "all" -> Gathered(e2)
          [] e.task.by # "all" /\ reply.worth = Broken /\ ~HandedOn(e.task, e.item) -> NoText(e2)
          [] OTHER -> NextText(kept)

\* What a service may answer.  find_competitors parses a reply that is parsed already,
\* and the built-in mock has no JSON without a schema.
Replies(e, p) ==
    LET holding(n) == {[worth |-> w, sound |-> k] : w \in 0 .. n, k \in 0 .. n}
        most == CASE e.task.kind \in {"creatives", "cascade"} -> MaxWorth
                  [] e.task.kind = "scores" -> 1
                  [] OTHER -> 0
    IN  IF e.task.kind = "rivals" \/ p = "mock" THEN {NoObject}
        ELSE (IF e.task.by = "all" THEN {} ELSE {NoObject}) \cup {r \in holding(most) : r.sound <= r.worth}

-----------------------------------------------------------------------------
(* Actions *)

NoErrand ==
    [task |-> GenerateAdCreatives({}), status |-> "idle", item |-> 1, asked |-> <<>>,
     call |-> [p \in Providers |-> "idle"], renewed |-> FALSE, denied |-> FALSE,
     got |-> {}, answers |-> {}, refusals |-> {}, lost |-> {}, shots |-> <<>>]

AssistInit == keys \in SUBSET Services /\ token = "none" /\ errand = NoErrand

\* A handler builds its own orchestrator or provider: no token is cached yet.
Start(t) ==
    /\ errand.status \in {"idle", "done", "failed"}
    /\ errand' = BeginText([NoErrand EXCEPT !.task = t])
    /\ token' = "none"
    /\ UNCHANGED keys

\* No service has a key: get_best_text_provider raises and a gather has nothing to wait for.
AskNobody ==
    /\ errand.status = "texts" /\ errand.asked = <<>>
    /\ errand' = NoText(errand)
    /\ UNCHANGED <<keys, token>>

\* GigaChat's _get_access_token: the cached one, unless it is missing or about to expire.
Authorize ==
    /\ errand.status = "texts" /\ errand.call["gigachat"] \in {"token", "renew"}
    /\ LET next == IF errand.call["gigachat"] = "token" THEN "post" ELSE "repost"
       IN  \/ /\ token \in {"good", "dead"}
              /\ errand' = [errand EXCEPT !.call["gigachat"] = next, !.renewed = FALSE]
              /\ UNCHANGED token
           \/ /\ token \in {"none", "old"}
              /\ errand' = [errand EXCEPT !.call["gigachat"] = next, !.renewed = TRUE]
              /\ token' = "good"
           \/ /\ token \in {"none", "old"}
              /\ errand' = Refused(errand, "gigachat")
              /\ UNCHANGED token
    /\ UNCHANGED keys

\* GigaChat's generate_text: a refused token is dropped and fetched again, once.
AskGigaChat ==
    /\ errand.status = "texts" /\ errand.call["gigachat"] \in {"post", "repost"}
    /\ \/ /\ token = "dead" /\ errand.call["gigachat"] = "post"
          /\ errand' = [errand EXCEPT !.call["gigachat"] = "renew"]
          /\ token' = "none"
       \/ /\ token = "dead" /\ errand.call["gigachat"] = "repost"
          /\ errand' = Refused([errand EXCEPT !.denied = @ \/ ~errand.renewed], "gigachat")
          /\ UNCHANGED token
       \/ /\ token # "dead"
          /\ \/ \E r \in Replies(errand, "gigachat") : errand' = Answered(errand, "gigachat", r)
             \/ errand' \in {Refused(errand, "gigachat"), Lost(errand, "gigachat")}
          /\ UNCHANGED token
    /\ UNCHANGED keys

\* OpenRouter's generate_text: a rate limit is retried once, with the cheaper model.
AskOpenRouter(p) ==
    /\ errand.status = "texts" /\ errand.call[p] \in {"post", "repost"}
    /\ \/ \E r \in Replies(errand, p) : errand' = Answered(errand, p, r)
       \/ errand' \in {Refused(errand, p), Lost(errand, p)}
       \/ errand.call[p] = "post" /\ errand' = [errand EXCEPT !.call[p] = "repost"]
    /\ UNCHANGED <<keys, token>>

\* OpenAI's generate_text takes no temperature, which the cascade passes.
AskOpenAI ==
    /\ errand.status = "texts" /\ errand.call["openai"] = "post"
    /\ \/ /\ errand.task.kind # "cascade"
          /\ \/ \E r \in Replies(errand, "openai") : errand' = Answered(errand, "openai", r)
             \/ errand' = Lost(errand, "openai")
       \/ errand' = Refused(errand, "openai")
    /\ UNCHANGED <<keys, token>>

AskMock ==
    /\ errand.status = "texts" /\ errand.call["mock"] = "post"
    /\ errand' = Answered(errand, "mock", NoObject)
    /\ UNCHANGED <<keys, token>>

\* One picture, voiceover or video.  One that fails, or whose answer is lost, costs a placeholder,
\* an error entry or (a picture whose address is no string) nothing at all; an ad that is no
\* object raises where its title is read, outside every try.
Shoot ==
    LET plan == MediaPlan(errand)
        next == plan[Len(errand.shots) + 1]
        done(ok) == [errand EXCEPT !.shots = Append(@, [of |-> next, ok |-> ok]),
                                   !.status = IF Len(errand.shots) + 1 = Len(plan) THEN "done" ELSE @]
        spoilt == next[1] \in {"voice", "video"} /\ next[2] > SoundAds(errand)
    IN  /\ errand.status = "media"
        /\ \/ /\ ~spoilt
              /\ \E ok \in BOOLEAN : (ok /\ next[1] = "image" => "openai" \in keys) /\ errand' = done(ok)
           \/ /\ spoilt
              /\ errand' = [errand EXCEPT !.status = "failed"]
        /\ UNCHANGED <<keys, token>>

\* Time passes: the token nears its end, or the server gives it up before that.
TokenAges ==
    /\ token = "good" /\ token' \in {"old", "dead"}
    /\ UNCHANGED <<keys, errand>>

AssistStep ==
    \/ \E t \in Tasks : Start(t)
    \/ AskNobody \/ Authorize \/ AskGigaChat \/ AskOpenAI \/ AskMock \/ Shoot
    \/ \E p \in {"gpt4o", "claude", "mixtral"} : AskOpenRouter(p)

AssistFault == TokenAges

AssistNext == AssistStep \/ AssistFault
AssistSpec == AssistInit /\ [][AssistNext]_assistVars

-----------------------------------------------------------------------------
(* Properties *)

\* Type correctness of the errand, the keys and the cached token.
AssistTypeOK ==
    /\ keys \subseteq Services
    /\ token \in {"none", "good", "old", "dead"}
    /\ errand.task \in Tasks
    /\ errand.status \in {"idle", "texts", "media", "done", "failed"}
    /\ errand.item \in 1 .. errand.task.texts
    /\ errand.call \in [Providers -> {"idle", "token", "post", "renew", "repost", "ok", "refused"}]
    /\ errand.got \subseteq [item : Nat, by : Providers, worth : {Broken} \cup Nat, sound : Nat]
    /\ errand.answers \subseteq Nat \X Providers
    /\ errand.refusals \subseteq Nat \X Providers
    /\ errand.lost \subseteq Nat \X Providers

\* An errand gives up on a text only after every service it may ask was asked for that very
\* text in vain, or after one has written it and what it wrote is of no use (generate_text,
\* generate_parallel, score_batch).
GivesUpLast ==
    errand.status = "failed" =>
        \/ \E p \in Providers : <<errand.item, p>> \in errand.answers
        \/ \A p \in ToSet(AskedOf(errand.task)) : <<errand.item, p>> \in errand.refusals

\* p is preferred to q.
Preferred(t, p, q) ==
    \E i, j \in DOMAIN AskedOf(t) : i < j /\ AskedOf(t)[i] = p /\ AskedOf(t)[j] = q

\* Unless several are asked at once: two services write the same text only when one of the two
\* answers was lost on the way, and whoever gave no text for one that was answered had been
\* preferred to the one that answered it; so nobody is asked once there is an answer.
PaidOnce ==
    errand.task.by # "all" =>
        /\ \A a, b \in errand.answers \cup errand.lost :
              a[1] = b[1] => a = b \/ a \in errand.lost \/ b \in errand.lost
        /\ \A a \in errand.answers, b \in errand.refusals :
              a[1] = b[1] => Preferred(errand.task, b[2], a[2])

\* A finished errand holds an answer for every text it could not do without, and of the
\* services asked at once it keeps one that no other answer was rated above.
KeepsTheBest ==
    errand.status = "done" =>
        /\ \A i \in 1 .. errand.task.texts :
              MayMiss(errand.task, i) \/ \E g \in errand.got : g.item = i
        /\ errand.task.by = "all" =>
              \A g \in errand.got, a \in errand.answers :
                  Rating.quality[a[2]] <= Rating.quality[g.by]

\* GigaChat never refuses a text for a stale cached token: the answer is lost to a 401 only
\* when a token fetched in the same call was refused (generate_text).
StaleTokenCostsNothing == ~errand.denied

\* Every picture, voiceover and video that was wanted for a package's first ads is tried, in
\* order, however many of them fail; and a package whose ads were read is lost for nothing but
\* an ad that is no object.
MediaIsWhole ==
    /\ errand.status = "done" => [i \in DOMAIN errand.shots |-> errand.shots[i].of] = MediaPlan(errand)
    /\ errand.status = "failed" /\ errand.task.kind \in {"creatives", "cascade"} /\ errand.got # {}
         => \E g \in errand.got : g.sound < g.worth

\* AI errands spend well: a text is given up only when every service was asked for it in vain
\* or one wrote what is of no use, it is written twice only when an answer was lost on the way,
\* the best of several answers is kept, no text is refused for a stale token, and of a package
\* whose ads are objects all media are tried, however many fail (MultiAIOrchestrator,
\* GigaChatProvider, ai_intelligence, cascade_pipeline).
ErrandsSpendWell ==
    /\ GivesUpLast
    /\ PaidOnce
    /\ KeepsTheBest
    /\ StaleTokenCostsNothing
    /\ MediaIsWhole
=============================================================================
