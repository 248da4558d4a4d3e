---------------------------- MODULE ServicesProofs ----------------------------
(***************************************************************************)
(* The errands of the AI helpers, and the components together.  An errand's *)
(* inductive invariant says of each of its states what has been asked,     *)
(* answered and refused by then.  The composition of the components does   *)
(* what each of them does alone, so that what is proved of a component is  *)
(* true of it among the others.                                            *)
(***************************************************************************)
EXTENDS MCServices, ChangesProofs, CampaignsProofs, LinksProofs, FiguresProofs

-----------------------------------------------------------------------------
(* The errands of the AI helpers. *)

Goals == {"quality", "speed"}
Modes == {"chain", "one", "all"}

LEMMA TasksAre ==
  ASSUME NEW t \in Tasks
  PROVE  /\ t.by \in Modes /\ t.goal \in Goals /\ t.texts \in Nat \ {0}
         /\ t.failed \in {"fails", "skipped"}
         /\ t.by = "all" => t.texts = 1 /\ t.failed = "fails" /\ t.kind = "parallel"
         /\ t.kind \in {"creatives", "cascade"} => t.texts = 1
<1> USE AssistantAssumption DEF Task, With, Modes, Goals
<1>1. CASE t \in {GenerateParallel, PredictRoi, FindAudiences, ExpandKeywords, ProcessCommand,
                  StudioText, AiAnalyze, FindCompetitors}
  BY <1>1 DEF GenerateParallel, PredictRoi, FindAudiences, ExpandKeywords, ProcessCommand,
              StudioText, AiAnalyze, FindCompetitors
<1>2. CASE \E m \in SUBSET {"picture", "voice", "video"} : t = GenerateAdCreatives(m)
  BY <1>2 DEF GenerateAdCreatives
<1>3. CASE \E m \in SUBSET {"image"} : t = CascadeGenerate(m)
  BY <1>3 DEF CascadeGenerate
<1>4. CASE \E n \in 0 .. MaxItems : t = AnalyzeMultiple(n)
  BY <1>4 DEF AnalyzeMultiple
<1>5. CASE \E n \in 1 .. MaxItems : t = ScoreBatch(n)
  BY <1>5 DEF ScoreBatch
<1>6. QED
  BY <1>1, <1>2, <1>3, <1>4, <1>5 DEF Tasks

\* Of some places there is one that has the best rated and is the first of those.
LEMMA BestIsIn ==
  ASSUME NEW ps, NEW places, IsFiniteSet(places), places # {}, \A i \in places : i \in Nat,
         NEW goal \in Goals, \A i \in places : ps[i] \in TextServices
  PROVE  /\ Best(ps, places, goal) \in places
         /\ \A j \in places : Rating[goal][ps[j]] <= Rating[goal][ps[Best(ps, places, goal)]]
<1> DEFINE cost == [i \in places |-> 10 - Rating[goal][ps[i]]]
           least == {i \in places : \A j \in places : cost[i] <= cost[j]}
           self == [i \in places |-> i]
<1>1. \A i \in places : Rating[goal][ps[i]] \in Nat
  BY DEF Rating, Goals, TextServices
<1>2. \A i \in places : cost[i] \in Int
  BY <1>1
<1>3. least # {}
  <2> HIDE DEF cost
  <2>1. \E i \in places : \A j \in places : cost[i] <= cost[j]
    BY <1>2, LeastExists
  <2>2. QED
    BY <2>1
<1>4. \E i \in least : \A j \in least : self[i] <= self[j]
  <2>1. IsFiniteSet(least)
    <3>1. least \subseteq places
      OBVIOUS
    <3> HIDE DEF least
    <3>2. QED
      BY <3>1, FS_Subset
  <2>2. \A i \in least : self[i] \in Int
    OBVIOUS
  <2> HIDE DEF least, self
  <2>3. QED
    BY <1>3, <2>1, <2>2, LeastExists
<1>5. PICK i \in least : \A j \in least : i <= j
  BY <1>4
<1> DEFINE rate(k) == Rating[goal][ps[k]]
<1>6. \A j \in places : rate(j) < rate(i) \/ (rate(j) = rate(i) /\ i <= j)
  <2>1. i \in places /\ \A j \in places : rate(j) \in Nat /\ rate(i) \in Nat /\ rate(j) <= rate(i)
    BY <1>1
  <2>2. ASSUME NEW j \in places, rate(j) = rate(i) PROVE j \in least
    BY <2>2
  <2>3. QED
    BY <1>5, <2>1, <2>2
<1>7. \E k \in places : \A j \in places : rate(j) < rate(k) \/ (rate(j) = rate(k) /\ k <= j)
  BY <1>6
<1>8. Best(ps, places, goal) = CHOOSE k \in places : \A j \in places : rate(j) < rate(k) \/ (rate(j) = rate(k) /\ k <= j)
  BY DEF Best
<1>9. \A j \in places : rate(j) < rate(Best(ps, places, goal))
        \/ (rate(j) = rate(Best(ps, places, goal)) /\ Best(ps, places, goal) <= j)
  BY <1>7, <1>8
<1>10. Best(ps, places, goal) \in places
  BY <1>7, <1>8
<1>11. QED
  BY <1>1, <1>9, <1>10

LEMMA ReadyIs ==
  /\ \E n \in Nat : Ready \in [1 .. n -> TextServices]
  /\ Ready \in Seq(TextServices)
<1>1. <<>> \in Seq(TextServices) /\ <<"gigachat">> \in Seq(TextServices)
      /\ <<"gpt4o", "claude", "mixtral">> \in Seq(TextServices)
  BY DEF TextServices
<1>2. \A r, s \in Seq(TextServices) : r \o s \in Seq(TextServices)
  OBVIOUS
<1>3. Ready \in Seq(TextServices)
  BY <1>1, <1>2 DEF Ready
<1>4. Ready \in [1 .. Len(Ready) -> TextServices] /\ Len(Ready) \in Nat
  BY <1>3
<1>5. QED
  BY <1>3, <1>4

\* Whom an errand asks: some of the services, and of those that are registered only, unless it asks one.
LEMMA AskedIs ==
  ASSUME NEW t \in Tasks
  PROVE  /\ AskedOf(t) \in Seq(Providers)
         /\ t.by = "all" => \A i \in DOMAIN AskedOf(t) : AskedOf(t)[i] \in TextServices
<1>1. PICK n \in Nat : Ready \in [1 .. n -> TextServices]
  BY ReadyIs
<1>2. Ready \in Seq(TextServices)
  BY ReadyIs
<1>3. TextServices \subseteq Providers
  BY DEF Providers
<1>4. t.by \in Modes /\ t.goal \in Goals
  BY TasksAre
<1>5. CASE t.by = "one"
  <2>1. AskedOf(t) = <<DefaultProvider>>
    BY <1>5 DEF AskedOf
  <2>2. DefaultProvider \in Providers
    BY DEF DefaultProvider, Providers, TextServices
  <2>3. QED
    BY <1>5, <2>1, <2>2
<1>6. CASE t.by = "all"
  <2> DEFINE m == IF Len(Ready) < 3 THEN Len(Ready) ELSE 3
  <2>1. AskedOf(t) = SubSeq(Ready, 1, m)
    BY <1>6 DEF AskedOf
  <2>2. m \in 0 .. Len(Ready)
    BY <1>2
  <2> HIDE DEF m
  <2>3. SubSeq(Ready, 1, m) \in Seq(TextServices)
    BY <1>2, <2>2
  <2>4. QED
    BY <1>3, <2>1, <2>3
<1>7. CASE t.by = "chain"
  <2>1. AskedOf(t) = Fallbacks(t.goal)
    BY <1>7 DEF AskedOf
  <2>2. CASE Ready = <<>>
    BY <1>7, <2>1, <2>2 DEF Fallbacks
  <2>3. CASE Ready # <<>>
    <3> DEFINE first == Best(Ready, DOMAIN Ready, t.goal)
    <3>1. /\ IsFiniteSet(DOMAIN Ready) /\ DOMAIN Ready # {}
          /\ \A i \in DOMAIN Ready : i \in Nat /\ Ready[i] \in TextServices
      <4>1. DOMAIN Ready = 1 .. n
        BY <1>1
      <4>2. IsFiniteSet(1 .. n)
        BY FS_Interval
      <4>3. 1 .. n # {}
        <5>1. Len(Ready) \in Nat /\ DOMAIN Ready = 1 .. Len(Ready) /\ Len(Ready) # 0
          BY <1>2, <2>3
        <5>2. 1 \in DOMAIN Ready
          BY <5>1
        <5>3. QED
          BY <4>1, <5>2
      <4>4. \A i \in 1 .. n : i \in Nat /\ Ready[i] \in TextServices
        BY <1>1
      <4>5. QED
        BY <4>1, <4>2, <4>3, <4>4, Zenon
    <3>2. first \in DOMAIN Ready
      BY <1>4, <3>1, BestIsIn
    <3> HIDE DEF first
    <3>3. <<Ready[first]>> \in Seq(TextServices)
      BY <3>1, <3>2
    <3>4. RemoveAt(Ready, first) \in Seq(TextServices)
      <4>1. first \in 1 .. Len(Ready)
        BY <1>2, <3>2
      <4>2. SubSeq(Ready, 1, first - 1) \in Seq(TextServices)
        BY <1>2, <4>1
      <4>3. SubSeq(Ready, first + 1, Len(Ready)) \in Seq(TextServices)
        BY <1>2, <4>1
      <4>4. QED
        BY <4>2, <4>3 DEF RemoveAt
    <3>5. AskedOf(t) = <<Ready[first]>> \o RemoveAt(Ready, first)
      BY <2>1, <2>3 DEF Fallbacks, first
    <3>6. AskedOf(t) \in Seq(TextServices)
      BY <3>3, <3>4, <3>5
    <3>7. QED
      BY <1>3, <1>7, <3>6
  <2>4. QED
    BY <2>2, <2>3
<1>8. QED
  BY <1>4, <1>5, <1>6, <1>7 DEF Modes

CallStates == {"idle", "token", "post", "renew", "repost", "ok", "refused"}
Kept_ == [item : Nat, by : Providers, worth : {Broken} \cup Nat, sound : Nat]
Shots_ == {"picture", "voice", "video", "image"} \X Nat

Taken == Seq([of : Shots_, ok : BOOLEAN])

\* The errands there may be.
Errands ==
  [task : Tasks, status : {"idle", "texts", "media", "done", "failed"}, item : Nat,
   asked : Seq(Providers), call : [Providers -> CallStates], renewed : BOOLEAN, denied : BOOLEAN,
   got : SUBSET Kept_, answers : SUBSET (Nat \X Providers), refusals : SUBSET (Nat \X Providers),
   lost : SUBSET (Nat \X Providers), shots : Taken]

\* Every text up to n is held or may be missed.
Held(e, n) == \A i \in 1 .. n : MayMiss(e.task, i) \/ \E g \in e.got : g.item = i

\* A text is answered by one service, to which those that gave none were preferred, unless all
\* are asked at once.
Once(e) ==
  e.task.by # "all" =>
    /\ \A a, b \in e.answers : a[1] = b[1] => a = b
    /\ \A a \in e.answers, b \in e.refusals : a[1] = b[1] => Preferred(e.task, b[2], a[2])

\* Nothing is held of the text under way.
Fresh(e) == \A g \in e.got : g.item \in 1 .. (e.item - 1)

\* The text under way has come to an end, or will: nothing of a later one is written.
Shut(e) ==
  /\ e \in Errands /\ e.item \in 1 .. e.task.texts
  /\ e.asked = AskedOf(e.task)
  /\ Once(e)
  /\ \A a \in e.answers \cup e.refusals : a[1] \in 1 .. e.item
  /\ Held(e, e.item - 1)
  /\ e.shots = <<>>
  /\ e.task.by = "all" => e.got = {}

\* What the calls of a text that is under way have come to is written down.
Noted(e) ==
  /\ Shut(e) /\ Fresh(e)
  /\ \A p \in Providers : e.call[p] # "idle" => p \in ToSet(e.asked)
  /\ \A p \in Providers : e.call[p] = "refused" <=> <<e.item, p>> \in e.refusals
  /\ \A p \in Providers : e.call[p] = "ok" <=> <<e.item, p>> \in e.answers
  /\ e.task.by # "all" =>
       /\ \A p \in Providers : e.call[p] # "ok"
       /\ \A p, q \in Providers : {e.call[p], e.call[q]} \cap {"idle", "refused"} = {} => p = q

\* A call that is under way: neither waiting nor over.
Calling(e, p) == e.call[p] \notin {"idle", "ok", "refused"}

\* The services are asked in their order: those before the one that is asked gave no text.
InTurn(e) ==
  \/ e.asked = <<>>
  \/ \E k \in DOMAIN e.asked :
        /\ Calling(e, e.asked[k])
        /\ \A i \in DOMAIN e.asked : i < k => e.call[e.asked[i]] = "refused"
        /\ \A q \in Providers : e.call[q] = "refused" => \E i \in DOMAIN e.asked : i < k /\ e.asked[i] = q

\* A text is under way.
Asking(e) == Noted(e) /\ (e.task.by # "all" => InTurn(e))

\* No service is left to ask for this text, or one has answered it.
GaveUp(e) ==
  \/ \E p \in Providers : <<e.item, p>> \in e.answers
  \/ \A p \in ToSet(AskedOf(e.task)) : <<e.item, p>> \in e.refusals

\* All texts are done, and of all that were asked at once the best is kept.
Gotten(e) ==
  /\ Held(e, e.task.texts)
  /\ e.task.by = "all" =>
       \A g \in e.got, a \in e.answers : Rating.quality[a[2]] <= Rating.quality[g.by]

\* The media so far are the first of the plan.
Shot(e) == \A i \in DOMAIN e.shots : e.shots[i].of = MediaPlan(e)[i]

\* A package whose ads were read is lost for one that is no object.
LostFor(e) ==
  e.task.kind \in {"creatives", "cascade"} /\ e.got # {} => \E g \in e.got : g.sound < g.worth

EInv(e) ==
  /\ e \in Errands /\ e.item \in 1 .. e.task.texts /\ Once(e)
  /\ e.status = "texts" => Asking(e)
  /\ e.status = "failed" => GaveUp(e) /\ LostFor(e)
  /\ e.status \in {"media", "done"} => Gotten(e) /\ Shot(e)
  /\ e.status = "media" => GaveUp(e) /\ Len(e.shots) < Len(MediaPlan(e))
  /\ e.status = "done" => Len(e.shots) = Len(MediaPlan(e))

\* What no text changes.
SameBook(e, f) ==
  /\ f.task = e.task /\ f.item = e.item /\ f.renewed = e.renewed /\ f.denied = e.denied
  /\ f.got = e.got /\ f.answers = e.answers /\ f.refusals = e.refusals
  /\ f.lost = e.lost /\ f.shots = e.shots

Idle == [p \in Providers |-> "idle"]

-----------------------------------------------------------------------------
LEMMA BeginTextIs ==
  ASSUME NEW e \in Errands, NEW f, f = BeginText(e)
  PROVE  /\ f \in Errands /\ SameBook(e, f)
         /\ f.asked = AskedOf(e.task)
         /\ f.status = "texts"
         /\ \A p \in Providers : f.call[p] \in {"idle", Opening(p)}
         /\ \A p \in Providers : f.call[p] # "idle" => p \in ToSet(f.asked)
         /\ e.task.by # "all" => \A p, q \in Providers : f.call[p] # "idle" /\ f.call[q] # "idle" => p = q
         /\ e.task.by # "all" /\ f.asked # <<>> =>
              1 \in DOMAIN f.asked /\ f.asked[1] \in Providers /\ f.call[f.asked[1]] = Opening(f.asked[1])
<1> DEFINE asked == AskedOf(e.task)
           now == IF e.task.by = "all" THEN ToSet(asked) ELSE {asked[i] : i \in DOMAIN asked \cap {1}}
           call == [p \in Providers |-> IF p \in now THEN Opening(p) ELSE "idle"]
<1>1. asked \in Seq(Providers)
  BY AskedIs DEF Errands
<1>2. call \in [Providers -> CallStates]
  BY DEF Opening, CallStates
<1>3. f = [e EXCEPT !.asked = asked, !.call = call, !.status = "texts"]
  BY DEF BeginText
<1>4. now \subseteq ToSet(asked) /\ (e.task.by # "all" => \A p, q \in now : p = q)
  BY <1>1 DEF ToSet
<1>5. \A p \in Providers : call[p] \in {"idle", Opening(p)} /\ (call[p] # "idle" => p \in now)
  OBVIOUS
<1>6. e.task.by # "all" /\ asked # <<>> =>
        1 \in DOMAIN asked /\ asked[1] \in Providers /\ call[asked[1]] = Opening(asked[1])
  <2>1. asked # <<>> => 1 \in DOMAIN asked /\ asked[1] \in Providers
    BY <1>1
  <2>2. asked # <<>> /\ e.task.by # "all" => asked[1] \in now
    BY <2>1
  <2>3. \A p \in now : p \in Providers => call[p] = Opening(p)
    OBVIOUS
  <2> HIDE DEF asked, now, call
  <2>4. QED
    BY <2>1, <2>2, <2>3
<1> HIDE DEF asked, call, now
<1>7. f \in Errands /\ f.asked = asked /\ f.call = call /\ f.status = "texts"
  BY <1>1, <1>2, <1>3 DEF Errands
<1>8. SameBook(e, f)
  BY <1>3 DEF Errands, SameBook
<1>9. QED
  BY <1>4, <1>5, <1>6, <1>7, <1>8 DEF asked

LEMMA EndedIs ==
  ASSUME NEW e \in Errands, NEW f, f = Ended(e)
  PROVE  /\ f \in Errands /\ SameBook(e, f)
         /\ f.asked = e.asked
         /\ f.call = Idle
         /\ \/ f.status = "failed" /\ Unfit(e)
            \/ f.status = "done" /\ MediaPlan(e) = <<>>
            \/ f.status = "media" /\ MediaPlan(e) # <<>>
<1> DEFINE status == IF Unfit(e) THEN "failed" ELSE IF MediaPlan(e) = <<>> THEN "done" ELSE "media"
<1>1. f = [e EXCEPT !.call = Idle, !.status = status]
  BY DEF Ended, Idle
<1>2. Idle \in [Providers -> CallStates]
  BY DEF Idle, CallStates
<1>3. \/ status = "failed" /\ Unfit(e)
      \/ status = "done" /\ MediaPlan(e) = <<>>
      \/ status = "media" /\ MediaPlan(e) # <<>>
  OBVIOUS
<1> HIDE DEF status
<1>4. f \in Errands /\ f.asked = e.asked /\ f.call = Idle /\ f.status = status
  BY <1>1, <1>2, <1>3 DEF Errands
<1>5. SameBook(e, f)
  BY <1>1 DEF Errands, SameBook
<1>6. QED
  BY <1>3, <1>4, <1>5

\* The plan of media is a sequence, depends on the task and on what was got, and has no voiceover
\* or video for an ad that there is not.
PlannedFor(e) == {s \in Shots_ : s[1] \in {"voice", "video"} => s[2] <= AdsWritten(e)}

LEMMA MediaPlanIs ==
  ASSUME NEW e \in Errands
  PROVE  /\ MediaPlan(e) \in Seq(PlannedFor(e))
         /\ \A f : f.task = e.task /\ f.got = e.got => MediaPlan(f) = MediaPlan(e)
<1> DEFINE few(n) == IF AdsWritten(e) < n THEN AdsWritten(e) ELSE n
           list(w, n) == [i \in 1 .. n |-> <<w, i>>]
           shots(w, n, ready) == IF w \in e.task.media /\ ready THEN list(w, n) ELSE <<>>
<1>1. AdsWritten(e) \in Int
  <2>1. \A g \in e.got : g.worth \in Int
    BY DEF Errands, Kept_, Broken
  <2>2. e.got # {} => (CHOOSE g \in e.got : TRUE) \in e.got
    OBVIOUS
  <2>3. QED
    BY <2>1, <2>2 DEF AdsWritten
<1>2. /\ few(MaxVoices) \in Int /\ few(MaxVideos) \in Int /\ few(MaxImages) \in Int /\ MaxThemes \in Int
      /\ few(MaxVoices) <= AdsWritten(e) /\ few(MaxVideos) <= AdsWritten(e)
  BY <1>1, AssistantAssumption
<1>3. ASSUME NEW w \in {"picture", "voice", "video", "image"}, NEW n \in Int,
             w \in {"voice", "video"} => n <= AdsWritten(e)
      PROVE  list(w, n) \in Seq(PlannedFor(e))
  <2> DEFINE m == IF n < 0 THEN 0 ELSE n
  <2>1. m \in Nat /\ 1 .. m = 1 .. n
    OBVIOUS
  <2>2. \A i \in 1 .. n : <<w, i>> \in PlannedFor(e)
    BY <1>1, <1>3 DEF PlannedFor, Shots_
  <2>3. list(w, n) \in [1 .. m -> PlannedFor(e)]
    BY <2>1, <2>2
  <2> HIDE DEF m, list
  <2>4. \A s \in [1 .. m -> PlannedFor(e)] : s \in Seq(PlannedFor(e))
    BY <2>1
  <2>5. QED
    BY <2>3, <2>4
<1> HIDE DEF few, list
<1>4. <<>> \in Seq(PlannedFor(e)) /\ \A r, s \in Seq(PlannedFor(e)) : r \o s \in Seq(PlannedFor(e))
  OBVIOUS
<1>5. ASSUME NEW w \in {"picture", "voice", "video", "image"}, NEW n \in Int, NEW ready,
             w \in {"voice", "video"} => n <= AdsWritten(e)
      PROVE  shots(w, n, ready) \in Seq(PlannedFor(e))
  BY <1>3, <1>4, <1>5
<1> DEFINE pictures == shots("picture", MaxThemes, "openrouter" \in keys)
           voices == shots("voice", few(MaxVoices), "elevenlabs" \in keys)
           videos == shots("video", few(MaxVideos), "heygen" \in keys)
           images == shots("image", few(MaxImages), TRUE)
<1>6. pictures \in Seq(PlannedFor(e)) /\ images \in Seq(PlannedFor(e))
  BY <1>2, <1>5
<1>7. voices \in Seq(PlannedFor(e)) /\ videos \in Seq(PlannedFor(e))
  BY <1>2, <1>5
<1>8. MediaPlan(e) = pictures \o voices \o videos \o images
  BY DEF MediaPlan, few, list
<1> HIDE DEF pictures, voices, videos, images
<1>9. MediaPlan(e) \in Seq(PlannedFor(e))
  BY <1>4, <1>6, <1>7, <1>8
<1>10. \A f : f.task = e.task /\ f.got = e.got => MediaPlan(f) = MediaPlan(e)
  BY Zenon DEF MediaPlan, AdsWritten
<1>11. QED
  BY <1>9, <1>10

\* A text is begun: those before it are held or may be missed, and it has not been asked of anyone.
Before(e) ==
  /\ e \in Errands /\ e.item \in 1 .. e.task.texts
  /\ Once(e) /\ Fresh(e)
  /\ \A a \in e.answers \cup e.refusals : a[1] \in 1 .. (e.item - 1)
  /\ Held(e, e.item - 1)
  /\ e.shots = <<>>
  /\ e.task.by = "all" => e.got = {}

LEMMA OpeningIs == \A p : Opening(p) \in {"token", "post"}
  BY DEF Opening

LEMMA BeginTextKeeps ==
  ASSUME NEW e, Before(e), NEW f, f = BeginText(e)
  PROVE  EInv(f)
<1>1. e \in Errands
  BY DEF Before
<1>2. /\ f \in Errands /\ SameBook(e, f)
      /\ f.asked = AskedOf(e.task)
      /\ f.status = "texts"
      /\ \A p \in Providers : f.call[p] \in {"idle", Opening(p)}
      /\ \A p \in Providers : f.call[p] # "idle" => p \in ToSet(f.asked)
      /\ e.task.by # "all" => \A p, q \in Providers : f.call[p] # "idle" /\ f.call[q] # "idle" => p = q
      /\ e.task.by # "all" /\ f.asked # <<>> =>
           1 \in DOMAIN f.asked /\ f.asked[1] \in Providers /\ f.call[f.asked[1]] = Opening(f.asked[1])
  BY <1>1, BeginTextIs
<1>3. f.item \in 1 .. f.task.texts /\ Once(f)
  BY <1>2 DEF Before, SameBook, Once
<1>4. Asking(f)
  <2>1. Shut(f)
    <3>1. \A a \in f.answers \cup f.refusals : a[1] \in 1 .. f.item
      <4>1. \A a \in e.answers \cup e.refusals : a[1] \in 1 .. (e.item - 1)
        BY DEF Before, Errands
      <4>2. e.item \in Nat
        BY DEF Before, Errands
      <4>3. QED
        BY <1>2, <4>1, <4>2 DEF SameBook
    <3>2. Held(f, f.item - 1)
      BY <1>2 DEF Before, SameBook, Held
    <3>3. f.shots = <<>> /\ (f.task.by = "all" => f.got = {}) /\ f.asked = AskedOf(f.task)
      BY <1>2 DEF Before, SameBook
    <3>4. QED
      BY <1>2, <1>3, <3>1, <3>2, <3>3 DEF Shut
  <2>2. \A p \in Providers : f.call[p] \in {"idle", "token", "post"}
    BY <1>2, OpeningIs
  <2>3. \A p \in Providers : <<f.item, p>> \notin f.refusals /\ <<f.item, p>> \notin f.answers
    <3>1. e.item \in Nat
      BY DEF Before, Errands
    <3>2. \A p \in Providers : <<e.item, p>>[1] = e.item
      OBVIOUS
    <3>3. \A p \in Providers : <<e.item, p>> \notin e.refusals /\ <<e.item, p>> \notin e.answers
      BY <3>1, <3>2 DEF Before
    <3>4. QED
      BY <1>2, <3>3 DEF SameBook
  <2>4. Fresh(f)
    BY <1>2 DEF Before, SameBook, Fresh
  <2>5. Noted(f)
    BY <1>2, <2>1, <2>2, <2>3, <2>4 DEF Noted, SameBook
  <2>6. f.task.by # "all" /\ f.asked # <<>> => InTurn(f)
    <3>1. SUFFICES ASSUME f.task.by # "all" /\ f.asked # <<>> PROVE InTurn(f)
      OBVIOUS
    <3>2. 1 \in DOMAIN f.asked /\ Calling(f, f.asked[1])
      BY <1>2, <3>1, OpeningIs DEF SameBook, Calling
    <3>3. \A i \in DOMAIN f.asked : ~(i < 1)
      BY <1>2 DEF Errands
    <3>4. QED
      BY <2>2, <3>2, <3>3 DEF InTurn
  <2>7. QED
    BY <2>5, <2>6 DEF Asking, InTurn
<1>5. QED
  BY <1>2, <1>3, <1>4 DEF EInv

LEMMA EndedKeeps ==
  ASSUME NEW e, e \in Errands, e.item \in 1 .. e.task.texts, Once(e), Gotten(e),
         e.shots = <<>>, GaveUp(e),
         NEW f, f = Ended(e)
  PROVE  EInv(f)
<1>1. /\ f \in Errands /\ SameBook(e, f)
      /\ \/ f.status = "failed" /\ Unfit(e)
         \/ f.status = "done" /\ MediaPlan(e) = <<>>
         \/ f.status = "media" /\ MediaPlan(e) # <<>>
  BY EndedIs
<1>2. MediaPlan(e) \in Seq(PlannedFor(e)) /\ MediaPlan(f) = MediaPlan(e)
  BY <1>1, MediaPlanIs DEF SameBook
<1>3. f.item \in 1 .. f.task.texts /\ Once(f) /\ Gotten(f)
  BY <1>1 DEF SameBook, Once, Gotten, Held
<1>4. GaveUp(f) /\ (Unfit(e) => LostFor(f))
  BY <1>1 DEF SameBook, GaveUp, Unfit, LostFor
<1>5. Shot(f)
  <2>1. f.shots = <<>>
    BY <1>1 DEF SameBook
  <2>2. DOMAIN f.shots = {}
    BY <2>1
  <2>3. QED
    BY <2>1, <2>2 DEF Shot
<1>6. Len(f.shots) = 0
  BY <1>1 DEF SameBook
<1>7. f.status = "media" => Len(f.shots) < Len(MediaPlan(f))
  BY <1>1, <1>2, <1>6
<1>8. f.status = "done" => Len(f.shots) = Len(MediaPlan(f))
  BY <1>1, <1>2, <1>6
<1>9. QED
  BY <1>1, <1>3, <1>4, <1>5, <1>7, <1>8 DEF EInv, SameBook

LEMMA NextTextKeeps ==
  ASSUME NEW e, Shut(e), e.task.by # "all", GaveUp(e), \A g \in e.got : g.item \in 1 .. e.item,
         MayMiss(e.task, e.item) \/ \E g \in e.got : g.item = e.item,
         NEW f, f = NextText(e)
  PROVE  EInv(f)
<1>0. e \in Errands /\ e.item \in Nat /\ e.task.texts \in Nat /\ e.item <= e.task.texts
  BY TasksAre DEF Shut, Errands
<1>1. Held(e, e.item)
  BY <1>0 DEF Shut, Held
<1>2. CASE e.item = e.task.texts
  <2>1. f = Ended(e)
    BY <1>2 DEF NextText
  <2>2. Gotten(e)
    BY <1>1, <1>2 DEF Gotten
  <2>3. QED
    BY <2>1, <2>2, EndedKeeps DEF Shut
<1>3. CASE e.item # e.task.texts
  <2> DEFINE n == [e EXCEPT !.item = @ + 1]
  <2>1. f = BeginText(n)
    BY <1>3 DEF NextText
  <2>2. /\ n \in Errands /\ n.item = e.item + 1 /\ n.task = e.task /\ n.got = e.got
        /\ n.answers = e.answers /\ n.refusals = e.refusals /\ n.shots = e.shots
    BY <1>0 DEF Errands
  <2> HIDE DEF n
  <2>3. Before(n)
    <3>1. n.item \in 1 .. n.task.texts /\ n.item - 1 = e.item
      BY <1>0, <1>3, <2>2
    <3>2. Once(n)
      BY <2>2 DEF Shut, Once
    <3>3. \A a \in n.answers \cup n.refusals : a[1] \in 1 .. (n.item - 1)
      <4>1. \A a \in e.answers \cup e.refusals : a[1] \in 1 .. e.item
        BY DEF Shut, Errands
      <4>2. QED
        BY <1>0, <2>2, <4>1
    <3>4. Held(n, n.item - 1)
      BY <1>1, <2>2, <3>1 DEF Held
    <3>5. Fresh(n)
      BY <2>2, <3>1 DEF Fresh
    <3>6. QED
      BY <2>2, <3>1, <3>2, <3>3, <3>4, <3>5 DEF Before, Shut
  <2>4. QED
    BY <2>1, <2>3, BeginTextKeeps
<1>4. QED
  BY <1>2, <1>3

LEMMA NoTextKeeps ==
  ASSUME NEW e, Shut(e), Fresh(e), GaveUp(e), NEW f, f = NoText(e)
  PROVE  EInv(f)
<1>0. e \in Errands /\ e.task \in Tasks
  BY DEF Shut, Errands
<1>1. CASE MayMiss(e.task, e.item)
  <2>1. f = NextText(e)
    BY <1>1 DEF NoText
  <2>2. e.task.by # "all"
    BY <1>0, <1>1, TasksAre DEF MayMiss
  <2>3. \A g \in e.got : g.item \in 1 .. e.item
    BY DEF Fresh, Shut, Errands, Kept_
  <2>4. QED
    BY <1>1, <2>1, <2>2, <2>3, NextTextKeeps
<1>2. CASE ~MayMiss(e.task, e.item)
  <2>1. f = [e EXCEPT !.status = "failed", !.call = Idle]
    BY <1>2 DEF NoText, Idle
  <2>2. Idle \in [Providers -> CallStates]
    BY DEF Idle, CallStates
  <2>3. f \in Errands /\ f.status = "failed"
    BY <1>0, <2>1, <2>2 DEF Errands
  <2>4. SameBook(e, f)
    BY <1>0, <2>1 DEF Errands, SameBook
  <2>5. LostFor(f)
    <3>1. e.task.kind \in {"creatives", "cascade"} => e.item = 1
      BY <1>0, TasksAre DEF Shut
    <3>2. e.item = 1 => e.got = {}
      BY DEF Fresh
    <3>3. QED
      BY <2>4, <3>1, <3>2 DEF SameBook, LostFor
  <2>6. QED
    BY <2>3, <2>4, <2>5 DEF EInv, SameBook, Shut, Once, GaveUp
<1>3. QED
  BY <1>1, <1>2

LEMMA GatheredKeeps ==
  ASSUME NEW e, Noted(e), e.status = "texts", e.task.by = "all", NEW f, f = Gathered(e)
  PROVE  EInv(f)
<1> DEFINE answered == {i \in DOMAIN e.asked : e.call[e.asked[i]] = "ok"}
           best == e.asked[Best(e.asked, answered, "quality")]
<1>0. /\ Shut(e) /\ Fresh(e) /\ e \in Errands /\ e.task \in Tasks
      /\ e.task.texts = 1 /\ e.item = 1 /\ e.task.kind = "parallel"
  BY TasksAre DEF Noted, Shut, Errands
<1>1. e.asked \in Seq(Providers) /\ \A i \in DOMAIN e.asked : e.asked[i] \in TextServices
  BY <1>0, AskedIs DEF Shut
<1>2. CASE \E p \in ToSet(e.asked) : e.call[p] \notin {"ok", "refused"}
  <2>1. f = e
    BY <1>2 DEF Gathered
  <2>2. QED
    BY <1>0, <2>1 DEF EInv, Shut, Asking
<1>3. CASE ~(\E p \in ToSet(e.asked) : e.call[p] \notin {"ok", "refused"}) /\ answered = {}
  <2>1. f = NoText(e)
    BY <1>3 DEF Gathered
  <2>2. \A p \in ToSet(e.asked) : p \in Providers /\ e.call[p] = "refused"
    BY <1>1, <1>3 DEF ToSet
  <2>3. GaveUp(e)
    BY <1>0, <2>2 DEF GaveUp, Noted, Shut
  <2>4. QED
    BY <1>0, <2>1, <2>3, NoTextKeeps
<1>4. CASE ~(\E p \in ToSet(e.asked) : e.call[p] \notin {"ok", "refused"}) /\ answered # {}
  <2> DEFINE n == [e EXCEPT !.got = {[item |-> 1, by |-> best, worth |-> 0, sound |-> 0]}]
  <2>1. f = Ended(n)
    BY <1>4 DEF Gathered
  <2>2. /\ IsFiniteSet(answered) /\ \A i \in answered : i \in Nat /\ e.asked[i] \in TextServices
    <3>1. answered \subseteq 1 .. Len(e.asked) /\ Len(e.asked) \in Nat
      BY <1>1
    <3>2. IsFiniteSet(1 .. Len(e.asked))
      BY <3>1, FS_Interval
    <3> HIDE DEF answered
    <3>3. IsFiniteSet(answered)
      BY <3>1, <3>2, FS_Subset
    <3>4. \A i \in answered : i \in Nat
      BY <3>1
    <3>5. \A i \in answered : e.asked[i] \in TextServices
      BY <1>1 DEF answered
    <3>6. QED
      BY <3>3, <3>4, <3>5
  <2>3. /\ Best(e.asked, answered, "quality") \in answered
        /\ \A j \in answered : Rating["quality"][e.asked[j]] <= Rating["quality"][best]
    <3> HIDE DEF answered
    <3>1. "quality" \in Goals
      BY DEF Goals
    <3>2. QED
      BY <1>4, <2>2, <3>1, BestIsIn
  <2>4. best \in Providers
    <3>1. \A k \in answered : e.asked[k] \in Providers
      BY <1>1
    <3> HIDE DEF answered
    <3>2. QED
      BY <2>3, <3>1
  <2> HIDE DEF best, answered
  <2>5. [item |-> 1, by |-> best, worth |-> 0, sound |-> 0] \in Kept_
    BY <2>4 DEF Kept_
  <2>6. /\ n \in Errands /\ n.item = e.item /\ n.task = e.task
        /\ n.got = {[item |-> 1, by |-> best, worth |-> 0, sound |-> 0]}
        /\ n.answers = e.answers /\ n.refusals = e.refusals /\ n.shots = e.shots
    BY <1>0, <2>5 DEF Errands
  <2> HIDE DEF n
  <2>7. Once(n)
    BY <1>0, <2>6 DEF Shut, Once
  <2>8. Held(n, n.task.texts)
    BY <1>0, <2>6 DEF Held
  <2>9. ASSUME NEW g \in n.got, NEW a \in n.answers
        PROVE  Rating.quality[a[2]] <= Rating.quality[g.by]
    <3>1. a \in Nat \X Providers /\ a[1] \in 1 .. 1
      BY <1>0, <2>6 DEF Shut, Errands
    <3>2. a = <<1, a[2]>> /\ a[2] \in Providers
      BY <3>1
    <3>3. e.call[a[2]] = "ok"
      BY <1>0, <2>6, <3>2 DEF Noted
    <3>4. a[2] \in ToSet(e.asked)
      BY <3>2, <3>3 DEF Noted
    <3>5. PICK j \in DOMAIN e.asked : e.asked[j] = a[2]
      BY <3>4 DEF ToSet
    <3>6. j \in answered
      BY <3>3, <3>5 DEF answered
    <3>7. Rating["quality"][a[2]] <= Rating["quality"][best]
      BY <2>3, <3>5, <3>6 DEF best
    <3>8. g.by = best
      BY <2>6
    <3>9. QED
      BY <3>7, <3>8
  <2>10. Gotten(n)
    BY <2>8, <2>9 DEF Gotten
  <2>11. GaveUp(n)
    <3>1. PICK i \in answered : TRUE
      BY <1>4
    <3>2. i \in DOMAIN e.asked /\ e.call[e.asked[i]] = "ok"
      BY <3>1 DEF answered
    <3>3. e.asked[i] \in Providers
      BY <1>1, <3>2
    <3>4. QED
      BY <1>0, <2>6, <3>2, <3>3 DEF GaveUp, Noted
  <2>12. QED
    BY <1>0, <2>1, <2>6, <2>7, <2>10, <2>11, EndedKeeps DEF Shut
<1>5. QED
  BY <1>2, <1>3, <1>4

LEMMA RefusedKeeps ==
  ASSUME NEW e, Asking(e), e.status = "texts", NEW p \in Providers, Calling(e, p), NEW f, f = Refused(e, p)
  PROVE  EInv(f)
<1> DEFINE e2 == [e EXCEPT !.refusals = @ \cup {<<e.item, p>>}, !.call[p] = "refused"]
           rest == {i \in DOMAIN e.asked : e2.call[e.asked[i]] = "idle"}
           next == e.asked[Min(rest)]
<1>0. Shut(e) /\ Noted(e) /\ e \in Errands /\ e.task \in Tasks /\ e.task.by \in Modes /\ e.item \in 1 .. e.task.texts
  BY TasksAre DEF Asking, Noted, Shut, Errands
<1>1. /\ e2 \in Errands /\ e2.item = e.item /\ e2.task = e.task /\ e2.status = e.status /\ e2.asked = e.asked
      /\ e2.got = e.got /\ e2.answers = e.answers /\ e2.shots = e.shots /\ e2.lost = e.lost
      /\ e2.refusals = e.refusals \cup {<<e.item, p>>}
      /\ e2.call = [e.call EXCEPT ![p] = "refused"]
  <2> DEFINE W == e.refusals \cup {<<e.item, p>>}
             C == [e.call EXCEPT ![p] = "refused"]
  <2>1. W \in SUBSET (Nat \X Providers) /\ C \in [Providers -> CallStates]
    BY <1>0 DEF Errands, CallStates
  <2>2. e2 = [e EXCEPT !.refusals = W, !.call = C]
    OBVIOUS
  <2> HIDE DEF W, C, e2
  <2>3. /\ e2 \in Errands /\ e2.item = e.item /\ e2.task = e.task /\ e2.status = e.status /\ e2.asked = e.asked
        /\ e2.got = e.got /\ e2.shots = e.shots /\ e2.lost = e.lost
        /\ e2.refusals = W /\ e2.answers = e.answers /\ e2.call = C
    BY <1>0, <2>1, <2>2 DEF Errands
  <2>4. QED
    BY <2>3 DEF W, C
<1>2. e2.call[p] = "refused" /\ \A q \in Providers : q # p => e2.call[q] = e.call[q]
  BY <1>0, <1>1 DEF Errands
<1>3. f = CASE e.task.by = "all" -> Gathered(e2)
            [] e.task.by # "all" /\ rest = {} -> NoText(e2)
            [] OTHER -> [e2 EXCEPT !.call[next] = Opening(next)]
  BY DEF Refused
<1>4. <<e.item, p>> \notin e.answers
  BY <1>0 DEF Noted, Calling
<1> HIDE DEF e2
<1>5. Once(e2)
  <2>1. e.task.by # "all" => \A a \in e.answers : a[1] # e.item
    <3>1. \A a \in e.answers : a = <<a[1], a[2]>> /\ a[2] \in Providers
      BY <1>0 DEF Errands
    <3>2. QED
      BY <1>0, <3>1 DEF Noted
  <2>2. <<e.item, p>>[1] = e.item
    OBVIOUS
  <2>3. QED
    BY <1>0, <1>1, <2>1, <2>2 DEF Shut, Once
<1>6. Shut(e2)
  <2>1. <<e.item, p>>[1] = e.item
    OBVIOUS
  <2>2. \A a \in e2.answers \cup e2.refusals : a[1] \in 1 .. e2.item
    BY <1>0, <1>1, <2>1 DEF Shut, Errands
  <2>3. Held(e2, e2.item - 1)
    BY <1>0, <1>1 DEF Shut, Held
  <2>4. QED
    BY <1>0, <1>1, <1>5, <2>2, <2>3 DEF Shut
<1>7. Noted(e2)
  <2>1. \A q \in Providers : e2.call[q] # "idle" => q \in ToSet(e2.asked)
    BY <1>0, <1>1, <1>2 DEF Noted, Calling
  <2>2. \A q \in Providers : e2.call[q] = "refused" <=> <<e2.item, q>> \in e2.refusals
    BY <1>0, <1>1, <1>2 DEF Noted
  <2>3. \A q \in Providers : e2.call[q] = "ok" <=> <<e2.item, q>> \in e2.answers
    BY <1>0, <1>1, <1>2 DEF Noted, Calling
  <2>4. e2.task.by # "all" =>
          /\ \A q \in Providers : e2.call[q] # "ok"
          /\ \A q, r \in Providers : {e2.call[q], e2.call[r]} \cap {"idle", "refused"} = {} => q = r
    BY <1>0, <1>1, <1>2 DEF Noted
  <2>5. Fresh(e2)
    BY <1>0, <1>1 DEF Noted, Fresh
  <2>6. QED
    BY <1>6, <2>1, <2>2, <2>3, <2>4, <2>5 DEF Noted
<1>8. CASE e.task.by = "all"
  <2>1. f = Gathered(e2)
    BY <1>3, <1>8
  <2>2. QED
    BY <1>1, <1>7, <1>8, <2>1, GatheredKeeps
<1>9. ASSUME e.task.by # "all", NEW q \in Providers, q # p PROVE e.call[q] \in {"idle", "refused"}
  BY <1>0, <1>9 DEF Noted, Calling
<1>10. CASE e.task.by # "all" /\ rest = {}
  <2>1. f = NoText(e2)
    BY <1>3, <1>10
  <2>2. e.asked \in Seq(Providers)
    BY <1>0 DEF Errands
  <2>3. \A q \in ToSet(e.asked) : q \in Providers /\ e2.call[q] # "idle"
    BY <1>10, <2>2 DEF ToSet
  <2>4. \A q \in ToSet(e.asked) : e2.call[q] = "refused"
    BY <1>2, <1>9, <1>10, <2>3
  <2>5. GaveUp(e2)
    BY <1>0, <1>1, <1>7, <2>3, <2>4 DEF GaveUp, Noted, Shut
  <2>6. QED
    BY <1>6, <1>7, <2>1, <2>5, NoTextKeeps DEF Noted
<1>11. CASE e.task.by # "all" /\ rest # {}
  <2>1. f = [e2 EXCEPT !.call[next] = Opening(next)]
    BY <1>3, <1>11
  <2>2. e.asked \in Seq(Providers)
    BY <1>0 DEF Errands
  <2>3. Min(rest) \in rest /\ \A i \in rest : Min(rest) <= i
    <3>1. rest \subseteq 1 .. Len(e.asked) /\ Len(e.asked) \in Nat /\ rest # {}
      BY <1>11, <2>2
    <3> HIDE DEF rest
    <3>2. IsFiniteSet(rest)
      <4>1. IsFiniteSet(1 .. Len(e.asked))
        BY <3>1, FS_Interval
      <4>2. QED
        BY <3>1, <4>1, FS_Subset
    <3> DEFINE self == [i \in rest |-> i]
    <3>3. \A i \in rest : self[i] \in Int
      BY <3>1
    <3>4. \E i \in rest : \A j \in rest : self[i] <= self[j]
      <4> HIDE DEF self
      <4>1. QED
        BY <3>1, <3>2, <3>3, LeastExists
    <3>5. \E i \in rest : \A j \in rest : i <= j
      BY <3>4
    <3>6. QED
      BY <3>5 DEF Min
  <2>4. next \in Providers /\ next \in ToSet(e.asked) /\ e2.call[next] = "idle"
    <3>1. \A k \in rest : /\ e.asked[k] \in Providers /\ e.asked[k] \in ToSet(e.asked)
                          /\ e2.call[e.asked[k]] = "idle"
      BY <2>2 DEF ToSet
    <3> HIDE DEF rest
    <3>2. QED
      BY <2>3, <3>1
  <2> DEFINE m == Min(rest)
  <2>m. m \in DOMAIN e.asked /\ next = e.asked[m] /\ \A i \in DOMAIN e.asked : i < m => e2.call[e.asked[i]] # "idle"
    <3>1. \A i \in rest : m <= i /\ i \in Nat
      BY <2>2, <2>3
    <3>2. \A i \in DOMAIN e.asked : e2.call[e.asked[i]] = "idle" => i \in rest
      OBVIOUS
    <3>3. \A i \in rest : i \in DOMAIN e.asked
      OBVIOUS
    <3> HIDE DEF rest
    <3>4. m \in DOMAIN e.asked /\ m \in Nat
      BY <2>2, <2>3, <3>3
    <3>5. QED
      BY <3>1, <3>2, <3>4
  <2> HIDE DEF next, rest, m
  <2>5. /\ f \in Errands /\ f.item = e2.item /\ f.task = e2.task /\ f.status = e2.status /\ f.asked = e2.asked
        /\ f.got = e2.got /\ f.answers = e2.answers /\ f.shots = e2.shots /\ f.lost = e2.lost
        /\ f.refusals = e2.refusals
        /\ f.call = [e2.call EXCEPT ![next] = Opening(next)]
    <3>1. Opening(next) \in CallStates
      BY DEF Opening, CallStates
    <3> DEFINE C == [e2.call EXCEPT ![next] = Opening(next)]
    <3>2. C \in [Providers -> CallStates]
      BY <1>1, <2>4, <3>1 DEF Errands
    <3>3. f = [e2 EXCEPT !.call = C]
      BY <2>1
    <3> HIDE DEF C
    <3>4. /\ f \in Errands /\ f.item = e2.item /\ f.task = e2.task /\ f.status = e2.status /\ f.asked = e2.asked
          /\ f.got = e2.got /\ f.answers = e2.answers /\ f.shots = e2.shots /\ f.lost = e2.lost
          /\ f.refusals = e2.refusals /\ f.call = C
      BY <1>1, <3>2, <3>3 DEF Errands
    <3>5. QED
      BY <3>4 DEF C
  <2>6. f.call[next] \in {"token", "post"} /\ \A q \in Providers : q # next => f.call[q] = e2.call[q]
    BY <1>1, <2>4, <2>5, OpeningIs DEF Errands
  <2>7. Shut(f)
    BY <1>6, <2>5 DEF Shut, Once, Held
  <2>8. \A q \in Providers : q # next => f.call[q] \in {"idle", "refused"}
    BY <1>2, <1>9, <1>11, <2>6
  <2>9. Noted(f)
    <3>1. \A q \in Providers : f.call[q] # "idle" => q \in ToSet(f.asked)
      BY <1>1, <1>7, <2>4, <2>5, <2>6 DEF Noted
    <3>2. \A q \in Providers : f.call[q] = "refused" <=> <<f.item, q>> \in f.refusals
      BY <1>7, <2>4, <2>5, <2>6 DEF Noted
    <3>3. \A q \in Providers : f.call[q] = "ok" <=> <<f.item, q>> \in f.answers
      BY <1>7, <2>4, <2>5, <2>6 DEF Noted
    <3>4. \A q \in Providers : f.call[q] # "ok"
      BY <2>6, <2>8
    <3>5. \A q, r \in Providers : {f.call[q], f.call[r]} \cap {"idle", "refused"} = {} => q = r
      BY <2>8
    <3>6. Fresh(f)
      BY <1>7, <2>5 DEF Noted, Fresh
    <3>7. QED
      BY <2>7, <3>1, <3>2, <3>3, <3>4, <3>5, <3>6 DEF Noted
  <2>10. InTurn(f)
    <3>1. PICK k \in DOMAIN e.asked :
             /\ Calling(e, e.asked[k])
             /\ \A i \in DOMAIN e.asked : i < k => e.call[e.asked[i]] = "refused"
             /\ \A q \in Providers : e.call[q] = "refused" => \E i \in DOMAIN e.asked : i < k /\ e.asked[i] = q
      <4>1. e.asked # <<>>
        BY <2>2, <2>m
      <4>2. QED
        BY <1>11, <4>1 DEF Asking, InTurn
    <3>2. k \in Nat /\ m \in Nat /\ DOMAIN e.asked \subseteq Nat /\ \A i \in DOMAIN e.asked : e.asked[i] \in Providers
      BY <2>2, <2>m
    <3>3. e.asked[k] = p
      BY <1>9, <1>11, <3>1, <3>2 DEF Calling
    <3>4. \A i \in DOMAIN e.asked : i <= k => e2.call[e.asked[i]] = "refused"
      <4>1. SUFFICES ASSUME NEW i \in DOMAIN e.asked, i <= k PROVE e2.call[e.asked[i]] = "refused"
        OBVIOUS
      <4>2. i < k \/ i = k
        BY <3>2, <4>1
      <4>3. QED
        BY <1>2, <3>1, <3>2, <3>3, <4>1, <4>2
    <3>5. k < m
      <4>1. e2.call[e.asked[m]] = "idle"
        BY <2>4, <2>m
      <4>2. QED
        BY <2>m, <3>2, <3>4, <4>1
    <3>6. Calling(f, f.asked[m]) /\ f.asked = e.asked
      BY <1>1, <2>5, <2>6, <2>m DEF Calling
    <3>7. \A i \in DOMAIN e.asked : i < m => f.call[e.asked[i]] = "refused"
      <4>1. SUFFICES ASSUME NEW i \in DOMAIN e.asked, i < m PROVE f.call[e.asked[i]] = "refused"
        OBVIOUS
      <4>2. e2.call[e.asked[i]] # "idle" /\ e2.call[next] = "idle"
        BY <2>4, <2>m, <4>1
      <4>3. e.asked[i] # next /\ e.asked[i] \in Providers
        BY <3>2, <4>2
      <4>4. f.call[e.asked[i]] = e2.call[e.asked[i]] /\ f.call[e.asked[i]] \in {"idle", "refused"}
        BY <2>6, <2>8, <4>3
      <4>5. QED
        BY <4>2, <4>4
    <3>8. \A q \in Providers : f.call[q] = "refused" => \E i \in DOMAIN e.asked : i < m /\ e.asked[i] = q
      <4>1. SUFFICES ASSUME NEW q \in Providers, f.call[q] = "refused"
                     PROVE  \E i \in DOMAIN e.asked : i < m /\ e.asked[i] = q
        OBVIOUS
      <4>2. q # next /\ e2.call[q] = "refused"
        BY <2>6, <4>1
      <4>3. CASE q = p
        BY <3>3, <3>5, <4>3
      <4>4. CASE q # p
        <5>1. PICK i \in DOMAIN e.asked : i < k /\ e.asked[i] = q
          BY <1>2, <3>1, <4>2, <4>4
        <5>2. i < m
          BY <3>2, <3>5, <5>1
        <5>3. QED
          BY <5>1, <5>2
      <4>5. QED
        BY <4>3, <4>4
    <3>9. QED
      BY <2>m, <3>6, <3>7, <3>8 DEF InTurn
  <2>11. QED
    BY <1>1, <2>5, <2>7, <2>9, <2>10 DEF EInv, Shut, Asking
<1>12. QED
  BY <1>8, <1>10, <1>11

LEMMA AnsweredKeeps ==
  ASSUME NEW e, Asking(e), e.status = "texts", NEW p \in Providers, Calling(e, p),
         NEW r \in [worth : {Broken} \cup Nat, sound : Nat], NEW f, f = Answered(e, p, r)
  PROVE  EInv(f)
<1> DEFINE e2 == [e EXCEPT !.answers = @ \cup {<<e.item, p>>}, !.call[p] = "ok"]
           new == [item |-> e.item, by |-> p, worth |-> r.worth, sound |-> r.sound]
           kept == [e2 EXCEPT !.got = @ \cup {new}]
<1>0. Shut(e) /\ Noted(e) /\ e \in Errands /\ e.task \in Tasks /\ e.task.by \in Modes /\ e.item \in 1 .. e.task.texts
  BY TasksAre DEF Asking, Noted, Shut, Errands
<1>1. /\ e2 \in Errands /\ e2.item = e.item /\ e2.task = e.task /\ e2.status = e.status /\ e2.asked = e.asked
      /\ e2.got = e.got /\ e2.refusals = e.refusals /\ e2.shots = e.shots /\ e2.lost = e.lost
      /\ e2.answers = e.answers \cup {<<e.item, p>>}
      /\ e2.call = [e.call EXCEPT ![p] = "ok"]
  <2> DEFINE W == e.answers \cup {<<e.item, p>>}
             C == [e.call EXCEPT ![p] = "ok"]
  <2>1. W \in SUBSET (Nat \X Providers) /\ C \in [Providers -> CallStates]
    BY <1>0 DEF Errands, CallStates
  <2>2. e2 = [e EXCEPT !.answers = W, !.call = C]
    OBVIOUS
  <2> HIDE DEF W, C, e2
  <2>3. /\ e2 \in Errands /\ e2.item = e.item /\ e2.task = e.task /\ e2.status = e.status /\ e2.asked = e.asked
        /\ e2.got = e.got /\ e2.shots = e.shots /\ e2.lost = e.lost
        /\ e2.answers = W /\ e2.refusals = e.refusals /\ e2.call = C
    BY <1>0, <2>1, <2>2 DEF Errands
  <2>4. QED
    BY <2>3 DEF W, C
<1>2. e2.call[p] = "ok" /\ \A q \in Providers : q # p => e2.call[q] = e.call[q]
  BY <1>0, <1>1 DEF Errands
<1>3. f = CASE e.task.by = "all" -> Gathered(e2)
            [] e.task.by # "all" /\ r.worth = Broken /\ ~HandedOn(e.task, e.item) -> NoText(e2)
            [] OTHER -> NextText(kept)
  BY DEF Answered
<1> HIDE DEF e2
<1>4. <<e.item, p>> \notin e.refusals
  BY <1>0 DEF Noted, Calling
<1>5. Once(e2)
  <2>1. e.task.by # "all" => \A a \in e.answers : a[1] # e.item
    <3>1. \A a \in e.answers : a = <<a[1], a[2]>> /\ a[2] \in Providers
      BY <1>0 DEF Errands
    <3>2. QED
      BY <1>0, <3>1 DEF Noted
  <2>2. <<e.item, p>>[1] = e.item /\ <<e.item, p>>[2] = p
    OBVIOUS
  <2>3. ASSUME e.task.by # "all", NEW b \in e.refusals, b[1] = e.item
        PROVE  Preferred(e.task, b[2], p)
    <3>1. b = <<e.item, b[2]>> /\ b[2] \in Providers
      BY <1>0, <2>3 DEF Errands
    <3>2. e.call[b[2]] = "refused"
      BY <1>0, <3>1 DEF Noted
    <3>3. b[2] \in ToSet(e.asked)
      BY <1>0, <3>1, <3>2 DEF Noted
    <3>4. e.asked \in Seq(Providers) /\ e.asked # <<>>
      BY <1>0, <3>3 DEF Errands, ToSet
    <3>5. PICK k \in DOMAIN e.asked :
             /\ Calling(e, e.asked[k])
             /\ \A q \in Providers : e.call[q] = "refused" => \E i \in DOMAIN e.asked : i < k /\ e.asked[i] = q
      BY <2>3, <3>4 DEF Asking, InTurn
    <3>6. e.asked[k] \in Providers
      BY <3>4
    <3>7. e.asked[k] = p
      BY <1>0, <2>3, <3>5, <3>6 DEF Noted, Calling
    <3>8. \E i \in DOMAIN e.asked : i < k /\ e.asked[i] = b[2]
      BY <3>1, <3>2, <3>5
    <3>9. e.asked = AskedOf(e.task)
      BY <1>0 DEF Shut
    <3>10. QED
      BY <3>7, <3>8, <3>9 DEF Preferred
  <2>4. QED
    BY <1>0, <1>1, <2>1, <2>2, <2>3 DEF Shut, Once
<1>6. Shut(e2)
  <2>1. <<e.item, p>>[1] = e.item
    OBVIOUS
  <2>2. \A a \in e2.answers \cup e2.refusals : a[1] \in 1 .. e2.item
    BY <1>0, <1>1, <2>1 DEF Shut, Errands
  <2>3. Held(e2, e2.item - 1)
    BY <1>0, <1>1 DEF Shut, Held
  <2>4. QED
    BY <1>0, <1>1, <1>5, <2>2, <2>3 DEF Shut
<1>7. GaveUp(e2)
  BY <1>1 DEF GaveUp
<1>8. CASE e.task.by = "all"
  <2>1. f = Gathered(e2)
    BY <1>3, <1>8
  <2>2. Noted(e2)
    <3>1. \A q \in Providers : e2.call[q] # "idle" => q \in ToSet(e2.asked)
      BY <1>0, <1>1, <1>2 DEF Noted, Calling
    <3>2. \A q \in Providers : e2.call[q] = "refused" <=> <<e2.item, q>> \in e2.refusals
      BY <1>0, <1>1, <1>2, <1>4 DEF Noted
    <3>3. \A q \in Providers : e2.call[q] = "ok" <=> <<e2.item, q>> \in e2.answers
      BY <1>0, <1>1, <1>2 DEF Noted
    <3>4. Fresh(e2)
      BY <1>0, <1>1 DEF Noted, Fresh
    <3>5. QED
      BY <1>1, <1>6, <1>8, <3>1, <3>2, <3>3, <3>4 DEF Noted
  <2>3. QED
    BY <1>1, <1>8, <2>1, <2>2, GatheredKeeps
<1>9. CASE e.task.by # "all" /\ r.worth = Broken /\ ~HandedOn(e.task, e.item)
  <2>1. f = NoText(e2)
    BY <1>3, <1>9
  <2>2. Fresh(e2)
    BY <1>0, <1>1 DEF Noted, Fresh
  <2>3. QED
    BY <1>6, <1>7, <2>1, <2>2, NoTextKeeps
<1>10. CASE e.task.by # "all" /\ ~(r.worth = Broken /\ ~HandedOn(e.task, e.item))
  <2>1. f = NextText(kept)
    BY <1>3, <1>10
  <2>2. new \in Kept_ /\ new.item = e.item
    BY <1>0 DEF Kept_, Errands
  <2> HIDE DEF new
  <2>3. /\ kept \in Errands /\ kept.item = e2.item /\ kept.task = e2.task /\ kept.asked = e2.asked
        /\ kept.refusals = e2.refusals /\ kept.answers = e2.answers
        /\ kept.shots = e2.shots /\ kept.lost = e2.lost
        /\ kept.got = e2.got \cup {new}
    BY <1>1, <2>2 DEF Errands
  <2> HIDE DEF kept
  <2>4. Shut(kept)
    BY <1>1, <1>6, <1>10, <2>3 DEF Shut, Once, Held
  <2>5. GaveUp(kept)
    BY <1>7, <2>3 DEF GaveUp
  <2>6. (\E g \in kept.got : g.item = kept.item) /\ \A g \in kept.got : g.item \in 1 .. kept.item
    <3>1. \A g \in e.got : g.item \in 1 .. (e.item - 1)
      BY <1>0 DEF Noted, Fresh
    <3>2. e.item \in Nat \ {0}
      BY <1>0, TasksAre
    <3>3. QED
      BY <1>1, <2>2, <2>3, <3>1, <3>2
  <2>7. QED
    BY <1>1, <1>10, <2>1, <2>3, <2>4, <2>5, <2>6, NextTextKeeps
<1>11. QED
  BY <1>8, <1>9, <1>10

\* No text makes GigaChat fetch a token again, or forgets that it did.
Calm(e, f) ==
  /\ f.denied = e.denied /\ f.renewed = e.renewed
  /\ f.status = "texts" => \/ f.call["gigachat"] \notin {"renew", "repost"}
                           \/ f.call["gigachat"] = e.call["gigachat"]

LEMMA NextTextIsCalm ==
  ASSUME NEW e \in Errands, NEW f, f = NextText(e) \/ f = Ended(e) PROVE Calm(e, f)
<1>1. CASE f = Ended(e)
  <2>1. SameBook(e, f) /\ f.call = Idle
    BY <1>1, EndedIs
  <2>2. "gigachat" \in Providers
    BY DEF Providers, TextServices
  <2>3. QED
    BY <2>1, <2>2 DEF SameBook, Idle, Calm
<1>2. CASE f = BeginText([e EXCEPT !.item = @ + 1])
  <2> DEFINE n == [e EXCEPT !.item = @ + 1]
  <2>1. n \in Errands /\ n.denied = e.denied /\ n.renewed = e.renewed
    BY DEF Errands
  <2>2. f = BeginText(n)
    BY <1>2
  <2> HIDE DEF n
  <2>3. SameBook(n, f) /\ \A p \in Providers : f.call[p] \in {"idle", Opening(p)}
    BY <2>1, <2>2, BeginTextIs
  <2>4. "gigachat" \in Providers
    BY DEF Providers, TextServices
  <2>5. f.call["gigachat"] \in {"idle", "token", "post"}
    BY <2>3, <2>4, OpeningIs
  <2>6. QED
    BY <2>1, <2>3, <2>5 DEF SameBook, Calm
<1>3. QED
  BY <1>1, <1>2 DEF NextText

LEMMA NoTextIsCalm ==
  ASSUME NEW e \in Errands, NEW f, f = NoText(e) PROVE Calm(e, f)
<1>1. CASE f = NextText(e)
  BY <1>1, NextTextIsCalm
<1>2. CASE f = [e EXCEPT !.status = "failed", !.call = Idle]
  BY <1>2 DEF Calm, Errands
<1>3. QED
  BY <1>1, <1>2 DEF NoText, Idle

LEMMA GatheredIsCalm ==
  ASSUME NEW e \in Errands, NEW f, f = Gathered(e) PROVE Calm(e, f)
<1> DEFINE answered == {i \in DOMAIN e.asked : e.call[e.asked[i]] = "ok"}
           best == e.asked[Best(e.asked, answered, "quality")]
           n == [e EXCEPT !.got = {[item |-> 1, by |-> best, worth |-> 0, sound |-> 0]}]
<1>1. CASE f = e
  BY <1>1 DEF Calm
<1>2. CASE f = NoText(e)
  BY <1>2, NoTextIsCalm
<1>3. CASE f = Ended(n)
  <2>1. f.denied = e.denied /\ f.renewed = e.renewed
    BY <1>3 DEF Ended, Errands
  <2>2. f.call = Idle
    BY <1>3 DEF Ended, Errands, Idle
  <2>3. "gigachat" \in Providers
    BY DEF Providers, TextServices
  <2>4. QED
    BY <2>1, <2>2, <2>3 DEF Calm, Idle
<1>4. QED
  BY <1>1, <1>2, <1>3 DEF Gathered

\* What p's call comes to leaves GigaChat no token to fetch again, unless it was at it before.
Over(e, p, f) ==
  /\ f.denied = e.denied /\ f.renewed = e.renewed
  /\ f.status = "texts" => \/ f.call["gigachat"] \notin {"renew", "repost"}
                           \/ p # "gigachat" /\ f.call["gigachat"] = e.call["gigachat"]

LEMMA MarkedIs ==
  ASSUME NEW e \in Errands, NEW p \in Providers, NEW x \in {"ok", "refused"},
         NEW n, n.call = [e.call EXCEPT ![p] = x], n.denied = e.denied, n.renewed = e.renewed,
         NEW f, Calm(n, f)
  PROVE  Over(e, p, f)
<1>1. n.call[p] = x /\ \A q \in Providers : q # p => n.call[q] = e.call[q]
  BY DEF Errands
<1>2. "gigachat" \in Providers
  BY DEF Providers, TextServices
<1>3. QED
  BY <1>1, <1>2 DEF Calm, Over

LEMMA RefusedIsOver ==
  ASSUME NEW e \in Errands, NEW p \in Providers, NEW f, f = Refused(e, p) PROVE Over(e, p, f)
<1> DEFINE e2 == [e EXCEPT !.refusals = @ \cup {<<e.item, p>>}, !.call[p] = "refused"]
           rest == {i \in DOMAIN e.asked : e2.call[e.asked[i]] = "idle"}
           next == e.asked[Min(rest)]
<1>1. /\ e2.denied = e.denied /\ e2.renewed = e.renewed
      /\ e2.call = [e.call EXCEPT ![p] = "refused"]
      /\ e2 \in Errands
  <2> DEFINE W == e.refusals \cup {<<e.item, p>>}
             C == [e.call EXCEPT ![p] = "refused"]
  <2>1. W \in SUBSET (Nat \X Providers) /\ C \in [Providers -> CallStates]
    BY DEF Errands, CallStates
  <2>2. e2 = [e EXCEPT !.refusals = W, !.call = C]
    OBVIOUS
  <2> HIDE DEF W, C, e2
  <2>3. e2 \in Errands /\ e2.denied = e.denied /\ e2.renewed = e.renewed /\ e2.call = C
    BY <2>1, <2>2 DEF Errands
  <2>4. QED
    BY <2>3 DEF C
<1>2. f = CASE e.task.by = "all" -> Gathered(e2)
            [] e.task.by # "all" /\ rest = {} -> NoText(e2)
            [] OTHER -> [e2 EXCEPT !.call[next] = Opening(next)]
  BY DEF Refused
<1> HIDE DEF e2, rest, next
<1>3. Calm(e2, f)
  <2>1. CASE f = Gathered(e2)
    BY <1>1, <2>1, GatheredIsCalm
  <2>2. CASE f = NoText(e2)
    BY <1>1, <2>2, NoTextIsCalm
  <2>3. CASE f = [e2 EXCEPT !.call[next] = Opening(next)]
    <3>1. f.denied = e2.denied /\ f.renewed = e2.renewed
      BY <1>1, <2>3 DEF Errands
    <3>2. f.call = [e2.call EXCEPT ![next] = Opening(next)] /\ e2.call \in [Providers -> CallStates]
      BY <1>1, <2>3 DEF Errands
    <3>3. "gigachat" \in Providers
      BY DEF Providers, TextServices
    <3>4. f.call["gigachat"] \in {"token", "post"} \/ f.call["gigachat"] = e2.call["gigachat"]
      BY <3>2, <3>3, OpeningIs
    <3>5. QED
      BY <3>1, <3>4 DEF Calm
  <2>4. QED
    BY <1>2, <2>1, <2>2, <2>3
<1>4. QED
  BY <1>1, <1>3, MarkedIs

LEMMA AnsweredIsOver ==
  ASSUME NEW e \in Errands, NEW p \in Providers, NEW r \in [worth : {Broken} \cup Nat, sound : Nat],
         NEW f, f = Answered(e, p, r)
  PROVE  Over(e, p, f)
<1> DEFINE e2 == [e EXCEPT !.answers = @ \cup {<<e.item, p>>}, !.call[p] = "ok"]
           new == [item |-> e.item, by |-> p, worth |-> r.worth, sound |-> r.sound]
           kept == [e2 EXCEPT !.got = @ \cup {new}]
<1>1. /\ e2.denied = e.denied /\ e2.renewed = e.renewed
      /\ e2.call = [e.call EXCEPT ![p] = "ok"]
      /\ e2 \in Errands
  <2> DEFINE W == e.answers \cup {<<e.item, p>>}
             C == [e.call EXCEPT ![p] = "ok"]
  <2>1. W \in SUBSET (Nat \X Providers) /\ C \in [Providers -> CallStates]
    BY DEF Errands, CallStates
  <2>2. e2 = [e EXCEPT !.answers = W, !.call = C]
    OBVIOUS
  <2> HIDE DEF W, C, e2
  <2>3. e2 \in Errands /\ e2.denied = e.denied /\ e2.renewed = e.renewed /\ e2.call = C
    BY <2>1, <2>2 DEF Errands
  <2>4. QED
    BY <2>3 DEF C
<1>2. f = CASE e.task.by = "all" -> Gathered(e2)
            [] e.task.by # "all" /\ r.worth = Broken /\ ~HandedOn(e.task, e.item) -> NoText(e2)
            [] OTHER -> NextText(kept)
  BY DEF Answered
<1> HIDE DEF e2
<1>3. CASE f = Gathered(e2)
  BY <1>1, <1>3, GatheredIsCalm, MarkedIs
<1>4. CASE f = NoText(e2)
  BY <1>1, <1>4, NoTextIsCalm, MarkedIs
<1>5. CASE f = NextText(kept)
  <2>1. new \in Kept_
    BY DEF Kept_, Errands
  <2> HIDE DEF new
  <2>2. kept \in Errands /\ kept.denied = e2.denied /\ kept.renewed = e2.renewed /\ kept.call = e2.call
    BY <1>1, <2>1 DEF Errands
  <2> HIDE DEF kept
  <2>3. Calm(kept, f)
    BY <1>5, <2>2, NextTextIsCalm
  <2>4. QED
    BY <1>1, <2>2, <2>3, MarkedIs
<1>6. QED
  BY <1>2, <1>3, <1>4, <1>5

-----------------------------------------------------------------------------
\* The token that is fetched for a call is good for it: the first is dropped when it is refused.
TokenFits(e, t) ==
  /\ ~e.denied
  /\ e.status = "texts" =>
       /\ e.call["gigachat"] = "renew" => t = "none"
       /\ e.call["gigachat"] = "repost" => e.renewed

AssistIInv ==
  /\ keys \subseteq Services /\ token \in {"none", "good", "old", "dead"}
  /\ EInv(errand) /\ TokenFits(errand, token)

\* The keys stay: what was said of the errand after a step is true after the step.
LEMMA KeysStay ==
  ASSUME keys' = keys, EInv(errand') PROVE EInv(errand)'
<1>1. \A t : AskedOf(t)' = AskedOf(t)
  BY DEF AskedOf, Fallbacks, Ready, DefaultProvider
<1>2. \A e : MediaPlan(e)' = MediaPlan(e)
  BY DEF MediaPlan
<1>3. \A t, p, q : Preferred(t, p, q)' <=> Preferred(t, p, q)
  BY <1>1 DEF Preferred
<1>4. \A e : Once(e)' <=> Once(e)
  BY <1>3 DEF Once
<1>5. QED
  BY <1>1, <1>2, <1>4 DEF EInv, Asking, Noted, Shut, GaveUp, Shot, LostFor

\* A call of p takes its next turn.
Turn(e, p, x, b, d) == [e EXCEPT !.call[p] = x, !.renewed = b, !.denied = d]

LEMMA CallKeeps ==
  ASSUME NEW e, Asking(e), e.status = "texts", NEW p \in Providers, Calling(e, p),
         NEW x \in {"token", "post", "renew", "repost"}, NEW b \in BOOLEAN, NEW d \in BOOLEAN,
         NEW f, f = Turn(e, p, x, b, d)
  PROVE  /\ EInv(f) /\ Asking(f) /\ f.status = "texts" /\ f.denied = d /\ f.renewed = b
         /\ f.call[p] = x /\ \A q \in Providers : q # p => f.call[q] = e.call[q]
<1> DEFINE C == [e.call EXCEPT ![p] = x]
<1>0. e \in Errands /\ Noted(e) /\ Shut(e)
  BY DEF Asking, Noted, Shut
<1>1. C \in [Providers -> CallStates] /\ C[p] = x /\ \A q \in Providers : q # p => C[q] = e.call[q]
  BY <1>0 DEF Errands, CallStates
<1>2. f = [e EXCEPT !.call = C, !.renewed = b, !.denied = d]
  BY DEF Turn
<1> HIDE DEF C
<1>3. /\ f \in Errands /\ f.item = e.item /\ f.task = e.task /\ f.status = e.status /\ f.asked = e.asked
      /\ f.got = e.got /\ f.refusals = e.refusals /\ f.answers = e.answers
      /\ f.shots = e.shots /\ f.lost = e.lost /\ f.call = C /\ f.denied = d /\ f.renewed = b
  BY <1>0, <1>1, <1>2 DEF Errands
<1>4. Shut(f)
  BY <1>0, <1>3 DEF Shut, Once, Held
<1>5. Asking(f)
  <2>1. \A q \in Providers : f.call[q] # "idle" => q \in ToSet(f.asked)
    BY <1>0, <1>1, <1>3 DEF Noted, Calling
  <2>2. \A q \in Providers : f.call[q] = "refused" <=> <<f.item, q>> \in f.refusals
    BY <1>0, <1>1, <1>3 DEF Noted, Calling
  <2>3. \A q \in Providers : f.call[q] = "ok" <=> <<f.item, q>> \in f.answers
    BY <1>0, <1>1, <1>3 DEF Noted, Calling
  <2>4. f.task.by # "all" =>
          /\ \A q \in Providers : f.call[q] # "ok"
          /\ \A q, r \in Providers : {f.call[q], f.call[r]} \cap {"idle", "refused"} = {} => q = r
    BY <1>0, <1>1, <1>3 DEF Noted, Calling
  <2>5. Fresh(f)
    BY <1>0, <1>3 DEF Noted, Fresh
  <2>6. Noted(f)
    BY <1>4, <2>1, <2>2, <2>3, <2>4, <2>5 DEF Noted
  <2>7. \A q \in Providers : (f.call[q] = "refused" <=> e.call[q] = "refused") /\ (Calling(e, q) => Calling(f, q))
    BY <1>1, <1>3 DEF Calling
  <2>8. \A i \in DOMAIN e.asked : e.asked[i] \in Providers
    BY <1>0 DEF Errands
  <2>9. InTurn(e) => InTurn(f)
    BY <1>3, <2>7, <2>8 DEF InTurn
  <2>10. QED
    BY <1>3, <2>6, <2>9 DEF Asking
<1>6. EInv(f)
  BY <1>3, <1>4, <1>5 DEF EInv, Shut
<1>7. QED
  BY <1>1, <1>3, <1>5, <1>6

LEMMA GigaIsIn == "gigachat" \in Providers
  BY DEF Providers, TextServices

\* A step that ends p's call, and leaves the token as it is.
LEMMA OverKeeps ==
  ASSUME AssistIInv, errand.status = "texts", NEW p \in Providers, Calling(errand, p),
         UNCHANGED <<keys, token>>, EInv(errand'), Over(errand, p, errand')
  PROVE  AssistIInv'
<1>1. EInv(errand)'
  BY KeysStay
<1>2. TokenFits(errand, token)'
  BY DEF AssistIInv, TokenFits, Over
<1>3. QED
  BY <1>1, <1>2 DEF AssistIInv

LEMMA RefusedStep ==
  ASSUME AssistIInv, errand.status = "texts", NEW p \in Providers, Calling(errand, p),
         UNCHANGED <<keys, token>>, errand' = Refused(errand, p)
  PROVE  AssistIInv'
<1>1. Asking(errand) /\ errand \in Errands
  BY DEF AssistIInv, EInv
<1>2. EInv(errand') /\ Over(errand, p, errand')
  BY <1>1, RefusedKeeps, RefusedIsOver
<1>3. QED
  BY <1>2, OverKeeps

\* A service whose answer is lost wrote the text all the same.
LEMMA LostStep ==
  ASSUME AssistIInv, errand.status = "texts", NEW p \in Providers, Calling(errand, p),
         UNCHANGED <<keys, token>>, errand' = Lost(errand, p)
  PROVE  AssistIInv'
<1>1. Asking(errand) /\ errand \in Errands /\ errand.item \in Nat
  BY DEF AssistIInv, EInv, Errands
<1> DEFINE W == errand.lost \cup {<<errand.item, p>>}
           n == [errand EXCEPT !.lost = W]
<1>2. W \in SUBSET (Nat \X Providers)
  BY <1>1 DEF Errands
<1>3. errand' = Refused(n, p)
  BY DEF Lost
<1> HIDE DEF W
<1>4. /\ n \in Errands /\ n.task = errand.task /\ n.item = errand.item /\ n.asked = errand.asked
      /\ n.got = errand.got /\ n.answers = errand.answers /\ n.refusals = errand.refusals
      /\ n.shots = errand.shots /\ n.call = errand.call /\ n.status = errand.status
      /\ n.denied = errand.denied /\ n.renewed = errand.renewed
  BY <1>1, <1>2 DEF Errands
<1> HIDE DEF n
<1>5. Shut(n) /\ Fresh(n)
  BY <1>1, <1>4 DEF Asking, Noted, Shut, Once, Held, Fresh
<1>6. Noted(n)
  BY <1>1, <1>4, <1>5 DEF Asking, Noted
<1>7. Asking(n) /\ Calling(n, p)
  BY <1>1, <1>4, <1>6 DEF Asking, InTurn, Calling
<1>8. EInv(errand') /\ Over(n, p, errand')
  BY <1>3, <1>4, <1>7, RefusedKeeps, RefusedIsOver
<1>9. Over(errand, p, errand')
  BY <1>4, <1>8 DEF Over
<1>10. QED
  BY <1>8, <1>9, OverKeeps

LEMMA AnsweredStep ==
  ASSUME AssistIInv, errand.status = "texts", NEW p \in Providers, Calling(errand, p),
         NEW r \in Replies(errand, p),
         UNCHANGED <<keys, token>>, errand' = Answered(errand, p, r)
  PROVE  AssistIInv'
<1>1. Asking(errand) /\ errand \in Errands
  BY DEF AssistIInv, EInv
<1>2. r \in [worth : {Broken} \cup Nat, sound : Nat]
  BY AssistantAssumption DEF Replies, NoObject
<1>3. EInv(errand') /\ Over(errand, p, errand')
  BY <1>1, <1>2, AnsweredKeeps, AnsweredIsOver
<1>4. QED
  BY <1>3, OverKeeps

\* A step that is a turn of p's call.
LEMMA CallStep ==
  ASSUME AssistIInv, errand.status = "texts", NEW p \in Providers, Calling(errand, p), keys' = keys,
         NEW x \in {"token", "post", "renew", "repost"}, NEW b \in BOOLEAN,
         errand' = Turn(errand, p, x, b, errand.denied)
  PROVE  /\ EInv(errand)' /\ errand'.status = "texts" /\ ~errand'.denied /\ errand'.renewed = b
         /\ errand'.call[p] = x /\ \A q \in Providers : q # p => errand'.call[q] = errand.call[q]
<1>1. Asking(errand) /\ errand.denied \in BOOLEAN /\ ~errand.denied
  BY DEF AssistIInv, EInv, Errands, TokenFits
<1>2. /\ EInv(errand') /\ errand'.status = "texts" /\ errand'.denied = errand.denied /\ errand'.renewed = b
      /\ errand'.call[p] = x /\ \A q \in Providers : q # p => errand'.call[q] = errand.call[q]
  BY <1>1, CallKeeps
<1>3. QED
  BY <1>1, <1>2, KeysStay

LEMMA AuthorizeKeeps == ASSUME AssistIInv, Authorize PROVE AssistIInv'
<1>1. /\ errand.status = "texts" /\ errand.call["gigachat"] \in {"token", "renew"} /\ keys' = keys
      /\ "gigachat" \in Providers
  BY GigaIsIn DEF Authorize
<1>2. Calling(errand, "gigachat")
  BY <1>1 DEF Calling
<1>3. errand \in Errands
  BY DEF AssistIInv, EInv
<1> DEFINE next == IF errand.call["gigachat"] = "token" THEN "post" ELSE "repost"
<1>4. ASSUME NEW b \in BOOLEAN, errand' = [errand EXCEPT !.call["gigachat"] = next, !.renewed = b]
      PROVE  errand' = Turn(errand, "gigachat", next, b, errand.denied)
  <2>1. [errand EXCEPT !.call["gigachat"] = next, !.renewed = b].denied = errand.denied
    BY <1>3 DEF Errands
  <2>2. QED
    BY <1>3, <1>4 DEF Errands, Turn
<1>5. CASE token \in {"good", "dead"} /\ UNCHANGED token
           /\ errand' = [errand EXCEPT !.call["gigachat"] = next, !.renewed = FALSE]
  <2>1. next = "post"
    BY <1>1, <1>5 DEF AssistIInv, TokenFits
  <2>2. next \in {"token", "post", "renew", "repost"}
    OBVIOUS
  <2>3. errand' = Turn(errand, "gigachat", next, FALSE, errand.denied)
    BY <1>4, <1>5
  <2> HIDE DEF next
  <2>4. EInv(errand)' /\ ~errand'.denied /\ errand'.call["gigachat"] = "post"
    BY <1>1, <1>2, <2>1, <2>2, <2>3, CallStep
  <2>5. QED
    BY <1>1, <1>5, <2>4 DEF AssistIInv, TokenFits
<1>6. CASE token' = "good" /\ errand' = [errand EXCEPT !.call["gigachat"] = next, !.renewed = TRUE]
  <2>1. next \in {"post", "repost"}
    OBVIOUS
  <2>2. errand' = Turn(errand, "gigachat", next, TRUE, errand.denied)
    BY <1>4, <1>6
  <2> HIDE DEF next
  <2>3. EInv(errand)' /\ ~errand'.denied /\ errand'.call["gigachat"] = next /\ errand'.renewed = TRUE
    BY <1>1, <1>2, <2>1, <2>2, CallStep
  <2>4. QED
    BY <1>1, <1>6, <2>1, <2>3 DEF AssistIInv, TokenFits
<1>7. CASE errand' = Refused(errand, "gigachat") /\ UNCHANGED token
  BY <1>1, <1>2, <1>7, RefusedStep
<1>8. QED
  BY <1>5, <1>6, <1>7 DEF Authorize

LEMMA AskGigaChatKeeps == ASSUME AssistIInv, AskGigaChat PROVE AssistIInv'
<1>1. /\ errand.status = "texts" /\ errand.call["gigachat"] \in {"post", "repost"} /\ keys' = keys
      /\ "gigachat" \in Providers
  BY GigaIsIn DEF AskGigaChat
<1>2. Calling(errand, "gigachat")
  BY <1>1 DEF Calling
<1>3. errand \in Errands /\ Asking(errand) /\ ~errand.denied
  BY <1>1 DEF AssistIInv, EInv, TokenFits
<1>4. CASE errand.call["gigachat"] = "post" /\ token' = "none"
           /\ errand' = [errand EXCEPT !.call["gigachat"] = "renew"]
  <2> DEFINE x == "renew"
             b == errand.renewed
  <2>1. errand' = Turn(errand, "gigachat", x, b, errand.denied)
    BY <1>3, <1>4 DEF Errands, Turn
  <2>2. b \in BOOLEAN /\ x \in {"token", "post", "renew", "repost"} /\ x = "renew"
    BY <1>3 DEF Errands
  <2> HIDE DEF x, b
  <2>3. EInv(errand)' /\ ~errand'.denied /\ errand'.call["gigachat"] = x
    BY <1>1, <1>2, <2>1, <2>2, CallStep
  <2>4. QED
    BY <1>1, <1>4, <2>2, <2>3 DEF AssistIInv, TokenFits
<1>5. CASE errand.call["gigachat"] = "repost" /\ UNCHANGED token
           /\ errand' = Refused([errand EXCEPT !.denied = @ \/ ~errand.renewed], "gigachat")
  <2>1. errand.renewed /\ errand.denied = FALSE /\ errand.renewed \in BOOLEAN
    BY <1>1, <1>3, <1>5 DEF AssistIInv, TokenFits, Errands
  <2>2. [errand EXCEPT !.denied = @ \/ ~errand.renewed] = errand
    BY <1>3, <2>1 DEF Errands
  <2>3. errand' = Refused(errand, "gigachat")
    BY <1>5, <2>2, Zenon
  <2>4. QED
    BY <1>1, <1>2, <1>5, <2>3, RefusedStep
<1>6. CASE UNCHANGED token /\ \E r \in Replies(errand, "gigachat") : errand' = Answered(errand, "gigachat", r)
  BY <1>1, <1>2, <1>6, AnsweredStep
<1>7. CASE UNCHANGED token /\ errand' = Refused(errand, "gigachat")
  BY <1>1, <1>2, <1>7, RefusedStep
<1>8. CASE UNCHANGED token /\ errand' = Lost(errand, "gigachat")
  BY <1>1, <1>2, <1>8, LostStep
<1>9. QED
  BY <1>4, <1>5, <1>6, <1>7, <1>8 DEF AskGigaChat

LEMMA AskOthersKeep ==
  ASSUME AssistIInv, (\E p \in {"gpt4o", "claude", "mixtral"} : AskOpenRouter(p)) \/ AskOpenAI \/ AskMock
  PROVE  AssistIInv'
<1>0. errand \in Errands /\ ~errand.denied
  BY DEF AssistIInv, EInv, TokenFits
<1>1. ASSUME NEW p \in {"gpt4o", "claude", "mixtral"}, AskOpenRouter(p) PROVE AssistIInv'
  <2>1. p \in Providers /\ p # "gigachat"
    BY DEF Providers, TextServices
  <2>2. errand.status = "texts" /\ Calling(errand, p) /\ UNCHANGED <<keys, token>>
    BY <1>1 DEF AskOpenRouter, Calling
  <2>3. CASE \E r \in Replies(errand, p) : errand' = Answered(errand, p, r)
    BY <2>1, <2>2, <2>3, AnsweredStep
  <2>4. CASE errand' = Refused(errand, p)
    BY <2>1, <2>2, <2>4, RefusedStep
  <2>5. CASE errand' = [errand EXCEPT !.call[p] = "repost"]
    <3> DEFINE x == "repost"
               b == errand.renewed
    <3>1. errand' = Turn(errand, p, x, b, errand.denied)
      BY <1>0, <2>5 DEF Errands, Turn
    <3>2. b \in BOOLEAN /\ x \in {"token", "post", "renew", "repost"}
      BY <1>0 DEF Errands
    <3> HIDE DEF x, b
    <3>3. EInv(errand)' /\ ~errand'.denied /\ errand'.renewed = b
          /\ \A q \in Providers : q # p => errand'.call[q] = errand.call[q]
      BY <2>1, <2>2, <3>1, <3>2, CallStep
    <3>4. errand'.call["gigachat"] = errand.call["gigachat"]
      BY <2>1, <3>3, GigaIsIn
    <3>5. QED
      BY <2>2, <3>3, <3>4 DEF AssistIInv, TokenFits, b
  <2>6. CASE errand' = Lost(errand, p)
    BY <2>1, <2>2, <2>6, LostStep
  <2>7. QED
    BY <1>1, <2>3, <2>4, <2>5, <2>6 DEF AskOpenRouter
<1>2. CASE AskOpenAI
  <2>1. "openai" \in Providers
    BY DEF Providers
  <2>2. errand.status = "texts" /\ Calling(errand, "openai") /\ UNCHANGED <<keys, token>>
    BY <1>2 DEF AskOpenAI, Calling
  <2>3. CASE \E r \in Replies(errand, "openai") : errand' = Answered(errand, "openai", r)
    BY <2>1, <2>2, <2>3, AnsweredStep
  <2>4. CASE errand' = Refused(errand, "openai")
    BY <2>1, <2>2, <2>4, RefusedStep
  <2>5. CASE errand' = Lost(errand, "openai")
    BY <2>1, <2>2, <2>5, LostStep
  <2>6. QED
    BY <1>2, <2>3, <2>4, <2>5 DEF AskOpenAI
<1>3. CASE AskMock
  <2>1. "mock" \in Providers /\ NoObject \in Replies(errand, "mock")
    BY DEF Providers, Replies
  <2>2. errand.status = "texts" /\ Calling(errand, "mock") /\ UNCHANGED <<keys, token>>
    BY <1>3 DEF AskMock, Calling
  <2>3. QED
    BY <1>3, <2>1, <2>2, AnsweredStep DEF AskMock
<1>4. QED
  BY <1>1, <1>2, <1>3

LEMMA AskNobodyKeeps == ASSUME AssistIInv, AskNobody PROVE AssistIInv'
<1>1. /\ errand.status = "texts" /\ errand.asked = <<>> /\ UNCHANGED <<keys, token>>
      /\ errand' = NoText(errand)
  BY DEF AskNobody
<1>2. Shut(errand) /\ Fresh(errand) /\ errand \in Errands
  BY <1>1 DEF AssistIInv, EInv, Asking, Noted
<1>3. GaveUp(errand)
  <2>1. AskedOf(errand.task) = <<>>
    BY <1>1, <1>2 DEF Shut
  <2>2. ToSet(AskedOf(errand.task)) = {}
    BY <2>1 DEF ToSet
  <2>3. QED
    BY <2>2 DEF GaveUp
<1>4. EInv(errand')
  BY <1>1, <1>2, <1>3, NoTextKeeps
<1>5. EInv(errand)'
  BY <1>1, <1>4, KeysStay
<1>6. Calm(errand, errand')
  BY <1>1, <1>2, NoTextIsCalm
<1>7. TokenFits(errand, token)'
  BY <1>1, <1>6 DEF AssistIInv, TokenFits, Calm
<1>8. QED
  BY <1>1, <1>5, <1>7 DEF AssistIInv

\* The errand of a task before its first text.
Bare(t, a, c, d) ==
  [task |-> t, status |-> "idle", item |-> 1, asked |-> a,
   call |-> c, renewed |-> FALSE, denied |-> FALSE,
   got |-> d, answers |-> d, refusals |-> d, lost |-> d, shots |-> a]

Begun(t) == Bare(t, <<>>, Idle, {})

LEMMA BareIs ==
  ASSUME NEW g, NEW t, NEW a, NEW c, NEW d
  PROVE  [Bare(g, a, c, d) EXCEPT !.task = t] = Bare(t, a, c, d)
<1> DEFINE n == [Bare(g, a, c, d) EXCEPT !.task = t]
           m == Bare(t, a, c, d)
           all == [task : {g, t}, status : {"idle"}, item : Nat, asked : {a}, call : {c},
                   renewed : BOOLEAN, denied : BOOLEAN, got : {d}, answers : {d}, refusals : {d},
                   lost : {d}, shots : {a}]
<1>1. Bare(g, a, c, d) \in all /\ m \in all
  BY DEF Bare
<1>2. n \in all
  BY <1>1
<1>3. n.task = t /\ n.item = 1 /\ n.renewed = FALSE /\ n.denied = FALSE
  BY DEF Bare
<1>4. m.task = t /\ m.item = 1 /\ m.renewed = FALSE /\ m.denied = FALSE
  BY DEF Bare
<1> HIDE DEF n, m
<1>5. n = m
  BY <1>1, <1>2, <1>3, <1>4
<1>6. QED
  BY <1>5 DEF n, m

LEMMA NoErrandIs ==
  /\ NoErrand = Begun(GenerateAdCreatives({}))
  /\ \A t : [NoErrand EXCEPT !.task = t] = Begun(t)
<1>1. NoErrand = Begun(GenerateAdCreatives({}))
  BY Zenon DEF NoErrand, Idle, Begun, Bare
<1>2. ASSUME NEW t PROVE [NoErrand EXCEPT !.task = t] = Begun(t)
  <2>1. [NoErrand EXCEPT !.task = t] = [Bare(GenerateAdCreatives({}), <<>>, Idle, {}) EXCEPT !.task = t]
    BY <1>1, Zenon DEF Begun
  <2>2. [Bare(GenerateAdCreatives({}), <<>>, Idle, {}) EXCEPT !.task = t] = Bare(t, <<>>, Idle, {})
    BY BareIs
  <2>3. QED
    BY <2>1, <2>2, Zenon DEF Begun
<1>3. QED
  BY <1>1, <1>2

LEMMA BegunIs ==
  ASSUME NEW t \in Tasks, NEW n, n = Begun(t)
  PROVE  n \in Errands /\ Before(n) /\ n.denied = FALSE /\ n.status = "idle"
<1>1. 1 \in 1 .. t.texts /\ t.texts \in Nat
  BY TasksAre
<1>2. /\ n.task = t /\ n.item = 1 /\ n.got = {} /\ n.answers = {} /\ n.refusals = {}
      /\ n.shots = <<>> /\ n.denied = FALSE /\ n.status = "idle"
  BY DEF Begun, Bare
<1>3. n \in Errands
  <2>1. Idle \in [Providers -> CallStates]
    BY DEF Idle, CallStates
  <2>2. <<>> \in Seq(Providers) /\ <<>> \in Taken
    BY DEF Taken
  <2>3. QED
    BY <2>1, <2>2 DEF Errands, Begun, Bare
<1>4. Before(n)
  BY <1>1, <1>2, <1>3 DEF Before, Once, Held, Fresh
<1>5. QED
  BY <1>2, <1>3, <1>4

LEMMA StartKeeps == ASSUME AssistIInv, NEW t \in Tasks, Start(t) PROVE AssistIInv'
<1> DEFINE n == Begun(t)
<1>1. errand' = BeginText(n) /\ token' = "none" /\ keys' = keys
  BY NoErrandIs DEF Start
<1>2. n \in Errands /\ Before(n) /\ n.denied = FALSE
  BY BegunIs
<1> HIDE DEF n
<1>3. EInv(errand')
  BY <1>1, <1>2, BeginTextKeeps
<1>4. SameBook(n, errand') /\ \A p \in Providers : errand'.call[p] \in {"idle", Opening(p)}
  BY <1>1, <1>2, BeginTextIs
<1>5. errand'.call["gigachat"] \in {"idle", "token", "post"} /\ ~errand'.denied
  BY <1>2, <1>4, OpeningIs, GigaIsIn DEF SameBook
<1>6. EInv(errand)'
  BY <1>1, <1>3, KeysStay
<1>7. QED
  BY <1>1, <1>5, <1>6 DEF AssistIInv, TokenFits

LEMMA AssistInitially == AssistInit => AssistIInv
<1> SUFFICES ASSUME AssistInit PROVE AssistIInv
  OBVIOUS
<1>1. keys \subseteq Services /\ token = "none" /\ errand = Begun(GenerateAdCreatives({}))
  BY NoErrandIs DEF AssistInit
<1>2. GenerateAdCreatives({}) \in Tasks
  BY DEF Tasks
<1>3. errand \in Errands /\ Before(errand) /\ errand.denied = FALSE /\ errand.status = "idle"
  BY <1>1, <1>2, BegunIs
<1>4. QED
  BY <1>1, <1>3 DEF AssistIInv, EInv, TokenFits, Before

\* One more of the media is tried.
Shooting(e, ok) ==
  [e EXCEPT !.shots = Append(@, [of |-> MediaPlan(e)[Len(e.shots) + 1], ok |-> ok]),
            !.status = IF Len(e.shots) + 1 = Len(MediaPlan(e)) THEN "done" ELSE @]

LEMMA ShootingKeeps ==
  ASSUME NEW e, EInv(e), e.status = "media", NEW ok \in BOOLEAN, NEW f, f = Shooting(e, ok)
  PROVE  EInv(f) /\ f.denied = e.denied /\ f.status # "texts"
<1> DEFINE i == Len(e.shots) + 1
           new == [of |-> MediaPlan(e)[i], ok |-> ok]
           S == Append(e.shots, new)
           X == IF i = Len(MediaPlan(e)) THEN "done" ELSE "media"
<1>0. /\ e \in Errands /\ e.item \in 1 .. e.task.texts /\ Once(e) /\ Gotten(e) /\ Shot(e)
      /\ Len(e.shots) < Len(MediaPlan(e)) /\ e.shots \in Taken
  BY DEF EInv, Errands
<1>1. MediaPlan(e) \in Seq(Shots_) /\ Len(MediaPlan(e)) \in Nat /\ Len(e.shots) \in Nat
  <2>1. MediaPlan(e) \in Seq(PlannedFor(e)) /\ PlannedFor(e) \subseteq Shots_
    BY <1>0, MediaPlanIs DEF PlannedFor
  <2> HIDE DEF PlannedFor
  <2>2. QED
    BY <1>0, <2>1 DEF Taken
<1>2. i \in 1 .. Len(MediaPlan(e)) /\ new.of \in Shots_ /\ new \in [of : Shots_, ok : BOOLEAN]
  BY <1>0, <1>1
<1>3. new.of = MediaPlan(e)[i]
  OBVIOUS
<1>4. f = [e EXCEPT !.shots = S, !.status = X]
  BY <1>0 DEF Shooting, Errands
<1> HIDE DEF new
<1>5. /\ S \in Taken /\ Len(S) = i /\ S[i] = new /\ DOMAIN S = (DOMAIN e.shots) \cup {i}
      /\ \A j \in DOMAIN e.shots : S[j] = e.shots[j]
  <2>1. DOMAIN e.shots = 1 .. Len(e.shots)
    BY <1>0 DEF Taken
  <2>2. S \in Taken /\ Len(S) = i
    BY <1>0, <1>2 DEF Taken
  <2>3. DOMAIN S = 1 .. i
    BY <2>2 DEF Taken
  <2>4. S[i] = new /\ \A j \in 1 .. Len(e.shots) : S[j] = e.shots[j]
    BY <1>0, <1>2 DEF Taken
  <2>5. QED
    BY <1>1, <2>1, <2>2, <2>3, <2>4
<1>6. X \in {"done", "media"}
  OBVIOUS
<1>7. X = "media" => i < Len(MediaPlan(e))
  BY <1>1, <1>2
<1>8. X = "done" => i = Len(MediaPlan(e))
  OBVIOUS
<1> HIDE DEF S, X
<1>9. /\ f \in Errands /\ f.item = e.item /\ f.task = e.task /\ f.status = X /\ f.asked = e.asked
      /\ f.got = e.got /\ f.refusals = e.refusals /\ f.answers = e.answers
      /\ f.shots = S /\ f.denied = e.denied
  BY <1>0, <1>4, <1>5, <1>6 DEF Errands
<1>10. MediaPlan(f) = MediaPlan(e)
  BY <1>0, <1>9, MediaPlanIs
<1>11. Once(f) /\ Gotten(f)
  BY <1>0, <1>9 DEF Once, Gotten, Held
<1>12. Shot(f)
  <2>1. \A j \in DOMAIN S : S[j].of = MediaPlan(e)[j]
    BY <1>0, <1>3, <1>5 DEF Shot
  <2>2. QED
    BY <1>9, <1>10, <2>1 DEF Shot
<1>13. GaveUp(f)
  BY <1>9 DEF EInv, GaveUp
<1>14. QED
  BY <1>0, <1>5, <1>6, <1>7, <1>8, <1>9, <1>10, <1>11, <1>12, <1>13 DEF EInv

LEMMA SpoiltKeeps ==
  ASSUME NEW e, EInv(e), e.status = "media",
         MediaPlan(e)[Len(e.shots) + 1][1] \in {"voice", "video"},
         MediaPlan(e)[Len(e.shots) + 1][2] > SoundAds(e),
         NEW f, f = [e EXCEPT !.status = "failed"]
  PROVE  EInv(f) /\ f.denied = e.denied /\ f.status # "texts"
<1> DEFINE i == Len(e.shots) + 1
<1>1. /\ e \in Errands /\ e.item \in 1 .. e.task.texts /\ Once(e) /\ Gotten(e)
      /\ Len(e.shots) < Len(MediaPlan(e)) /\ e.shots \in Taken
  BY DEF EInv, Errands
<1>2. /\ f \in Errands /\ f.status = "failed" /\ f.item = e.item /\ f.task = e.task
      /\ f.got = e.got /\ f.refusals = e.refusals /\ f.answers = e.answers /\ f.denied = e.denied
  BY <1>1 DEF Errands
<1>3. MediaPlan(e)[i] \in PlannedFor(e)
  <2>1. MediaPlan(e) \in Seq(PlannedFor(e))
    BY <1>1, MediaPlanIs
  <2>2. Len(MediaPlan(e)) \in Nat /\ Len(e.shots) \in Nat
    BY <1>1, <2>1 DEF Taken
  <2> HIDE DEF PlannedFor
  <2>3. i \in 1 .. Len(MediaPlan(e))
    BY <1>1, <2>2
  <2> HIDE DEF i
  <2>4. QED
    BY <2>1, <2>3
<1> DEFINE n == MediaPlan(e)[i][2]
<1>4. n \in Nat /\ n <= AdsWritten(e) /\ n > SoundAds(e)
  BY <1>3 DEF PlannedFor, Shots_
<1> HIDE DEF n
<1>5. \E g \in e.got : g.sound < g.worth
  <2>1. CASE e.got = {}
    BY <1>4, <2>1 DEF AdsWritten, SoundAds
  <2>2. CASE e.got # {}
    <3> DEFINE g == CHOOSE x \in e.got : TRUE
    <3>1. g \in e.got
      BY <2>2
    <3>2. AdsWritten(e) = g.worth /\ SoundAds(e) = g.sound
      BY <2>2 DEF AdsWritten, SoundAds
    <3>3. g.worth \in Int /\ g.sound \in Int
      BY <1>1, <3>1 DEF Errands, Kept_, Broken
    <3> HIDE DEF g
    <3>4. g.sound < g.worth
      BY <1>4, <3>2, <3>3
    <3>5. QED
      BY <3>1, <3>4
  <2>3. QED
    BY <2>1, <2>2
<1>6. GaveUp(f)
  BY <1>2 DEF EInv, GaveUp
<1>7. QED
  BY <1>1, <1>2, <1>5, <1>6 DEF EInv, Once, LostFor

LEMMA ShootKeeps == ASSUME AssistIInv, Shoot PROVE AssistIInv'
<1>1. errand.status = "media" /\ UNCHANGED <<keys, token>> /\ EInv(errand) /\ ~errand.denied
  BY DEF Shoot, AssistIInv, TokenFits
<1>2. \/ \E ok \in BOOLEAN : errand' = Shooting(errand, ok)
      \/ /\ MediaPlan(errand)[Len(errand.shots) + 1][1] \in {"voice", "video"}
         /\ MediaPlan(errand)[Len(errand.shots) + 1][2] > SoundAds(errand)
         /\ errand' = [errand EXCEPT !.status = "failed"]
  BY DEF Shoot, Shooting
<1>3. EInv(errand') /\ errand'.denied = errand.denied /\ errand'.status # "texts"
  BY <1>1, <1>2, ShootingKeeps, SpoiltKeeps
<1>4. EInv(errand)'
  BY <1>1, <1>3, KeysStay
<1>5. QED
  BY <1>1, <1>3, <1>4 DEF AssistIInv, TokenFits

LEMMA AssistStepKeeps == ASSUME AssistIInv, [AssistNext]_assistVars PROVE AssistIInv'
<1>1. CASE UNCHANGED assistVars
  <2>1. UNCHANGED <<keys, token, errand>>
    BY <1>1 DEF assistVars
  <2>2. EInv(errand)'
    BY <2>1, KeysStay DEF AssistIInv
  <2>3. QED
    BY <2>1, <2>2 DEF AssistIInv, TokenFits
<1>2. CASE \E t \in Tasks : Start(t)
  BY <1>2, StartKeeps
<1>3. CASE Authorize
  BY <1>3, AuthorizeKeeps
<1>4. CASE AskGigaChat
  BY <1>4, AskGigaChatKeeps
<1>5. CASE (\E p \in {"gpt4o", "claude", "mixtral"} : AskOpenRouter(p)) \/ AskOpenAI \/ AskMock
  BY <1>5, AskOthersKeep
<1>6. CASE Shoot
  BY <1>6, ShootKeeps
<1>7. CASE TokenAges
  <2>1. UNCHANGED <<keys, errand>> /\ token = "good" /\ token' \in {"old", "dead"}
    BY <1>7 DEF TokenAges
  <2>2. EInv(errand)'
    BY <2>1, KeysStay DEF AssistIInv
  <2>3. QED
    BY <2>1, <2>2 DEF AssistIInv, TokenFits
<1>8. CASE AskNobody
  BY <1>8, AskNobodyKeeps
<1>9. QED
  BY <1>1, <1>2, <1>3, <1>4, <1>5, <1>6, <1>7, <1>8 DEF AssistNext, AssistStep, AssistFault

LEMMA AssistInvariant == AssistSpec => []AssistIInv
<1>1. AssistIInv /\ [AssistNext]_assistVars => AssistIInv'
  BY AssistStepKeeps
<1>2. QED
  BY <1>1, AssistInitially, PTL DEF AssistSpec

\* Type correctness of the errand, the keys and the cached token, for any keys, tasks and
\* replies (MultiAIOrchestrator, ai_intelligence).
THEOREM AssistTypes == AssistSpec => []AssistTypeOK
<1>1. AssistIInv => AssistTypeOK
  BY DEF AssistIInv, EInv, Errands, Kept_, CallStates, AssistTypeOK
<1>2. QED
  BY <1>1, AssistInvariant, PTL

LEMMA SpendsWell == ASSUME AssistIInv PROVE ErrandsSpendWell
<1>0. EInv(errand) /\ errand \in Errands /\ ~errand.denied
  BY DEF AssistIInv, EInv, TokenFits
<1>1. GivesUpLast
  BY <1>0 DEF GivesUpLast, EInv, GaveUp
<1>2. PaidOnce
  BY <1>0 DEF PaidOnce, EInv, Once
<1>3. KeepsTheBest
  BY <1>0 DEF KeepsTheBest, EInv, Gotten, Held
<1>4. StaleTokenCostsNothing
  BY <1>0 DEF StaleTokenCostsNothing
<1>5. ASSUME errand.status = "done"
      PROVE  [i \in DOMAIN errand.shots |-> errand.shots[i].of] = MediaPlan(errand)
  <2> DEFINE media == MediaPlan(errand)
  <2>1. Shot(errand) /\ Len(errand.shots) = Len(media)
    BY <1>0, <1>5 DEF EInv
  <2>2. media \in Seq(PlannedFor(errand))
    BY <1>0, MediaPlanIs
  <2>3. errand.shots \in Taken
    BY <1>0 DEF Errands
  <2>4. \A i \in DOMAIN errand.shots : errand.shots[i].of = media[i]
    BY <2>1 DEF Shot
  <2> HIDE DEF media, PlannedFor
  <2>5. DOMAIN errand.shots = DOMAIN media
    BY <2>1, <2>2, <2>3 DEF Taken
  <2>6. media = [i \in DOMAIN media |-> media[i]]
    BY <2>2
  <2>7. [i \in DOMAIN errand.shots |-> errand.shots[i].of] = media
    BY <2>4, <2>5, <2>6
  <2>8. QED
    BY <2>7 DEF media
<1>6. MediaIsWhole
  BY <1>0, <1>5 DEF MediaIsWhole, EInv, LostFor
<1>7. QED
  BY <1>1, <1>2, <1>3, <1>4, <1>6 DEF ErrandsSpendWell

\* AI errands spend well, for any keys and any number of texts, ads and media: a text is given
\* up only when every service was asked for it in vain or one wrote what is of no use, it is
\* written twice only when an answer was lost on the way, the best of several answers is kept,
\* no text is refused for a stale token and of a package whose ads are objects all media are
\* tried (MultiAIOrchestrator, GigaChatProvider, ai_intelligence, cascade_pipeline).
THEOREM ErrandsAlwaysSpendWell == AssistSpec => []ErrandsSpendWell
<1>1. AssistIInv => ErrandsSpendWell
  BY SpendsWell
<1>2. QED
  BY <1>1, AssistInvariant, PTL

-----------------------------------------------------------------------------
(* The components together. *)

LEMMA PlansAmongOthers == Spec => PlanSpec
<1>1. Init => PlansInit
  BY DEF Init
<1>2. [Step \/ Fault]_vars => [PlanNext]_planVars
  BY Zenon DEF vars, Step, Fault, PlanNext, InPlans, InAuto, InPayments, InTree, InLaunches, InFigures,
         InTests, InUrls, InAssistant, InLinks
<1>3. QED
  BY <1>1, <1>2, PTL DEF Spec, PlanSpec

LEMMA AutosAmongOthers == Spec => AutoSpec
<1>1. Init => AutoInit
  BY DEF Init
<1>2. [Step \/ Fault]_vars => [AutoNext]_autoVars
  BY Zenon DEF vars, Step, Fault, AutoNext, InPlans, InAuto, InPayments, InTree, InLaunches, InFigures,
         InTests, InUrls, InAssistant, InLinks
<1>3. QED
  BY <1>1, <1>2, PTL DEF Spec, AutoSpec

LEMMA PaymentsAmongOthers == Spec => PaySpec
<1>1. Init => PayInit
  BY DEF Init
<1>2. [Step \/ Fault]_vars => [PayNext]_payVars
  BY Zenon DEF vars, Step, Fault, InPlans, InAuto, InPayments, InTree, InLaunches, InFigures,
         InTests, InUrls, InAssistant, InLinks
<1>3. QED
  BY <1>1, <1>2, PTL DEF Spec, PaySpec

LEMMA TreeAmongOthers == Spec => TreeSpec
<1>1. Init => TreeInit
  BY DEF Init
<1>2. [Step \/ Fault]_vars => [TreeStep \/ TreeFault]_treeVars
  BY Zenon DEF vars, Step, Fault, InPlans, InAuto, InPayments, InTree, InLaunches, InFigures,
         InTests, InUrls, InAssistant, InLinks
<1>3. QED
  BY <1>1, <1>2, PTL DEF Spec, TreeSpec

LEMMA LaunchesAmongOthers == Spec => LaunchesSpec
<1>1. Init => LaunchesInit
  BY DEF Init
<1>2. [Step \/ Fault]_vars => [LaunchesStep \/ LaunchesFault]_launchVars
  BY Zenon DEF vars, Step, Fault, LaunchesPart, InPlans, InAuto, InPayments, InTree, InLaunches, InFigures,
         InTests, InUrls, InAssistant, InLinks
<1>3. QED
  BY <1>1, <1>2, PTL DEF Spec, LaunchesSpec

LEMMA FiguresAmongOthers == Spec => FiguresSpec
<1>1. Init => FiguresInit
  BY DEF Init
<1>2. [Step \/ Fault]_vars => [FiguresNext]_figureVars
  BY Zenon DEF vars, Step, Fault, InPlans, InAuto, InPayments, InTree, InLaunches, InFigures,
         InTests, InUrls, InAssistant, InLinks
<1>3. QED
  BY <1>1, <1>2, PTL DEF Spec, FiguresSpec

LEMMA TestsAmongOthers == Spec => ExperimentsSpec
<1>1. Init => ExperimentsInit
  BY DEF Init
<1>2. [Step \/ Fault]_vars => [ExperimentsStep \/ ExperimentsFault]_testVars
  BY Zenon DEF vars, Step, Fault, InPlans, InAuto, InPayments, InTree, InLaunches, InFigures,
         InTests, InUrls, InAssistant, InLinks
<1>3. QED
  BY <1>1, <1>2, PTL DEF Spec, ExperimentsSpec

LEMMA UrlsAmongOthers == Spec => UrlsSpec
<1>1. Init => UrlsInit
  BY DEF Init
<1>2. [Step \/ Fault]_vars => [UrlsStep \/ UrlsFault]_urlVars
  BY Zenon DEF vars, Step, Fault, UrlsStep, UrlsFault, InPlans, InAuto, InPayments, InTree, InLaunches, InFigures,
         InTests, InUrls, InAssistant, InLinks
<1>3. QED
  BY <1>1, <1>2, PTL DEF Spec, UrlsSpec

LEMMA AssistantAmongOthers == Spec => AssistSpec
<1>1. Init => AssistInit
  BY DEF Init
<1>2. [Step \/ Fault]_vars => [AssistNext]_assistVars
  BY Zenon DEF vars, Step, Fault, AssistNext, InPlans, InAuto, InPayments, InTree, InLaunches, InFigures,
         InTests, InUrls, InAssistant, InLinks
<1>3. QED
  BY <1>1, <1>2, PTL DEF Spec, AssistSpec

LEMMA LinksAmongOthers == Spec => ConnectionsSpec
<1>1. Init => ConnectionsInit
  BY DEF Init
<1>2. KeysPart \/ FetchesPart => ConnectionsStep
  <2>1. ASSUME NEW s \in Servers, LinksStep(s, {"yandex"}, {"whole"})
        PROVE  LinksStep(s, LinkPlatforms, CredKinds)
    BY <2>1 DEF LinksStep, LinkPlatforms, CredKinds
  <2>2. KeysPart => ConnectionsStep
    BY <2>1 DEF KeysPart, ConnectionsStep
  <2>3. (CHOOSE x \in Servers : TRUE) \in Servers
    BY ServersAssumption
  <2>4. FetchesPart => ConnectionsStep
    BY <2>3 DEF FetchesPart, ConnectionsStep
  <2>5. QED
    BY <2>2, <2>4
<1>3. [Step \/ Fault]_vars => [ConnectionsStep \/ ConnectionsFault]_linkVars
  BY <1>2, Zenon DEF vars, Step, Fault, InPlans, InAuto, InPayments, InTree, InLaunches, InFigures,
         InTests, InUrls, InAssistant, InLinks
<1>4. QED
  BY <1>1, <1>3, PTL DEF Spec, ConnectionsSpec

\* Every component's rows hold what their columns may, in any behaviour of the components
\* together: a step of one leaves the state of the others alone, and is one it takes by itself.
THEOREM ServicesTypeCorrect == Spec => []TypeOK
<1>1. Spec => [](/\ PlanTypeOK /\ AutoTypeOK /\ PayTypeOK
                 /\ TreeTypeOK /\ LaunchesTypeOK /\ FiguresTypeOK
                 /\ ExperimentsTypeOK /\ UrlsTypeOK /\ AssistTypeOK /\ ConnectionsTypeOK)
  BY PlansAmongOthers, AutosAmongOthers, PaymentsAmongOthers, TreeAmongOthers, LaunchesAmongOthers,
     FiguresAmongOthers, TestsAmongOthers, UrlsAmongOthers, AssistantAmongOthers, LinksAmongOthers,
     PlansTypeCorrect, AutoTypeCorrect, PayTypeCorrect, TreeTypeCorrect, LaunchesTypeCorrect,
     FiguresTypes, ExperimentsTypes, UrlsTypeCorrect, AssistTypes, ConnectionsTypeCorrect, PTL
<1>2. TypeOK <=> /\ PlanTypeOK /\ AutoTypeOK /\ PayTypeOK
                 /\ TreeTypeOK /\ LaunchesTypeOK /\ FiguresTypeOK
                 /\ ExperimentsTypeOK /\ UrlsTypeOK /\ AssistTypeOK /\ ConnectionsTypeOK
  BY DEF TypeOK
<1>3. QED
  BY <1>1, <1>2, PTL

\* The screens agree wherever figures are shown (DashboardsAgree), whatever the other
\* components do.
THEOREM ServicesAgree == Spec => []DashboardsAgree
<1>1. FiguresAgree => DashboardsAgree
  BY DEF DashboardsAgree
<1>2. QED
  BY <1>1, FiguresAmongOthers, FiguresAlwaysAgree, PTL

\* What the components promise one by one they promise together: plans are applied whole,
\* recommendations drafted and payments booked once, the log accounts for the campaigns,
\* launches are whole, money is shared out whole, jobs tell the truth, errands spend well and
\* connections serve (the invariants of the runs `services` and `campaigns`).
THEOREM ServicesKeepTheirPromises ==
  Spec => [](/\ AppliedPlansAreWhole /\ DesiredFromPlans
             /\ OneDraftEach /\ SuccessIsDrafted
             /\ LedgerFollowsProvider /\ BookedOnce
             /\ LogAccountsForTree /\ LaunchesAreWhole
             /\ BudgetConserved /\ ErirFollows /\ ErrandsSpendWell /\ ConnectionsServe)
  BY PlansAmongOthers, AutosAmongOthers, PaymentsAmongOthers, TreeAmongOthers, LaunchesAmongOthers,
     TestsAmongOthers, UrlsAmongOthers, AssistantAmongOthers, LinksAmongOthers,
     AppliedAreWhole, DesiredIsPlanned, DraftedOnce, SuccessDrafts, LedgerIsTrue, PaymentsBookedOnce,
     LogAccounts, LaunchesWhole, ExperimentsConserve, JobsTellTheTruth, ErrandsAlwaysSpendWell,
     ConnectionsAlwaysServe, PTL
=============================================================================
