----------------------- MODULE ConditionalReadsProofs -----------------------
(***************************************************************************)
(* Two caches in a row tell the truth, for any number of reads, lists,      *)
(* deployments and changes, and any size of the gateway's cache: with       *)
(* deployments too what a read returns was current while it ran, and a 304  *)
(* stands for the very bytes its caller holds.                              *)
(*                                                                          *)
(* ClientInvariant survives a deployment, which only empties the cache, and *)
(* RouteInvariant rests on it for the versions that the answers carry.      *)
(***************************************************************************)
EXTENDS ConditionalReads, GitHubClientProofs

(***************************************************************************)
(* A step of the composition is one of the client's, or a deployment.       *)
(***************************************************************************)
LEMMA StepOrDeployment ==
  ASSUME [ReadNext]_readVars
  PROVE  [Next]_vars \/ Deploy
<1>1. ASSUME NEW c \in Calls, Ask(c) PROVE Next
  <2>1. Start(c, "GET") /\ "GET" \in Methods
    BY <1>1, ReadAssumption DEF Ask
  <2>. QED  BY <2>1 DEF Next
<1>2. ASSUME NEW c \in Calls, Proceed(c) PROVE Next
  BY <1>2 DEF Proceed, Next
<1>3. CASE GitHubStep
  BY <1>3 DEF GitHubStep, Next
<1>4. CASE UNCHANGED readVars
  BY <1>4 DEF readVars
<1>. QED  BY <1>1, <1>2, <1>3, <1>4 DEF ReadNext

LEMMA DeploymentKeepsClient ==
  ASSUME ClientInvariant, Deploy
  PROVE  ClientInvariant'
<1>1. /\ entries' = <<>> /\ rate' = "unknown"
      /\ UNCHANGED <<pc, method, url, attempt, cached, reply, outcome, wire,
                     version, budget, edits, applied, current>>
  BY DEF Deploy, callVars, githubVars
<1>2. /\ <<>> \in Seq(Entry) /\ Len(<<>>) = 0 /\ DOMAIN <<>> = {}
      /\ ToSet(<<>>) = {} /\ OneEach(<<>>)
  BY EmptySeq, LenProperties DEF ToSet, OneEach
<1>3. TypeOK'
  <2>1. entries' \in Seq(Entry) /\ OneEach(entries') /\ Len(entries') <= MaxEntries
    BY <1>1, <1>2, CacheAssumption
  <2>. QED  BY <1>1, <2>1 DEF ClientInvariant, TypeOK, Rates
<1>4. ASSUME NEW c \in Calls PROVE Sound(c)'
  <2>1. Sound(c) /\ Awaiting(c)' = Awaiting(c)
    BY <1>1 DEF ClientInvariant, Awaiting
  <2>. QED  BY <1>1, <2>1, CallsLeftAlone DEF Sound
<1>. QED  BY <1>1, <1>2, <1>3, <1>4 DEF ClientInvariant

(***************************************************************************)
(* Calls keep their resource, and what was current for one stays noted.     *)
(***************************************************************************)
LEMMA CurrentGrows ==
  ASSUME ClientInvariant, [Next]_vars, NEW c \in Calls, pc[c] # "idle"
  PROVE  current[c] \subseteq current'[c]
<1>1. ASSUME NEW d \in Calls, NEW m \in Methods, Start(d, m)
      PROVE  current[c] \subseteq current'[c]
  BY <1>1 DEF Start, ClientInvariant, TypeOK
<1>2. ASSUME NEW q \in wire, Handle(q) PROVE current[c] \subseteq current'[c]
  <2>1. q.call \in Calls /\ TypeOK
    BY RequestIsAwaited DEF ClientInvariant
  <2>. QED  BY <1>2, <2>1, WhatHandleChanges, ChangeKeepsCurrent DEF TypeOK
<1>3. ASSUME NEW u \in Urls, Edit(u) PROVE current[c] \subseteq current'[c]
  BY <1>3, ChangeKeepsCurrent DEF Edit, ClientInvariant
<1>4. CASE UNCHANGED current
  BY <1>4
<1>. QED  BY <1>1, <1>2, <1>3, <1>4
          DEF Next, ClientStep, TransportError, SleepEnds, Receive, githubVars, vars

LEMMA UrlsStay ==
  ASSUME [Next]_vars
  PROVE  url' = url
BY DEF Next, ClientStep, Start, TransportError, SleepEnds, Receive, Handle, Edit,
       callVars, vars

LEMMA PcStays ==
  ASSUME [Next]_vars, ClientInvariant, NEW c \in Calls, pc'[c] # "done"
  PROVE  pc[c] # "done"
<1>. USE DEF ClientInvariant, TypeOK
<1>1. ASSUME NEW d \in Calls, NEW m \in Methods, Start(d, m) PROVE pc[c] # "done"
  BY <1>1 DEF Start, Send
<1>2. ASSUME NEW d \in Calls, TransportError(d) PROVE pc[c] # "done"
  BY <1>2 DEF TransportError, RetryOrRaise, BackOff, Finish
<1>3. ASSUME NEW d \in Calls, SleepEnds(d) PROVE pc[c] # "done"
  BY <1>3 DEF SleepEnds, Send
<1>4. ASSUME NEW d \in Calls, Receive(d) PROVE pc[c] # "done"
  BY <1>4 DEF Receive, NotModified, Succeeded, Rejected, RetryOrRaise, BackOff, Finish
<1>5. CASE UNCHANGED pc
  BY <1>5
<1>. QED  BY <1>1, <1>2, <1>3, <1>4, <1>5 DEF Next, ClientStep, Handle, Edit, callVars, vars

(***************************************************************************)
(* Answers are given once, so copies stay, and with them the tags to ask    *)
(* with.                                                                    *)
(***************************************************************************)
LEMMA AnswersStay ==
  ASSUME RouteInvariant, [ReadNext]_readVars, NEW c \in Calls
  PROVE  answer'[c] = answer[c] \/ (Proceed(c) /\ answer[c] = NoAnswer)
<1>1. ASSUME NEW d \in Calls, Proceed(d)
      PROVE  answer'[c] = answer[c] \/ (Proceed(c) /\ answer[c] = NoAnswer)
  <2>1. CASE d # c
    BY <1>1, <2>1 DEF Proceed, RouteInvariant
  <2>2. CASE d = c
    <3>1. pc[c] # "done"
      BY <1>1, <2>2 DEF Proceed, ClientStep, TransportError, SleepEnds, Receive
    <3>. QED  BY <1>1, <2>2, <3>1 DEF RouteInvariant
  <2>. QED  BY <2>1, <2>2
<1>2. CASE UNCHANGED answer
  BY <1>2
<1>. QED  BY <1>1, <1>2 DEF ReadNext, Ask, GitHubStep, Deploy, routeVars, readVars

LEMMA CopiesStay ==
  ASSUME RouteInvariant, [ReadNext]_readVars, NEW c \in Calls
  PROVE  Copies(c) \subseteq Copies(c)'
<1>1. url' = url
  <2>1. CASE Deploy
    BY <2>1 DEF Deploy, callVars
  <2>. QED  BY <2>1, StepOrDeployment, UrlsStay
<1>2. ASSUME NEW d \in Calls, answer[d].status = "ok" PROVE answer'[d] = answer[d]
  BY <1>2, AnswersStay DEF NoAnswer
<1>. QED  BY <1>1, <1>2 DEF Copies

LEMMA StarIsNoTag == Star \notin Tags
<1>1. \A t \in Tags : Len(t) = 2
  BY DEF Tags
<1>2. Len(Star) = 1
  BY DEF Star
<1>. QED  BY <1>1, <1>2

LEMMA WhatAnswersHold ==
  /\ NoAnswer.status = "none" /\ ErrorAnswer.status = "error"
  /\ \A a \in Answers : /\ a.status \in {"ok", "not modified"} /\ a.etag \in Tags
                        /\ a.version \in Nat /\ a.shape \in Nat
BY DEF NoAnswer, ErrorAnswer, Answers

LEMMA CopiesAreAnswers ==
  ASSUME RouteInvariant, NEW c \in Calls, NEW copy \in Copies(c)
  PROVE  /\ copy \in Answers /\ copy.etag \in Tags
         /\ copy.status = "ok" /\ copy.etag = <<copy.shape, copy.version>>
<1>1. PICK d \in Calls : copy = answer[d] /\ answer[d].status = "ok"
  BY DEF Copies
<1>2. answer[d] \in Answers
  <2>1. answer[d] \in Answers \cup {NoAnswer, ErrorAnswer}
    BY DEF RouteInvariant
  <2>. QED  BY <1>1, <2>1, WhatAnswersHold
<1>3. answer[d].etag = <<answer[d].shape, answer[d].version>>
  BY <1>2 DEF RouteInvariant
<1>. QED  BY <1>1, <1>2, <1>3, WhatAnswersHold

(***************************************************************************)
(* RouteInvariant, one variable of the route at a time.                     *)
(***************************************************************************)
LEMMA AskedPreserved ==
  ASSUME RouteInvariant, [ReadNext]_readVars, NEW c \in Calls
  PROVE  /\ asked' \in [Calls -> SUBSET ({Star} \cup Tags)]
         /\ asked'[c] = {Star} \/ asked'[c] \subseteq {copy.etag : copy \in Copies(c)'}
<1>1. \A d \in Calls : {copy.etag : copy \in Copies(d)} \subseteq Tags
  BY CopiesAreAnswers
<1>2. {copy.etag : copy \in Copies(c)} \subseteq {copy.etag : copy \in Copies(c)'}
  BY CopiesStay
<1>3. ASSUME NEW d \in Calls, Ask(d)
      PROVE  /\ asked' \in [Calls -> SUBSET ({Star} \cup Tags)]
             /\ asked'[c] = {Star} \/ asked'[c] \subseteq {copy.etag : copy \in Copies(c)}
  <2>1. PICK header \in {{Star}} \cup SUBSET {copy.etag : copy \in Copies(d)} :
               asked' = [asked EXCEPT ![d] = header]
    BY <1>3 DEF Ask
  <2>2. header \subseteq {Star} \cup Tags
    BY <1>1, <2>1
  <2>. QED  BY <2>1, <2>2 DEF RouteInvariant
<1>4. CASE UNCHANGED asked
  BY <1>4, <1>2 DEF RouteInvariant
<1>. QED  BY <1>2, <1>3, <1>4 DEF ReadNext, Proceed, GitHubStep, Deploy, routeVars, readVars

LEMMA MatchingTag ==
  ASSUME RouteInvariant, NEW c \in Calls, NEW t, IfNoneMatchMatches(asked[c], t)
  PROVE  asked[c] = {Star} \/ t \in asked[c]
<1>1. asked[c] = {Star} \/ asked[c] \subseteq {copy.etag : copy \in Copies(c)}
  BY DEF RouteInvariant
<1>2. Star \notin {copy.etag : copy \in Copies(c)}
  BY CopiesAreAnswers, StarIsNoTag
<1>. QED  BY <1>1, <1>2 DEF IfNoneMatchMatches

LEMMA AnswerIsRight ==
  ASSUME ClientInvariant', RouteInvariant, NEW c \in Calls, Proceed(c), pc'[c] = "done"
  PROVE  /\ answer'[c] \in Answers \cup {ErrorAnswer}
         /\ answer'[c] \in Answers =>
              /\ answer'[c].etag = <<answer'[c].shape, answer'[c].version>>
              /\ answer'[c].version \in current'[c]
              /\ answer'[c].status = "not modified" =>
                   asked'[c] = {Star} \/ answer'[c].etag \in asked'[c]
<1>1. asked' = asked /\ answer'[c] = ListIssues(c, outcome'[c])
  BY DEF Proceed, RouteInvariant
<1>2. CASE outcome'[c].kind # "data"
  <2>1. answer'[c] = ErrorAnswer
    BY <1>1, <1>2 DEF ListIssues
  <2>2. ErrorAnswer \notin Answers
    BY WhatAnswersHold
  <2>. QED  BY <2>1, <2>2
<1>3. CASE outcome'[c].kind = "data"
  <2>1. outcome'[c].version \in current'[c] /\ current'[c] \subseteq Nat
    BY <1>3 DEF ClientInvariant, Sound, TypeOK
  <2>2. PICK v \in Nat : v = outcome'[c].version
    BY <2>1
  <2>3. PICK p \in Nat : p = shape
    <3>1. shape \in 0..MaxDeploys /\ MaxDeploys \in Nat
      BY ReadAssumption DEF RouteInvariant
    <3>. QED  BY <3>1
  <2>4. PICK t \in Tags : t = <<p, v>>
    BY DEF Tags
  <2>5. PICK st \in {"ok", "not modified"} :
          st = IF IfNoneMatchMatches(asked[c], t) THEN "not modified" ELSE "ok"
    OBVIOUS
  <2>6. PICK a \in Answers : a = [status |-> st, etag |-> t, version |-> v, shape |-> p]
    BY DEF Answers
  <2>7. a.status = st /\ a.etag = t /\ a.version = v /\ a.shape = p
    BY <2>6
  <2>8. answer'[c] = a
    BY <1>1, <1>3, <2>2, <2>3, <2>4, <2>5, <2>6 DEF ListIssues, GatewayETag
  <2>9. st = "not modified" => asked[c] = {Star} \/ t \in asked[c]
    BY <2>5, MatchingTag
  <2>. QED  BY <1>1, <2>1, <2>2, <2>4, <2>7, <2>8, <2>9
<1>. QED  BY <1>2, <1>3

LEMMA RoutePreserved ==
  ASSUME ClientInvariant, ClientInvariant', RouteInvariant, [ReadNext]_readVars
  PROVE  RouteInvariant'
<1>1. shape' \in 0..MaxDeploys
  <2>1. shape \in 0..MaxDeploys /\ MaxDeploys \in Nat
    BY ReadAssumption DEF RouteInvariant
  <2>2. shape' = shape \/ (shape < MaxDeploys /\ shape' = shape + 1)
    BY DEF ReadNext, Ask, Proceed, GitHubStep, Deploy, routeVars, readVars
  <2>. QED  BY <2>1, <2>2
<1>2. ASSUME NEW c \in Calls, Proceed(c), pc'[c] = "done"
      PROVE  /\ answer'[c] \in Answers \cup {NoAnswer, ErrorAnswer}
             /\ answer'[c] \in Answers =>
                  /\ answer'[c].etag = <<answer'[c].shape, answer'[c].version>>
                  /\ answer'[c].version \in current'[c]
                  /\ answer'[c].status = "not modified" =>
                       asked'[c] = {Star} \/ answer'[c].etag \in asked'[c]
  BY <1>2, AnswerIsRight
<1>3. ASSUME NEW c \in Calls, answer'[c] = answer[c], answer[c] \in Answers
      PROVE  /\ answer'[c].etag = <<answer'[c].shape, answer'[c].version>>
             /\ answer'[c].version \in current'[c]
             /\ answer'[c].status = "not modified" =>
                  asked'[c] = {Star} \/ answer'[c].etag \in asked'[c]
  <2>1. answer[c] # NoAnswer
    BY <1>3, WhatAnswersHold
  <2>2. pc[c] = "done"
    BY <2>1 DEF RouteInvariant
  <2>3. current[c] \subseteq current'[c]
    <3>1. CASE Deploy
      BY <3>1 DEF Deploy, githubVars
    <3>. QED  BY <2>2, <3>1, StepOrDeployment, CurrentGrows
  <2>4. asked'[c] = asked[c]
    <3>1. ASSUME NEW d \in Calls, Ask(d) PROVE asked'[c] = asked[c]
      <4>1. d # c
        BY <2>2, <3>1 DEF Ask, Start
      <4>. QED  BY <3>1, <4>1 DEF Ask, RouteInvariant
    <3>. QED  BY <3>1 DEF ReadNext, Proceed, GitHubStep, Deploy, routeVars, readVars
  <2>. QED  BY <1>3, <2>3, <2>4 DEF RouteInvariant
<1>4. ASSUME NEW c \in Calls PROVE answer'[c] = answer[c] \/ (Proceed(c) /\ pc'[c] = "done")
  <2>1. CASE Proceed(c) /\ pc'[c] # "done"
    BY <2>1 DEF Proceed
  <2>. QED  BY <2>1, AnswersStay
<1>5. answer' \in [Calls -> Answers \cup {NoAnswer, ErrorAnswer}]
  <2>1. ASSUME NEW c \in Calls PROVE answer'[c] \in Answers \cup {NoAnswer, ErrorAnswer}
    BY <1>2, <1>4 DEF RouteInvariant
  <2>2. answer' = [c \in Calls |-> answer'[c]]
    BY DEF RouteInvariant, ReadNext, Ask, Proceed, GitHubStep, Deploy, routeVars, readVars
  <2>. QED  BY <2>1, <2>2
<1>6. ASSUME NEW c \in Calls, pc'[c] # "done" PROVE answer'[c] = NoAnswer
  <2>1. pc[c] # "done"
    <3>1. CASE Deploy
      BY <1>6, <3>1 DEF Deploy, callVars
    <3>. QED  BY <1>6, <3>1, StepOrDeployment, PcStays
  <2>. QED  BY <1>4, <1>6, <2>1 DEF RouteInvariant
<1>7. asked' \in [Calls -> SUBSET ({Star} \cup Tags)]
  <2>1. CASE Calls = {}
    BY <2>1 DEF RouteInvariant, ReadNext, GitHubStep, Deploy, routeVars, readVars
  <2>. QED  BY <2>1, AskedPreserved
<1>8. ASSUME NEW c \in Calls
      PROVE  asked'[c] = {Star} \/ asked'[c] \subseteq {copy.etag : copy \in Copies(c)'}
  BY AskedPreserved
<1>. QED  BY <1>1, <1>2, <1>3, <1>4, <1>5, <1>6, <1>7, <1>8 DEF RouteInvariant

(***************************************************************************)
(* Both invariants hold in every state, for all values of the constants.    *)
(***************************************************************************)
LEMMA RouteInitially == ReadInit => ClientInvariant /\ RouteInvariant
<1>. SUFFICES ASSUME ReadInit PROVE ClientInvariant /\ RouteInvariant
  OBVIOUS
<1>1. ClientInvariant
  BY ClientInitially DEF ReadInit
<1>2. 0 \in 0..MaxDeploys
  BY ReadAssumption
<1>3. NoAnswer \notin Answers
  BY DEF NoAnswer, Answers
<1>. QED  BY <1>1, <1>2, <1>3 DEF ReadInit, RouteInvariant

THEOREM RouteIsInvariant == ReadSpec => [](ClientInvariant /\ RouteInvariant)
<1>1. ASSUME ClientInvariant, RouteInvariant, [ReadNext]_readVars
      PROVE  ClientInvariant' /\ RouteInvariant'
  <2>1. ClientInvariant'
    BY <1>1, StepOrDeployment, ClientPreserved, DeploymentKeepsClient
  <2>. QED  BY <1>1, <2>1, RoutePreserved
<1>2. (ClientInvariant /\ RouteInvariant) /\ [ReadNext]_readVars
      => (ClientInvariant /\ RouteInvariant)'
  BY <1>1
<1>. QED  BY <1>2, RouteInitially, PTL DEF ReadSpec

(***************************************************************************)
(* Deployments do not make a read less fresh.                               *)
(***************************************************************************)
THEOREM RoutedReadsAreFresh == ReadSpec => []FreshRead
<1>1. ClientInvariant /\ RouteInvariant => FreshRead
  BY DataWasCurrent
<1>. QED  BY <1>1, RouteIsInvariant, PTL

(***************************************************************************)
(* A 304 suppresses the bytes its caller holds, in the projection of the    *)
(* gateway that answers, and of a version current during the call.          *)
(***************************************************************************)
LEMMA NotModifiedMeansSame == RouteInvariant => NotModifiedIsTrue
<1>. SUFFICES ASSUME RouteInvariant, NEW c \in Calls,
                     answer[c].status = "not modified", asked[c] # {Star}
              PROVE  /\ [answer[c] EXCEPT !.status = "ok"] \in Copies(c)
                     /\ answer[c].version \in current[c]
  BY DEF NotModifiedIsTrue
<1>1. answer[c] \in Answers
  <2>1. answer[c] \in Answers \cup {NoAnswer, ErrorAnswer}
    BY DEF RouteInvariant
  <2>. QED  BY <2>1, WhatAnswersHold
<1>2. /\ answer[c].etag = <<answer[c].shape, answer[c].version>>
      /\ answer[c].version \in current[c] /\ answer[c].etag \in asked[c]
  BY <1>1 DEF RouteInvariant
<1>3. PICK copy \in Copies(c) : copy.etag = answer[c].etag
  BY <1>2 DEF RouteInvariant
<1>4. copy \in Answers /\ copy.status = "ok" /\ copy.etag = <<copy.shape, copy.version>>
  BY CopiesAreAnswers
<1>5. copy.shape = answer[c].shape /\ copy.version = answer[c].version
  <2>1. <<copy.shape, copy.version>> = <<answer[c].shape, answer[c].version>>
    BY <1>2, <1>3, <1>4
  <2>. QED  BY <2>1
<1>6. [answer[c] EXCEPT !.status = "ok"] = copy
  BY <1>1, <1>3, <1>4, <1>5 DEF Answers
<1>. QED  BY <1>2, <1>3, <1>6

THEOREM NotModifiedTellsTheTruth == ReadSpec => []NotModifiedIsTrue
<1>1. ClientInvariant /\ RouteInvariant => NotModifiedIsTrue
  BY NotModifiedMeansSame
<1>. QED  BY <1>1, RouteIsInvariant, PTL

=============================================================================
