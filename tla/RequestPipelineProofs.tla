----------------------- MODULE RequestPipelineProofs -----------------------
(***************************************************************************)
(* What one request of any kind may rely on, for every payload, delivery,    *)
(* response, header, clock and setting that the constants admit.             *)
(*                                                                          *)
(* The operators come first: what the ladder of from_github_response(), the  *)
(* waits, the checks of the webhook and the key of a delivery yield.  Then    *)
(* the invariant, PipelineInv.  Each of its parts says what a variable still *)
(* has to do with what it was computed from: the error with the response,    *)
(* the verdict with the delivery, the context with the ids, what was sent    *)
(* with what was asked, the answer with the contract.  The properties alone   *)
(* are not inductive: each says nothing of the stages before the answer.     *)
(***************************************************************************)
EXTENDS RequestPipeline, TLAPS

-----------------------------------------------------------------------------
\* What becomes of one response

Answers == TransportErrors \cup Possible

\* What raise leaves behind: the AppError for the last response.
Translated(r, t) ==
  IF r \in TransportErrors THEN FromTransportError(r) ELSE FromGitHubResponse(r, t)

\* An exchange that failed has no status and no headers.
LEMMA TransportErrorsAre ==
  ASSUME NEW r \in TransportErrors
  PROVE  /\ r.status = 0 /\ r.h = NoHeaders
         /\ r.meaning \in {"timed_out", "unreachable"}
<1>1. PICK m \in {"timed_out", "unreachable"} :
        r = [status |-> 0, h |-> NoHeaders, meaning |-> m]
  BY DEF TransportErrors
<1>. QED  BY <1>1

\* A response that arrived has a status, headers and a meaning that goes with them.
LEMMA PossibleAre ==
  ASSUME NEW r \in Possible
  PROVE  /\ r \notin TransportErrors
         /\ r.status \in UpstreamStatuses /\ r.h \in Headers /\ r.meaning \in Meanings
         /\ Means(r.meaning, r.status, r.h)
<1>1. PICK s \in UpstreamStatuses, h \in Headers, m \in Meanings :
        r = [status |-> s, h |-> h, meaning |-> m]
  BY DEF Possible, Responses
<1>2. r.status = s /\ r.h = h /\ r.meaning = m
  BY <1>1
<1>3. r.status # 0
  BY <1>2 DEF UpstreamStatuses
<1>4. r \notin TransportErrors
  BY <1>3, TransportErrorsAre
<1>. QED  BY <1>2, <1>4 DEF Possible

\* What _retry_after_seconds() and _backoff() may find in the headers.
LEMMA AnswersAreRecords ==
  ASSUME NEW r \in Answers
  PROVE  /\ r.h.retryAfter \in RetryAfters \cup {NoHeader, Unparsable}
         /\ r.h.reset \in Resets \cup {NoHeader, Unparsable}
         /\ r # NoResponse
<1>1. CASE r \in TransportErrors
  <2>1. r.h = NoHeaders /\ r.meaning \in {"timed_out", "unreachable"}
    BY <1>1, TransportErrorsAre
  <2>2. r # NoResponse
    BY <2>1 DEF NoResponse
  <2>3. NoHeaders.retryAfter = NoHeader /\ NoHeaders.reset = NoHeader
    BY DEF NoHeaders
  <2>. QED  BY <2>1, <2>2, <2>3
<1>2. CASE r \in Possible
  <2>1. r.status \in UpstreamStatuses /\ r.h \in Headers
    BY <1>2, PossibleAre
  <2>2. NoResponse.status = 0
    BY DEF NoResponse
  <2>3. r # NoResponse
    BY <2>1, <2>2 DEF UpstreamStatuses
  <2>. QED  BY <2>1, <2>3 DEF Headers
<1>. QED  BY <1>1, <1>2 DEF Answers

\* The ladder of from_github_response(), rung by rung.
LEMMA StatusOfResponse ==
  ASSUME NEW r \in Possible, NEW t
  PROVE  /\ Translated(r, t) = FromGitHubResponse(r, t)
         /\ Translated(r, t).status =
              IF r.status = 401 THEN 401
              ELSE IF IsRateLimited(r) THEN 429
              ELSE IF r.status = 403 THEN 403
              ELSE IF r.status \in {404, 410} THEN 404
              ELSE IF r.status \in {400, 422} THEN 400
              ELSE 502
<1>1. Translated(r, t) = FromGitHubResponse(r, t) /\ r.status \in UpstreamStatuses
  BY PossibleAre DEF Translated
<1>2. PICK s \in UpstreamStatuses : r.status = s
  BY <1>1
<1>3. CASE s = 401
  <2>1. FromGitHubResponse(r, t) = Error(401, "github_unauthorized")
    BY <1>2, <1>3 DEF FromGitHubResponse
  <2>. QED  BY <1>1, <1>2, <1>3, <2>1 DEF Error
<1>4. CASE s # 401 /\ IsRateLimited(r)
  <2>1. s \in {403, 429}
    BY <1>2, <1>4 DEF IsRateLimited
  <2>2. FromGitHubResponse(r, t) =
          [status |-> 429, code |-> "rate_limited", retryAfter |-> RetryAfterSeconds(r, t)]
    BY <1>2, <1>4, <2>1 DEF FromGitHubResponse
  <2>. QED  BY <1>1, <1>2, <1>4, <2>2
<1>5. CASE s # 401 /\ ~IsRateLimited(r)
  <2>1. CASE s = 403
    <3>1. FromGitHubResponse(r, t) = Error(403, "github_forbidden")
      BY <1>2, <1>5, <2>1 DEF FromGitHubResponse
    <3>. QED  BY <1>1, <1>2, <1>5, <2>1, <3>1 DEF Error
  <2>2. CASE s = 404
    <3>1. FromGitHubResponse(r, t) = Error(404, "not_found")
      BY <1>2, <1>5, <2>2 DEF FromGitHubResponse
    <3>. QED  BY <1>1, <1>2, <1>5, <2>2, <3>1 DEF Error
  <2>3. CASE s = 410
    <3>1. FromGitHubResponse(r, t) = Error(404, "gone")
      BY <1>2, <1>5, <2>3 DEF FromGitHubResponse
    <3>. QED  BY <1>1, <1>2, <1>5, <2>3, <3>1 DEF Error
  <2>4. CASE s \in {400, 422}
    <3>1. FromGitHubResponse(r, t) = Error(400, "validation_error")
      BY <1>2, <1>5, <2>4 DEF FromGitHubResponse
    <3>. QED  BY <1>1, <1>2, <1>5, <2>4, <3>1 DEF Error
  <2>5. CASE s \in 500..599
    <3>1. FromGitHubResponse(r, t) = Error(502, "github_unavailable")
      BY <1>2, <1>5, <2>5 DEF FromGitHubResponse
    <3>. QED  BY <1>1, <1>2, <1>5, <2>5, <3>1 DEF Error
  <2>6. CASE s \notin {400, 403, 404, 410, 422} \cup 500..599
    <3>1. FromGitHubResponse(r, t) = Error(502, "upstream_error")
      BY <1>2, <1>5, <2>6 DEF FromGitHubResponse
    <3>. QED  BY <1>1, <1>2, <1>5, <2>6, <3>1 DEF Error
  <2>. QED  BY <2>1, <2>2, <2>3, <2>4, <2>5, <2>6
<1>. QED  BY <1>2, <1>3, <1>4, <1>5

\* The status of e is the one that what happened, r.meaning, calls for.
Keeps(r, e) ==
  CASE r.meaning \in Limits -> e.status = 429
    [] r.meaning = "denial" -> e.status = 403
    [] r.meaning = "bad_token" -> e.status = 401
    [] r.meaning = "missing" -> e.status = 404
    [] r.meaning = "bad_input" -> e.status = 400
    [] r.meaning \in {"fault", "unreachable"} -> e.status = 502
    [] r.meaning = "timed_out" -> e.status = 504

\* Every rung keeps the meaning.
LEMMA MeaningOfTranslated ==
  ASSUME NEW r \in Answers, NEW t
  PROVE  Keeps(r, Translated(r, t))
<1>1. CASE r \in TransportErrors
  <2>1. r.meaning \in {"timed_out", "unreachable"}
    BY <1>1, TransportErrorsAre
  <2>2. Translated(r, t).status = IF r.meaning = "timed_out" THEN 504 ELSE 502
    BY <1>1 DEF Translated, FromTransportError, Error
  <2>. QED  BY <2>1, <2>2 DEF Limits, Keeps
<1>2. CASE r \in Possible
  <2>1. PICK s \in UpstreamStatuses, h \in Headers, m \in Meanings :
          r.status = s /\ r.h = h /\ r.meaning = m /\ Means(m, s, h)
    BY <1>2, PossibleAre
  <2>2. IsRateLimited(r) <=>
          \/ s = 429
          \/ s = 403 /\ (h.remaining = "zero" \/ h.retryAfter # NoHeader \/ h.message = "rate_limit")
    BY <2>1 DEF IsRateLimited
  <2>3. Translated(r, t).status =
          IF s = 401 THEN 401
          ELSE IF IsRateLimited(r) THEN 429
          ELSE IF s = 403 THEN 403
          ELSE IF s \in {404, 410} THEN 404
          ELSE IF s \in {400, 422} THEN 400
          ELSE 502
    BY <1>2, <2>1, StatusOfResponse
  <2>4. CASE m = "primary_limit"
    BY <2>1, <2>2, <2>3, <2>4 DEF Means, Limits, Keeps
  <2>5. CASE m = "secondary_limit"
    BY <2>1, <2>2, <2>3, <2>5 DEF Means, Limits, Keeps
  <2>6. CASE m = "denial"
    BY <2>1, <2>2, <2>3, <2>6 DEF Means, Limits, Keeps
  <2>7. CASE m = "bad_token"
    BY <2>1, <2>2, <2>3, <2>7 DEF Means, Limits, Keeps
  <2>8. CASE m = "missing"
    BY <2>1, <2>2, <2>3, <2>8 DEF Means, Limits, Keeps
  <2>9. CASE m = "bad_input"
    BY <2>1, <2>2, <2>3, <2>9 DEF Means, Limits, Keeps
  <2>10. CASE m = "fault"
    BY <2>1, <2>2, <2>3, <2>10 DEF Means, Limits, Keeps
  <2>. QED  BY <2>1, <2>4, <2>5, <2>6, <2>7, <2>8, <2>9, <2>10 DEF Meanings, Limits
<1>. QED  BY <1>1, <1>2 DEF Answers

\* The statuses there are to answer a failed call with.
LEMMA TranslatedStatuses ==
  ASSUME NEW r \in Answers, NEW t
  PROVE  Translated(r, t).status \in {400, 401, 403, 404, 429, 502, 504}
<1>1. CASE r \in TransportErrors
  <2>1. Translated(r, t) \in {Error(504, "github_timeout"), Error(502, "github_unreachable")}
    BY <1>1 DEF Translated, FromTransportError
  <2>. QED  BY <2>1 DEF Error
<1>2. CASE r \in Possible
  BY <1>2, StatusOfResponse
<1>. QED  BY <1>1, <1>2 DEF Answers

\* int() of a number of quarters cuts off less than a second of what is positive.
LEMMA WholeIs ==
  ASSUME NEW q \in Int
  PROVE  /\ Whole(q) \in Int
         /\ q >= 0 => 4 * Whole(q) <= q
         /\ 4 * Whole(q) > q - 4
         /\ q % 4 = 0 => 4 * Whole(q) = q
<1>1. CASE q >= 0
  BY <1>1 DEF Whole
<1>2. CASE q < 0
  BY <1>2 DEF Whole
<1>. QED  BY <1>1, <1>2

\* The advice of a 429 reaches the moment that the headers name, or its second.
LEMMA LongEnough ==
  ASSUME NEW r \in Answers, NEW t \in Nat, Translated(r, t).status = 429
  PROVE  /\ Translated(r, t).retryAfter >= 1
         /\ r.h.retryAfter \in Int =>
              NotBefore(4 * Translated(r, t).retryAfter, r.h.retryAfter)
         /\ r.h.retryAfter \notin Int /\ r.h.reset \in Int =>
              NotBefore(t + 4 * Translated(r, t).retryAfter, r.h.reset)
<1>1. r \notin TransportErrors
  BY DEF Translated, FromTransportError, Error
<1>2. r \in Possible /\ Translated(r, t) = FromGitHubResponse(r, t)
  BY <1>1 DEF Answers, Translated
<1>3. r.status \in UpstreamStatuses
  BY <1>2, PossibleAre
<1>4. Translated(r, t).retryAfter = RetryAfterSeconds(r, t)
  BY <1>2, <1>3 DEF FromGitHubResponse, Error, UpstreamStatuses
<1>5. CASE r.h.retryAfter \in Int
  <2>1. PICK a \in Int : r.h.retryAfter = a
    BY <1>5
  <2>2. PICK w \in Int : w = Whole(a) /\ 4 * w > a - 4 /\ (a % 4 = 0 => 4 * w = a)
    BY WholeIs
  <2>3. Translated(r, t).retryAfter = AtLeastOne(w)
    BY <1>4, <1>5, <2>1, <2>2 DEF RetryAfterSeconds
  <2>. QED  BY <2>1, <2>2, <2>3 DEF AtLeastOne, NotBefore
<1>6. CASE r.h.retryAfter \notin Int /\ r.h.reset \in Int
  <2>1. PICK e \in Int : r.h.reset = e
    BY <1>6
  <2>2. PICK w \in Int : w = Whole(e) /\ 4 * w > e - 4 /\ (e % 4 = 0 => 4 * w = e)
    BY WholeIs
  <2>3. PICK v \in Int : v = Whole(t) /\ 4 * v <= t
    BY WholeIs
  <2>4. Translated(r, t).retryAfter = AtLeastOne(w - v)
    BY <1>4, <1>6, <2>1, <2>2, <2>3 DEF RetryAfterSeconds
  <2>. QED  BY <1>6, <2>1, <2>2, <2>3, <2>4 DEF AtLeastOne, NotBefore
<1>7. CASE r.h.retryAfter \notin Int /\ r.h.reset \notin Int
  BY <1>4, <1>7 DEF RetryAfterSeconds
<1>. QED  BY <1>5, <1>6, <1>7

\* A pause of _backoff(), in quarters of a second.
LEMMA DelayIsObedient ==
  ASSUME NEW n \in 1..11, NEW r \in Answers
  PROVE  /\ Delay(n, r) \in 1..120
         /\ r.h.retryAfter \in Int => Delay(n, r) >= Smaller(r.h.retryAfter, 120)
<1>1. PICK own \in 1..32 : own = Smaller(2 ^ (n - 1), 32)
  <2>1. PICK k \in 0..10 : k = n - 1
    OBVIOUS
  <2>2. /\ k = 0 => 2 ^ k = 2 ^ 0
        /\ k = 1 => 2 ^ k = 2 ^ 1
        /\ k = 2 => 2 ^ k = 2 ^ 2
        /\ k = 3 => 2 ^ k = 2 ^ 3
        /\ k = 4 => 2 ^ k = 2 ^ 4
        /\ k = 5 => 2 ^ k = 2 ^ 5
        /\ k = 6 => 2 ^ k = 2 ^ 6
        /\ k = 7 => 2 ^ k = 2 ^ 7
        /\ k = 8 => 2 ^ k = 2 ^ 8
        /\ k = 9 => 2 ^ k = 2 ^ 9
        /\ k = 10 => 2 ^ k = 2 ^ 10
    BY Zenon
  <2>3. 2 ^ k \in 1..1024
    BY <2>2
  <2>4. 2 ^ (n - 1) = 2 ^ k
    BY <2>1
  <2>. QED  BY <2>3, <2>4 DEF Smaller
<1>2. CASE r.h.retryAfter \in Int
  <2>1. PICK a \in Int : r.h.retryAfter = a
    BY <1>2
  <2>. QED  BY <1>1, <2>1 DEF Delay, Larger, Smaller
<1>3. CASE r.h.retryAfter \notin Int
  BY <1>1, <1>3 DEF Delay
<1>. QED  BY <1>2, <1>3

-----------------------------------------------------------------------------
\* The checks of a webhook

\* Whether the action of a request is looked at.
Asked(r) == r.event \in SupportedEvents /\ Actions[r.event] # {}

\* Min is what its name says, where there is a least element.
LEMMA LeastIsMin ==
  ASSUME NEW S \in SUBSET Nat, NEW k \in S, \A j \in S : k <= j
  PROVE  Min(S) = k
<1>1. \A x \in S : (\A y \in S : x =< y) => x = k
  OBVIOUS
<1>. QED  BY <1>1 DEF Min

\* The fields of a check.
LEMMA CheckIs ==
  ASSUME NEW p, NEW code
  PROVE  Check(p, code).refuses = p /\ Check(p, code).code = code
BY DEF Check

\* The checks of receive_webhook(), in their order.
LEMMA ChecksAre ==
  ASSUME NEW r
  PROVE  /\ DOMAIN Checks(r) = IF Asked(r) THEN 1..9 ELSE 1..7
         /\ Checks(r)[1].refuses = (~r.secretSet) /\ Checks(r)[1].code = "not_configured"
         /\ Checks(r)[2].refuses = (r.declaredOversized) /\ Checks(r)[2].code = "payload_too_large"
         /\ Checks(r)[3].refuses = (r.body.oversized) /\ Checks(r)[3].code = "payload_too_large"
         /\ Checks(r)[4].refuses = (~Verifies(r)) /\ Checks(r)[4].code = "invalid_signature"
         /\ Checks(r)[5].refuses = (r.event = "") /\ Checks(r)[5].code = "missing_event"
         /\ Checks(r)[6].refuses = (r.event \notin SupportedEvents)
         /\ Checks(r)[6].code = "unsupported_event"
         /\ Checks(r)[7].refuses = (r.body.json # "object") /\ Checks(r)[7].code = "invalid_json"
         /\ Asked(r) =>
              /\ Checks(r)[8].refuses = (r.body.action \in {Absent, ""})
              /\ Checks(r)[8].code = "missing_action"
              /\ Checks(r)[9].refuses = (r.body.action \notin Actions[r.event])
              /\ Checks(r)[9].code = "unsupported_action"
<1> DEFINE a == Check(~r.secretSet, "not_configured")
           b == Check(r.declaredOversized, "payload_too_large")
           c == Check(r.body.oversized, "payload_too_large")
           d == Check(~Verifies(r), "invalid_signature")
           e == Check(r.event = "", "missing_event")
           f == Check(r.event \notin SupportedEvents, "unsupported_event")
           g == Check(r.body.json # "object", "invalid_json")
           h == Check(r.body.action \in {Absent, ""}, "missing_action")
           i == Check(r.body.action \notin Actions[r.event], "unsupported_action")
<1>1. /\ a.refuses = (~r.secretSet) /\ a.code = "not_configured"
      /\ b.refuses = (r.declaredOversized) /\ b.code = "payload_too_large"
      /\ c.refuses = (r.body.oversized) /\ c.code = "payload_too_large"
      /\ d.refuses = (~Verifies(r)) /\ d.code = "invalid_signature"
      /\ e.refuses = (r.event = "") /\ e.code = "missing_event"
      /\ f.refuses = (r.event \notin SupportedEvents) /\ f.code = "unsupported_event"
      /\ g.refuses = (r.body.json # "object") /\ g.code = "invalid_json"
      /\ h.refuses = (r.body.action \in {Absent, ""}) /\ h.code = "missing_action"
      /\ i.refuses = (r.body.action \notin Actions[r.event]) /\ i.code = "unsupported_action"
  BY CheckIs, Zenon
<1>2. HeaderChecks(r) = <<a, b, c, d, e, f, g>>
  BY Zenon DEF HeaderChecks
<1>3. ActionChecks(r) = IF Asked(r) THEN <<h, i>> ELSE <<>>
  BY Zenon DEF ActionChecks, Asked
<1> HIDE DEF a, b, c, d, e, f, g, h, i
<1>4. CASE Asked(r)
  <2>1. Checks(r) = <<a, b, c, d, e, f, g>> \o <<h, i>>
    BY <1>2, <1>3, <1>4, Zenon DEF Checks
  <2>2. /\ DOMAIN Checks(r) = 1..9
        /\ Checks(r)[1] = a /\ Checks(r)[2] = b /\ Checks(r)[3] = c /\ Checks(r)[4] = d
        /\ Checks(r)[5] = e /\ Checks(r)[6] = f /\ Checks(r)[7] = g /\ Checks(r)[8] = h
        /\ Checks(r)[9] = i
    BY <2>1
  <2>. QED  BY <1>1, <1>4, <2>2, Zenon
<1>5. CASE ~Asked(r)
  <2>1. Checks(r) = <<a, b, c, d, e, f, g>> \o <<>>
    BY <1>2, <1>3, <1>5, Zenon DEF Checks
  <2>2. /\ DOMAIN Checks(r) = 1..7
        /\ Checks(r)[1] = a /\ Checks(r)[2] = b /\ Checks(r)[3] = c /\ Checks(r)[4] = d
        /\ Checks(r)[5] = e /\ Checks(r)[6] = f /\ Checks(r)[7] = g
    BY <2>1
  <2>. QED  BY <1>1, <1>5, <2>2, Zenon
<1>. QED  BY <1>4, <1>5

(***************************************************************************)
(* The verdict is the code of the first check that refuses.                 *)
(***************************************************************************)
LEMMA FirstRefusal ==
  ASSUME NEW r
  PROVE  /\ \A k \in DOMAIN Checks(r) :
              Checks(r)[k].refuses /\ (\A j \in 1..(k - 1) : ~Checks(r)[j].refuses) =>
                Verdict(r) = Checks(r)[k].code
         /\ (\A k \in DOMAIN Checks(r) : ~Checks(r)[k].refuses) => Verdict(r) = Admitted
<1> DEFINE refusals == {i \in DOMAIN Checks(r) : Checks(r)[i].refuses}
<1>1. DOMAIN Checks(r) = IF Asked(r) THEN 1..9 ELSE 1..7
  BY ChecksAre
<1>2. \A k \in DOMAIN Checks(r) :
         Checks(r)[k].refuses /\ (\A j \in 1..(k - 1) : ~Checks(r)[j].refuses) =>
           Verdict(r) = Checks(r)[k].code
  <2>1. SUFFICES ASSUME NEW k \in DOMAIN Checks(r), Checks(r)[k].refuses,
                        \A j \in 1..(k - 1) : ~Checks(r)[j].refuses
                 PROVE  Verdict(r) = Checks(r)[k].code
    OBVIOUS
  <2>2. k \in refusals /\ refusals \in SUBSET Nat
    BY <1>1, <2>1
  <2>3. \A j \in refusals : k <= j
    BY <1>1, <2>1
  <2>4. Min(refusals) = k
    BY <2>2, <2>3, LeastIsMin
  <2>. QED  BY <2>2, <2>4, Zenon DEF Verdict
<1>3. (\A k \in DOMAIN Checks(r) : ~Checks(r)[k].refuses) => Verdict(r) = Admitted
  BY Zenon DEF Verdict
<1>. QED  BY <1>2, <1>3

\* The verdict, check by check: it looks at no check behind the first that refuses.
LEMMA VerdictIs ==
  ASSUME NEW r
  PROVE  Verdict(r) =
           IF ~r.secretSet THEN "not_configured"
           ELSE IF r.declaredOversized \/ r.body.oversized THEN "payload_too_large"
           ELSE IF ~Verifies(r) THEN "invalid_signature"
           ELSE IF r.event = "" THEN "missing_event"
           ELSE IF r.event \notin SupportedEvents THEN "unsupported_event"
           ELSE IF r.body.json # "object" THEN "invalid_json"
           ELSE IF ~Asked(r) THEN Admitted
           ELSE IF r.body.action \in {Absent, ""} THEN "missing_action"
           ELSE IF r.body.action \notin Actions[r.event] THEN "unsupported_action"
           ELSE Admitted
<1>1. DOMAIN Checks(r) = IF Asked(r) THEN 1..9 ELSE 1..7
  BY ChecksAre
<1>2. /\ Checks(r)[1].refuses <=> ~r.secretSet
      /\ Checks(r)[2].refuses <=> r.declaredOversized
      /\ Checks(r)[3].refuses <=> r.body.oversized
      /\ Checks(r)[4].refuses <=> ~Verifies(r)
      /\ Checks(r)[5].refuses <=> r.event = ""
      /\ Checks(r)[6].refuses <=> r.event \notin SupportedEvents
      /\ Checks(r)[7].refuses <=> r.body.json # "object"
      /\ Asked(r) =>
           /\ Checks(r)[8].refuses <=> r.body.action \in {Absent, ""}
           /\ Checks(r)[9].refuses <=> r.body.action \notin Actions[r.event]
  BY ChecksAre, Zenon
<1>3. /\ Checks(r)[1].code = "not_configured"
      /\ Checks(r)[2].code = "payload_too_large"
      /\ Checks(r)[3].code = "payload_too_large"
      /\ Checks(r)[4].code = "invalid_signature"
      /\ Checks(r)[5].code = "missing_event"
      /\ Checks(r)[6].code = "unsupported_event"
      /\ Checks(r)[7].code = "invalid_json"
      /\ Asked(r) =>
           /\ Checks(r)[8].code = "missing_action"
           /\ Checks(r)[9].code = "unsupported_action"
  BY ChecksAre, Zenon
<1> DEFINE Refuses(k) == Checks(r)[k].refuses
           Passed(k) == \A j \in 1..k : ~Refuses(j)
<1>4. /\ Passed(0)
      /\ Passed(0) /\ ~Refuses(1) => Passed(1)
      /\ Passed(1) /\ ~Refuses(2) => Passed(2)
      /\ Passed(2) /\ ~Refuses(3) => Passed(3)
      /\ Passed(3) /\ ~Refuses(4) => Passed(4)
      /\ Passed(4) /\ ~Refuses(5) => Passed(5)
      /\ Passed(5) /\ ~Refuses(6) => Passed(6)
      /\ Passed(6) /\ ~Refuses(7) => Passed(7)
      /\ Passed(7) /\ ~Refuses(8) => Passed(8)
      /\ Passed(8) /\ ~Refuses(9) => Passed(9)
  <2>1. \A k \in 0..8 : Passed(k) /\ ~Refuses(k + 1) => Passed(k + 1)
    OBVIOUS
  <2> HIDE DEF Refuses
  <2>. QED  BY <2>1
<1>5. /\ Passed(0) /\ Refuses(1) => Verdict(r) = Checks(r)[1].code
      /\ Passed(1) /\ Refuses(2) => Verdict(r) = Checks(r)[2].code
      /\ Passed(2) /\ Refuses(3) => Verdict(r) = Checks(r)[3].code
      /\ Passed(3) /\ Refuses(4) => Verdict(r) = Checks(r)[4].code
      /\ Passed(4) /\ Refuses(5) => Verdict(r) = Checks(r)[5].code
      /\ Passed(5) /\ Refuses(6) => Verdict(r) = Checks(r)[6].code
      /\ Passed(6) /\ Refuses(7) => Verdict(r) = Checks(r)[7].code
      /\ Asked(r) /\ Passed(7) /\ Refuses(8) => Verdict(r) = Checks(r)[8].code
      /\ Asked(r) /\ Passed(8) /\ Refuses(9) => Verdict(r) = Checks(r)[9].code
  <2>1. \A k \in 1..9 : k \in DOMAIN Checks(r) /\ Passed(k - 1) /\ Refuses(k) =>
                         Verdict(r) = Checks(r)[k].code
    BY FirstRefusal
  <2>2. 1..7 \subseteq DOMAIN Checks(r) /\ (Asked(r) => 1..9 \subseteq DOMAIN Checks(r))
    BY <1>1
  <2> HIDE DEF Refuses, Passed
  <2>. QED  BY <2>1, <2>2
<1>6. /\ ~Asked(r) /\ Passed(7) => Verdict(r) = Admitted
      /\ Passed(9) => Verdict(r) = Admitted
  BY <1>1, FirstRefusal
<1> HIDE DEF Passed
<1>. QED  BY <1>2, <1>3, <1>4, <1>5, <1>6, Zenon

\* What is admitted has passed every check.
LEMMA AdmittedIs ==
  ASSUME NEW r, Verdict(r) = Admitted
  PROVE  /\ r.secretSet /\ Verifies(r) /\ ~r.declaredOversized /\ ~r.body.oversized
         /\ r.event \in SupportedEvents /\ r.body.json = "object"
         /\ Actions[r.event] # {} => r.body.action \in Actions[r.event]
BY VerdictIs DEF Admitted, Asked

\* Every request has a verdict.
LEMMA VerdictIsNotPending ==
  ASSUME NEW r
  PROVE  Verdict(r) # Pending
BY VerdictIs DEF Admitted, Pending

\* A redelivery has the key of what it redelivers.
LEMMA ConflictsWithItself ==
  ASSUME NEW r, Verdict(r) = Admitted
  PROVE  Conflicts(DedupeKey(r), DedupeKey(r))
<1>1. DedupeKey(r).action = ActionKey(r)
  BY DEF DedupeKey
<1>2. ActionKey(r) # Null
  <2>1. CASE Actions[r.event] # {}
    <3>1. r.event \in DOMAIN Actions /\ r.body.action \in Actions[r.event]
      BY <2>1, AdmittedIs DEF SupportedEvents
    <3>2. r.body.action # Null
      BY <3>1, AdmissionAssumption
    <3>. QED  BY <2>1, <3>2 DEF ActionKey
  <2>2. CASE Actions[r.event] = {}
    BY <2>2 DEF ActionKey, Null
  <2>. QED  BY <2>1, <2>2
<1>. QED  BY <1>1, <1>2 DEF Conflicts

\* Two accepted requests conflict when event, action and delivery agree.
LEMMA SameKey ==
  ASSUME NEW q, NEW r, Verdict(q) = Admitted
  PROVE  Conflicts(DedupeKey(q), DedupeKey(r)) <=>
           /\ q.event = r.event /\ ActionKey(q) = ActionKey(r)
           /\ DeliveryId(q) = DeliveryId(r)
<1>1. DedupeKey(q).action # Null
  BY ConflictsWithItself DEF Conflicts
<1>2. DedupeKey(q) = DedupeKey(r) <=>
        /\ q.event = r.event /\ ActionKey(q) = ActionKey(r)
        /\ DeliveryId(q) = DeliveryId(r)
  BY DEF DedupeKey
<1>. QED  BY <1>1, <1>2 DEF Conflicts

\* When two requests have one delivery id.
OneDelivery(q, r) ==
  \/ r.guid # <<>> /\ q.guid # <<>> /\ Cut(r.guid) = Cut(q.guid)
  \/ r.guid = <<>> /\ q.guid = <<>> /\ Digest[r.body] = Digest[q.body]
  \/ Spells(r, q) \/ Spells(q, r)

\* The delivery of a key is the id that GitHub gave, or the digest of the body,
\* and either may be equal to either.
LEMMA SameDelivery ==
  ASSUME NEW q, NEW r
  PROVE  DeliveryId(q) = DeliveryId(r) <=> OneDelivery(q, r)
BY Zenon DEF DeliveryId, Spells, OneDelivery

\* Two accepted requests conflict when they are one delivery, and only then.
LEMMA OnlyReplays ==
  ASSUME NEW q, NEW r, Verdict(q) = Admitted, Verdict(r) = Admitted
  PROVE  Conflicts(DedupeKey(q), DedupeKey(r)) <=>
           /\ r.event = q.event
           /\ Actions[r.event] # {} => r.body.action = q.body.action
           /\ OneDelivery(q, r)
<1>1. r.event = q.event =>
        (ActionKey(q) = ActionKey(r) <=>
           (Actions[r.event] # {} => r.body.action = q.body.action))
  BY DEF ActionKey
<1>. QED  BY <1>1, SameKey, SameDelivery, Zenon

\* Without a signature that verifies the verdict depends on the length alone.
LEMMA LearnsNothing ==
  ASSUME NEW q \in Requests, ~Verifies(q), NEW other, ~Verifies(other),
         other.secretSet = q.secretSet, other.declaredOversized = q.declaredOversized,
         other.body.oversized = q.body.oversized
  PROVE  Verdict(other) = Verdict(q)
BY VerdictIs, Zenon

-----------------------------------------------------------------------------
(***************************************************************************)
(* The inductive invariant, one part for each of the things that a request   *)
(* carries along: what became of GitHub's answers, the webhook's verdict,    *)
(* the ids, what was sent, and the answer on its way.                        *)
(***************************************************************************)

Stages == {"arrived", "routing", "calling", "raised", "responding", "unwound",
           "answered", "processed"}
Operations == DOMAIN Schema \cup {"unknown_path", "unknown_method"}

\* The error is the translation of the response it was raised for.
TranslationInv ==
  /\ attempt \in 1..(MaxRetries + 1)
  /\ response = NoResponse \/ response \in Answers
  /\ slept \in Seq([delay : Int, asked : Int \cup {NoHeader, Unparsable}])
  /\ SleepsAreObedient
  /\ error # NoError =>
       response \in Answers /\ now \in Nat /\ error = Translated(response, now)

AdmissionInv ==
  /\ call.op = "webhook" => request \in Requests
  /\ verdict # Pending => request \in Requests /\ verdict = Verdict(request)

\* The exceptions there are handlers for, and the rest.
Kinds == {"http", "validation", "app", "unhandled"}

\* Until dispatch() resets it the context is what was bound, so that every line
\* written so far carries the ids of the request.
IdsInv ==
  /\ stage \in Stages
  /\ call.id \in Ids
  /\ stage # "arrived" => bound = Bound(call)
  /\ stage \in {"routing", "calling", "raised", "responding"} => context = bound
  /\ stage = "raised" => raised.kind \in Kinds
  /\ stage = "arrived" => lines = {}
  /\ \A l \in lines : l.what # "unhandled_exception" => l.ids = bound
  /\ stage = "responding" =>
       reply = [status |-> reply.status, code |-> reply.code, named |-> reply.named]
  /\ stage = "unwound" => AccessLine(500, bound) \in lines
  /\ Answered => reply.named = bound.request /\ AccessLine(reply.status, bound) \in lines

\* Only a valid request with a token and a repository has been sent, as it is,
\* and only one that is not valid has been refused as such.
SentInv ==
  /\ sent # NotSent =>
       /\ Valid(call.op, call.payload)
       /\ missing \subseteq {"WEBHOOK_SECRET"}
       /\ sent = ToGitHub(call)
  /\ raised.kind = "validation" => ~Valid(call.op, call.payload)

\* A status the contract names for the operation, or forgets.
Allowed(op, status) ==
  op \in DOMAIN Schema => status \in Documented[op] \/ <<op, status>> \in Undocumented

\* An exception on its way has an allowed status unless nobody handles it.
AnswersInv ==
  /\ call.op \in Operations
  /\ call.op \in {"healthz", "webhook"} => Valid(call.op, call.payload)
  /\ stage = "calling" => call.op \in GitHubOps \/ IsDeep(call)
  /\ stage = "raised" /\ raised.kind # "unhandled" => Allowed(call.op, raised.error.status)
  /\ stage = "responding" => Allowed(call.op, reply.status)
  /\ stage = "unwound" => raised.kind = "unhandled"
  /\ Answered => \/ Allowed(call.op, reply.status)
                 \/ reply.code = "internal_error" /\ raised.kind = "unhandled"

PipelineInv ==
  missing \subseteq Variables /\ TranslationInv /\ AdmissionInv /\ IdsInv /\ SentInv /\ AnswersInv

(***************************************************************************)
(* Which steps touch which part: what is asked never changes, the verdict    *)
(* only in Webhook, the translation only while GitHub is called, what was     *)
(* sent only in CallGitHub, the ids only in Bind.                            *)
(***************************************************************************)
LEMMA StepsTouch ==
  ASSUME [PipelineNext]_vars
  PROVE  /\ UNCHANGED inputVars
         /\ UNCHANGED verdict \/ Webhook
         /\ UNCHANGED translationVars \/ AttemptFails \/ CallFails
         /\ UNCHANGED sent \/ CallGitHub
         /\ UNCHANGED bound \/ Bind
<1>1. CASE Bind
  BY <1>1 DEF Bind
<1>2. CASE Handle
  BY <1>2 DEF Handle
<1>3. CASE Webhook
  BY <1>3 DEF Webhook, Judge, inputVars
<1>4. CASE CallGitHub
  BY <1>4 DEF CallGitHub
<1>5. CASE AttemptFails
  BY <1>5 DEF AttemptFails
<1>6. CASE CallFails
  BY <1>6 DEF CallFails
<1>7. CASE CallSucceeds
  BY <1>7 DEF CallSucceeds
<1>8. CASE HandleError
  BY <1>8 DEF HandleError
<1>9. CASE Leave
  BY <1>9 DEF Leave
<1>10. CASE Unwind
  BY <1>10 DEF Unwind
<1>11. CASE CatchAll
  BY <1>11 DEF CatchAll
<1>12. CASE Background
  BY <1>12 DEF Background
<1>13. CASE UNCHANGED vars
  BY <1>13 DEF vars
<1>. QED  BY <1>1, <1>2, <1>3, <1>4, <1>5, <1>6, <1>7, <1>8, <1>9, <1>10, <1>11,
             <1>12, <1>13 DEF PipelineNext

-----------------------------------------------------------------------------
\* GitHub's answers

\* _exchange(): a response, or an error of the transport.
LEMMA ExchangeKeeps ==
  ASSUME TranslationInv, Exchange
  PROVE  TranslationInv'
<1>1. response' \in Answers
  BY DEF Exchange, Answers, PossibleLater
<1>2. error = NoError
  <2>1. response = NoResponse
    BY DEF Exchange
  <2>2. response \notin Answers
    BY <2>1, AnswersAreRecords
  <2>. QED  BY <2>2 DEF TranslationInv
<1>3. UNCHANGED <<attempt, slept, now, error>>
  BY DEF Exchange
<1>. QED  BY <1>1, <1>2, <1>3 DEF TranslationInv, SleepsAreObedient

\* _backoff(): another pause.
LEMMA RetryKeeps ==
  ASSUME TranslationInv, NEW retryable, Retry(retryable)
  PROVE  TranslationInv'
<1>1. /\ attempt \in 1..(MaxRetries + 1) /\ attempt < MaxRetries + 1
      /\ response \in Answers /\ error = NoError
      /\ attempt' = attempt + 1 /\ response' = NoResponse
      /\ UNCHANGED <<now, error>>
  BY DEF Retry, MayRetry, TranslationInv
<1>2. attempt \in 1..11 /\ attempt' \in 1..(MaxRetries + 1)
  BY <1>1, TranslationAssumption
<1>3. PICK d \in 1..120 : d = Delay(attempt, response)
  BY <1>1, <1>2, DelayIsObedient
<1>4. PICK a \in Int \cup {NoHeader, Unparsable} : a = response.h.retryAfter
  BY <1>1, AnswersAreRecords, TranslationAssumption
<1>5. a \in Int => d >= Smaller(a, 120)
  BY <1>1, <1>2, <1>3, <1>4, DelayIsObedient
<1> DEFINE Sleeps == [delay : Int, asked : Int \cup {NoHeader, Unparsable}]
<1>6. slept' = Append(slept, [delay |-> d, asked |-> a])
  BY <1>3, <1>4 DEF Retry
<1>7. slept \in Seq(Sleeps) /\ SleepsAreObedient
  BY DEF TranslationInv
<1>8. slept' \in Seq(Sleeps)
  BY <1>6, <1>7
<1>9. SleepsAreObedient'
  <2>1. SUFFICES ASSUME NEW i \in DOMAIN slept'
                 PROVE  /\ slept'[i].delay \in 1..120
                        /\ slept'[i].asked \in Int =>
                             slept'[i].delay >= Smaller(slept'[i].asked, 120)
    BY DEF SleepsAreObedient
  <2>2. CASE i \in DOMAIN slept
    <3>1. slept'[i] = slept[i]
      BY <1>6, <1>7, <2>2
    <3>. QED  BY <1>7, <2>2, <3>1 DEF SleepsAreObedient
  <2>3. CASE i \notin DOMAIN slept
    <3>1. slept'[i] = [delay |-> d, asked |-> a]
      BY <1>6, <1>7, <2>3
    <3>2. slept'[i].delay = d /\ slept'[i].asked = a
      BY <3>1
    <3>. QED  BY <1>5, <3>2
  <2>. QED  BY <2>2, <2>3
<1>. QED  BY <1>1, <1>2, <1>8, <1>9 DEF TranslationInv

\* The error is raised for the response at hand.
LEMMA RaiseKeeps ==
  ASSUME TranslationInv, NEW retryable, Raise(retryable)
  PROVE  /\ TranslationInv'
         /\ error' = Translated(response, now') /\ response \in Answers
<1>1. /\ response \in Answers /\ now' \in Nat
      /\ error' = Translated(response, now')
      /\ UNCHANGED <<attempt, response, slept>>
  BY TranslationAssumption DEF Raise, Translated, TranslationInv
<1>. QED  BY <1>1 DEF TranslationInv, SleepsAreObedient

\* No step of a request breaks TranslationInv.
LEMMA TranslationStep ==
  ASSUME TranslationInv, [PipelineNext]_vars
  PROVE  TranslationInv'
<1>1. CASE UNCHANGED translationVars
  BY <1>1 DEF TranslationInv, SleepsAreObedient, translationVars
<1>2. CASE AttemptFails
  BY <1>2, ExchangeKeeps, RetryKeeps DEF AttemptFails
<1>3. CASE CallFails
  BY <1>3, RaiseKeeps DEF CallFails
<1>. QED  BY <1>1, <1>2, <1>3, StepsTouch

-----------------------------------------------------------------------------
\* The verdict, and what was sent

\* No step breaks AdmissionInv.
LEMMA AdmissionStep ==
  ASSUME AdmissionInv, [PipelineNext]_vars
  PROVE  AdmissionInv'
<1>1. UNCHANGED <<call, request>>
  BY StepsTouch DEF inputVars
<1>2. CASE UNCHANGED verdict
  BY <1>1, <1>2 DEF AdmissionInv
<1>3. CASE Webhook
  <2>1. call.op = "webhook" /\ verdict' = Verdict(request)
    BY <1>3 DEF Webhook, Judge
  <2>. QED  BY <1>1, <2>1 DEF AdmissionInv
<1>. QED  BY <1>2, <1>3, StepsTouch

\* schemas.py accepts what the contract does, and what LetPass lists.
LEMMA SchemaIsTheContract ==
  ASSUME NEW op \in Writes, NEW payload
  PROVE  Valid(op, payload) <=> Conforms(op, payload)
<1>1. CASE op = "create_issue"
  <2>1. /\ Schema[op] = Contract[op] /\ Required[op] = {"title"}
        /\ \A f, v : <<op, f, v>> \notin LetPass
    BY <1>1 DEF Schema, Contract, Required, LetPass
  <2>. QED  BY <1>1, <2>1 DEF Valid, Conforms
<1>2. CASE op = "create_comment"
  <2>1. /\ Schema[op] = Contract[op] /\ Required[op] = {"body"}
        /\ \A f, v : <<op, f, v>> \notin LetPass
    BY <1>2 DEF Schema, Contract, Required, LetPass
  <2>. QED  BY <1>2, <2>1 DEF Valid, Conforms
<1>3. CASE op = "update_issue"
  <2>1. /\ Required[op] = {}
        /\ DOMAIN Schema[op] = {"title", "body", "state", "state_reason", "labels"}
        /\ DOMAIN Contract[op] = {"title", "body", "state", "state_reason", "labels"}
    BY <1>3 DEF Schema, Contract, Required
  <2>2. \A f \in DOMAIN Schema[op] : \A v :
          v \in Schema[op][f] <=> v \in Contract[op][f] \/ <<op, f, v>> \in LetPass
    BY <1>3 DEF Schema, Contract, LetPass, Optional
  <2>. QED  BY <1>3, <2>1, <2>2 DEF Valid, Conforms
<1>. QED  BY <1>1, <1>2, <1>3 DEF Writes

\* Which steps raise what RequestValidationError stands for.
LEMMA ValidationIsRaised ==
  ASSUME [PipelineNext]_vars, raised'.kind = "validation"
  PROVE  UNCHANGED raised \/ ~Valid(call.op, call.payload)
<1>1. CASE Handle
  BY <1>1 DEF Handle, RefuseRoute, RefuseInput, Healthz, Readyz, ListEvents, RefuseConfig,
              Throw, Respond, Breaks
<1>2. CASE Webhook
  BY <1>2 DEF Webhook, Respond, Breaks, Throw
<1>3. CASE CallFails
  BY <1>3 DEF CallFails, Respond, Throw
<1>4. CASE CallSucceeds
  BY <1>4 DEF CallSucceeds, CreateIssue, CreateComment, UpdateIssue, GetIssue, ListItems,
              ExpectObject, Respond, Breaks, Throw
<1>5. CASE HandleError
  BY <1>5 DEF HandleError, Breaks, Throw
<1>6. CASE AttemptFails
  BY <1>6 DEF AttemptFails
<1>7. CASE UNCHANGED vars
  BY <1>7 DEF vars
<1>8. CASE Bind \/ CallGitHub \/ Leave \/ Unwind \/ CatchAll \/ Background
  BY <1>8 DEF Bind, CallGitHub, Leave, Unwind, CatchAll, Background
<1>. QED  BY <1>1, <1>2, <1>3, <1>4, <1>5, <1>6, <1>7, <1>8 DEF PipelineNext

\* No step breaks SentInv.
LEMMA SentStep ==
  ASSUME missing \subseteq Variables, SentInv, [PipelineNext]_vars
  PROVE  SentInv'
<1>1. UNCHANGED <<call, missing>>
  BY StepsTouch DEF inputVars
<1>2. (raised'.kind = "validation" => ~Valid(call.op, call.payload))
  BY ValidationIsRaised DEF SentInv
<1>3. CASE UNCHANGED sent
  BY <1>1, <1>2, <1>3 DEF SentInv
<1>4. CASE CallGitHub
  <2>1. Valid(call.op, call.payload) /\ sent' = ToGitHub(call)
    BY <1>4 DEF CallGitHub
  <2>2. missing \subseteq {"WEBHOOK_SECRET"}
    BY <1>4 DEF CallGitHub, HasToken, HasRepo, Has, Variables
  <2>. QED  BY <1>1, <1>2, <2>1, <2>2 DEF SentInv
<1>. QED  BY <1>3, <1>4, StepsTouch

\* What goes to GitHub says of every field what the caller said of it.
LEMMA NothingIsLost ==
  ASSUME NEW f, NEW body, body = ToGitHub(call)
  PROVE  Wish(body, f) = Wish(call.payload, f)
<1> DEFINE kept == IF call.op = "create_issue"
                   THEN {x \in DOMAIN call.payload : call.payload[x] \notin {Null, "none"}}
                   ELSE DOMAIN call.payload
<1>1. body = [x \in kept |-> call.payload[x]]
  BY DEF ToGitHub
<1>2. CASE f \in kept
  <2>1. f \in DOMAIN body /\ f \in DOMAIN call.payload /\ body[f] = call.payload[f]
    BY <1>1, <1>2
  <2>. QED  BY <2>1 DEF Wish
<1>3. CASE f \notin DOMAIN call.payload
  <2>1. f \notin DOMAIN body
    BY <1>1, <1>3
  <2>. QED  BY <1>3, <2>1 DEF Wish
<1>4. CASE f \in DOMAIN call.payload /\ f \notin kept
  <2>1. call.op = "create_issue" /\ call.payload[f] \in {Null, "none"}
    BY <1>4
  <2>2. f \notin DOMAIN body
    BY <1>1, <1>4
  <2>. QED  BY <1>4, <2>1, <2>2 DEF Wish
<1>. QED  BY <1>2, <1>3, <1>4

-----------------------------------------------------------------------------
\* The ids

\* Where routing and validation may leave a request.
LEMMA HandleEnds ==
  ASSUME Handle
  PROVE  (\E kind \in Kinds : \E e : Throw(kind, e)) \/ (\E status : Respond(status))
<1>1. CASE RefuseRoute
  BY <1>1 DEF RefuseRoute, Kinds
<1>2. CASE RefuseInput
  BY <1>2 DEF RefuseInput, Kinds
<1>3. CASE Healthz
  BY <1>3 DEF Healthz
<1>4. CASE Readyz
  BY <1>4 DEF Readyz
<1>5. CASE ListEvents
  BY <1>5 DEF ListEvents, Breaks, Kinds
<1>6. CASE RefuseConfig
  BY <1>6 DEF RefuseConfig, Kinds
<1>. QED  BY <1>1, <1>2, <1>3, <1>4, <1>5, <1>6 DEF Handle

\* Which steps write the reply.
LEMMA ReplyStages ==
  ASSUME [PipelineNext]_vars, stage' = "responding"
  PROVE  \/ UNCHANGED <<stage, reply>>
         \/ \E status, code :
              reply' = [status |-> status, code |-> code, named |-> bound.request]
<1>1. CASE Handle
  BY <1>1, HandleEnds DEF Respond, Throw, Success
<1>2. CASE Webhook
  BY <1>2 DEF Webhook, Respond, Breaks, Throw, Success
<1>3. CASE CallFails
  BY <1>3 DEF CallFails, Respond, Throw, Success
<1>4. CASE CallSucceeds
  BY <1>4 DEF CallSucceeds, CreateIssue, CreateComment, UpdateIssue, GetIssue, ListItems,
              ExpectObject, Respond, Breaks, Throw, Success
<1>5. CASE HandleError
  BY <1>5 DEF HandleError, Breaks, Throw, Failure, RequestId
<1>6. CASE AttemptFails
  BY <1>6 DEF AttemptFails
<1>7. CASE UNCHANGED vars
  BY <1>7 DEF vars
<1>8. CASE Bind \/ CallGitHub \/ Leave \/ Unwind \/ CatchAll \/ Background
  BY <1>8 DEF Bind, CallGitHub, Leave, Unwind, CatchAll, Background
<1>. QED  BY <1>1, <1>2, <1>3, <1>4, <1>5, <1>6, <1>7, <1>8 DEF PipelineNext

\* Every exception raised is of one of the four kinds.
LEMMA KindsStay ==
  ASSUME [PipelineNext]_vars, stage' = "raised"
  PROVE  UNCHANGED <<stage, raised>> \/ raised'.kind \in Kinds
<1>1. CASE Handle
  BY <1>1, HandleEnds DEF Respond, Throw
<1>2. CASE Webhook
  BY <1>2 DEF Webhook, Respond, Breaks, Throw, Kinds
<1>3. CASE CallFails
  BY <1>3 DEF CallFails, Respond, Throw, Kinds
<1>4. CASE CallSucceeds
  BY <1>4 DEF CallSucceeds, CreateIssue, CreateComment, UpdateIssue, GetIssue, ListItems,
              ExpectObject, Respond, Breaks, Throw, Kinds
<1>5. CASE HandleError
  BY <1>5 DEF HandleError, Breaks, Throw, Kinds
<1>6. CASE AttemptFails
  BY <1>6 DEF AttemptFails
<1>7. CASE UNCHANGED vars
  BY <1>7 DEF vars
<1>8. CASE Bind \/ CallGitHub \/ Leave \/ Unwind \/ CatchAll \/ Background
  BY <1>8 DEF Bind, CallGitHub, Leave, Unwind, CatchAll, Background
<1>. QED  BY <1>1, <1>2, <1>3, <1>4, <1>5, <1>6, <1>7, <1>8 DEF PipelineNext

\* In app, between the two halves of dispatch(), a step leaves the ids alone and
\* writes only lines that carry them.
LEMMA InsideApp ==
  ASSUME \/ Handle \/ Webhook \/ CallGitHub \/ AttemptFails \/ CallFails \/ CallSucceeds
         \/ HandleError,
         stage = "raised" => raised.kind \in Kinds
  PROVE  /\ stage \in {"routing", "calling", "raised"}
         /\ stage' \in {"calling", "raised", "responding"}
         /\ UNCHANGED <<call, context, bound>>
         /\ \A l \in lines' : l \in lines \/ l.ids = bound
<1>1. CASE Handle
  BY <1>1, HandleEnds DEF Handle, Respond, Throw, inputVars
<1>2. CASE Webhook
  BY <1>2 DEF Webhook, Respond, Breaks, Throw, Log, Line
<1>3. CASE CallGitHub
  BY <1>3 DEF CallGitHub, inputVars
<1>4. CASE AttemptFails
  BY <1>4 DEF AttemptFails, Log, Line, inputVars
<1>5. CASE CallFails
  BY <1>5 DEF CallFails, Respond, Throw, inputVars
<1>6. CASE CallSucceeds
  BY <1>6 DEF CallSucceeds, CreateIssue, CreateComment, UpdateIssue, GetIssue, ListItems,
              ExpectObject, Respond, Breaks, Throw, inputVars
<1>7. CASE HandleError
  <2>1. /\ stage = "raised" /\ stage' \in {"raised", "responding"}
        /\ UNCHANGED <<call, context, bound>>
    BY <1>7 DEF HandleError, Breaks, Throw, inputVars
  <2>2. \A l \in lines' : l \in lines \/ l.ids = bound
    <3>1. CASE raised.kind = "app"
      BY <1>7, <3>1 DEF HandleError, Log, Line
    <3>2. CASE raised.kind = "validation"
      BY <1>7, <3>2 DEF HandleError, Log, Line
    <3>3. CASE raised.kind = "http"
      BY <1>7, <3>3 DEF HandleError
    <3>. QED  BY <1>7, <2>1, <3>1, <3>2, <3>3 DEF HandleError, Kinds
  <2>. QED  BY <2>1, <2>2
<1>. QED  BY <1>1, <1>2, <1>3, <1>4, <1>5, <1>6, <1>7

\* No step breaks IdsInv.
LEMMA IdsStep ==
  ASSUME IdsInv, [PipelineNext]_vars
  PROVE  IdsInv'
<1>1. CASE Bind
  BY <1>1 DEF Bind, inputVars, IdsInv, Stages, Answered, Bound
<1>2. CASE \/ Handle \/ Webhook \/ CallGitHub \/ AttemptFails \/ CallFails \/ CallSucceeds
           \/ HandleError
  <2>1. /\ stage \in {"routing", "calling", "raised"}
        /\ stage' \in {"calling", "raised", "responding"}
        /\ UNCHANGED <<call, context, bound, request>>
        /\ \A l \in lines' : l \in lines \/ l.ids = bound
    BY <1>2, InsideApp, StepsTouch DEF inputVars, IdsInv
  <2>2. stage' = "responding" =>
          reply' = [status |-> reply'.status, code |-> reply'.code, named |-> reply'.named]
    <3>1. SUFFICES ASSUME stage' = "responding"
                   PROVE  reply' = [status |-> reply'.status, code |-> reply'.code,
                                    named |-> reply'.named]
      OBVIOUS
    <3>2. stage # "responding"
      BY <2>1
    <3>3. PICK status, code :
            reply' = [status |-> status, code |-> code, named |-> bound.request]
      BY <3>1, <3>2, ReplyStages
    <3>. QED  BY <3>3
  <2>3. Bound(call)' = Bound(call)
    BY <2>1 DEF Bound
  <2>4. \A l \in lines' : l.what # "unhandled_exception" => l.ids = bound'
    BY <2>1 DEF IdsInv
  <2>5. stage' = "raised" => raised'.kind \in Kinds
    BY KindsStay DEF IdsInv
  <2>. QED  BY <2>1, <2>2, <2>3, <2>4, <2>5 DEF IdsInv, Stages, Answered
<1>3. CASE Leave
  BY <1>3 DEF Leave, inputVars, IdsInv, Stages, Answered, Bound, AccessLine
<1>4. CASE Unwind
  BY <1>4 DEF Unwind, inputVars, IdsInv, Stages, Answered, Bound, AccessLine
<1>5. CASE CatchAll
  BY <1>5 DEF CatchAll, inputVars, IdsInv, Stages, Answered, Bound, AccessLine, Line, Failure,
              Error, RequestId
<1>6. CASE Background
  BY <1>6 DEF Background, inputVars, IdsInv, Stages, Answered, Bound, AccessLine, Log, Line
<1>7. CASE UNCHANGED vars
  BY <1>7 DEF vars, inputVars, IdsInv, Stages, Answered, Bound, AccessLine
<1>. QED  BY <1>1, <1>2, <1>3, <1>4, <1>5, <1>6, <1>7 DEF PipelineNext

-----------------------------------------------------------------------------
\* The answers

\* The operations and the fields they declare.
LEMMA SchemaIs ==
  /\ DOMAIN Schema = {"create_issue", "update_issue", "create_comment", "get_issue",
                      "list_issues", "list_comments", "list_events", "readyz", "healthz",
                      "webhook"}
  /\ DOMAIN Schema["healthz"] = {} /\ DOMAIN Schema["webhook"] = {}
BY DEF Schema

\* The statuses that the contract names.
LEMMA DocumentedIs ==
  ASSUME NEW op \in DOMAIN Schema
  PROVE  Documented[op] =
           CASE op \in Creates -> Common \cup {201}
             [] op \in {"get_issue", "update_issue"} -> Common \cup {200}
             [] op = "list_issues" -> (Common \ {404}) \cup {200, 304}
             [] op = "list_comments" -> (Common \ {403}) \cup {200}
             [] op = "webhook" -> {204, 400, 401, 413, 503}
             [] op = "list_events" -> {200, 400}
             [] OTHER -> {200, 503}
BY DEF Documented

\* What the contract promises, operation by operation.
LEMMA AllowedAre ==
  /\ \A op \in GitHubOps :
       \A status \in {400, 401, 403, 404, 429, 502, 503, 504} : Allowed(op, status)
  /\ \A op \in Creates : Allowed(op, 201)
  /\ \A op \in {"get_issue", "update_issue"} \cup Lists : Allowed(op, 200)
  /\ \A status \in {204, 400, 401, 413, 503} : Allowed("webhook", status)
  /\ \A status \in {200, 400} : Allowed("list_events", status)
  /\ \A status \in {200, 400, 503} : Allowed("readyz", status)
  /\ \A status \in {200, 503} : Allowed("healthz", status)
<1>1. \A op \in GitHubOps :
        \A status \in {400, 401, 403, 404, 429, 502, 503, 504} : Allowed(op, status)
  <2>1. SUFFICES ASSUME NEW op \in GitHubOps, NEW status \in Common
                 PROVE  Allowed(op, status)
    BY DEF Common
  <2>2. CASE op \in Creates \cup {"get_issue", "update_issue"}
    BY <2>2, DocumentedIs DEF Allowed, Creates
  <2>3. CASE op = "list_issues"
    BY <2>3, DocumentedIs DEF Allowed, Undocumented, Creates
  <2>4. CASE op = "list_comments"
    BY <2>4, DocumentedIs DEF Allowed, Undocumented, Creates
  <2>. QED  BY <2>2, <2>3, <2>4 DEF GitHubOps, Creates
<1>2. \A op \in Creates : Allowed(op, 201)
  BY DocumentedIs DEF Allowed, Creates
<1>3. \A op \in {"get_issue", "update_issue"} \cup Lists : Allowed(op, 200)
  BY DocumentedIs DEF Allowed, Lists, Creates
<1>4. \A status \in {204, 400, 401, 413, 503} : Allowed("webhook", status)
  BY DocumentedIs DEF Allowed, Creates
<1>5. \A status \in {200, 400} : Allowed("list_events", status)
  BY DocumentedIs DEF Allowed, Creates
<1>6. \A status \in {200, 400, 503} : Allowed("readyz", status)
  BY DocumentedIs DEF Allowed, Creates, Undocumented
<1>7. \A status \in {200, 503} : Allowed("healthz", status)
  BY DocumentedIs DEF Allowed, Creates
<1>. QED  BY <1>1, <1>2, <1>3, <1>4, <1>5, <1>6, <1>7

\* An exception or an answer comes out of the step, and its status is allowed.
Ends == \/ /\ stage' = "raised"
           /\ raised'.kind # "unhandled" => Allowed(call.op, raised'.error.status)
        \/ stage' = "responding" /\ Allowed(call.op, reply'.status)

\* The three ways a handler ends: with an exception to be handled,
LEMMA ThrowEnds ==
  ASSUME NEW kind, NEW code, NEW status, Throw(kind, Error(status, code)),
         kind # "unhandled" => Allowed(call.op, status)
  PROVE  Ends
BY DEF Throw, Error, Ends

\* with an answer,
LEMMA RespondEnds ==
  ASSUME NEW status, Respond(status), Allowed(call.op, status)
  PROVE  Ends
BY DEF Respond, Success, Ends

\* or with an exception that nobody handles.
LEMMA BreaksEnds ==
  ASSUME NEW cause, Breaks(cause)
  PROVE  Ends
BY ThrowEnds DEF Breaks

\* Each step that ends a handler leaves an allowed status, or what nobody handles:
LEMMA HandleAnswers ==
  ASSUME AnswersInv, Handle
  PROVE  Ends
<1>1. CASE RefuseRoute
  <2>1. call.op \notin DOMAIN Schema
    BY <1>1, SchemaIs DEF RefuseRoute
  <2>2. \A status : Allowed(call.op, status)
    BY <2>1 DEF Allowed
  <2>. QED  BY <1>1, <2>2, ThrowEnds DEF RefuseRoute
<1>2. CASE RefuseInput
  <2>1. call.op \notin {"healthz", "webhook"}
    BY <1>2 DEF RefuseInput, AnswersInv
  <2>2. call.op \in DOMAIN Schema
    BY <1>2 DEF RefuseInput
  <2>3. Allowed(call.op, 400)
    BY <2>1, <2>2, SchemaIs, AllowedAre DEF GitHubOps
  <2>. QED  BY <1>2, <2>3, ThrowEnds DEF RefuseInput
<1>3. CASE Healthz
  BY <1>3, AllowedAre, RespondEnds DEF Healthz
<1>4. CASE Readyz
  BY <1>4, AllowedAre, RespondEnds DEF Readyz
<1>5. CASE ListEvents
  BY <1>5, AllowedAre, RespondEnds, ThrowEnds, BreaksEnds DEF ListEvents
<1>6. CASE RefuseConfig
  BY <1>6, AllowedAre, ThrowEnds DEF RefuseConfig
<1>. QED  BY <1>1, <1>2, <1>3, <1>4, <1>5, <1>6 DEF Handle

\* the webhook,
LEMMA WebhookAnswers ==
  ASSUME Webhook
  PROVE  Ends
<1>1. call.op = "webhook"
  BY DEF Webhook
<1>2. CASE verdict' # Admitted
  <2>1. Throw("app", Error(WebhookStatus(verdict'), verdict'))
    BY <1>2 DEF Webhook
  <2>2. WebhookStatus(verdict') \in {503, 413, 401, 400}
    BY DEF WebhookStatus
  <2>. QED  BY <1>1, <2>1, <2>2, AllowedAre, ThrowEnds
<1>3. CASE verdict' = Admitted
  <2>1. Breaks("store") \/ Respond(204)
    BY <1>3 DEF Webhook
  <2>. QED  BY <1>1, <2>1, AllowedAre, BreaksEnds, RespondEnds
<1>. QED  BY <1>2, <1>3

\* a call that GitHub failed,
LEMMA CallFailsAnswers ==
  ASSUME TranslationInv, AnswersInv, CallFails
  PROVE  Ends
<1>1. CASE IsDeep(call)
  BY <1>1, AllowedAre, RespondEnds DEF CallFails, IsDeep
<1>2. CASE ~IsDeep(call)
  <2>1. call.op \in GitHubOps
    BY <1>2 DEF AnswersInv, CallFails
  <2>2. Throw("app", error')
    BY <1>2 DEF CallFails
  <2>3. error' = Translated(response, now') /\ response \in Answers
    BY RaiseKeeps DEF CallFails
  <2>4. error'.status \in {400, 401, 403, 404, 429, 502, 504}
    BY <2>3, TranslatedStatuses
  <2>5. Allowed(call.op, error'.status)
    BY <2>1, <2>4, AllowedAre
  <2>. QED  BY <2>2, <2>5 DEF Throw, Ends
<1>. QED  BY <1>1, <1>2

\* one that it answered,
LEMMA CallSucceedsAnswers ==
  ASSUME CallSucceeds
  PROVE  Ends
<1>1. \A body, status :
        /\ ExpectObject(body, status) /\ call.op \in GitHubOps /\ Allowed(call.op, status)
        => Ends
  BY AllowedAre, RespondEnds, ThrowEnds DEF ExpectObject
<1>2. CASE IsDeep(call) /\ Respond(200)
  BY <1>2, AllowedAre, RespondEnds DEF IsDeep
<1>3. ASSUME NEW body \in Bodies2xx, CreateIssue(body) \/ CreateComment(body)
      PROVE  Ends
  BY <1>1, <1>3, AllowedAre DEF CreateIssue, CreateComment, GitHubOps, Creates
<1>4. ASSUME NEW body \in Bodies2xx, UpdateIssue(body)
      PROVE  Ends
  BY <1>1, <1>4, AllowedAre DEF UpdateIssue, GitHubOps
<1>5. ASSUME NEW body \in Bodies2xx, GetIssue(body)
      PROVE  Ends
  BY <1>1, <1>5, AllowedAre, ThrowEnds DEF GetIssue, GitHubOps
<1>6. ASSUME NEW body \in Bodies2xx, ListItems(body)
      PROVE  Ends
  BY <1>6, AllowedAre, RespondEnds, BreaksEnds DEF ListItems, Lists
<1>. QED  BY <1>2, <1>3, <1>4, <1>5, <1>6 DEF CallSucceeds

\* and the exception handlers, which keep the status they were given.
LEMMA HandleErrorAnswers ==
  ASSUME AnswersInv, HandleError
  PROVE  Ends
<1>1. CASE EchoFails
  BY <1>1, BreaksEnds DEF HandleError
<1>2. CASE ~EchoFails
  BY <1>2 DEF HandleError, AnswersInv, Failure, Ends
<1>. QED  BY <1>1, <1>2

\* No step breaks AnswersInv.
LEMMA AnswersStep ==
  ASSUME TranslationInv, IdsInv, AnswersInv, [PipelineNext]_vars
  PROVE  AnswersInv'
<1>1. UNCHANGED call
  BY StepsTouch DEF inputVars
<1>2. CASE Handle \/ Webhook \/ CallFails \/ CallSucceeds \/ HandleError
  <2>1. Ends
    BY <1>2, HandleAnswers, WebhookAnswers, CallFailsAnswers, CallSucceedsAnswers,
       HandleErrorAnswers
  <2>. QED  BY <1>1, <2>1 DEF Ends, AnswersInv, Answered
<1>3. CASE Bind
  BY <1>1, <1>3 DEF Bind, AnswersInv, Answered
<1>4. CASE CallGitHub
  BY <1>1, <1>4 DEF CallGitHub, AnswersInv, Answered
<1>5. CASE AttemptFails
  BY <1>1, <1>5 DEF AttemptFails, AnswersInv, Answered
<1>6. CASE Leave
  <2>1. reply = [status |-> reply.status, code |-> reply.code, named |-> reply.named]
    BY <1>6 DEF Leave, IdsInv
  <2>2. reply'.status = reply.status
    BY <1>6, <2>1 DEF Leave
  <2>. QED  BY <1>1, <1>6, <2>2 DEF Leave, AnswersInv, Answered
<1>7. CASE Unwind
  BY <1>1, <1>7 DEF Unwind, AnswersInv, Answered
<1>8. CASE CatchAll
  BY <1>1, <1>8 DEF CatchAll, AnswersInv, Answered, Failure, Error
<1>9. CASE Background
  BY <1>1, <1>9 DEF Background, AnswersInv, Answered
<1>10. CASE UNCHANGED vars
  BY <1>1, <1>10 DEF vars, AnswersInv, Answered
<1>. QED  BY <1>2, <1>3, <1>4, <1>5, <1>6, <1>7, <1>8, <1>9, <1>10 DEF PipelineNext

-----------------------------------------------------------------------------
\* The theorems

\* A request that has not arrived.
LEMMA InitEstablishes ==
  ASSUME PipelineInit
  PROVE  PipelineInv
<1>1. PICK op \in Operations : call \in [op : {op}, id : Ids, payload : Payloads(op)]
  BY DEF PipelineInit, Operations
<1>2. call.op = op /\ call.id \in Ids /\ call.payload \in Payloads(op)
  BY <1>1
<1>3. TranslationInv
  <2>1. /\ attempt = 1 /\ response = NoResponse /\ slept = <<>> /\ error = NoError
    BY DEF PipelineInit, TranslationInit
  <2>. QED  BY <2>1, TranslationAssumption DEF TranslationInv, SleepsAreObedient
<1>4. AdmissionInv
  BY DEF PipelineInit, AdmissionInv
<1>5. IdsInv
  BY <1>2 DEF PipelineInit, IdsInv, Stages, Answered
<1>6. SentInv
  BY DEF PipelineInit, SentInv, NotRaised
<1>7. AnswersInv
  <2>1. op \in {"healthz", "webhook"} => Valid(op, call.payload)
    <3>1. SUFFICES ASSUME op \in {"healthz", "webhook"} PROVE Valid(op, call.payload)
      OBVIOUS
    <3>2. DOMAIN call.payload = {}
      BY <1>2, <3>1, PipelineAssumption, SchemaIs DEF Writes
    <3>3. Required[op] = {} /\ DOMAIN Schema[op] = {}
      BY <3>1, SchemaIs DEF Required
    <3>. QED  BY <3>1, <3>2, <3>3 DEF Valid
  <2>. QED  BY <1>2, <2>1 DEF PipelineInit, AnswersInv, Answered
<1>. QED  BY <1>3, <1>4, <1>5, <1>6, <1>7 DEF PipelineInv, PipelineInit

(***************************************************************************)
(* The invariant that every theorem of this module rests on.                *)
(***************************************************************************)
THEOREM PipelineInvariant == PipelineSpec => []PipelineInv
<1>1. PipelineInit => PipelineInv
  BY InitEstablishes
<1>2. PipelineInv /\ [PipelineNext]_vars => PipelineInv'
  <2>1. SUFFICES ASSUME PipelineInv, [PipelineNext]_vars PROVE PipelineInv'
    OBVIOUS
  <2>2. missing' \subseteq Variables
    BY <2>1, StepsTouch DEF PipelineInv, inputVars
  <2>. QED  BY <2>1, <2>2, TranslationStep, AdmissionStep, IdsStep, SentStep, AnswersStep
            DEF PipelineInv
<1>. QED  BY <1>1, <1>2, PTL DEF PipelineSpec

(***************************************************************************)
(* from_github_response() keeps the meaning of whatever GitHub answers, for  *)
(* every response GitHub may send.                                          *)
(***************************************************************************)
THEOREM PipelineMeaningIsKept == PipelineSpec => []MeaningIsKept
<1>1. PipelineInv => MeaningIsKept
  <2>1. SUFFICES ASSUME PipelineInv, error # NoError
                 PROVE  MeaningIsKept
    BY DEF MeaningIsKept
  <2>2. response \in Answers /\ error = Translated(response, now)
    BY <2>1 DEF PipelineInv, TranslationInv
  <2>3. Keeps(response, error)
    BY <2>2, MeaningOfTranslated
  <2>. QED  BY <2>3 DEF Keeps, MeaningIsKept
<1>. QED  BY <1>1, PipelineInvariant, PTL

(***************************************************************************)
(* _retry_after_seconds() sends no caller back too early, whatever finite    *)
(* number the headers say and whatever the clock: but for the fraction of a  *)
(* second that int() cuts off a header.                                     *)
(***************************************************************************)
THEOREM PipelineWaitIsLongEnough == PipelineSpec => []WaitIsLongEnough
<1>1. PipelineInv => WaitIsLongEnough
  <2>1. SUFFICES ASSUME PipelineInv, error # NoError, error.status = 429
                 PROVE  WaitIsLongEnough
    BY DEF WaitIsLongEnough
  <2>2. response \in Answers /\ now \in Nat /\ error = Translated(response, now)
    BY <2>1 DEF PipelineInv, TranslationInv
  <2>. QED  BY <2>1, <2>2, LongEnough DEF WaitIsLongEnough
<1>. QED  BY <1>1, PipelineInvariant, PTL

(***************************************************************************)
(* _backoff() obeys Retry-After up to thirty seconds and no further, for     *)
(* every header and every number of retries the settings admit.             *)
(***************************************************************************)
THEOREM PipelineSleepsAreObedient == PipelineSpec => []SleepsAreObedient
<1>1. PipelineInv => SleepsAreObedient
  BY DEF PipelineInv, TranslationInv
<1>. QED  BY <1>1, PipelineInvariant, PTL

(***************************************************************************)
(* receive_webhook(): who cannot sign cannot tell one event, delivery id or  *)
(* body from another by the answer, for every set of them.                  *)
(***************************************************************************)
THEOREM PipelineUnsignedLearnsNothing == PipelineSpec => []UnsignedLearnsNothing
<1>1. PipelineInv => UnsignedLearnsNothing
  <2>1. SUFFICES ASSUME PipelineInv, verdict # Pending, ~Verifies(request),
                        NEW e \in SupportedEvents \cup OtherEvents \cup {""},
                        NEW g \in Guids, NEW b \in Bodies, NEW other,
                        other = [request EXCEPT !.event = e, !.guid = g, !.body = b],
                        ~Verifies(other), b.oversized = request.body.oversized
                 PROVE  Verdict(other) = verdict
    BY Zenon DEF UnsignedLearnsNothing
  <2>2. request \in Requests /\ verdict = Verdict(request)
    BY <2>1 DEF PipelineInv, AdmissionInv
  <2>3. /\ other.secretSet = request.secretSet
        /\ other.declaredOversized = request.declaredOversized
        /\ other.body = b
    BY <2>1, <2>2 DEF Requests
  <2>4. other.body.oversized = request.body.oversized
    BY <2>1, <2>3
  <2>5. Verdict(other) = Verdict(request)
    BY <2>1, <2>2, <2>3, <2>4, LearnsNothing
  <2>. QED  BY <2>2, <2>5
<1>. QED  BY <1>1, PipelineInvariant, PTL

(***************************************************************************)
(* Nothing is stored that is not signed, too long, or not understood.       *)
(***************************************************************************)
THEOREM PipelineAdmittedIsUnderstood == PipelineSpec => []AdmittedIsUnderstood
<1>1. PipelineInv => AdmittedIsUnderstood
  <2>1. SUFFICES ASSUME PipelineInv, verdict = Admitted
                 PROVE  AdmittedIsUnderstood
    BY DEF AdmittedIsUnderstood
  <2>2. verdict = Verdict(request)
    BY <2>1 DEF PipelineInv, AdmissionInv, Admitted, Pending
  <2>. QED  BY <2>1, <2>2, AdmittedIs DEF AdmittedIsUnderstood
<1>. QED  BY <1>1, PipelineInvariant, PTL

(***************************************************************************)
(* record()'s unique index recognises every redelivery of what receive_      *)
(* webhook() admitted, and takes no other delivery for one: keys differ in   *)
(* the event, the action or the delivery id, which is a GUID or a digest.    *)
(***************************************************************************)
THEOREM PipelineOnlyReplaysConflict == PipelineSpec => []OnlyReplaysConflict
<1>1. PipelineInv => OnlyReplaysConflict
  <2>1. SUFFICES ASSUME PipelineInv, verdict = Admitted PROVE OnlyReplaysConflict
    BY DEF OnlyReplaysConflict
  <2>2. Verdict(request) = Admitted
    BY <2>1 DEF PipelineInv, AdmissionInv, Admitted, Pending
  <2>. QED  BY <2>2, OnlyReplays DEF OnlyReplaysConflict, Accepted, OneDelivery
<1>. QED  BY <1>1, PipelineInvariant, PTL

\* Cutting an id that is not empty leaves one that is not.
LEMMA CutIsNotEmpty ==
  ASSUME NEW s \in Ids, s # <<>>
  PROVE  Cut(s) # <<>>
<1>1. s \in Seq(STRING) /\ Len(s) \in Nat \ {0}
  BY PipelineAssumption
<1>2. Len(Cut(s)) = IF Len(s) < MaxGuid THEN Len(s) ELSE MaxGuid
  BY <1>1, AdmissionAssumption DEF Cut
<1>. QED  BY <1>1, <1>2, AdmissionAssumption

(***************************************************************************)
(* Every answer and every line of the log names its request, whatever was    *)
(* raised on the way, wherever it was caught.                               *)
(***************************************************************************)
THEOREM PipelineTraceable == PipelineSpec => []Traceable
<1>1. PipelineInv => Traceable
  <2>1. SUFFICES ASSUME PipelineInv PROVE Traceable
    OBVIOUS
  <2>2. Answered => bound.request # <<>>
    <3>1. Answered => bound = Bound(call) /\ call.id \in Ids
      BY <2>1 DEF PipelineInv, IdsInv, Answered
    <3>2. call.id \in Ids => Bound(call).request # <<>>
      BY CutIsNotEmpty DEF Bound, Fresh
    <3>. QED  BY <3>1, <3>2
  <2>. QED  BY <2>1, <2>2 DEF PipelineInv, IdsInv, Traceable
<1>. QED  BY <1>1, PipelineInvariant, PTL

(***************************************************************************)
(* GitHub is asked for what the caller asked for, field by field, and only   *)
(* once the request is valid and the gateway configured: for every payload. *)
(***************************************************************************)
THEOREM PipelineSentIsWhatWasAsked == PipelineSpec => []SentIsWhatWasAsked
<1>1. PipelineInv => SentIsWhatWasAsked
  <2>1. SUFFICES ASSUME PipelineInv PROVE SentIsWhatWasAsked
    OBVIOUS
  <2>2. ASSUME sent # NotSent
        PROVE  /\ call.op \in Writes => Conforms(call.op, call.payload)
               /\ missing \subseteq {"WEBHOOK_SECRET"}
               /\ \A f \in DOMAIN Schema[call.op] : Wish(sent, f) = Wish(call.payload, f)
    <3>1. /\ Valid(call.op, call.payload) /\ missing \subseteq {"WEBHOOK_SECRET"}
          /\ sent = ToGitHub(call)
      BY <2>1, <2>2 DEF PipelineInv, SentInv
    <3>2. \A f \in DOMAIN Schema[call.op] : Wish(sent, f) = Wish(call.payload, f)
      BY <3>1, NothingIsLost
    <3>. QED  BY <3>1, <3>2, SchemaIsTheContract
  <2>3. call.op \in Writes /\ raised.kind = "validation" => ~Conforms(call.op, call.payload)
    BY <2>1, SchemaIsTheContract DEF PipelineInv, SentInv
  <2>. QED  BY <2>2, <2>3 DEF SentIsWhatWasAsked
<1>. QED  BY <1>1, PipelineInvariant, PTL

(***************************************************************************)
(* No operation answers with a status that its contract neither names nor   *)
(* is known to forget, but for the catch-all's 500.                          *)
(***************************************************************************)
THEOREM PipelineAnswersAreDocumented == PipelineSpec => []AnswersAreDocumented
<1>1. PipelineInv => AnswersAreDocumented
  BY DEF PipelineInv, AnswersInv, AnswersAreDocumented, Allowed
<1>. QED  BY <1>1, PipelineInvariant, PTL

=============================================================================
