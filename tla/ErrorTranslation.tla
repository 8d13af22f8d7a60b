-------------------------- MODULE ErrorTranslation --------------------------
(***************************************************************************)
(* What becomes of a response that is not a success: the retry decision and *)
(* the backoff in app/github_client.py, and from_github_response() and the  *)
(* helpers in app/errors.py.  One GET is followed through its attempts.     *)
(*                                                                          *)
(* A response is a record of the fields these functions look at.  A header   *)
(* value is what float() makes of it, a number of quarters of a second, like *)
(* the clock and the sleeps; or NoHeader (none, or an empty one), or         *)
(* Unparsable (an HTTP date, or "nan").  GitHub is external: it means        *)
(* something by a response, and the field "meaning", which no function of    *)
(* the gateway reads, keeps it.                                             *)
(*                                                                          *)
(* An operator named after another one with a suffix is that operator with  *)
(* a plausible slip in it, there to show that the properties notice it.  No *)
(* specification uses it.                                                   *)
(***************************************************************************)
EXTENDS Integers, Sequences, FiniteSets, SequencesExt

CONSTANTS NoHeader, Unparsable,
          RetryAfters,     \* finite numbers in retry-after
          Resets,          \* x-ratelimit-reset: the time since the epoch
          Nows,            \* time.time()
          MaxRetries       \* settings.github_max_retries

ASSUME TranslationAssumption ==
  /\ NoHeader \notin Int /\ Unparsable \notin Int
  /\ RetryAfters \subseteq Int /\ Resets \subseteq Int /\ Nows \subseteq Nat
  /\ MaxRetries \in 0..10

VARIABLES attempt,
          response,        \* the last response, NoResponse while waiting for it
          slept,           \* the backoffs so far: [delay, asked]
          now,             \* the clock when the error is translated
          error            \* the AppError raised, NoError before

translationVars == <<attempt, response, slept, now, error>>

NoError == [status |-> 0]
NoResponse == [status |-> 0, meaning |-> "none"]

-----------------------------------------------------------------------------
\* GitHub's responses (external)

Headers == [retryAfter : RetryAfters \cup {NoHeader, Unparsable},
            reset : Resets \cup {NoHeader, Unparsable},
            remaining : {"zero", "some", "none_given"},
            message : {"rate_limit", "another"}]

\* The three things GitHub says with a 403 or 429, as is_rate_limited() lists
\* them, and everything else.  A 429 always limits.
Limits == {"primary_limit", "secondary_limit"}

Means(meaning, status, h) ==
  CASE meaning = "primary_limit" ->
         status \in {403, 429} /\ h.remaining = "zero"
    [] meaning = "secondary_limit" ->
         /\ status \in {403, 429} /\ h.remaining # "zero"
         /\ h.retryAfter # NoHeader \/ h.message = "rate_limit"
    [] meaning = "denial" ->
         /\ status = 403 /\ h.remaining # "zero"
         /\ h.retryAfter = NoHeader /\ h.message = "another"
    [] meaning = "bad_token" -> status = 401 /\ h.message = "another"
    [] meaning = "missing" -> status \in {404, 410} /\ h.message = "another"
    [] meaning = "bad_input" -> status \in {400, 422} /\ h.message = "another"
    [] meaning = "fault" -> status \in {304, 409, 500, 502, 503} /\ h.message = "another"

Meanings == Limits \cup {"denial", "bad_token", "missing", "bad_input", "fault"}
UpstreamStatuses == {304, 400, 401, 403, 404, 409, 410, 422, 429, 500, 502, 503}

Responses ==
  {[status |-> s, h |-> h, meaning |-> m] :
     s \in UpstreamStatuses, h \in Headers, m \in Meanings}

\* A reset is read for a limit only, so that it is left out elsewhere.
Possible ==
  {r \in Responses : Means(r.meaning, r.status, r.h)
                     /\ (r.meaning \in Limits \/ r.h.reset = NoHeader)}

\* The answers to a repeated attempt, of which there are fewer: MaxRetries bounds
\* the attempts, and what one answer leads to does not depend on the one before.
PossibleLater == {r \in Possible : r.status \in {403, 429, 502} /\ r.h.reset = NoHeader}

\* No response: httpx raises TimeoutException, or another HTTPError.
NoHeaders == [retryAfter |-> NoHeader, reset |-> NoHeader,
              remaining |-> "none_given", message |-> "another"]
TransportErrors ==
  {[status |-> 0, h |-> NoHeaders, meaning |-> m] : m \in {"timed_out", "unreachable"}}

-----------------------------------------------------------------------------
\* app/errors.py

IsRateLimitedByBudget(r) ==       \* only the primary limit is looked for
  r.status = 429 \/ (r.status = 403 /\ r.h.remaining = "zero")

IsRateLimited(r) ==
  \/ r.status = 429
  \/ /\ r.status = 403
     /\ r.h.remaining = "zero" \/ r.h.retryAfter # NoHeader \/ r.h.message = "rate_limit"

AtLeastOne(n) == IF n > 1 THEN n ELSE 1

\* int() of so many quarters: the whole seconds, towards zero.
Whole(q) == IF q >= 0 THEN q \div 4 ELSE -((-q) \div 4)

RetryAfterSecondsRounded(r, t) ==      \* round(now) for int(now)
  IF r.h.retryAfter \in Int THEN AtLeastOne(Whole(r.h.retryAfter))
  ELSE IF r.h.reset \in Int THEN AtLeastOne(Whole(r.h.reset) - Whole(t + 2))
  ELSE 60

\* Retry-After if it parses, else the reset epoch if it does, else a minute: an
\* int() of each, so that their fractions are cut off before they are compared.
RetryAfterSeconds(r, t) ==
  IF r.h.retryAfter \in Int THEN AtLeastOne(Whole(r.h.retryAfter))
  ELSE IF r.h.reset \in Int THEN AtLeastOne(Whole(r.h.reset) - Whole(t))
  ELSE 60

Error(status, code) == [status |-> status, code |-> code]

\* from_github_response(): the first line that fits, in the code's order.
FromGitHubResponse(r, t) ==
  CASE r.status = 401 -> Error(401, "github_unauthorized")
    [] r.status # 401 /\ IsRateLimited(r) ->
         [status |-> 429, code |-> "rate_limited", retryAfter |-> RetryAfterSeconds(r, t)]
    [] r.status = 403 /\ ~IsRateLimited(r) -> Error(403, "github_forbidden")
    [] r.status = 404 -> Error(404, "not_found")
    [] r.status = 410 -> Error(404, "gone")
    [] r.status \in {400, 422} -> Error(400, "validation_error")
    [] r.status \in 500..599 -> Error(502, "github_unavailable")
    [] OTHER -> Error(502, "upstream_error")

FromTransportError(r) ==
  IF r.meaning = "timed_out" THEN Error(504, "github_timeout")
  ELSE Error(502, "github_unreachable")

-----------------------------------------------------------------------------
\* app/github_client.py

Smaller(m, n) == IF m < n THEN m ELSE n
Larger(m, n) == IF m > n THEN m ELSE n

DelayUncapped(n, r) ==
  LET own == Smaller(2 ^ (n - 1), 32)
  IN  IF r.h.retryAfter \in Int THEN Larger(own, r.h.retryAfter) ELSE own

\* _backoff() after attempt n: 0.25 s doubled each time, up to 8 s, or what
\* Retry-After says, up to 30 s, whichever is longer.  No int() here.
Delay(n, r) ==
  LET own == Smaller(2 ^ (n - 1), 32)
  IN  IF r.h.retryAfter \in Int
      THEN Larger(own, Smaller(r.h.retryAfter, 120)) ELSE own

Transient(r) ==
  \/ r \in TransportErrors
  \/ r.status >= 500
  \/ IsRateLimited(r) /\ r.status = 429

TranslationInit ==
  /\ attempt = 1
  /\ response = NoResponse
  /\ slept = <<>>
  /\ now = 0
  /\ error = NoError

\* The attempt fails: no answer, or one that is not a success.
Exchange ==
  /\ response = NoResponse
  /\ response' \in TransportErrors \cup IF attempt = 1 THEN Possible ELSE PossibleLater
  /\ UNCHANGED <<attempt, slept, now, error>>

MayRetry(retryable) == retryable /\ Transient(response) /\ attempt < MaxRetries + 1

Retry(retryable) ==
  /\ response # NoResponse /\ error = NoError
  /\ MayRetry(retryable)
  /\ attempt' = attempt + 1
  /\ slept' = Append(slept, [delay |-> Delay(attempt, response),
                             asked |-> response.h.retryAfter])
  /\ response' = NoResponse
  /\ UNCHANGED <<now, error>>

Raise(retryable) ==
  /\ response # NoResponse /\ error = NoError
  /\ ~MayRetry(retryable)
  /\ now' \in Nows
  /\ error' = IF response \in TransportErrors THEN FromTransportError(response)
              ELSE FromGitHubResponse(response, now')
  /\ UNCHANGED <<attempt, response, slept>>

-----------------------------------------------------------------------------

\* errors.py: GitHub's status is not passed on as it is, its meaning is.  The
\* caller learns of a limit as a 429, by whichever status GitHub gave it, and
\* of a denial as a 403; the server's faults are never the caller's.
MeaningIsKept ==
  error # NoError =>
    CASE response.meaning \in Limits -> error.status = 429
      [] response.meaning = "denial" -> error.status = 403
      [] response.meaning = "bad_token" -> error.status = 401
      [] response.meaning = "missing" -> error.status = 404
      [] response.meaning = "bad_input" -> error.status = 400
      [] response.meaning \in {"fault", "unreachable"} -> error.status = 502
      [] response.meaning = "timed_out" -> error.status = 504

\* Past the moment named; or short of it by less than the second that int() may
\* cut off, if it was not named in whole seconds.
NotBefore(moment, named) ==
  moment > named - 4 /\ (named % 4 = 0 => moment >= named)

\* A caller who waits for the seconds of Retry-After, counted from the moment
\* the error was translated, is past the moment GitHub named: its own
\* retry-after, or else the epoch of the reset.  No fraction of the clock makes
\* it come early, only one in what GitHub sent, and then by less than a second.
WaitIsLongEnough ==
  error # NoError /\ error.status = 429 =>
    /\ error.retryAfter >= 1
    /\ response.h.retryAfter \in Int =>
         NotBefore(4 * error.retryAfter, response.h.retryAfter)
    /\ response.h.retryAfter \notin Int /\ response.h.reset \in Int =>
         NotBefore(now + 4 * error.retryAfter, response.h.reset)

\* Between two attempts the client waits as long as GitHub asked, but never more
\* than 30 seconds, whatever the header says ("must not pin a worker for a day").
SleepsAreObedient ==
  \A i \in DOMAIN slept :
    /\ slept[i].delay \in 1..120
    /\ slept[i].asked \in Int =>
         slept[i].delay >= Smaller(slept[i].asked, 120)

=============================================================================
