---------------------------- MODULE GitHubClient ----------------------------
(***************************************************************************)
(* app/github_client.py: GitHubClient.request(), called by several route    *)
(* handlers at the same time, against GitHub behind an unreliable network.  *)
(*                                                                          *)
(* The client runs on one event loop and suspends in two places only, the   *)
(* HTTP exchange and the sleep of a backoff; what lies between is one step. *)
(* A request that timed out may still be on the wire and reach GitHub later,*)
(* next to the retry.  GitHub is external: it keeps a version per URL, which*)
(* is also the ETag, and a budget of answers that are not 304.              *)
(*                                                                          *)
(* MaxEdits bounds the changes made by others, Budget the answers GitHub    *)
(* gives before it limits the rate.  RetryableMethodsAll, RetryForever,      *)
(* SleepEndsUncounted and NotModifiedRereads are slips that no specification *)
(* uses; they show what the properties notice.                              *)
(***************************************************************************)
EXTENDS ETagCache

CONSTANTS Calls,           \* the calls of request(); each is made once
          Urls,            \* the resources that are read and updated
          Methods,         \* which of GET, PATCH and POST the calls use
          MaxRetries,      \* settings.github_max_retries
          Caching,         \* settings.enable_etag_cache
          Budget, MaxEdits

ASSUME ClientAssumption ==
  /\ Methods \subseteq {"GET", "PATCH", "POST"}
  /\ MaxRetries \in Nat
  /\ Caching \in BOOLEAN
  /\ Budget \in Nat /\ MaxEdits \in Nat

VARIABLES pc,              \* idle, sending, backoff or done
          method, url,     \* the arguments of the call
          attempt,
          cached,          \* the cache entry read before the first attempt
          reply,           \* GitHub's response on its way to the call
          outcome,
          entries,         \* self.cache
          rate,            \* self.rate_limit.remaining: unknown, left, none
          wire,            \* requests GitHub has not handled yet
          version,         \* GitHub: the current version of each resource
          budget, edits,
          applied,         \* how often GitHub carried out each call's write
          current          \* the versions its URL had while the call ran

callVars == <<pc, method, url, attempt, cached, reply, outcome>>
githubVars == <<version, budget, edits, applied, current>>
vars == <<pc, method, url, attempt, cached, reply, outcome, entries, rate, wire,
          version, budget, edits, applied, current>>

RetryableMethodsAll == {"GET", "PATCH", "POST"}
RetryableMethods == {"GET", "PATCH"}

NoReply == [status |-> "none"]
NoOutcome == [kind |-> "none"]
Attempts == MaxRetries + 1

Init ==
  /\ pc = [c \in Calls |-> "idle"]
  /\ method = [c \in Calls |-> "GET"]
  /\ url \in [Calls -> Urls]
  /\ attempt = [c \in Calls |-> 0]
  /\ cached = [c \in Calls |-> NoEntry]
  /\ reply = [c \in Calls |-> NoReply]
  /\ outcome = [c \in Calls |-> NoOutcome]
  /\ entries = <<>>
  /\ rate = "unknown"
  /\ wire = {}
  /\ version = [u \in Urls |-> 0]
  /\ budget = Budget
  /\ edits = 0
  /\ applied = [c \in Calls |-> 0]
  /\ current = [c \in Calls |-> {}]

-----------------------------------------------------------------------------
\* The client

Send(c, n) ==
  /\ pc' = [pc EXCEPT ![c] = "sending"]
  /\ attempt' = [attempt EXCEPT ![c] = n]
  /\ wire' = wire \cup {[call |-> c, attempt |-> n]}

\* A route handler calls request(); only a GET looks into the cache.
Start(c, m) ==
  /\ pc[c] = "idle"
  /\ method' = [method EXCEPT ![c] = m]
  /\ IF Caching /\ m = "GET"
     THEN /\ cached' = [cached EXCEPT ![c] = Lookup(entries, url[c])]
          /\ entries' = Touch(entries, url[c])
     ELSE UNCHANGED <<cached, entries>>
  /\ current' = [current EXCEPT ![c] = {version[url[c]]}]
  /\ Send(c, 1)
  /\ UNCHANGED <<url, reply, outcome, rate, version, budget, edits, applied>>

Finish(c, result) ==
  /\ pc' = [pc EXCEPT ![c] = "done"]
  /\ outcome' = [outcome EXCEPT ![c] = result]
  /\ reply' = [reply EXCEPT ![c] = NoReply]

BackOff(c) ==
  /\ pc' = [pc EXCEPT ![c] = "backoff"]
  /\ reply' = [reply EXCEPT ![c] = NoReply]
  /\ UNCHANGED outcome

RetryForever(c, transient, error) ==       \* the attempts are not counted
  IF transient /\ method[c] \in RetryableMethods
  THEN BackOff(c)
  ELSE Finish(c, [kind |-> error])

\* Retried is what may be sent again; everything else is raised as it is.
RetryOrRaise(c, transient, error) ==
  IF transient /\ method[c] \in RetryableMethods /\ attempt[c] < Attempts
  THEN BackOff(c)
  ELSE Finish(c, [kind |-> error])

\* Time-out, refused connection, connection lost before or after the answer.
TransportError(c) ==
  /\ pc[c] = "sending"
  /\ RetryOrRaise(c, TRUE, "unreachable")
  /\ UNCHANGED <<method, url, attempt, cached, entries, rate, wire, githubVars>>

SleepEndsUncounted(c) ==
  /\ pc[c] = "backoff"
  /\ Send(c, attempt[c])
  /\ UNCHANGED <<method, url, cached, reply, outcome, entries, rate, githubVars>>

SleepEnds(c) ==
  /\ pc[c] = "backoff"
  /\ Send(c, attempt[c] + 1)
  /\ UNCHANGED <<method, url, cached, reply, outcome, entries, rate, githubVars>>

\* _absorb_rate_limit(): the snapshot is replaced, by nothing if need be.
Absorb(answer) == rate' = answer.rate

NotModifiedRereads(c) ==                   \* the cache is looked up again
  /\ reply[c].status = "not modified"
  /\ LET now == Lookup(entries, url[c])
     IN  Finish(c, [kind |-> "data", hit |-> TRUE,
                    version |-> IF now = NoEntry THEN cached[c].data ELSE now.data])
  /\ UNCHANGED entries

\* 304: the entry read at the start of the call, whatever the cache holds now.
NotModified(c) ==
  /\ reply[c].status = "not modified"
  /\ cached[c] # NoEntry
  /\ Finish(c, [kind |-> "data", version |-> cached[c].data, hit |-> TRUE])
  /\ UNCHANGED entries

\* 2xx: decoded, and for a GET put into the cache under its ETag.
Succeeded(c) ==
  /\ reply[c].status = "ok"
  /\ IF method[c] = "GET"
     THEN /\ Finish(c, [kind |-> "data", version |-> reply[c].version, hit |-> FALSE])
          /\ entries' = IF Caching
                        THEN Store(entries, [key |-> url[c], etag |-> reply[c].version,
                                             data |-> reply[c].version])
                        ELSE entries
     ELSE /\ Finish(c, [kind |-> "written"])
          /\ UNCHANGED entries

\* Any other status: 5xx and 429 may be retried, a limiting 403 may not.
Rejected(c) ==
  /\ reply[c].status \in {"unavailable", "too many", "limited", "refused"}
  /\ RetryOrRaise(c, reply[c].status \in {"unavailable", "too many"}, reply[c].status)
  /\ UNCHANGED entries

Receive(c) ==
  /\ pc[c] = "sending"
  /\ reply[c] # NoReply
  /\ Absorb(reply[c])
  /\ NotModified(c) \/ Succeeded(c) \/ Rejected(c)
  /\ UNCHANGED <<method, url, attempt, cached, wire, githubVars>>

-----------------------------------------------------------------------------
\* GitHub and the network

\* The answer goes to the call if it still waits for this attempt.
Answer(q, status, limit) ==
  reply' = IF pc[q.call] = "sending" /\ attempt[q.call] = q.attempt
           THEN [reply EXCEPT ![q.call] =
                   [status |-> status, version |-> version'[url[q.call]], rate |-> limit]]
           ELSE reply

\* What was current while it ran includes every version set meanwhile.
Change(u) ==
  /\ version' = [version EXCEPT ![u] = @ + 1]
  /\ current' = [c \in Calls |->
                   IF url[c] = u /\ pc[c] \in {"sending", "backoff"}
                   THEN current[c] \cup {version[u] + 1} ELSE current[c]]

BudgetLeft == IF budget > 1 THEN "left" ELSE "none"

\* The If-None-Match of the call names the current version.
StillCurrent(c) == cached[c] # NoEntry /\ cached[c].etag = version[url[c]]

\* A conditional GET of the current version costs nothing.
AnswerNotModified(q) ==
  /\ method[q.call] = "GET"
  /\ StillCurrent(q.call)
  /\ UNCHANGED <<version, budget, applied, current>>
  /\ Answer(q, "not modified", IF budget > 0 THEN "left" ELSE "none")

AnswerContent(q) ==
  /\ method[q.call] = "GET"
  /\ ~StillCurrent(q.call)
  /\ budget > 0
  /\ budget' = budget - 1
  /\ UNCHANGED <<version, applied, current>>
  /\ Answer(q, "ok", BudgetLeft)

\* A write is carried out; a gateway in front of GitHub may still answer 502.
CarryOut(q) ==
  /\ method[q.call] # "GET"
  /\ budget > 0
  /\ budget' = budget - 1
  /\ applied' = [applied EXCEPT ![q.call] = @ + 1]
  /\ IF method[q.call] = "PATCH" THEN Change(url[q.call])
     ELSE UNCHANGED <<version, current>>
  /\ \/ Answer(q, "ok", BudgetLeft)
     \/ Answer(q, "unavailable", "unknown")

\* Nothing is carried out: 5xx, a 4xx, or a rate limit as 403 or 429.
TurnDown(q) ==
  /\ UNCHANGED <<version, budget, applied, current>>
  /\ \/ Answer(q, "unavailable", "unknown")
     \/ \E status \in {"refused", "limited", "too many"} :
          Answer(q, status, IF budget > 0 THEN "left" ELSE "none")

Handle(q) ==
  /\ q \in wire
  /\ wire' = wire \ {q}
  /\ AnswerNotModified(q) \/ AnswerContent(q) \/ CarryOut(q) \/ TurnDown(q)
  /\ UNCHANGED <<pc, method, url, attempt, cached, outcome, entries, rate, edits>>

\* Somebody else changes a resource.
Edit(u) ==
  /\ edits < MaxEdits
  /\ edits' = edits + 1
  /\ Change(u)
  /\ UNCHANGED <<callVars, entries, rate, wire, budget, applied>>

ClientStep(c) == TransportError(c) \/ SleepEnds(c) \/ Receive(c)

Next ==
  \/ \E c \in Calls, m \in Methods : Start(c, m)
  \/ \E c \in Calls : ClientStep(c)
  \/ \E q \in wire : Handle(q)
  \/ \E u \in Urls : Edit(u)

Spec == Init /\ [][Next]_vars

\* Every exchange ends, at the latest with the time-out of the HTTP client, and
\* every sleep ends.  GitHub need not answer anything.
FairSpec == Spec /\ \A c \in Calls : WF_vars(ClientStep(c))

-----------------------------------------------------------------------------
\* Properties

Kinds == {"data", "written", "unreachable", "unavailable", "too many", "limited",
          "refused"}
Refusals == {"refused", "limited", "too many"}
Rates == {"unknown", "left", "none"}

Outcomes == [kind : {"data"}, version : Nat, hit : BOOLEAN] \cup [kind : Kinds \ {"data"}]
Entry == [key : Urls, etag : Nat, data : Nat]
Replies == [status : {"not modified", "ok", "unavailable"} \cup Refusals,
            version : Nat, rate : Rates]

\* The shape of the state: attempts stay within max_retries + 1, and the cache
\* within its bound with one entry per key.
TypeOK ==
  /\ pc \in [Calls -> {"idle", "sending", "backoff", "done"}]
  /\ method \in [Calls -> {"GET", "PATCH", "POST"}]
  /\ url \in [Calls -> Urls]
  /\ attempt \in [Calls -> 0..Attempts]
  /\ cached \in [Calls -> Entry \cup {NoEntry}]
  /\ reply \in [Calls -> Replies \cup {NoReply}]
  /\ outcome \in [Calls -> Outcomes \cup {NoOutcome}]
  /\ entries \in Seq(Entry) /\ OneEach(entries) /\ Len(entries) <= MaxEntries
  /\ rate \in Rates
  /\ wire \subseteq [call : Calls, attempt : 1..Attempts]
  /\ version \in [Urls -> Nat]
  /\ budget \in 0..Budget /\ edits \in 0..MaxEdits
  /\ applied \in [Calls -> 0..Attempts] /\ current \in [Calls -> SUBSET Nat]

\* What a read returns was the state of the resource at some moment of that very
\* call, whether it came with a 200 or out of the cache on a 304, and whatever
\* other calls put into the cache or evicted from it meanwhile.
FreshRead ==
  \A c \in Calls : outcome[c].kind = "data" => outcome[c].version \in current[c]

\* "A 502 on create must never produce two issues": however often the network
\* fails and however late a request arrives, one POST is carried out once.
CreatedOnce == \A c \in Calls : method[c] = "POST" => applied[c] <= 1

\* The answer to a write tells what happened, except for a 5xx or a broken
\* connection, which leave it open: success means that it was carried out, and a
\* refusal or a rate limit that it was not, unless the call repeated an attempt
\* whose end it never learnt, which a create does not.
WriteAnswerIsTrue ==
  \A c \in Calls : method[c] # "GET" =>
    /\ outcome[c].kind = "written" => applied[c] >= 1
    /\ outcome[c].kind \in Refusals /\ (method[c] = "POST" \/ attempt[c] = 1)
       => applied[c] = 0

\* A call ends, if GitHub never answers too: the attempts run out.
CallEnds == \A c \in Calls : pc[c] = "sending" ~> pc[c] = "done"

Awaiting(c) == {n \in 1..attempt[c] : [call |-> c, attempt |-> n] \in wire}

\* What holds of a call at any time: it is answered once per attempt and carried
\* out at most once for each attempt that is not on the wire any more; a create
\* has one attempt; and its reply, like the cache entry it read, is a version
\* under that version's own ETag, which was current when GitHub said so.
Sound(c) ==
  /\ pc[c] = "idle" => attempt[c] = 0 /\ outcome[c] = NoOutcome
  /\ pc[c] # "sending" => reply[c] = NoReply
  /\ pc[c] \in {"sending", "backoff"} =>
       outcome[c] = NoOutcome /\ version[url[c]] \in current[c]
  /\ method[c] = "POST" => attempt[c] <= 1 /\ pc[c] # "backoff"
  /\ pc[c] = "backoff" => attempt[c] < Attempts
  /\ cached[c] # NoEntry => cached[c].etag = cached[c].data
  /\ applied[c] + Cardinality(Awaiting(c)) <= attempt[c]
  /\ reply[c] # NoReply \/ outcome[c].kind \in Refusals => attempt[c] \notin Awaiting(c)
  /\ reply[c].status = "ok" =>
       IF method[c] = "GET" THEN reply[c].version \in current[c] ELSE applied[c] >= 1
  /\ reply[c].status = "not modified" =>
       method[c] = "GET" /\ cached[c] # NoEntry /\ cached[c].data \in current[c]
  /\ outcome[c].kind = "data" => outcome[c].version \in current[c]
  /\ method[c] # "GET" /\ outcome[c].kind = "written" => applied[c] >= 1
  /\ \/ reply[c].status \in Refusals
     \/ outcome[c].kind \in Refusals
     => method[c] = "GET" \/ attempt[c] # 1 \/ applied[c] = 0

\* What every step of the client, of GitHub and of the network keeps, and what
\* the answers to reads and writes rest on.
ClientInvariant ==
  /\ TypeOK
  /\ \A e \in ToSet(entries) : e.etag = e.data
  /\ \A q \in wire : q.attempt <= attempt[q.call]
  /\ \A c \in Calls : Sound(c)

\* The promise of the module's docstring: while the last answer reported an
\* exhausted budget, no further call is sent.
ExhaustedBudgetHolds == [][rate = "none" => wire' \subseteq wire]_vars

=============================================================================
