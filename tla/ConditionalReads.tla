-------------------------- MODULE ConditionalReads --------------------------
(***************************************************************************)
(* Two caches in a row: the GET /issues route of app/routers/issues.py in   *)
(* front of GitHubClient.  A client of the gateway keeps the answers it got *)
(* and asks with their tags in If-None-Match; the route derives its own tag *)
(* from GitHub's and the version of its projection, and may answer 304      *)
(* where GitHub answered 200, or 200 out of the cache on GitHub's 304.      *)
(*                                                                          *)
(* A deployment restarts the gateway with another projection: the cache of  *)
(* GitHub's bodies is gone, the copies the clients hold are not.            *)
(* MaxDeploys bounds them.  GatewayETagUnversioned is a slip that no        *)
(* specification uses; it shows what the properties notice.                 *)
(***************************************************************************)
EXTENDS GitHubClient

CONSTANT MaxDeploys

ASSUME ReadAssumption == "GET" \in Methods /\ MaxDeploys \in Nat

VARIABLES asked,           \* the If-None-Match of each call
          answer,          \* what the route answered
          shape            \* _PROJECTION_VERSION

routeVars == <<asked, answer, shape>>
readVars == <<vars, routeVars>>

NoAnswer == [status |-> "none"]
ErrorAnswer == [status |-> "error"]
Star == <<"*">>

ReadInit ==
  /\ Init
  /\ asked = [c \in Calls |-> {}]
  /\ answer = [c \in Calls |-> NoAnswer]
  /\ shape = 0

GatewayETagUnversioned(upstream) == <<0, upstream>>    \* nobody bumps it

GatewayETag(upstream) == <<shape, upstream>>

IfNoneMatchMatches(header, etag) == Star \in header \/ etag \in header

\* The answer to call c once request() has returned or raised: what the 200
\* carries, or would carry if the caller had not got it already.
ListIssues(c, result) ==
  IF result.kind # "data" THEN ErrorAnswer
  ELSE LET etag == GatewayETag(result.version)
       IN  [status |-> IF IfNoneMatchMatches(asked[c], etag) THEN "not modified" ELSE "ok",
            etag |-> etag, version |-> result.version, shape |-> shape]

\* The full answers there are for the resource of call c.
Copies(c) == {answer[d] : d \in {b \in Calls : url[b] = url[c] /\ answer[b].status = "ok"}}

Ask(c) ==
  /\ Start(c, "GET")
  /\ \E header \in {{Star}} \cup SUBSET {copy.etag : copy \in Copies(c)} :
       asked' = [asked EXCEPT ![c] = header]
  /\ UNCHANGED <<answer, shape>>

\* Nothing is awaited between the end of request() and the answer.
Proceed(c) ==
  /\ ClientStep(c)
  /\ answer' = IF pc'[c] = "done"
               THEN [answer EXCEPT ![c] = ListIssues(c, outcome'[c])] ELSE answer
  /\ UNCHANGED <<asked, shape>>

GitHubStep ==
  /\ (\E q \in wire : Handle(q)) \/ (\E u \in Urls : Edit(u))
  /\ UNCHANGED routeVars

\* The server finishes the running requests before it stops.
Deploy ==
  /\ shape < MaxDeploys
  /\ \A c \in Calls : pc[c] \in {"idle", "done"}
  /\ shape' = shape + 1
  /\ entries' = <<>>
  /\ rate' = "unknown"
  /\ UNCHANGED <<callVars, wire, githubVars, asked, answer>>

ReadNext ==
  \/ \E c \in Calls : Ask(c) \/ Proceed(c)
  \/ GitHubStep
  \/ Deploy

ReadSpec == ReadInit /\ [][ReadNext]_readVars

-----------------------------------------------------------------------------

Tags == Nat \X Nat
Answers == [status : {"ok", "not modified"}, etag : Tags, version : Nat, shape : Nat]

\* What the two caches keep between them: an answer carries a version that was
\* current during its call, under a tag of that version and of its projection;
\* an answer of 304 has the tag its caller asked with, and that came with a copy.
RouteInvariant ==
  /\ shape \in 0..MaxDeploys
  /\ asked \in [Calls -> SUBSET ({Star} \cup Tags)]
  /\ answer \in [Calls -> Answers \cup {NoAnswer, ErrorAnswer}]
  /\ \A c \in Calls :
       /\ pc[c] # "done" => answer[c] = NoAnswer
       /\ asked[c] = {Star} \/ asked[c] \subseteq {copy.etag : copy \in Copies(c)}
       /\ answer[c] \in Answers =>
            /\ answer[c].etag = <<answer[c].shape, answer[c].version>>
            /\ answer[c].version \in current[c]
            /\ answer[c].status = "not modified" =>
                 asked[c] = {Star} \/ answer[c].etag \in asked[c]

\* issues.py: a stale client ETag from an older deploy can never produce a 304
\* carrying the wrong projection.  Unless it asked with *, a caller who is told
\* 304 holds a copy of the very bytes it would have been sent, in the projection
\* of the gateway that answers, and of a version current during that call.
NotModifiedIsTrue ==
  \A c \in Calls : answer[c].status = "not modified" /\ asked[c] # {Star} =>
    /\ [answer[c] EXCEPT !.status = "ok"] \in Copies(c)
    /\ answer[c].version \in current[c]

=============================================================================
