--------------------------- MODULE RequestPipeline ---------------------------
(***************************************************************************)
(* One request on its way through the service: the middleware that names    *)
(* it, routing and validation, the handler, the call of GitHub, the error   *)
(* handlers, and the way out through the middleware.  It composes           *)
(* WebhookAdmission and ErrorTranslation, which stay what they are.         *)
(*                                                                          *)
(* The payload of a request is a function on the fields that are present: a *)
(* missing field and a null are different things.  Fields of a query or a   *)
(* path stand in it too.  Values are classes: "text" is one that fits,      *)
(* "blank" an empty string or a list with one in it, "none" an empty list,  *)
(* "other" of another type or too long, "NaN" a number JSON has no literal  *)
(* for, but json.loads() does.                                              *)
(*                                                                          *)
(* The app runs in a task of its own with a copy of the context variables,   *)
(* so what the middleware sets is seen inside, and what it resets is not.   *)
(* Operators with a suffix to the name of another one are slips of it that  *)
(* no specification uses.                                                   *)
(***************************************************************************)
EXTENDS ErrorTranslation, WebhookAdmission

CONSTANTS Ids,             \* X-Request-ID values, after strip()
          Payloads(_)      \* the payloads to try for each operation

Variables == {"GITHUB_TOKEN", "GITHUB_OWNER", "GITHUB_REPO", "WEBHOOK_SECRET"}

VARIABLES call,            \* [op, id, payload]
          missing,         \* the variables that are unset or blank
          stage,
          context,         \* the context variables outside of app
          bound,           \* the ids of the request: app's copy, request.state
          lines,           \* the log
          raised,          \* the exception on its way
          reply,           \* the answer, and which request it names
          sent             \* the body sent to GitHub

inputVars == <<call, missing, request>>
vars == <<inputVars, verdict, translationVars, stage, context, bound, lines,
          raised, reply, sent>>

-----------------------------------------------------------------------------
\* app/config.py

Has(names) == names \cap missing = {}
HasToken == Has({"GITHUB_TOKEN"})
HasRepo == Has({"GITHUB_OWNER", "GITHUB_REPO"})

-----------------------------------------------------------------------------
\* app/schemas.py and the parameters of the routes

Optional == {"text", Null}

\* The fields of each operation with the values they may take.
Schema == [
  create_issue   |-> [title |-> {"text"}, body |-> Optional \cup {"blank"},
                      labels |-> Optional \cup {"none"}],
  update_issue   |-> [title |-> Optional, body |-> Optional \cup {"blank"},
                      state |-> Optional, state_reason |-> Optional,
                      labels |-> Optional \cup {"none", "blank"}],
  create_comment |-> [body |-> {"text"}],
  get_issue      |-> [number |-> {"text"}],
  list_issues    |-> [page |-> {"text"}],
  list_comments  |-> [page |-> {"text"}],
  list_events    |-> [limit |-> {"text"}, event |-> {"text", "unknown"}],
  readyz         |-> [deep |-> {"text"}],
  healthz        |-> [x \in {} |-> {}],
  webhook        |-> [x \in {} |-> {}]]

\* The operations that have a body.  The others read the query and the path, where
\* a field they do not declare never becomes part of the payload.
Writes == {"create_issue", "update_issue", "create_comment"}

ASSUME PipelineAssumption ==
  /\ Ids \subseteq Seq(STRING)
  /\ \A op \in DOMAIN Schema \ Writes : \A payload \in Payloads(op) :
       DOMAIN payload \subseteq DOMAIN Schema[op]

Required == [op \in DOMAIN Schema |->
  CASE op = "create_issue" -> {"title"}
    [] op = "create_comment" -> {"body"}
    [] op = "get_issue" -> {"number"}
    [] OTHER -> {}]

\* Unknown fields are ignored in a query and refused in a body; an update has to
\* change something, even if only to null.
Valid(op, payload) ==
  /\ Required[op] \subseteq DOMAIN payload /\ DOMAIN payload \subseteq DOMAIN Schema[op]
  /\ \A f \in DOMAIN payload : payload[f] \in Schema[op][f]
  /\ op = "update_issue" => payload # <<>>

-----------------------------------------------------------------------------
\* app/github_client.py: the calls of the Issues API

GitHubOps == {"create_issue", "update_issue", "create_comment", "get_issue",
              "list_issues", "list_comments"}
Lists == {"list_issues", "list_comments"}
Creates == {"create_issue", "create_comment"}
Repeatable(op) == op \notin Creates           \* GET and PATCH
IsDeep(c) == c.op = "readyz" /\ DOMAIN c.payload # {}

NotSent == [nothing |-> TRUE]

ToGitHubNoNulls(c) ==                         \* exclude_none for exclude_unset
  LET given == {f \in DOMAIN c.payload : c.payload[f] # Null}
  IN  [f \in given |-> c.payload[f]]

\* create_issue() leaves out a null body and empty labels; an update goes out
\* with the fields that are set and no others, nulls included.
ToGitHub(c) ==
  LET kept == IF c.op = "create_issue"
              THEN {f \in DOMAIN c.payload : c.payload[f] \notin {Null, "none"}}
              ELSE DOMAIN c.payload
  IN  [f \in kept |-> c.payload[f]]

-----------------------------------------------------------------------------
\* app/middleware.py and app/logging_config.py

Unbound == [request |-> <<>>, delivery |-> <<>>]
Fresh == <<"uuid4">>

\* The caller's id, cut, or one of our own if there is none; and the GUID.
Bound(c) == [request |-> IF c.id = <<>> THEN Fresh ELSE Cut(c.id),
             delivery |-> Cut(request.guid)]

Line(what, ids) == [what |-> what, ids |-> ids]
Log(what) == lines' = lines \cup {Line(what, bound)}

NotRaised == [kind |-> "none"]
NoReply == [status |-> 0]

RequestIdFromContext == context.request       \* not from the request's state
RequestId == bound.request

\* A success is named by the middleware, an error by its handler too.
Success(status) == [status |-> status, code |-> "", named |-> bound.request]
Failure(e) == [status |-> e.status, code |-> e.code, named |-> RequestId]

-----------------------------------------------------------------------------

\* Only a webhook's request varies in what WebhookAdmission looks at, and only
\* its secret is looked at there.
PipelineInit ==
  /\ call \in UNION {[op : {op}, id : Ids, payload : Payloads(op)] :
                     op \in DOMAIN Schema \cup {"unknown_path", "unknown_method"}}
  /\ missing \in SUBSET Variables
  /\ IF call.op = "webhook"
     THEN /\ missing \subseteq {"WEBHOOK_SECRET"}
          /\ request \in Requests
          /\ request.secretSet = Has({"WEBHOOK_SECRET"})
     ELSE request = CHOOSE r \in Requests : r.guid = <<>>
  /\ verdict = Pending
  /\ TranslationInit
  /\ stage = "arrived"
  /\ context = Unbound /\ bound = Unbound
  /\ lines = {}
  /\ raised = NotRaised
  /\ reply = NoReply
  /\ sent = NotSent

\* dispatch() up to call_next().
Bind ==
  /\ stage = "arrived"
  /\ stage' = "routing"
  /\ context' = Bound(call)
  /\ bound' = Bound(call)
  /\ UNCHANGED <<inputVars, verdict, translationVars, lines, raised, reply, sent>>

Throw(kind, e) ==
  /\ stage' = "raised"
  /\ raised' = [kind |-> kind, error |-> e]
  /\ UNCHANGED reply

Respond(status) ==
  /\ stage' = "responding"
  /\ reply' = Success(status)
  /\ UNCHANGED raised

Breaks(cause) == Throw("unhandled", Error(500, cause))

RefuseRoute ==
  \/ call.op = "unknown_path" /\ Throw("http", Error(404, "not_found"))
  \/ call.op = "unknown_method" /\ Throw("http", Error(405, "method_not_allowed"))

RefuseInputDefault ==                         \* FastAPI's own handler
  /\ call.op \in DOMAIN Schema
  /\ ~Valid(call.op, call.payload)
  /\ Throw("http", Error(422, "validation_error"))

RefuseInput ==
  /\ call.op \in DOMAIN Schema
  /\ ~Valid(call.op, call.payload)
  /\ Throw("validation", Error(400, "validation_error"))

\* The store may raise; health must not.
Healthz == call.op = "healthz" /\ \E status \in {200, 503} : Respond(status)

Readyz ==
  /\ call.op = "readyz" /\ Valid(call.op, call.payload)
  /\ missing # {} \/ ~IsDeep(call)
  /\ Respond(IF missing = {} THEN 200 ELSE 503)

ListEvents ==
  /\ call.op = "list_events" /\ Valid(call.op, call.payload)
  /\ IF "event" \in DOMAIN call.payload /\ call.payload["event"] = "unknown"
     THEN Throw("app", Error(400, "unsupported_event"))
     ELSE Respond(200) \/ Breaks("store")

\* _require_config(): before anything is sent.
RefuseConfig ==
  /\ call.op \in GitHubOps /\ Valid(call.op, call.payload)
  /\ \/ ~HasToken /\ Throw("app", Error(401, "missing_credentials"))
     \/ HasToken /\ ~HasRepo /\ Throw("app", Error(503, "not_configured"))

Handle ==
  /\ stage = "routing"
  /\ RefuseRoute \/ RefuseInput \/ Healthz \/ Readyz \/ ListEvents \/ RefuseConfig
  /\ UNCHANGED <<inputVars, verdict, translationVars, context, bound, lines, sent>>

WebhookStatus(code) ==
  CASE code = "not_configured" -> 503
    [] code = "payload_too_large" -> 413
    [] code = "invalid_signature" -> 401
    [] OTHER -> 400

\* An admitted delivery is stored, which may raise, and acknowledged.
Webhook ==
  /\ stage = "routing" /\ call.op = "webhook"
  /\ Judge
  /\ IF verdict' # Admitted
     THEN Throw("app", Error(WebhookStatus(verdict'), verdict')) /\ UNCHANGED lines
     ELSE \/ Breaks("store") /\ UNCHANGED lines
          \/ Respond(204) /\ \E what \in {"webhook_accepted", "duplicate_ignored"} : Log(what)
  /\ UNCHANGED <<call, missing, translationVars, context, bound, sent>>

CallGitHub ==
  /\ stage = "routing"
  /\ \/ call.op \in GitHubOps /\ Valid(call.op, call.payload) /\ HasToken /\ HasRepo
     \/ IsDeep(call) /\ Valid(call.op, call.payload) /\ missing = {}
  /\ stage' = "calling"
  /\ sent' = ToGitHub(call)
  /\ UNCHANGED <<inputVars, verdict, translationVars, context, bound, lines, raised, reply>>

AttemptFails ==
  /\ stage = "calling"
  /\ \/ Exchange /\ UNCHANGED lines
     \/ Retry(Repeatable(call.op)) /\ Log("retrying")
  /\ UNCHANGED <<inputVars, verdict, stage, context, bound, raised, reply, sent>>

\* readyz catches an AppError; nobody else does.
CallFails ==
  /\ stage = "calling"
  /\ Raise(Repeatable(call.op))
  /\ IF IsDeep(call) THEN Respond(503) ELSE Throw("app", error')
  /\ UNCHANGED <<inputVars, verdict, context, bound, lines, sent>>

\* A 2xx with an object, a pull request, a list, a list with something else in
\* it, or another body.
Bodies2xx == {"object", "pull_request", "list", "stray_list", "nothing"}

\* project_issue() and project_comment() raise on what is not an object.
Projected(body) == body # "stray_list"

ExpectObject(body, status) ==
  IF body \in {"object", "pull_request"} THEN Respond(status)
  ELSE Throw("app", Error(502, "upstream_error"))

CreateIssue(body) == call.op = "create_issue" /\ ExpectObject(body, 201)
CreateComment(body) == call.op = "create_comment" /\ ExpectObject(body, 201)
UpdateIssue(body) == call.op = "update_issue" /\ ExpectObject(body, 200)

GetIssue(body) ==
  /\ call.op = "get_issue"
  /\ IF body = "pull_request" THEN Throw("app", Error(404, "not_an_issue"))
     ELSE ExpectObject(body, 200)

\* What is no list is taken for an empty one.
ListItems(body) ==
  /\ call.op \in Lists
  /\ IF Projected(body) THEN Respond(200) ELSE Breaks("malformed_element")

CallSucceeds ==
  /\ stage = "calling" /\ response = NoResponse
  /\ \/ IsDeep(call) /\ Respond(200)
     \/ \E body \in Bodies2xx :
          \/ CreateIssue(body) \/ CreateComment(body) \/ UpdateIssue(body)
          \/ GetIssue(body) \/ ListItems(body)
  /\ UNCHANGED <<inputVars, verdict, translationVars, context, bound, lines, sent>>

-----------------------------------------------------------------------------
\* app/main.py: the exception handlers, and the rest of dispatch()

\* What _jsonable() passes through and JSONResponse refuses to write: the value
\* that is not valid, or a whole body that lacks a field.
EchoFails ==
  /\ raised.kind = "validation"
  /\ \E f \in DOMAIN call.payload : call.payload[f] = "NaN"

\* The handlers of AppError, RequestValidationError and HTTPException run in app.
HandleError ==
  /\ stage = "raised" /\ raised.kind # "unhandled"
  /\ CASE raised.kind = "app" -> Log("request_failed")
       [] raised.kind = "validation" -> Log("request_rejected")
       [] raised.kind = "http" -> UNCHANGED lines
  /\ IF EchoFails THEN Breaks("echo")
     ELSE /\ stage' = "responding"
          /\ reply' = Failure(raised.error)
          /\ UNCHANGED raised
  /\ UNCHANGED <<inputVars, verdict, translationVars, context, bound, sent>>

AccessLine(status, ids) == [what |-> "request", ids |-> ids, status |-> status]

\* dispatch() after call_next(): the header, the access line, then the reset.
Leave ==
  /\ stage = "responding"
  /\ stage' = "answered"
  /\ reply' = [reply EXCEPT !.named = bound.request]
  /\ lines' = lines \cup {AccessLine(reply.status, context)}
  /\ context' = Unbound
  /\ UNCHANGED <<inputVars, verdict, translationVars, bound, raised, sent>>

\* An exception nobody handled passes dispatch(), which resets the context ...
Unwind ==
  /\ stage = "raised" /\ raised.kind = "unhandled"
  /\ stage' = "unwound"
  /\ lines' = lines \cup {AccessLine(500, context)}
  /\ context' = Unbound
  /\ UNCHANGED <<inputVars, verdict, translationVars, bound, raised, reply, sent>>

\* ... and reaches the catch-all handler outside of the middleware.
CatchAll ==
  /\ stage = "unwound"
  /\ stage' = "answered"
  /\ lines' = lines \cup {Line("unhandled_exception", context)}
  /\ reply' = Failure(Error(500, "internal_error"))
  /\ UNCHANGED <<inputVars, verdict, translationVars, context, bound, raised, sent>>

\* The background task of a webhook runs in app after the answer.
Background ==
  /\ stage = "answered"
  /\ Line("webhook_accepted", bound) \in lines
  /\ stage' = "processed"
  /\ Log("webhook_processed")
  /\ UNCHANGED <<inputVars, verdict, translationVars, context, bound, raised, reply, sent>>

PipelineNext ==
  \/ Bind
  \/ Handle
  \/ Webhook
  \/ CallGitHub
  \/ AttemptFails
  \/ CallFails
  \/ CallSucceeds
  \/ HandleError
  \/ Leave
  \/ Unwind
  \/ CatchAll
  \/ Background

PipelineSpec == PipelineInit /\ [][PipelineNext]_vars

-----------------------------------------------------------------------------
Answered == stage \in {"answered", "processed"}

\* "A 500 with no correlation id is exactly the one a reader most needs": every
\* answer names its request, and every line of the log written for it does, the
\* ones of the background task included, but for the traceback of an unhandled
\* exception.  The access line reports the status that the caller gets.
Traceable ==
  /\ \A l \in lines : l.what # "unhandled_exception" => l.ids = bound
  /\ Answered =>
       /\ bound.request # <<>> /\ reply.named = bound.request
       /\ AccessLine(reply.status, bound) \in lines

\* What a field is to be after the request: an absent one is empty in a new
\* issue, and as it was in an updated one.
Wish(payload, f) ==
  IF f \notin DOMAIN payload
  THEN IF call.op = "update_issue" THEN "as_it_was" ELSE "empty"
  ELSE IF payload[f] \in {Null, "none"} THEN "empty" ELSE payload[f]

\* The request bodies of openapi.yaml.
Contract == [
  create_issue   |-> [title |-> {"text"}, body |-> Optional \cup {"blank"},
                      labels |-> Optional \cup {"none"}],
  update_issue   |-> [title |-> {"text"}, body |-> Optional \cup {"blank"},
                      state |-> {"text"}, state_reason |-> Optional,
                      labels |-> Optional \cup {"none"}],
  create_comment |-> [body |-> {"text"}]]

\* What the contract refuses and schemas.py lets pass: an update's title or state
\* may be null, and the strings of its labels empty.
LetPass == {<<"update_issue", "title", Null>>, <<"update_issue", "state", Null>>,
            <<"update_issue", "labels", "blank">>}

\* The body is one the contract describes, or one of those.
Conforms(op, payload) ==
  /\ DOMAIN payload \subseteq DOMAIN Contract[op]
  /\ \A f \in DOMAIN payload :
       payload[f] \in Contract[op][f] \/ <<op, f, payload[f]>> \in LetPass
  /\ CASE op = "create_issue" -> "title" \in DOMAIN payload
       [] op = "update_issue" -> payload # <<>>
       [] op = "create_comment" -> "body" \in DOMAIN payload

\* Only a request that conforms to the contract reaches GitHub, with a token and
\* a repository to go to, and it asks GitHub for what the caller asked of the
\* gateway: "an explicit null counts as a change, an absent key does not".  And
\* only one that does not conform is refused as invalid.
SentIsWhatWasAsked ==
  /\ sent # NotSent =>
       /\ call.op \in Writes => Conforms(call.op, call.payload)
       /\ missing \subseteq {"WEBHOOK_SECRET"}
       /\ \A f \in DOMAIN Schema[call.op] : Wish(sent, f) = Wish(call.payload, f)
  /\ call.op \in Writes /\ raised.kind = "validation" => ~Conforms(call.op, call.payload)

\* The statuses openapi.yaml gives for each operation.
Common == {400, 401, 403, 404, 429, 502, 503, 504}
Documented == [op \in DOMAIN Schema |->
  CASE op \in Creates -> Common \cup {201}
    [] op \in {"get_issue", "update_issue"} -> Common \cup {200}
    [] op = "list_issues" -> (Common \ {404}) \cup {200, 304}
    [] op = "list_comments" -> (Common \ {403}) \cup {200}
    [] op = "webhook" -> {204, 400, 401, 413, 503}
    [] op = "list_events" -> {200, 400}
    [] OTHER -> {200, 503}]

\* What the contract forgets: GitHub's 404 for a list of issues and 403 for one
\* of comments, which are passed on, and the 400 for a bad ?deep.
Undocumented == {<<"list_issues", 404>>, <<"list_comments", 403>>, <<"readyz", 400>>}

\* Whatever GitHub says, whatever is unset and whatever the caller sends, the
\* answer is one the contract names for the operation, or one of the three it
\* forgets.  A 500 means a store that raised, a malformed list, or a refused body
\* that could not be echoed; "upstream 5xx becomes 502, not 500".
AnswersAreDocumented ==
  Answered /\ call.op \in DOMAIN Schema =>
    \/ reply.status \in Documented[call.op]
    \/ <<call.op, reply.status>> \in Undocumented
    \/ reply.code = "internal_error" /\ raised.kind = "unhandled"

\* DESIGN.md: "Client validation errors are 400", which main.py says of the
\* contract too.  A refused body with a NaN in it is answered with a 500.
InvalidInputIs400 ==
  Answered /\ call.op \in DOMAIN Schema /\ ~Valid(call.op, call.payload) =>
    reply.status = 400

=============================================================================
