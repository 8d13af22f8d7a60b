-------------------------- MODULE WebhookAdmission --------------------------
(***************************************************************************)
(* The part of POST /webhook before the store: receive_webhook() up to      *)
(* store.record() and verify_signature().  It reads nothing but the request *)
(* and the settings, so it is a function of the two: the first check that   *)
(* refuses decides the answer, and an admitted request has a dedupe key.    *)
(*                                                                          *)
(* A body is a record of what the checks can tell apart in its bytes; the   *)
(* HMAC of a body under the configured secret is injective, so a header with *)
(* a digest names the body the digest is of; other headers name their flaw. *)
(* Delivery ids are strings of one column, whatever they were made from:    *)
(* sequences of letters, so that cutting them is visible.                   *)
(*                                                                          *)
(* An operator named after another one with a suffix is that operator with  *)
(* a plausible slip in it, there to show that the properties notice it.  No *)
(* specification uses it.                                                   *)
(***************************************************************************)
EXTENDS Naturals, Sequences, SequencesExt, FiniteSets

CONSTANTS Bodies,          \* [json, action, oversized, tag]
          Malformed,       \* headers verify_signature() refuses by their form
          Guids,           \* X-GitHub-Delivery values, after strip()
          Digest,          \* of each body, "sha256:" and 32 hexadecimal digits
          Actions,         \* SUPPORTED_EVENTS: the actions of each event
          OtherEvents,     \* event headers that are not supported
          MaxGuid          \* letters of a delivery id that count: 128

\* Action fields: a string, or Absent when it is missing or not a string.
Absent == "absent"
\* A column without a value, which is no string and so no event's action.
Null == "NULL"
\* The json field: whether json.loads() fails, yields a dict, or another value.
JsonKinds == {"invalid", "object", "other"}

ASSUME AdmissionAssumption ==
  /\ MaxGuid \in Nat \ {0}
  /\ \A b \in Bodies : b.json \in JsonKinds /\ b.oversized \in BOOLEAN
  /\ <<>> \in Guids              \* no header, or a blank one
  /\ Guids \subseteq Seq(STRING) /\ Digest \in [Bodies -> Seq(STRING)]
  /\ \A e \in DOMAIN Actions : Null \notin Actions[e]

SupportedEvents == DOMAIN Actions

DigestOf(b) == [form |-> "digest", of |-> b]
Flawed(m)   == [form |-> m]

Requests ==
  [secretSet : BOOLEAN,                       \* settings.has_webhook_secret
   declaredOversized : BOOLEAN,               \* Content-Length says too long
   body : Bodies,
   signature : {DigestOf(b) : b \in Bodies} \cup {Flawed(m) : m \in Malformed},
   event : SupportedEvents \cup OtherEvents \cup {""},
   guid : Guids]

-----------------------------------------------------------------------------
\* verify_signature(): the form first, then the digest of the raw body.

Verifies(r) ==
  /\ r.secretSet
  /\ r.signature.form = "digest"
  /\ r.signature.of = r.body

Check(refuses, code) == [refuses |-> refuses, code |-> code]

EventChecksFirst(r) ==       \* the event is looked at before the signature
  <<Check(~r.secretSet, "not_configured"),
    Check(r.declaredOversized \/ r.body.oversized, "payload_too_large"),
    Check(r.event = "", "missing_event"),
    Check(r.event \notin SupportedEvents, "unsupported_event"),
    Check(~Verifies(r), "invalid_signature"),
    Check(r.body.json # "object", "invalid_json")>>

LengthTrusted(r) ==               \* the body itself is not measured
  <<Check(~r.secretSet, "not_configured"),
    Check(r.declaredOversized, "payload_too_large"),
    Check(~Verifies(r), "invalid_signature"),
    Check(r.event = "", "missing_event"),
    Check(r.event \notin SupportedEvents, "unsupported_event"),
    Check(r.body.json # "object", "invalid_json")>>

\* The refusals that do not depend on the event's actions, in the code's order.
HeaderChecks(r) ==
  <<Check(~r.secretSet, "not_configured"),
    Check(r.declaredOversized, "payload_too_large"),
    Check(r.body.oversized, "payload_too_large"),
    Check(~Verifies(r), "invalid_signature"),
    Check(r.event = "", "missing_event"),
    Check(r.event \notin SupportedEvents, "unsupported_event"),
    Check(r.body.json # "object", "invalid_json")>>

\* Only events that have actions are asked for one; ping has none.
ActionChecks(r) ==
  IF r.event \in SupportedEvents /\ Actions[r.event] # {}
  THEN <<Check(r.body.action \in {Absent, ""}, "missing_action"),
         Check(r.body.action \notin Actions[r.event], "unsupported_action")>>
  ELSE <<>>

Checks(r) == HeaderChecks(r) \o ActionChecks(r)

Admitted == "accepted"

\* The first check that refuses raises; behind the last one the store is reached.
Verdict(r) ==
  LET checks == Checks(r)
      refusals == {i \in DOMAIN checks : checks[i].refuses}
  IN  IF refusals = {} THEN Admitted ELSE checks[Min(refusals)].code

-----------------------------------------------------------------------------
\* The dedupe key of an admitted request, as record() hands it to SQLite.

ActionKeyNull(r) == IF Actions[r.event] # {} THEN r.body.action ELSE Null

\* action or "": a ping, which has no action, is stored with the empty string.
ActionKey(r) == IF Actions[r.event] # {} THEN r.body.action ELSE ""

Cut(s) == SubSeq(s, 1, IF Len(s) < MaxGuid THEN Len(s) ELSE MaxGuid)

DeliveryIdBlank(r) == Cut(r.guid)                 \* no fall-back to the body

\* The GUID header, or the digest of the body when there is none.
DeliveryId(r) == IF r.guid = <<>> THEN Digest[r.body] ELSE Cut(r.guid)

DedupeKey(r) ==
  [delivery_id |-> DeliveryId(r), event |-> r.event, action |-> ActionKey(r)]

\* How the unique index compares keys: NULL is distinct from everything.
Conflicts(k, l) == k = l /\ k.action # Null

-----------------------------------------------------------------------------
\* One request is judged; nothing is remembered here.

VARIABLES request, verdict

Pending == "pending"

Judge ==
  /\ verdict = Pending
  /\ verdict' = Verdict(request)
  /\ UNCHANGED request

Accepted == {r \in Requests : r.secretSet /\ Verdict(r) = Admitted}

\* DESIGN.md, webhook dedupe: who cannot sign learns nothing about the checks
\* behind the signature.  While the signature fails, the verdict is the same for
\* every event, delivery id, and body of the same length class.
UnsignedLearnsNothing ==
  verdict # Pending /\ ~Verifies(request) =>
    \A e \in SupportedEvents \cup OtherEvents \cup {""}, g \in Guids, b \in Bodies :
      LET other == [request EXCEPT !.event = e, !.guid = g, !.body = b]
      IN  ~Verifies(other) /\ b.oversized = request.body.oversized =>
            Verdict(other) = verdict

\* Nothing reaches the store that is unsigned, too long or not understood.
AdmittedIsUnderstood ==
  verdict = Admitted =>
    /\ Verifies(request)
    /\ ~request.body.oversized
    /\ request.body.json = "object"
    /\ request.event \in SupportedEvents
    /\ Actions[request.event] # {} => request.body.action \in Actions[request.event]

\* The header, which is not signed, has the digest of the other request's body.
Spells(q, r) == q.guid # <<>> /\ r.guid = <<>> /\ Cut(q.guid) = Digest[r.body]

\* A redelivery is recognised whatever the event, ping included, and nothing else
\* is taken for one: two admitted requests have one row if they carry the same
\* event and action, and the same GUID up to its 128 letters or, with no GUID in
\* either of them, bodies with the same digest.  One column holds both kinds of
\* id, so a GUID that spells the digest of a body without one is the same, too.
OnlyReplaysConflict ==
  verdict = Admitted =>
    \A r \in Accepted :
      Conflicts(DedupeKey(request), DedupeKey(r)) <=>
        /\ r.event = request.event
        /\ Actions[r.event] # {} => r.body.action = request.body.action
        /\ \/ r.guid # <<>> /\ request.guid # <<>> /\ Cut(r.guid) = Cut(request.guid)
           \/ r.guid = <<>> /\ request.guid = <<>> /\ Digest[r.body] = Digest[request.body]
           \/ Spells(r, request) \/ Spells(request, r)

=============================================================================
