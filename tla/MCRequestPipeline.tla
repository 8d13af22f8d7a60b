------------------------- MODULE MCRequestPipeline -------------------------
(***************************************************************************)
(* An instance of RequestPipeline for TLC.  Payloads have up to two fields *)
(* with classes of values.   The webhook bodies, signatures, events and  *)
(* delivery ids are right or wrong in every way, two of the ids differ only *)
(* behind the letters that count, and one is the digest of a body.  The     *)
(* clock is around ten seconds, resets lie before, at and behind it,        *)
(* Retry-Afters are negative, small, fractional and huge.                   *)
(***************************************************************************)
EXTENDS RequestPipeline, TLC

\* -1.25, 0, 1.75, 2 and 99999 seconds.
MCRetryAfters == {-5, 0, 7, 8, 399996}

Body(json, action, oversized, tag) ==
  [json |-> json, action |-> action, oversized |-> oversized, tag |-> tag]

MCBodies ==
  {Body("object", "opened", FALSE, 1), Body("object", "opened", FALSE, 2),
   Body("object", "created", FALSE, 1), Body("object", "", FALSE, 1),
   Body("object", Absent, FALSE, 1), Body("other", Absent, FALSE, 1),
   Body("invalid", Absent, FALSE, 1), Body("object", "opened", TRUE, 1)}

MCMalformed == {"no_header", "no_sha256=", "not_64_letters", "not_hex"}

\* One letter stands for the whole digest.
MCDigest == [b \in MCBodies |-> <<ToString(b)>>]

MCGuids == {<<>>, <<"a">>, <<"a", "b">>, <<"a", "b", "a">>, <<"a", "b", "b">>,
            MCDigest[Body("object", "opened", FALSE, 1)]}

MCActions == [issues |-> {"opened"}, issue_comment |-> {"created"}, ping |-> {}]

MCOtherEvents == {"push"}

MCIds == {<<>>, <<"a", "b", "a">>}

JsonValues == {"text", "blank", Null, "other", "NaN"}

\* Functions on at most that many of the fields, one of which may be unknown.
Objects(most, fields, values) ==
  UNION {[some -> values] : some \in {s \in SUBSET fields : Cardinality(s) <= most}}

MCPayloads(op) ==
  CASE op = "create_issue" ->
         Objects(2, {"title", "body", "labels", "extra"}, JsonValues \cup {"none"})
    [] op = "update_issue" ->
         Objects(1, {"title", "body", "state", "state_reason", "labels", "extra"}, JsonValues \cup {"none"})
         \cup Objects(2, {"title", "body"}, {"text", Null, "NaN"})
    [] op = "create_comment" -> Objects(2, {"body", "extra"}, JsonValues)
    [] op = "get_issue" -> [{"number"} -> {"text", "other"}]
    [] op \in Lists -> Objects(1, {"page"}, {"text", "other"})
    [] op = "list_events" -> Objects(2, {"limit", "event"}, {"text", "other", "unknown"})
    [] op = "readyz" -> Objects(1, {"deep"}, {"text", "other"})
    [] OTHER -> {<<>>}

=============================================================================
