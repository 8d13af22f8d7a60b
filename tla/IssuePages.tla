----------------------------- MODULE IssuePages -----------------------------
(***************************************************************************)
(* GET /issues and GET /issues/{n}/comments, page by page: list_issues()    *)
(* and list_comments() in app/routers/issues.py with app/pagination.py, and *)
(* a client that reads a page and goes on by the links of its answer.       *)
(*                                                                          *)
(* A URL's query is a function from the parameters it spells out to their   *)
(* values; what it does not spell out takes the route's default.  "labels"  *)
(* stands for sort and direction too, which are passed on in the same way.  *)
(* GitHub's answer is external: the page of the list it keeps, and a Link   *)
(* header, which may have two rels on one link, an opaque cursor in its     *)
(* URLs, and segments that do not parse.  The list does not change          *)
(* while the client reads, so that what a walk gathers can be named.        *)
(*                                                                          *)
(* MaxItems and MaxPage bound the list and the page a client starts with.   *)
(*                                                                          *)
(* An operator named after another one with a suffix is that operator with  *)
(* a plausible slip in it, there to show that the properties notice it.  No *)
(* specification uses it.                                                   *)
(***************************************************************************)
EXTENDS Naturals, Sequences, SequencesExt, FiniteSets

CONSTANTS Items,           \* what GitHub lists: [state, bug, pull]
          None,            \* a parameter that is not given
          PerPages,        \* the values of per_page: 1 to 100
          DefaultPerPage, MaxPerPage,
          MaxItems, MaxPage

ASSUME PagesAssumption ==
  /\ Items \subseteq [state : {"open", "closed"}, bug : BOOLEAN, pull : BOOLEAN]
  /\ None \notin {"open", "closed", "all", "bug"}
  /\ MaxPerPage \in Nat \ {0}
  /\ DefaultPerPage \in 1..MaxPerPage
  /\ PerPages \subseteq 1..MaxPerPage
  /\ MaxItems \in Nat /\ MaxPage \in Nat

VARIABLES items,           \* the list GitHub keeps
          route,           \* which of the two routes is read
          query,           \* the query of the URL last requested
          answer,          \* its answer: [listed, links, damaged]
          walk, start      \* what was gathered since page "start" by next links

vars == <<items, route, query, answer, walk, start>>

-----------------------------------------------------------------------------
\* Queries

Default == [state |-> "open", labels |-> None, page |-> 1,
            per_page |-> DefaultPerPage]

Filters == IF route = "issues" THEN {"state", "labels"} ELSE {}

\* FastAPI reads the parameters the route declares and ignores all others.
Parsed(q) ==
  [p \in Filters \cup {"page", "per_page"} |->
     IF p \in DOMAIN q THEN q[p] ELSE Default[p]]

\* normalize_per_page(); the route has refused what it would change already.
NormalizePerPage(n) == IF n < 1 THEN 1 ELSE IF n > MaxPerPage THEN MaxPerPage ELSE n

-----------------------------------------------------------------------------
\* GitHub

Matches(n, asked) ==
  route = "issues" =>
    /\ asked.state \in {"all", items[n].state}
    /\ asked.labels # None => items[n].bug

\* Members of the list, by their places, in the order the list has them.
InOrder == [places \in SUBSET (1..MaxItems) |->
  [p \in 1..Cardinality(places) |->
     CHOOSE n \in places : Cardinality({m \in places : m < n}) = p - 1]]

Matching(asked) == InOrder[{n \in DOMAIN items : Matches(n, asked)}]

Page(asked) ==
  LET all == Matching(asked)
      before == (asked.page - 1) * asked.per_page
  IN  SubSeq(all, before + 1,
             IF before + asked.per_page < Len(all) THEN before + asked.per_page
             ELSE Len(all))

Pages(asked) == (Len(Matching(asked)) + asked.per_page - 1) \div asked.per_page

Targets(asked) ==                 \* the pages GitHub's links lead to
  LET last    == Pages(asked)
      back    == IF asked.page > 1 THEN {"first", "prev"} ELSE {}
      forward == IF asked.page < last THEN {"next", "last"} ELSE {}
  IN  [rel \in back \cup forward |->
         CASE rel = "first" -> 1
           [] rel = "prev"  -> asked.page - 1
           [] rel = "next"  -> asked.page + 1
           [] rel = "last"  -> last]

\* One segment per page or one per rel; every URL repeats what was asked, and
\* may carry the cursor "after".  The rels in "damaged" do not parse.
Segments(asked, merged, cursor, damaged) ==
  LET all     == Targets(asked)
      targets == [rel \in DOMAIN all \ damaged |-> all[rel]]
      Url(p)  == [x \in DOMAIN asked \cup (IF cursor THEN {"after"} ELSE {}) |->
                    IF x \in {"page", "after"} THEN p ELSE asked[x]]
  IN  IF merged
      THEN {[url |-> Url(p), rels |-> {rel \in DOMAIN targets : targets[rel] = p}] :
              p \in {targets[rel] : rel \in DOMAIN targets}}
      ELSE {[url |-> Url(targets[rel]), rels |-> {rel}] : rel \in DOMAIN targets}

-----------------------------------------------------------------------------
\* app/pagination.py

ParseLinkHeaderUnsplit(segments) ==    \* rel="next last" is one name
  LET single == {s \in segments : Cardinality(s.rels) = 1}
  IN  [rel \in UNION {s.rels : s \in single} |->
         (CHOOSE s \in single : rel \in s.rels).url]

\* Every rel of every segment that parses; GitHub names a rel once.
ParseLinkHeader(segments) ==
  [rel \in UNION {s.rels : s \in segments} |->
     (CHOOSE s \in segments : rel \in s.rels).url]

ForwardedCursorsPageOnly == {"page"}

ForwardedCursors == {"page", "per_page"}

PageParams(url) == [p \in ForwardedCursors \cap DOMAIN url |-> url[p]]

RewriteLinkHeaderBare(links, passthrough) == [rel \in DOMAIN links |-> PageParams(links[rel])]

\* The caller's own filters, without those not given, and GitHub's cursors.
RewriteLinkHeader(links, passthrough) ==
  LET given == {f \in DOMAIN passthrough : passthrough[f] # None}
  IN  [rel \in DOMAIN links |->
         LET cursors == PageParams(links[rel])
         IN  [p \in given \cup DOMAIN cursors |->
                IF p \in DOMAIN cursors THEN cursors[p] ELSE passthrough[p]]]

-----------------------------------------------------------------------------
\* The routes

\* What the route asks GitHub for.
Asked(q) == [Parsed(q) EXCEPT !.per_page = NormalizePerPage(@)]

\* list_issues() leaves pull requests out; list_comments() has no filters.
ListRoute(asked, merged, cursor, damaged) ==
  [listed |-> IF route = "issues"
              THEN InOrder[{n \in ToSet(Page(asked)) : ~items[n].pull}]
              ELSE Page(asked),
   links |-> RewriteLinkHeader(
               ParseLinkHeader(Segments(asked, merged, cursor, damaged)),
               [p \in Filters |-> asked[p]]),
   damaged |-> damaged]

Rels == {"first", "prev", "next", "last"}

Answers(q) ==
  {ListRoute(asked, merged, cursor, damaged) : asked \in {Asked(q)},
     merged \in BOOLEAN, cursor \in BOOLEAN, damaged \in {{}, {"next"}}}

\* The first request spells out what it likes.
FirstQueries ==
  [page : 1..MaxPage] \cup [page : 1..MaxPage, per_page : PerPages] \cup
  [page : 1..MaxPage, per_page : PerPages,
   state : {"all", "closed"}, labels : {None, "bug"}]

Init ==
  /\ items \in BoundedSeq(Items, MaxItems)
  /\ route \in {"issues", "comments"}
  /\ query \in FirstQueries
  /\ answer \in Answers(query)
  /\ walk = answer.listed
  /\ start = Parsed(query).page

\* The client requests the URL of a link; by "next" it goes on gathering.
Follow(rel) ==
  /\ rel \in DOMAIN answer.links
  /\ query' = answer.links[rel]
  /\ answer' \in Answers(query')
  /\ IF rel = "next"
     THEN walk' = walk \o answer'.listed /\ UNCHANGED start
     ELSE walk' = answer'.listed /\ start' = Parsed(query').page
  /\ UNCHANGED <<items, route>>

Next == \E rel \in Rels : Follow(rel)

Spec == Init /\ [][Next]_vars

-----------------------------------------------------------------------------

\* pagination.py, rewrite_link_header(): a client that follows a link keeps the
\* query it started with, per_page included; and no link carries a parameter
\* that the routes ignore ("a link that lies").
LinksKeepTheQuestion ==
  \A rel \in DOMAIN answer.links :
    LET asked == Parsed(query)
        next  == Parsed(answer.links[rel])
    IN  /\ DOMAIN answer.links[rel] \subseteq DOMAIN asked
        /\ next = [asked EXCEPT !.page = next.page]

\* What next links gather, page for page, is every issue between the first and
\* the current page once and in GitHub's order, however many pull requests the
\* pages lose on the way.
WalkGathersAll ==
  LET asked == Parsed(query)
      upTo  == asked.page * asked.per_page
      all   == Matching(asked)
      read  == SubSeq(all, (start - 1) * asked.per_page + 1,
                      IF upTo < Len(all) THEN upTo ELSE Len(all))
  IN  walk = InOrder[{n \in ToSet(read) : route = "issues" => ~items[n].pull}]

\* A page without a next link is the last one, even when it is short or empty
\* because of pull requests, unless GitHub's own link was damaged.
NothingLeftBehind ==
  "next" \notin DOMAIN answer.links /\ "next" \notin answer.damaged =>
    LET asked == Parsed(query)
    IN  Len(Matching(asked)) <= asked.page * asked.per_page

=============================================================================
