---------------------------- MODULE Walkthrough ----------------------------
(***************************************************************************)
(* docs/capture_ui.py and docs/build_walkthrough.py: a script drives the    *)
(* gateway's Swagger UI, photographs every step and notes the status it     *)
(* reads off the page; another one puts the pictures and the statuses of    *)
(* the manifest into a document.  The two share a directory and know        *)
(* nothing of each other: either may be started while the other is at work, *)
(* and either may fail anywhere.  There is one of each at a time.           *)
(*                                                                          *)
(* Swagger UI is external: it shows the last answer of each operation, and  *)
(* keeps showing it while the next call of that operation is under way.  An *)
(* answer is named by the step whose call it answers.  MaxRuns bounds the   *)
(* capture runs, MaxBuilds the builds.  BeginOverOldFiles, TableShownAlways *)
(* and FigureSwapped are slips that no specification uses.                  *)
(***************************************************************************)
EXTENDS Naturals, Sequences

CONSTANTS MaxRuns, MaxBuilds, Nothing

ASSUME WalkthroughAssumption ==
  /\ MaxRuns \in Nat /\ MaxBuilds \in Nat
  /\ Nothing \notin Nat

\* A picture of a page, of a form before its call, or of a call and its answer.
Page == [kind |-> "page"]
Form(op) == [kind |-> "form", op |-> op]
Call(op) == [kind |-> "call", op |-> op]

\* The shots 01, 01b, 02, ..., 17 in the order of main().
Opening == <<Page, Page, Page>>
Creating == <<Form("createIssue"), Call("createIssue"), Call("createIssue")>>
Managing == <<Call("listIssues"), Call("getIssue"), Call("updateIssue"), Call("updateIssue")>>
Commenting == <<Call("createComment"), Call("listComments")>>
Delivering == <<Call("receiveWebhook"), Call("receiveWebhook")>>
Watching == <<Call("listEvents"), Call("healthz")>>
Closing == <<Page, Page>>

Script ==
  Opening \o Creating \o Managing \o Commenting \o Delivering \o Watching \o Closing

Steps == DOMAIN Script
Operations == {Script[s].op : s \in {s \in Steps : Script[s].kind # "page"}}
NoFile == [s \in {} |-> Nothing]

VARIABLES run,             \* how many capture runs were started
          at,              \* the step of the run under way, 0 if there is none
          phase,           \* of the step: before, calling or tiled
          panel,           \* the answer Swagger UI shows for each operation
          flying,          \* the calls not answered yet
          tiles,           \* the answer on the tiles
          notes,           \* manifest, the list in memory: a status per shot
          pngs,            \* the pictures in docs/screenshots
          manifest,        \* manifest.json
          builds,          \* how many builds were started
          draft,           \* the document being built, NoDraft if there is none
          document         \* UI-Walkthrough.docx

captureVars == <<run, at, phase, panel, flying, tiles, notes>>
files == <<pngs, manifest>>
buildVars == <<builds, draft, document>>
vars == <<captureVars, files, buildVars>>

NoDraft == [stage |-> "none"]

Init ==
  /\ run = 0 /\ at = 0 /\ phase = "before"
  /\ panel = [op \in Operations |-> Nothing]
  /\ flying = {}
  /\ tiles = Nothing
  /\ notes = <<>>
  /\ pngs = NoFile
  /\ manifest = [run |-> 0]
  /\ builds = 0 /\ draft = NoDraft /\ document = <<>>

-----------------------------------------------------------------------------
\* capture_ui.py

Start ==
  /\ at = 0 /\ run < MaxRuns
  /\ run' = run + 1
  /\ at' = 1 /\ phase' = "before"
  /\ panel' = [op \in Operations |-> Nothing]
  /\ notes' = <<>> /\ tiles' = Nothing
  /\ UNCHANGED <<flying, manifest, buildVars>>

BeginOverOldFiles == Start /\ UNCHANGED pngs

\* The old pictures go first; the old manifest stays until there is a new one.
\* They go one by one: who reads one before it goes might have read it before.
Begin == Start /\ pngs' = NoFile

\* execute(): the call is sent.
Execute ==
  /\ at \in Steps /\ Script[at].kind = "call"
  /\ phase = "before"
  /\ phase' = "calling"
  /\ flying' = flying \cup {at}
  /\ UNCHANGED <<run, at, panel, tiles, notes, files, buildVars>>

\* The gateway answers, and Swagger UI shows it.
Arrive(s) ==
  /\ s \in flying
  /\ flying' = flying \ {s}
  /\ panel' = [panel EXCEPT ![Script[s].op] = s]
  /\ UNCHANGED <<run, at, phase, tiles, notes, files, buildVars>>

TableShownAlways(s) == TRUE

\* wait_for_selector(): there is a table of responses, of this call or another.
TableShown(s) == panel[Script[s].op] # Nothing

\* The status that stands on the page; a page of its own has none.
ResponseStatus(s) == IF Script[s].kind = "page" THEN Nothing ELSE panel[Script[s].op]

CaptureTiles ==
  /\ at \in Steps
  /\ IF Script[at].kind = "call" THEN phase = "calling" /\ TableShown(at)
     ELSE phase = "before"
  /\ phase' = "tiled"
  /\ tiles' = ResponseStatus(at)
  /\ UNCHANGED <<run, at, panel, flying, notes, files, buildVars>>

FigureSwapped(s) == [shows |-> ResponseStatus(s), status |-> tiles]
Figure(s) == [shows |-> tiles, status |-> ResponseStatus(s)]

\* _join() and _record(): the status is read after the tiles were taken.
Record ==
  /\ at \in Steps /\ phase = "tiled"
  /\ LET figure == Figure(at)
     IN  /\ pngs' = [s \in DOMAIN pngs \cup {at} |->
                       IF s = at THEN [run |-> run, shows |-> figure.shows] ELSE pngs[s]]
         /\ notes' = Append(notes, figure.status)
  /\ at' = at + 1 /\ phase' = "before" /\ tiles' = Nothing
  /\ UNCHANGED <<run, panel, flying, manifest, buildVars>>

WriteManifest ==
  /\ at = Len(Script) + 1
  /\ manifest' = [run |-> run, statuses |-> notes]
  /\ at' = 0 /\ flying' = {}
  /\ UNCHANGED <<run, phase, panel, tiles, notes, pngs, buildVars>>

\* A time-out, no issue number in the answer, Ctrl-C: the browser is gone.
Abort ==
  /\ at # 0
  /\ at' = 0 /\ flying' = {}
  /\ UNCHANGED <<run, phase, panel, tiles, notes, files, buildVars>>

-----------------------------------------------------------------------------
\* build_walkthrough.py

\* json.loads() of the manifest.  The field since, the run that was the last one
\* then, is of no account to the script.
ReadManifest ==
  /\ draft = NoDraft /\ builds < MaxBuilds
  /\ manifest.run # 0
  /\ builds' = builds + 1
  /\ draft' = [stage |-> "read", of |-> manifest, since |-> run, pictures |-> <<>>]
  /\ UNCHANGED <<captureVars, files, document>>

\* No file is missing, now.
CheckFiles ==
  /\ draft.stage = "read"
  /\ DOMAIN draft.of.statuses \subseteq DOMAIN pngs
  /\ draft' = [draft EXCEPT !.stage = "adding"]
  /\ UNCHANGED <<captureVars, files, builds, document>>

\* add_image(), for one shot after the other.
AddPicture ==
  LET next == Len(draft.pictures) + 1
  IN  /\ draft.stage = "adding"
      /\ next \in DOMAIN draft.of.statuses /\ next \in DOMAIN pngs
      /\ draft' = [draft EXCEPT !.pictures = Append(@, pngs[next])]
      /\ UNCHANGED <<captureVars, files, builds, document>>

\* doc.save().
Save ==
  /\ draft.stage = "adding"
  /\ Len(draft.pictures) = Len(draft.of.statuses)
  /\ document' = [of |-> draft.of, since |-> draft.since, until |-> run,
                  pictures |-> draft.pictures]
  /\ draft' = NoDraft
  /\ UNCHANGED <<captureVars, files, builds>>

\* A picture that is missing, gone since, or half written; or Ctrl-C.
BuildFails ==
  /\ draft # NoDraft
  /\ draft' = NoDraft
  /\ UNCHANGED <<captureVars, files, builds, document>>

Next ==
  \/ Begin
  \/ Execute
  \/ \E s \in flying : Arrive(s)
  \/ CaptureTiles
  \/ Record
  \/ WriteManifest
  \/ Abort
  \/ ReadManifest
  \/ CheckFiles
  \/ AddPicture
  \/ Save
  \/ BuildFails

Spec == Init /\ [][Next]_vars

-----------------------------------------------------------------------------

Repeats(s) ==
  \E t \in 1..(s - 1) : Script[t].kind = "call" /\ Script[t].op = Script[s].op

\* "The status column is what the service actually returned": a noted status is
\* an answer of the operation in that very run, and the answer of the step's own
\* call, unless the operation was called before.  Then it may be the answer to
\* the earlier call (05, 09 and 13), because the table waited for is there.
StatusIsItsOwn ==
  \A s \in DOMAIN notes :
    IF Script[s].kind = "call"
    THEN /\ notes[s] # Nothing
         /\ Script[notes[s]].op = Script[s].op /\ notes[s] <= s
         /\ notes[s] = s \/ Repeats(s)
    ELSE notes[s] = Nothing

\* A status is never older than the picture above it: where the picture shows the
\* step's own answer, the status is that answer's.
StatusFollowsPicture ==
  at # 0 =>
    \A s \in DOMAIN notes : Script[s].kind = "call" /\ pngs[s].shows = s => notes[s] = s

\* A document is made of all the steps.  Its statuses are those of one run, and no
\* picture is of an earlier one, or of an earlier run than the picture before it:
\* so they are all of one run if none began while it was built.  Where a picture
\* is of the run of the statuses and shows the step's own answer, the status next
\* to it is that answer's.
DocumentIsWhole ==
  document # <<>> =>
    /\ DOMAIN document.of.statuses = Steps /\ DOMAIN document.pictures = Steps
    /\ \A s \in Steps :
         LET picture == document.pictures[s]
         IN  /\ document.of.run <= document.since
             /\ document.since <= picture.run /\ picture.run <= document.until
             /\ \A t \in 1..s : document.pictures[t].run <= picture.run
             /\ /\ Script[s].kind = "call"
                /\ picture.run = document.of.run /\ picture.shows = s
                => document.of.statuses[s] = s

=============================================================================
