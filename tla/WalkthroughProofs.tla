-------------------------- MODULE WalkthroughProofs --------------------------
(***************************************************************************)
(* For any number of capture runs and builds, aborted anywhere: the status  *)
(* of a step is an answer of its own run to its own operation and no older  *)
(* than the picture above it, and a document takes its pictures from the    *)
(* runs that were the last ones while it was built.                         *)
(*                                                                          *)
(* ScriptFacts is all that the proofs use of the script.  That no operation *)
(* is called more than twice matters: the first answer of a pair has        *)
(* arrived when the second call is made, so it cannot come between that     *)
(* call's tiles and its status.                                             *)
(***************************************************************************)
EXTENDS Walkthrough, SequenceTheorems, TLAPS

Calls == {s \in Steps : Script[s].kind = "call"}

\* What the page and the script know of each other.  While a run goes on, answers
\* are to its own calls; what is still to come is not the first of its operation,
\* but for the call just made.
AnswersAreSound ==
  /\ at \in 0..(Len(Script) + 1)
  /\ flying \subseteq Calls
  /\ \A s \in flying : s <= at /\ (s = at \/ Repeats(s))
  /\ panel \in [Operations -> Calls \cup {Nothing}]
  /\ \A op \in Operations : panel[op] # Nothing =>
       /\ Script[panel[op]].op = op
       /\ panel[op] \notin flying
       /\ at # 0 => panel[op] <= at
  /\ at # 0 /\ phase = "before" => at \notin flying /\ \A op \in Operations : panel[op] # at
  /\ at \in Calls /\ phase = "tiled" =>
       /\ panel[Script[at].op] # Nothing
       /\ tiles = at => panel[Script[at].op] = at
  /\ tiles \in Calls \cup {Nothing}

\* The statuses of the run, one for each step that was recorded.
NotesAreSound ==
  /\ notes \in Seq(Calls \cup {Nothing}) /\ Len(notes) <= Len(Script)
  /\ at # 0 => Len(notes) = at - 1
  /\ StatusIsItsOwn
  /\ StatusFollowsPicture

Shots == [run : Nat, shows : Calls \cup {Nothing}]

\* A picture of step s and the status that manifest m has for it: if they are of
\* one run and the picture shows the step's own answer, the status is that answer's.
GoTogether(m, s, picture) ==
  Script[s].kind = "call" /\ picture.run = m.run /\ picture.shows = s =>
    m.statuses[s] = s

\* What stands in the directory: the pictures of the last run, in the order of
\* the script, and the manifest of a run that came to its end.
FilesAreSound ==
  /\ run \in Nat
  /\ DOMAIN pngs \subseteq Steps
  /\ at # 0 => DOMAIN pngs = 1..(at - 1) /\ run # 0
  /\ \A s \in DOMAIN pngs : pngs[s] \in Shots /\ pngs[s].run = run
  /\ manifest.run \in 0..run
  /\ at # 0 => manifest.run < run
  /\ manifest.run # 0 => manifest.statuses \in Seq(Calls \cup {Nothing})
                         /\ DOMAIN manifest.statuses = Steps
  /\ \A s \in DOMAIN pngs : manifest.run # 0 => GoTogether(manifest, s, pngs[s])

\* The pictures taken into a document for manifest m, from the run since on.
PicturesAreSound(m, since, until, pictures) ==
  /\ m.run # 0 /\ m.statuses \in Seq(Calls \cup {Nothing}) /\ DOMAIN m.statuses = Steps
  /\ m.run \in Nat /\ since \in Nat /\ until \in Nat
  /\ m.run <= since /\ since <= until
  /\ pictures \in Seq(Shots)
  /\ \A s \in DOMAIN pictures :
       /\ since <= pictures[s].run /\ pictures[s].run <= until
       /\ \A t \in 1..s : pictures[t].run <= pictures[s].run
       /\ GoTogether(m, s, pictures[s])

\* While a document is built a run may begin and end, and replace the manifest.
DraftIsSound ==
  draft # NoDraft =>
    /\ draft = [stage |-> draft.stage, of |-> draft.of, since |-> draft.since,
                pictures |-> draft.pictures]
    /\ PicturesAreSound(draft.of, draft.since, run, draft.pictures)
    /\ draft.of.run <= manifest.run
    /\ draft.of.run = manifest.run => draft.of = manifest

BuildIsSound == DraftIsSound /\ DocumentIsWhole

WalkthroughInvariant ==
  AnswersAreSound /\ NotesAreSound /\ FilesAreSound /\ BuildIsSound

(***************************************************************************)
(* A form is photographed before the first call, and no operation is called *)
(* three times.                                                             *)
(***************************************************************************)
LEMMA ScriptFacts ==
  /\ Len(Script) = 18 /\ Steps = 1..18
  /\ \A s \in Steps : Script[s].kind \in {"page", "form", "call"}
  /\ \A s \in Steps : Script[s].kind = "form" =>
       \A t \in 1..(s - 1) : Script[t].kind # "call"
  /\ \A r, s, t \in Calls : r < s /\ s < t =>
       ~(Script[r].op = Script[s].op /\ Script[s].op = Script[t].op)
<1>1. Len(Script) = 18 /\ Steps = 1..18
  BY DEF Steps, Script, Opening, Creating, Managing, Commenting, Delivering, Watching, Closing,
         Page, Form, Call
<1>2. \A s \in 1..18 : Script[s].kind \in {"page", "form", "call"}
  BY DEF Script, Opening, Creating, Managing, Commenting, Delivering, Watching, Closing,
         Page, Form, Call
<1>3. \A s \in 1..18 : Script[s].kind = "form" => \A t \in 1..(s - 1) : Script[t].kind # "call"
  BY DEF Script, Opening, Creating, Managing, Commenting, Delivering, Watching, Closing,
         Page, Form, Call
<1>4. \A r, s, t \in 1..18 : r < s /\ s < t
        /\ Script[r].kind = "call" /\ Script[s].kind = "call" /\ Script[t].kind = "call"
        => ~(Script[r].op = Script[s].op /\ Script[s].op = Script[t].op)
  BY DEF Script, Opening, Creating, Managing, Commenting, Delivering, Watching, Closing,
         Page, Form, Call
<1>. QED  BY <1>1, <1>2, <1>3, <1>4 DEF Calls

LEMMA OperationOfStep ==
  ASSUME NEW s \in Steps, Script[s].kind # "page"
  PROVE  Script[s].op \in Operations
BY DEF Operations

LEMMA CallsAreSteps ==
  /\ Calls \subseteq 1..18
  /\ \A s \in Calls : s \in Nat /\ s # Nothing /\ Script[s].op \in Operations
BY ScriptFacts, OperationOfStep, WalkthroughAssumption DEF Calls

(***************************************************************************)
(* One lemma for each step.                                                 *)
(***************************************************************************)
LEMMA InvariantInitially == Init => WalkthroughInvariant
<1>. SUFFICES ASSUME Init PROVE WalkthroughInvariant
  OBVIOUS
<1>1. /\ notes \in Seq(Calls \cup {Nothing}) /\ Len(notes) = 0 /\ DOMAIN notes = {}
      /\ DOMAIN pngs = {}
  BY EmptySeq DEF Init, NoFile
<1>2. AnswersAreSound
  BY ScriptFacts, CallsAreSteps DEF Init, AnswersAreSound
<1>3. NotesAreSound
  BY <1>1, ScriptFacts DEF Init, NotesAreSound, StatusIsItsOwn, StatusFollowsPicture
<1>4. FilesAreSound
  BY <1>1 DEF Init, FilesAreSound
<1>5. BuildIsSound
  BY DEF Init, BuildIsSound, DraftIsSound, DocumentIsWhole
<1>. QED  BY <1>2, <1>3, <1>4, <1>5 DEF WalkthroughInvariant

LEMMA PictureOfDraft ==
  ASSUME NEW pictures \in Seq(Shots), NEW s \in DOMAIN pictures
  PROVE  pictures[s] \in Shots /\ pictures[s].run \in Nat
<1>1. pictures[s] \in Shots
  BY LenProperties
<1>. QED  BY <1>1 DEF Shots

\* A capture run does not disturb a document that is being built, as far as it is.
LEMMA BuildUndisturbed ==
  ASSUME FilesAreSound, BuildIsSound, UNCHANGED <<manifest, buildVars>>,
         run' \in Nat, run <= run'
  PROVE  BuildIsSound'
<1>1. draft' = draft /\ document' = document /\ manifest' = manifest
  BY DEF buildVars
<1>2. DocumentIsWhole'
  BY <1>1 DEF BuildIsSound, DocumentIsWhole
<1>3. ASSUME draft # NoDraft
      PROVE  PicturesAreSound(draft.of, draft.since, run', draft.pictures)
  <2>1. PicturesAreSound(draft.of, draft.since, run, draft.pictures)
    BY <1>3 DEF BuildIsSound, DraftIsSound
  <2>2. \A s \in DOMAIN draft.pictures : draft.pictures[s].run \in Nat
    BY <2>1, PictureOfDraft DEF PicturesAreSound
  <2>. QED  BY <2>1, <2>2 DEF PicturesAreSound
<1>4. DraftIsSound'
  BY <1>1, <1>3 DEF BuildIsSound, DraftIsSound
<1>. QED  BY <1>2, <1>4 DEF BuildIsSound

LEMMA BeginPreserves ==
  ASSUME WalkthroughInvariant, Begin
  PROVE  WalkthroughInvariant'
<1>. USE DEF WalkthroughInvariant
<1>1. /\ notes' \in Seq(Calls \cup {Nothing}) /\ Len(notes') = 0 /\ DOMAIN notes' = {}
      /\ DOMAIN pngs' = {} /\ 1..0 = {}
  BY EmptySeq DEF Begin, Start, NoFile
<1>2. at = 0 /\ flying = {}
  <2>1. at = 0 /\ \A s \in flying : s <= at /\ s \in 1..18
    BY CallsAreSteps DEF Begin, Start, AnswersAreSound
  <2>. QED  BY <2>1
<1>3. AnswersAreSound'
  BY <1>2, ScriptFacts, CallsAreSteps, WalkthroughAssumption DEF Begin, Start, AnswersAreSound
<1>4. NotesAreSound'
  BY <1>1, ScriptFacts DEF Begin, Start, NotesAreSound, StatusIsItsOwn, StatusFollowsPicture
<1>5. FilesAreSound'
  BY <1>1 DEF Begin, Start, FilesAreSound
<1>6. BuildIsSound'
  BY BuildUndisturbed DEF Begin, Start, FilesAreSound
<1>. QED  BY <1>3, <1>4, <1>5, <1>6

\* A step that leaves the notes and the files, and does not start or end a run.
LEMMA NothingWritten ==
  ASSUME NotesAreSound, FilesAreSound, BuildIsSound,
         UNCHANGED <<run, at, notes, files, buildVars>>
  PROVE  NotesAreSound' /\ FilesAreSound' /\ BuildIsSound'
<1>1. NotesAreSound' /\ FilesAreSound'
  BY DEF NotesAreSound, FilesAreSound, StatusIsItsOwn, StatusFollowsPicture, files
<1>2. BuildIsSound'
  BY BuildUndisturbed DEF files, FilesAreSound
<1>. QED  BY <1>1, <1>2

LEMMA ExecutePreserves ==
  ASSUME WalkthroughInvariant, Execute
  PROVE  WalkthroughInvariant'
<1>. USE DEF WalkthroughInvariant
<1>1. NotesAreSound' /\ FilesAreSound' /\ BuildIsSound'
  BY NothingWritten DEF Execute
<1>2. at \in Calls /\ at \in 1..18 /\ flying' = flying \cup {at} /\ phase' = "calling"
  BY ScriptFacts DEF Execute, Calls
<1>3. AnswersAreSound'
  BY <1>2 DEF Execute, AnswersAreSound
<1>. QED  BY <1>1, <1>3

LEMMA ArrivePreserves ==
  ASSUME WalkthroughInvariant, NEW s \in flying, Arrive(s)
  PROVE  WalkthroughInvariant'
<1>. USE DEF WalkthroughInvariant
<1>1. NotesAreSound' /\ FilesAreSound' /\ BuildIsSound'
  BY NothingWritten DEF Arrive
<1>2. s \in Calls /\ s <= at /\ (s = at \/ Repeats(s))
      /\ s \in Nat /\ s # Nothing /\ Script[s].op \in Operations
  BY CallsAreSteps DEF AnswersAreSound
<1>3. /\ panel' = [panel EXCEPT ![Script[s].op] = s] /\ flying' = flying \ {s}
      /\ UNCHANGED <<at, phase, tiles>>
  BY DEF Arrive
<1>4. /\ panel' \in [Operations -> Calls \cup {Nothing}]
      /\ \A op \in Operations : panel'[op] # Nothing =>
           /\ Script[panel'[op]].op = op
           /\ panel'[op] \notin flying'
           /\ at' # 0 => panel'[op] <= at'
  BY <1>2, <1>3 DEF AnswersAreSound
<1>5. ASSUME at # 0, phase = "before"
      PROVE  at \notin flying' /\ \A op \in Operations : panel'[op] # at
  BY <1>2, <1>3, <1>5 DEF AnswersAreSound
<1>6. ASSUME at \in Calls, phase = "tiled"
      PROVE  /\ panel'[Script[at].op] # Nothing
             /\ tiles = at => panel'[Script[at].op] = at
  <2>1. Script[at].op \in Operations /\ at \in 1..18
    BY <1>6, CallsAreSteps
  <2>2. CASE s = at
    BY <1>2, <1>3, <2>1, <2>2 DEF AnswersAreSound
  <2>3. CASE s # at /\ Script[s].op = Script[at].op
    <3>1. PICK t \in 1..(s - 1) : Script[t].kind = "call" /\ Script[t].op = Script[s].op
      BY <1>2, <2>3 DEF Repeats
    <3>2. t \in Calls /\ t < s /\ s < at
      BY <1>2, <2>1, <2>3, <3>1, ScriptFacts DEF Calls
    <3>. QED  BY <1>2, <1>6, <2>3, <3>1, <3>2, ScriptFacts
  <2>4. CASE Script[s].op # Script[at].op
    BY <1>3, <1>6, <2>1, <2>4 DEF AnswersAreSound
  <2>. QED  BY <2>2, <2>3, <2>4
<1>7. flying' \subseteq Calls /\ \A q \in flying' : q <= at /\ (q = at \/ Repeats(q))
  BY <1>3 DEF AnswersAreSound
<1>8. AnswersAreSound'
  BY <1>3, <1>4, <1>5, <1>6, <1>7 DEF AnswersAreSound, Repeats
<1>. QED  BY <1>1, <1>8

LEMMA CaptureTilesPreserves ==
  ASSUME WalkthroughInvariant, CaptureTiles
  PROVE  WalkthroughInvariant'
<1>. USE DEF WalkthroughInvariant
<1>1. NotesAreSound' /\ FilesAreSound' /\ BuildIsSound'
  BY NothingWritten DEF CaptureTiles
<1>2. at \in Calls => TableShown(at) /\ tiles' = panel[Script[at].op]
  BY DEF CaptureTiles, ResponseStatus, Calls
<1>3. tiles' \in Calls \cup {Nothing}
  <2>1. Script[at].kind # "page" => Script[at].op \in Operations
    BY OperationOfStep DEF CaptureTiles
  <2>. QED  BY <2>1 DEF CaptureTiles, ResponseStatus, AnswersAreSound
<1>4. AnswersAreSound'
  BY <1>2, <1>3 DEF CaptureTiles, TableShown, AnswersAreSound, Repeats
<1>. QED  BY <1>1, <1>4

(***************************************************************************)
(* What is recorded as the status of a step.                                *)
(***************************************************************************)
LEMMA StatusRead ==
  ASSUME AnswersAreSound, at \in Steps, phase = "tiled"
  PROVE  /\ ResponseStatus(at) \in Calls \cup {Nothing}
         /\ at \in Calls =>
              /\ ResponseStatus(at) \in Calls /\ ResponseStatus(at) # Nothing
              /\ Script[ResponseStatus(at)].op = Script[at].op /\ ResponseStatus(at) <= at
              /\ ResponseStatus(at) = at \/ Repeats(at)
              /\ ResponseStatus(at) \notin flying
              /\ tiles = at => ResponseStatus(at) = at
         /\ at \notin Calls => ResponseStatus(at) = Nothing
<1>1. at \in 1..18 /\ at # 0
  BY ScriptFacts
<1>2. CASE at \in Calls
  <2>1. Script[at].op \in Operations /\ Script[at].kind = "call"
    BY <1>2, CallsAreSteps DEF Calls
  <2>2. PICK p \in Calls : p = panel[Script[at].op]
    BY <1>2, <2>1 DEF AnswersAreSound
  <2>3. ResponseStatus(at) = p
    BY <2>1, <2>2 DEF ResponseStatus
  <2>4. /\ p # Nothing /\ Script[p].op = Script[at].op /\ p \notin flying /\ p <= at
        /\ tiles = at => p = at
    BY <1>1, <1>2, <2>1, <2>2 DEF AnswersAreSound
  <2>5. p \in 1..18 /\ Script[p].kind = "call"
    BY CallsAreSteps DEF Calls
  <2>6. p = at \/ Repeats(at)
    <3>1. p # at => p \in 1..(at - 1)
      BY <1>1, <2>4, <2>5
    <3>. QED  BY <2>4, <2>5, <3>1 DEF Repeats
  <2>. QED  BY <1>2, <2>3, <2>4, <2>6
<1>3. CASE Script[at].kind = "page"
  BY <1>3 DEF ResponseStatus, Calls
<1>4. CASE Script[at].kind = "form"
  <2>1. Script[at].op \in Operations /\ at \notin Calls
    BY <1>4, OperationOfStep DEF Calls
  <2>2. ASSUME NEW p \in Calls, p = panel[Script[at].op] PROVE FALSE
    <3>1. p \in 1..18 /\ Script[p].kind = "call" /\ p # Nothing
      BY CallsAreSteps DEF Calls
    <3>2. p <= at /\ p # at
      BY <1>1, <2>1, <2>2, <3>1 DEF AnswersAreSound
    <3>. QED  BY <1>1, <1>4, <3>1, <3>2, ScriptFacts
  <2>3. panel[Script[at].op] = Nothing
    BY <2>1, <2>2 DEF AnswersAreSound
  <2>. QED  BY <1>4, <2>1, <2>3 DEF ResponseStatus
<1>. QED  BY <1>2, <1>3, <1>4, ScriptFacts DEF Calls

LEMMA RecordPreserves ==
  ASSUME WalkthroughInvariant, Record
  PROVE  WalkthroughInvariant'
<1>. USE DEF WalkthroughInvariant
<1>. DEFINE st == ResponseStatus(at)
<1>1. /\ at \in Steps /\ phase = "tiled" /\ at \in 1..18
      /\ at' = at + 1 /\ phase' = "before"
      /\ UNCHANGED <<run, panel, flying, manifest, buildVars>>
      /\ tiles' = Nothing
  BY ScriptFacts DEF Record
<1>2. /\ notes' = Append(notes, st)
      /\ pngs' = [s \in DOMAIN pngs \cup {at} |->
                    IF s = at THEN [run |-> run, shows |-> tiles] ELSE pngs[s]]
  BY DEF Record, Figure
<1>3. /\ st \in Calls \cup {Nothing}
      /\ at \in Calls =>
           /\ st \in Calls /\ st # Nothing
           /\ Script[st].op = Script[at].op /\ st <= at
           /\ st = at \/ Repeats(at)
           /\ st \notin flying
           /\ tiles = at => st = at
      /\ at \notin Calls => st = Nothing
  BY <1>1, StatusRead
<1>. HIDE DEF st
<1>4. AnswersAreSound'
  <2>1. \A s \in flying : s \in 1..18 /\ s <= at /\ (s = at \/ Repeats(s))
    BY CallsAreSteps DEF AnswersAreSound
  <2>2. at \in flying => Repeats(at)
    BY <1>3 DEF AnswersAreSound
  <2>3. \A op \in Operations : panel[op] \in Calls => panel[op] \in 1..18 /\ panel[op] <= at
    <3>. SUFFICES ASSUME NEW op \in Operations, panel[op] \in Calls
                  PROVE  panel[op] \in 1..18 /\ panel[op] <= at
      OBVIOUS
    <3>1. panel[op] \in 1..18 /\ panel[op] # Nothing
      BY CallsAreSteps
    <3>. QED  BY <1>1, <3>1 DEF AnswersAreSound
  <2>4. \A op \in Operations : panel[op] # at + 1
    BY <1>1, <2>3, WalkthroughAssumption DEF AnswersAreSound
  <2>5. \A s \in flying' : s <= at' /\ (s = at' \/ Repeats(s))
    BY <1>1, <2>1, <2>2
  <2>6. at' \notin flying' /\ at' \in 0..(Len(Script) + 1)
    BY <1>1, <2>1, ScriptFacts
  <2>7. \A op \in Operations : panel'[op] # Nothing =>
          /\ Script[panel'[op]].op = op
          /\ panel'[op] \notin flying'
          /\ at' # 0 => panel'[op] <= at'
    BY <1>1, <2>3 DEF AnswersAreSound
  <2>. QED  BY <1>1, <2>4, <2>5, <2>6, <2>7 DEF AnswersAreSound, Repeats
<1>5. /\ notes' \in Seq(Calls \cup {Nothing}) /\ Len(notes') = at
      /\ DOMAIN notes' = 1..at /\ DOMAIN notes = 1..(at - 1)
      /\ notes'[at] = st /\ \A s \in 1..(at - 1) : notes'[s] = notes[s]
  <2>1. notes \in Seq(Calls \cup {Nothing}) /\ Len(notes) = at - 1
    BY <1>1 DEF NotesAreSound
  <2>. QED  BY <1>1, <1>2, <1>3, <2>1, AppendProperties, LenProperties
<1>6. /\ DOMAIN pngs' = 1..at /\ DOMAIN pngs = 1..(at - 1)
      /\ pngs'[at] = [run |-> run, shows |-> tiles]
      /\ \A s \in 1..(at - 1) : pngs'[s] = pngs[s]
  <2>1. DOMAIN pngs = 1..(at - 1)
    BY <1>1 DEF FilesAreSound
  <2>. QED  BY <1>1, <1>2, <2>1
<1>7. NotesAreSound'
  <2>1. StatusIsItsOwn'
    <3>1. ASSUME NEW s \in 1..(at - 1)
          PROVE  IF Script[s].kind = "call"
                 THEN /\ notes'[s] # Nothing
                      /\ Script[notes'[s]].op = Script[s].op /\ notes'[s] <= s
                      /\ notes'[s] = s \/ Repeats(s)
                 ELSE notes'[s] = Nothing
      BY <1>5 DEF NotesAreSound, StatusIsItsOwn
    <3>2. IF Script[at].kind = "call"
          THEN /\ notes'[at] # Nothing
               /\ Script[notes'[at]].op = Script[at].op /\ notes'[at] <= at
               /\ notes'[at] = at \/ Repeats(at)
          ELSE notes'[at] = Nothing
      BY <1>1, <1>3, <1>5 DEF Calls
    <3>3. \A s \in 1..at : s = at \/ s \in 1..(at - 1)
      BY <1>1
    <3>. QED  BY <1>5, <3>1, <3>2, <3>3 DEF StatusIsItsOwn, Repeats
  <2>2. StatusFollowsPicture'
    <3>1. ASSUME NEW s \in 1..at, Script[s].kind = "call", pngs'[s].shows = s
          PROVE  notes'[s] = s
      <4>1. CASE s = at
        BY <1>1, <1>3, <1>5, <1>6, <3>1, <4>1 DEF Calls
      <4>2. CASE s # at
        BY <1>1, <1>5, <1>6, <3>1, <4>2 DEF NotesAreSound, StatusFollowsPicture
      <4>. QED  BY <4>1, <4>2
    <3>. QED  BY <1>5, <3>1 DEF StatusFollowsPicture
  <2>3. at' = at + 1 /\ at \in 1..18
    BY <1>1
  <2>. QED  BY <1>5, <2>1, <2>2, <2>3, ScriptFacts DEF NotesAreSound
<1>8. FilesAreSound'
  <2>1. \A s \in DOMAIN pngs' : pngs'[s] \in Shots /\ pngs'[s].run = run
    <3>1. [run |-> run, shows |-> tiles] \in Shots
      BY DEF FilesAreSound, AnswersAreSound, Shots
    <3>. QED  BY <1>1, <1>6, <3>1 DEF FilesAreSound
  <2>2. DOMAIN pngs' = 1..(at' - 1) /\ DOMAIN pngs' \subseteq Steps
    BY <1>1, <1>6, ScriptFacts
  <2>3. manifest.run < run
    BY <1>1 DEF FilesAreSound
  <2>4. \A s \in DOMAIN pngs' : GoTogether(manifest, s, pngs'[s])
    BY <2>1, <2>3 DEF GoTogether, FilesAreSound
  <2>. QED  BY <1>1, <2>1, <2>2, <2>3, <2>4 DEF FilesAreSound
<1>9. BuildIsSound'
  BY <1>1, BuildUndisturbed DEF FilesAreSound
<1>. QED  BY <1>4, <1>7, <1>8, <1>9

LEMMA EndOfRunKeepsAnswers ==
  ASSUME AnswersAreSound, at' = 0, flying' = {}, UNCHANGED <<panel, phase, tiles>>
  PROVE  AnswersAreSound'
BY ScriptFacts, CallsAreSteps DEF AnswersAreSound

LEMMA WriteManifestPreserves ==
  ASSUME WalkthroughInvariant, WriteManifest
  PROVE  WalkthroughInvariant'
<1>. USE DEF WalkthroughInvariant
<1>1. AnswersAreSound'
  BY EndOfRunKeepsAnswers DEF WriteManifest
<1>2. Len(notes) = Len(Script) /\ DOMAIN notes = Steps /\ at # 0
  BY ScriptFacts, LenProperties DEF WriteManifest, NotesAreSound
<1>3. NotesAreSound'
  BY DEF WriteManifest, NotesAreSound, StatusIsItsOwn, StatusFollowsPicture
<1>4. /\ at' = 0 /\ manifest' = [run |-> run, statuses |-> notes]
      /\ UNCHANGED <<run, notes, pngs, buildVars>>
  BY DEF WriteManifest
<1>5. run \in Nat /\ run # 0 /\ manifest.run < run /\ manifest.run \in Nat
      /\ manifest'.run = run /\ manifest'.statuses = notes
  BY <1>2, <1>4 DEF FilesAreSound
<1>6. FilesAreSound'
  <2>1. \A s \in DOMAIN pngs : GoTogether(manifest', s, pngs[s])
    BY <1>2, <1>5 DEF GoTogether, NotesAreSound, StatusFollowsPicture, FilesAreSound
  <2>2. notes \in Seq(Calls \cup {Nothing})
    BY DEF NotesAreSound
  <2>. QED  BY <1>2, <1>4, <1>5, <2>1, <2>2 DEF FilesAreSound
<1>7. BuildIsSound'
  <2>1. DocumentIsWhole'
    BY <1>4 DEF buildVars, BuildIsSound, DocumentIsWhole
  <2>2. draft # NoDraft => draft.of.run \in Nat /\ draft.of.run < run
    BY <1>5 DEF BuildIsSound, DraftIsSound, PicturesAreSound
  <2>3. DraftIsSound'
    BY <1>4, <1>5, <2>2 DEF buildVars, BuildIsSound, DraftIsSound
  <2>. QED  BY <2>1, <2>3 DEF BuildIsSound
<1>. QED  BY <1>1, <1>3, <1>6, <1>7

LEMMA AbortPreserves ==
  ASSUME WalkthroughInvariant, Abort
  PROVE  WalkthroughInvariant'
<1>. USE DEF WalkthroughInvariant
<1>1. AnswersAreSound'
  BY EndOfRunKeepsAnswers DEF Abort
<1>2. NotesAreSound'
  BY DEF Abort, NotesAreSound, StatusIsItsOwn, StatusFollowsPicture
<1>3. FilesAreSound'
  BY DEF Abort, FilesAreSound, files
<1>4. BuildIsSound'
  BY BuildUndisturbed DEF Abort, files, FilesAreSound
<1>. QED  BY <1>1, <1>2, <1>3, <1>4

\* Nor does building a document disturb a capture run.
LEMMA CaptureUndisturbed ==
  ASSUME WalkthroughInvariant, UNCHANGED <<captureVars, files>>
  PROVE  AnswersAreSound' /\ NotesAreSound' /\ FilesAreSound'
<1>. USE DEF WalkthroughInvariant
<1>1. AnswersAreSound' /\ NotesAreSound'
  BY DEF captureVars, files, AnswersAreSound, NotesAreSound, Repeats, StatusIsItsOwn,
         StatusFollowsPicture
<1>2. FilesAreSound'
  BY DEF captureVars, files, FilesAreSound
<1>. QED  BY <1>1, <1>2

LEMMA ReadManifestPreserves ==
  ASSUME WalkthroughInvariant, ReadManifest
  PROVE  WalkthroughInvariant'
<1>. USE DEF WalkthroughInvariant
<1>1. AnswersAreSound' /\ NotesAreSound' /\ FilesAreSound'
  BY CaptureUndisturbed DEF ReadManifest
<1>2. /\ manifest.run # 0 /\ UNCHANGED <<run, manifest, document>>
      /\ draft' = [stage |-> "read", of |-> manifest, since |-> run, pictures |-> <<>>]
  BY DEF ReadManifest, captureVars, files
<1>3. PicturesAreSound(manifest, run, run, <<>>)
  BY <1>2, EmptySeq DEF PicturesAreSound, FilesAreSound
<1>4. DraftIsSound'
  BY <1>2, <1>3 DEF DraftIsSound, FilesAreSound
<1>5. DocumentIsWhole'
  BY <1>2 DEF BuildIsSound, DocumentIsWhole
<1>. QED  BY <1>1, <1>4, <1>5 DEF BuildIsSound

LEMMA CheckFilesPreserves ==
  ASSUME WalkthroughInvariant, CheckFiles
  PROVE  WalkthroughInvariant'
<1>. USE DEF WalkthroughInvariant
<1>1. AnswersAreSound' /\ NotesAreSound' /\ FilesAreSound'
  BY CaptureUndisturbed DEF CheckFiles
<1>2. /\ draft.stage = "read" /\ UNCHANGED <<run, manifest, document>>
      /\ draft' = [draft EXCEPT !.stage = "adding"]
  BY DEF CheckFiles, captureVars, files
<1>3. draft # NoDraft
  BY <1>2 DEF NoDraft
<1>4. draft' = [stage |-> "adding", of |-> draft.of, since |-> draft.since,
                pictures |-> draft.pictures]
  BY <1>2, <1>3 DEF BuildIsSound, DraftIsSound
<1>5. DraftIsSound'
  BY <1>2, <1>3, <1>4 DEF BuildIsSound, DraftIsSound
<1>6. DocumentIsWhole'
  BY <1>2 DEF BuildIsSound, DocumentIsWhole
<1>. QED  BY <1>1, <1>5, <1>6 DEF BuildIsSound

\* The picture added is of the last run, which is none of those before it.
LEMMA AddPicturePreserves ==
  ASSUME WalkthroughInvariant, AddPicture
  PROVE  WalkthroughInvariant'
<1>. USE DEF WalkthroughInvariant
<1>1. AnswersAreSound' /\ NotesAreSound' /\ FilesAreSound'
  BY CaptureUndisturbed DEF AddPicture
<1>. DEFINE n == Len(draft.pictures) + 1
            more == Append(draft.pictures, pngs[n])
<1>2. /\ draft.stage = "adding" /\ n \in DOMAIN pngs /\ UNCHANGED <<run, manifest, document>>
      /\ draft' = [draft EXCEPT !.pictures = more]
  BY DEF AddPicture, captureVars, files
<1>3. draft # NoDraft
  BY <1>2 DEF NoDraft
<1>4. /\ draft' = [stage |-> draft.stage, of |-> draft.of, since |-> draft.since,
                   pictures |-> more]
      /\ PicturesAreSound(draft.of, draft.since, run, draft.pictures)
      /\ draft.of.run <= manifest.run
      /\ draft.of.run = manifest.run => draft.of = manifest
  BY <1>2, <1>3 DEF BuildIsSound, DraftIsSound
<1>5. PicturesAreSound(draft.of, draft.since, run, more)
  <2>1. /\ pngs[n] \in Shots /\ pngs[n].run = run
        /\ run \in Nat /\ manifest.run \in 0..run
        /\ manifest.run # 0 => GoTogether(manifest, n, pngs[n])
    BY <1>2 DEF FilesAreSound
  <2>2. draft.pictures \in Seq(Shots) /\ Len(draft.pictures) \in Nat
        /\ DOMAIN draft.pictures = 1..(n - 1)
    BY <1>4, LenProperties DEF PicturesAreSound
  <2>3. /\ more \in Seq(Shots) /\ DOMAIN more = 1..n /\ more[n] = pngs[n]
        /\ \A s \in 1..(n - 1) : more[s] = draft.pictures[s]
    BY <2>1, <2>2, AppendProperties, LenProperties
  <2>4. GoTogether(draft.of, n, pngs[n])
    BY <1>4, <2>1 DEF GoTogether, PicturesAreSound
  <2> HIDE DEF n, more
  <2>5. n \in Nat
    BY <2>2 DEF n
  <2>6. \A t \in 1..n : more[t].run \in Nat /\ more[t].run <= run
    <3>1. SUFFICES ASSUME NEW t \in 1..n PROVE more[t].run \in Nat /\ more[t].run <= run
      OBVIOUS
    <3>2. CASE t = n
      BY <2>1, <2>3, <3>2
    <3>3. CASE t # n
      <4>1. t \in 1..(n - 1) /\ t \in DOMAIN draft.pictures
        BY <2>2, <2>5, <3>3
      <4>2. draft.pictures[t].run <= run /\ draft.pictures[t].run \in Nat
        BY <1>4, <2>2, <4>1, PictureOfDraft DEF PicturesAreSound
      <4>. QED  BY <2>3, <4>1, <4>2
    <3>. QED  BY <3>2, <3>3
  <2>7. \A s \in DOMAIN more :
          /\ draft.since <= more[s].run /\ more[s].run <= run
          /\ \A t \in 1..s : more[t].run <= more[s].run
          /\ GoTogether(draft.of, s, more[s])
    <3>1. SUFFICES ASSUME NEW s \in 1..n
                   PROVE  /\ draft.since <= more[s].run /\ more[s].run <= run
                          /\ \A t \in 1..s : more[t].run <= more[s].run
                          /\ GoTogether(draft.of, s, more[s])
      BY <2>3
    <3>2. CASE s = n
      BY <1>4, <2>1, <2>3, <2>4, <2>6, <3>2 DEF PicturesAreSound
    <3>3. CASE s # n
      <4>1. s \in 1..(n - 1) /\ s \in DOMAIN draft.pictures
            /\ \A t \in 1..s : t \in 1..(n - 1)
        BY <2>2, <2>5, <3>3
      <4>. QED  BY <1>4, <2>3, <4>1 DEF PicturesAreSound
    <3>. QED  BY <3>2, <3>3
  <2>. QED  BY <1>4, <2>3, <2>7 DEF PicturesAreSound
<1>. HIDE DEF more, n
<1>6. DraftIsSound'
  BY <1>2, <1>4, <1>5 DEF DraftIsSound
<1>7. DocumentIsWhole'
  BY <1>2 DEF BuildIsSound, DocumentIsWhole
<1>. QED  BY <1>1, <1>6, <1>7 DEF BuildIsSound

LEMMA SavePreserves ==
  ASSUME WalkthroughInvariant, Save
  PROVE  WalkthroughInvariant'
<1>. USE DEF WalkthroughInvariant
<1>1. AnswersAreSound' /\ NotesAreSound' /\ FilesAreSound'
  BY CaptureUndisturbed DEF Save
<1>2. /\ draft.stage = "adding" /\ draft' = NoDraft
      /\ Len(draft.pictures) = Len(draft.of.statuses)
      /\ document' = [of |-> draft.of, since |-> draft.since, until |-> run,
                      pictures |-> draft.pictures]
  BY DEF Save
<1>3. draft # NoDraft
  BY <1>2 DEF NoDraft
<1>4. PicturesAreSound(draft.of, draft.since, run, draft.pictures)
  BY <1>3 DEF BuildIsSound, DraftIsSound
<1>5. DOMAIN draft.pictures = Steps
  BY <1>2, <1>4, LenProperties DEF PicturesAreSound
<1>6. /\ document'.of = draft.of /\ document'.since = draft.since
      /\ document'.until = run /\ document'.pictures = draft.pictures
  BY <1>2
<1>7. DocumentIsWhole'
  BY <1>4, <1>5, <1>6 DEF DocumentIsWhole, PicturesAreSound, GoTogether
<1>8. DraftIsSound'
  BY <1>2 DEF DraftIsSound
<1>. QED  BY <1>1, <1>7, <1>8 DEF BuildIsSound

LEMMA BuildFailsPreserves ==
  ASSUME WalkthroughInvariant, BuildFails
  PROVE  WalkthroughInvariant'
<1>. USE DEF WalkthroughInvariant
<1>1. AnswersAreSound' /\ NotesAreSound' /\ FilesAreSound'
  BY CaptureUndisturbed DEF BuildFails
<1>2. BuildIsSound'
  BY DEF BuildFails, BuildIsSound, DraftIsSound, DocumentIsWhole
<1>. QED  BY <1>1, <1>2

(***************************************************************************)
(* The invariant holds in every state, for any number of runs.              *)
(***************************************************************************)
LEMMA InvariantPreserved ==
  ASSUME WalkthroughInvariant, [Next]_vars
  PROVE  WalkthroughInvariant'
<1>1. CASE UNCHANGED vars
  <2>1. UNCHANGED <<captureVars, files, run, at, notes, buildVars>>
    BY <1>1 DEF vars, captureVars
  <2>. QED  BY <2>1, CaptureUndisturbed, NothingWritten DEF WalkthroughInvariant
<1>. QED  BY <1>1, BeginPreserves, ExecutePreserves, ArrivePreserves, CaptureTilesPreserves,
             RecordPreserves, WriteManifestPreserves, AbortPreserves, ReadManifestPreserves,
             CheckFilesPreserves, AddPicturePreserves, SavePreserves, BuildFailsPreserves
          DEF Next

THEOREM WalkthroughIsInvariant == Spec => []WalkthroughInvariant
<1>1. WalkthroughInvariant /\ [Next]_vars => WalkthroughInvariant'
  BY InvariantPreserved
<1>. QED  BY <1>1, InvariantInitially, PTL DEF Spec

(***************************************************************************)
(* The status column is what the service answered to that operation in that *)
(* run, and to the step's own call unless the operation was called before.  *)
(***************************************************************************)
THEOREM StatusesAreTheirOwn == Spec => []StatusIsItsOwn
<1>1. WalkthroughInvariant => StatusIsItsOwn
  BY DEF WalkthroughInvariant, NotesAreSound
<1>. QED  BY <1>1, WalkthroughIsInvariant, PTL

(***************************************************************************)
(* Where the picture shows a step's own answer, the status is its status.   *)
(***************************************************************************)
THEOREM StatusesFollowPictures == Spec => []StatusFollowsPicture
<1>1. WalkthroughInvariant => StatusFollowsPicture
  BY DEF WalkthroughInvariant, NotesAreSound
<1>. QED  BY <1>1, WalkthroughIsInvariant, PTL

(***************************************************************************)
(* However runs and builds interleave and fail, a document has every step,  *)
(* statuses of one run, and pictures of no earlier run and in the order of  *)
(* their runs: all of one run if none began meanwhile.                      *)
(***************************************************************************)
THEOREM DocumentsAreWhole == Spec => []DocumentIsWhole
<1>1. WalkthroughInvariant => DocumentIsWhole
  BY DEF WalkthroughInvariant, BuildIsSound
<1>. QED  BY <1>1, WalkthroughIsInvariant, PTL

=============================================================================
