--------------------------- MODULE WorkbenchResults ---------------------------
(***************************************************************************)
(* Results of the workbench: calculations, sensitivity scans and report    *)
(* exports of a document that is edited while they are under way.          *)
(* frontend/src/hooks/useWorkbenchActions.ts, useWorkbenchRuntime.ts,      *)
(* lib/result-provenance.ts, lib/solver-project.ts.                        *)
(*                                                                         *)
(* A Model stands for the payload an object's workspace builds, with its   *)
(* signature; Blocked are those the diagnostics or the validation refuse.  *)
(* Results are known by the model they were computed from and the number   *)
(* of the request that computed them.  A project is [objects, active].     *)
(***************************************************************************)
EXTENDS Integers, FiniteSets

CONSTANTS
  Object,                         \* analysis objects
  Model, Blocked,                 \* payloads; those that cannot be solved
  None,
  MaxSolves, MaxScans, MaxRevision, MaxOpens  \* bounds

ASSUME ResultsAssumption ==
  /\ Object # {} /\ Blocked \subseteq Model /\ Model # Blocked /\ None \notin Model
  /\ MaxSolves \in Nat /\ MaxScans \in Nat /\ MaxRevision \in Nat /\ MaxOpens \in Nat

VARIABLES
  project,    \* its objects, each with model, results, sensitivity, provenance, and the active one
  ref,        \* projectRef.current
  drawn,      \* the project of the last render, which the user and the closures act on
  revision,   \* the document's revision
  late,       \* an object was selected, or a save started, on a page that was behind this revision
  readOnly,   \* the document is open for review only
  file,       \* the project as last saved
  saving,     \* the save under way, or None
  opens,      \* projects opened so far
  solving,    \* isSolving
  scanning,   \* isScanning
  solveSeq,   \* solveRequestSequenceRef
  scanSeq,    \* sensitivityRequestSequenceRef
  solves,     \* calculations the back end has not answered
  scans,      \* sensitivity scans it has not answered
  ended,      \* the terminal event of each calculation request, None before it
  export      \* the export under way, or None

contents == <<project, ref, revision, late>>
document == <<contents, drawn, file, saving, opens>>
requests == <<solving, solveSeq, solves, ended>>
sensitivity == <<scanning, scanSeq, scans>>
vars == <<document, readOnly, requests, sensitivity, export>>

unsolved(model) == [model |-> model, results |-> None, sens |-> None, prov |-> None]
has(object) == object \in DOMAIN ref.objects
activeOf(p) == p.objects[p.active]
shown == activeOf(drawn)

(* What an event of the user changes is rendered before anything else happens.
   What comes from a promise or from the host is rendered later. *)
lagging == drawn.objects # project.objects
rendered == drawn' = project' /\ ref' = project'
byUpdater == ref' \in {ref, project'} /\ UNCHANGED drawn

----------------------------------------------------------------------------
(* evaluateResultValidity(): provenance is of the object itself, as
   normalizeAnalysisObject() drops any other. *)
(* Mutant: the signature is not compared. *)
validityOfAny(o) ==
  IF o.results = None /\ o.sens = None THEN "missing"
  ELSE IF o.prov = None THEN "unverifiable" ELSE "current"

validity(o) ==
  IF o.results = None /\ o.sens = None THEN "missing"
  ELSE IF o.prov = None THEN "unverifiable"
  ELSE IF o.model \in Blocked \/ o.prov # o.model THEN "stale"
  ELSE "current"

(* commitProjectMutation(): nothing in a read-only document, no revision for
   an object the project does not have. *)
(* Mutant: a read-only document takes results too. *)
commitToReadOnly(object, next) ==
  IF ~has(object) THEN UNCHANGED contents
  ELSE /\ project' = [ref EXCEPT !.objects[object] = next] /\ ref' = project'
       /\ revision' = revision + 1 /\ late' = FALSE

commit(object, next) ==
  IF readOnly \/ ~has(object) THEN UNCHANGED contents
  ELSE /\ project' = [ref EXCEPT !.objects[object] = next] /\ ref' = project'
       /\ revision' = revision + 1 /\ late' = FALSE

----------------------------------------------------------------------------
(* The document, as far as results depend on it *)

(* An edit, an undo or a redo of the active object. *)
Edit(model) ==
  /\ ~readOnly /\ revision < MaxRevision /\ model # activeOf(ref).model
  /\ commit(ref.active, [activeOf(ref) EXCEPT !.model = model]) /\ drawn' = project'
  /\ UNCHANGED <<readOnly, file, saving, opens, requests, sensitivity, export>>

(* A template is restored: its model, and no results of the object on the page. *)
RestoreTemplate(model) ==
  LET edited == [ref.objects EXCEPT ![ref.active].model = model]
      cleared == [o \in DOMAIN edited |-> IF o = drawn.active THEN unsolved(edited[o].model) ELSE edited[o]]
  IN /\ ~readOnly /\ revision < MaxRevision /\ cleared # ref.objects
     /\ project' = [ref EXCEPT !.objects = cleared] /\ rendered
     /\ revision' = revision + 1 /\ late' = FALSE
     /\ UNCHANGED <<readOnly, file, saving, opens, requests, sensitivity, export>>

(* Navigation replaces the project by that of the page, at the same revision. *)
SelectObject(object) ==
  /\ object \in DOMAIN drawn.objects \ {drawn.active}
  /\ project' = [drawn EXCEPT !.active = object] /\ rendered
  /\ late' = (late \/ lagging)
  /\ UNCHANGED <<revision, readOnly, file, saving, opens, requests, sensitivity, export>>

RemoveObject(object) ==
  LET remaining == DOMAIN drawn.objects \ {object}
  IN /\ ~readOnly /\ revision < MaxRevision
     /\ object \in DOMAIN drawn.objects /\ remaining # {}
     /\ \E a \in remaining :
          /\ drawn.active # object => a = drawn.active
          /\ project' = [objects |-> [o \in remaining |-> drawn.objects[o]], active |-> a]
     /\ rendered /\ revision' = revision + 1 /\ late' = FALSE
     /\ UNCHANGED <<readOnly, file, saving, opens, requests, sensitivity, export>>

(* A save takes the project of the page and the present revision.  A page that
   does not show yet that it is open for review has the button too. *)
SaveStart ==
  /\ saving = None /\ (readOnly => drawn # project)
  /\ saving' = [project |-> drawn, revision |-> revision]
  /\ late' = (late \/ lagging)
  /\ UNCHANGED <<project, ref, revision, drawn, file, opens, readOnly, requests, sensitivity, export>>

(* What was saved is put back, if the revision is still the same. *)
SaveEnd ==
  /\ saving # None /\ saving' = None
  /\ file' = saving.project
  /\ IF saving.revision = revision THEN project' = saving.project /\ byUpdater
     ELSE UNCHANGED <<project, ref, drawn>>
  /\ UNCHANGED <<revision, late, opens, readOnly, requests, sensitivity, export>>

SaveFail ==
  /\ saving # None /\ saving' = None
  /\ UNCHANGED <<contents, drawn, file, opens, readOnly, requests, sensitivity, export>>

(* A file is opened, or a host loads it, for review or for editing. *)
OpenProject ==
  /\ revision < MaxRevision /\ opens < MaxOpens
  /\ project' = file /\ byUpdater
  /\ revision' = revision + 1 /\ late' = FALSE /\ opens' = opens + 1
  /\ readOnly' \in BOOLEAN
  /\ UNCHANGED <<file, saving, requests, sensitivity, export>>

(* A render with its effects: projectRef, activeAnalysisObjectIdRef. *)
Render ==
  /\ drawn # project \/ ref # project
  /\ drawn' = project /\ ref' = project
  /\ UNCHANGED <<project, revision, late, file, saving, opens, readOnly, requests, sensitivity, export>>

----------------------------------------------------------------------------
(* Calculations *)

request(object, model) == [seq |-> solveSeq + 1, object |-> object, model |-> model]

(* handleSolve(), called with the request that beginCalculationRequest() made. *)
send(model) ==
  /\ solveSeq' = solveSeq + 1
  /\ solves' = solves \cup {request(drawn.active, model)}
  /\ solving' = TRUE
  /\ UNCHANGED ended

(* The mode of the request becomes that of the workspace in the ref, which has
   another only if a project was opened that the page does not show yet. *)
adoptMode ==
  \/ UNCHANGED <<contents, drawn>>
  \/ /\ ~readOnly /\ revision < MaxRevision /\ activeOf(ref).model # shown.model
     /\ \E model \in Model : commit(ref.active, [activeOf(ref) EXCEPT !.model = model])
     /\ drawn' = project'

(* Mutant: a blocked run is not reported. *)
RunWithoutEnd ==
  /\ ~solving /\ solveSeq < MaxSolves
  /\ IF shown.model \in Blocked
     THEN solveSeq' = solveSeq + 1 /\ UNCHANGED <<contents, drawn, solving, solves, ended>>
     ELSE send(shown.model) /\ adoptMode
  /\ UNCHANGED <<file, saving, opens, readOnly, sensitivity, export>>

(* The run buttons, disabled while a calculation runs.  The request is
   numbered before the diagnostics are looked at. *)
Run ==
  /\ ~solving /\ solveSeq < MaxSolves
  /\ IF shown.model \in Blocked
     THEN /\ solveSeq' = solveSeq + 1
          /\ ended' = [ended EXCEPT ![solveSeq'] = "blocked"]
          /\ UNCHANGED <<contents, drawn, solving, solves>>
     ELSE send(shown.model) /\ adoptMode
  /\ UNCHANGED <<file, saving, opens, readOnly, sensitivity, export>>

(* A template or a quick model, which no diagnostics block, replaces the model
   and runs, whatever is running. *)
RunGenerated(model) ==
  /\ readOnly => drawn # project
  /\ solveSeq < MaxSolves /\ model \notin Blocked
  /\ IF readOnly \/ model = activeOf(ref).model THEN UNCHANGED <<contents, drawn>>
     ELSE /\ revision < MaxRevision
          /\ commit(ref.active, [activeOf(ref) EXCEPT !.model = model]) /\ drawn' = project'
  /\ send(model)
  /\ UNCHANGED <<file, saving, opens, readOnly, sensitivity, export>>

latest(r) == r.seq = solveSeq
superseded(r) == IF drawn.active # r.object THEN "cancelled" ELSE "stale"
(* Mutant: a superseded request is dropped without its event. *)
finishOnlyLatest(r, outcome) ==
  /\ solves' = solves \ {r}
  /\ ended' = IF latest(r) THEN [ended EXCEPT ![r.seq] = outcome] ELSE ended
  /\ solving' = IF latest(r) THEN FALSE ELSE solving
  /\ UNCHANGED solveSeq

finish(r, outcome) ==
  /\ solves' = solves \ {r}
  /\ ended' = [ended EXCEPT ![r.seq] = outcome]
  /\ solving' = IF latest(r) THEN FALSE ELSE solving
  /\ UNCHANGED solveSeq

solved(r) ==
  [ref.objects[r.object] EXCEPT !.results = [of |-> r.model, seq |-> r.seq], !.sens = None, !.prov = r.model]

(* Mutant: an answer is taken whatever was asked after it. *)
SolveAnswerAny(r) ==
  /\ commit(r.object, solved(r))
  /\ finish(r, "completed")
  /\ UNCHANGED <<drawn, file, saving, opens, readOnly, sensitivity, export>>

(* The answer to the latest request is committed to the object it was asked
   for, on the screen or not; any other is dropped. *)
SolveAnswer(r) ==
  /\ IF latest(r) THEN commit(r.object, solved(r)) ELSE UNCHANGED contents
  /\ finish(r, IF latest(r) THEN "completed" ELSE superseded(r))
  /\ UNCHANGED <<drawn, file, saving, opens, readOnly, sensitivity, export>>

(* The request fails, or the back end refuses it. *)
SolveError(r) ==
  /\ finish(r, IF latest(r) /\ drawn.active = r.object THEN "failed" ELSE superseded(r))
  /\ UNCHANGED <<document, readOnly, sensitivity, export>>

----------------------------------------------------------------------------
(* Sensitivity scans: an operation of their own, with the object's provenance. *)

(* The button is disabled while a scan runs; a blocked model is not scanned. *)
Scan ==
  /\ ~scanning /\ scanSeq < MaxScans /\ shown.model \notin Blocked
  /\ scanning' = TRUE /\ scanSeq' = scanSeq + 1
  /\ scans' = scans \cup {[seq |-> scanSeq', object |-> drawn.active, model |-> shown.model]}
  /\ UNCHANGED <<document, readOnly, requests, export>>

finishScan(r) ==
  /\ scans' = scans \ {r}
  /\ scanning' = IF r.seq = scanSeq THEN FALSE ELSE scanning
  /\ UNCHANGED scanSeq

(* The results of the object stay: only the provenance is of the scan. *)
ScanAnswer(r) ==
  /\ IF r.seq = scanSeq
     THEN commit(r.object, [ref.objects[r.object] EXCEPT !.sens = r.model, !.prov = r.model])
     ELSE UNCHANGED contents
  /\ finishScan(r)
  /\ UNCHANGED <<drawn, file, saving, opens, readOnly, requests, export>>

ScanError(r) ==
  /\ finishScan(r)
  /\ UNCHANGED <<document, readOnly, requests, export>>

----------------------------------------------------------------------------
(* Exports, one at a time: the buttons are disabled while one runs. *)

unchangedSince(e) == revision = e.revision /\ drawn.active = e.object

(* A report is made of the provenance's payload, the results and the scan of
   the page, and remembers the present revision; its images take a while.
   fresh: the page shows what this revision has. *)
ExportStart ==
  /\ export = None /\ validity(shown) = "current"
  /\ export' = [step |-> "images", object |-> drawn.active, revision |-> revision, content |-> shown,
                fresh |-> ~lagging]
  /\ UNCHANGED <<document, readOnly, requests, sensitivity>>

ExportSend ==
  /\ export # None /\ export.step = "images"
  /\ export' = IF unchangedSince(export) THEN [export EXCEPT !.step = "sent"] ELSE None
  /\ UNCHANGED <<document, readOnly, requests, sensitivity>>

(* Mutant: what comes back is handed over without another look. *)
ExportAnswerUnchecked ==
  /\ export # None /\ export.step = "sent"
  /\ export' = [export EXCEPT !.step = "delivered"]
  /\ UNCHANGED <<document, readOnly, requests, sensitivity>>

(* The file that comes back is handed to the user, or thrown away. *)
ExportAnswer ==
  /\ export # None /\ export.step = "sent"
  /\ export' = IF unchangedSince(export) THEN [export EXCEPT !.step = "delivered"] ELSE None
  /\ UNCHANGED <<document, readOnly, requests, sensitivity>>

(* finally: the next export may start. *)
ExportEnd ==
  /\ export # None /\ export.step = "delivered" /\ export' = None
  /\ UNCHANGED <<document, readOnly, requests, sensitivity>>

ExportError ==
  /\ export # None /\ export.step # "delivered" /\ export' = None
  /\ UNCHANGED <<document, readOnly, requests, sensitivity>>

----------------------------------------------------------------------------
(* A document of all objects, and a file of some of them. *)
Init ==
  /\ \E S \in (SUBSET Object) \ {{}}, m \in Model : \E a \in S :
       /\ project = [objects |-> [o \in Object |-> unsolved(m)], active |-> a]
       /\ file = [objects |-> [o \in S |-> unsolved(m)], active |-> a]
  /\ ref = project /\ drawn = project /\ revision = 0 /\ late = FALSE /\ saving = None
  /\ readOnly \in BOOLEAN /\ opens = 0
  /\ solving = FALSE /\ solveSeq = 0 /\ solves = {} /\ ended = [n \in 1..MaxSolves |-> None]
  /\ scanning = FALSE /\ scanSeq = 0 /\ scans = {} /\ export = None

Calculate == Run \/ \E m \in Model : RunGenerated(m)
BackEnd ==
  \/ \E r \in solves : SolveAnswer(r) \/ SolveError(r)
  \/ \E r \in scans : ScanAnswer(r) \/ ScanError(r)

Next ==
  \/ \E m \in Model : Edit(m) \/ RestoreTemplate(m)
  \/ \E o \in Object : SelectObject(o) \/ RemoveObject(o)
  \/ SaveStart \/ SaveEnd \/ SaveFail \/ OpenProject \/ Render \/ Calculate \/ Scan \/ BackEnd
  \/ ExportStart \/ ExportSend \/ ExportAnswer \/ ExportEnd \/ ExportError

Spec == Init /\ [][Next]_vars

(* fetch() settles, with an answer or an error. *)
Fairness ==
  /\ \A n \in 1..MaxSolves :
       WF_vars(\E r \in solves : r.seq = n /\ (SolveAnswer(r) \/ SolveError(r)))
  /\ WF_vars(\E r \in scans : ScanAnswer(r) \/ ScanError(r))

FairSpec == Spec /\ Fairness

----------------------------------------------------------------------------
Request == [seq: Nat, object: Object, model: Model]
Result == [of: Model, seq: 1..MaxSolves]
Solved == [model: Model, results: Result \cup {None}, sens: Model \cup {None}, prov: Model \cup {None}]
Terminal == {"blocked", "completed", "failed", "cancelled", "stale"}
ASSUME NoneAssumption == None \notin Terminal /\ None \notin Result
isProject(p) ==
  /\ p \in [objects: {p.objects}, active: Object]
  /\ p.active \in DOMAIN p.objects /\ DOMAIN p.objects \in SUBSET Object
  /\ \A o \in DOMAIN p.objects : p.objects[o] \in Solved

(* Every variable has its shape, and the object on the screen is one of the project. *)
TypeOK ==
  /\ isProject(project) /\ isProject(ref) /\ isProject(drawn) /\ isProject(file)
  /\ saving # None => isProject(saving.project) /\ saving.revision \in Nat
  /\ revision \in Nat /\ opens \in Nat /\ readOnly \in BOOLEAN /\ late \in BOOLEAN
  /\ solving \in BOOLEAN /\ scanning \in BOOLEAN /\ solveSeq \in 0..MaxSolves /\ scanSeq \in 0..MaxScans
  /\ solves \subseteq Request /\ scans \subseteq Request
  /\ ended \in [1..MaxSolves -> Terminal \cup {None}]
  /\ \/ export = None
     \/ export \in [step: {"images", "sent", "delivered"}, object: Object, revision: Nat, content: Solved,
                    fresh: BOOLEAN]

(* What makes the results of an object current, on the page or in the project,
   was computed from the model it has: the scan if there is one, or else the
   results; and a provenance is never without something it is the provenance of. *)
CurrentMeansComputed ==
  \A p \in {project, drawn} : \A o \in DOMAIN p.objects :
    LET object == p.objects[o]
    IN /\ validity(object) = "current" =>
            object.model = IF object.sens # None THEN object.sens ELSE object.results.of
       /\ object.prov # None => object.results # None \/ object.sens # None

(* RequestsAccounted has two parts.  The run button is disabled only while the
   latest request is with the back end, and the scan button likewise: neither
   stays disabled for nothing. *)
BusyMeansAsked ==
  /\ solving => \E r \in solves : latest(r)
  /\ scanning => \E r \in scans : r.seq = scanSeq

(* A request has ended, is with the back end, or was never made; it ends
   once, and only the last one made can be completed. *)
EndsOnce ==
  /\ \A n \in 1..MaxSolves : ended[n] = None => (\E r \in solves : r.seq = n) \/ n > solveSeq
  /\ \A r \in solves : ended[r.seq] = None

RequestsAccounted == BusyMeansAsked /\ EndsOnce

(* Answers are taken in the order the requests were made in: as long as the
   document is the same, the results of an object never become older.  Only
   the user makes them so, on a page that does not show the newer ones or the
   opened project yet: an object removed, an object selected or a save started
   there puts what it shows in the place of them. *)
ResultsNotOlder ==
  [][opens' = opens =>
       \A o \in DOMAIN project.objects \cap DOMAIN project'.objects :
         project.objects[o].results # None /\ project'.objects[o].results # None =>
           \/ project'.objects[o].results.seq >= project.objects[o].results.seq
           \/ late' \/ ref.objects # project.objects
           \/ lagging /\ project'.objects[o] = drawn.objects[o]]_vars

(* A document open for review changes in nothing but the object on the screen,
   once it has been: what was selected or saved before the page showed it is
   taken from the document before. *)
ReviewChangesNothing ==
  [][readOnly /\ opens' = opens /\ ~late' => project'.objects = project.objects]_vars

(* A report is handed over only for the object on the screen, and what it
   was made of is what the object has at that moment, results and all, if the
   page showed the present revision when it was asked for, and was not behind
   when an object was selected or a save started. *)
DeliveredIsPresent ==
  [][export' # export /\ export' # None /\ export'.step = "delivered" =>
       /\ export.object = drawn.active
       /\ export.fresh /\ ~late => export.content = project.objects[export.object]]_vars

(* Every calculation asked for ends in one way or another. *)
EveryRequestEnds == \A n \in 1..MaxSolves : solveSeq >= n ~> ended[n] # None
=============================================================================
