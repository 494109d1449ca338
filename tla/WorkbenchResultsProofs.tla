------------------------ MODULE WorkbenchResultsProofs ------------------------
(* Proofs about WorkbenchResults, for any objects, payloads and bounds.  The
   safety properties the runs check follow from one invariant, IInv: every
   copy of the project is sound, a save and an export hold what the revision
   they were begun at has, unless the page was behind, and the numbers of the
   requests fit.  That every request ends is left to TLC. *)
EXTENDS WorkbenchResults, TLAPS

(* Provenance is that of the scan, or else of the results. *)
Fits(o) ==
  o.prov # None =>
    IF o.sens # None THEN o.sens = o.prov ELSE o.results # None /\ o.results.of = o.prov

(* An object whose results have one of the first n numbers. *)
Item(o, n) == o \in Solved /\ Fits(o) /\ (o.results # None => o.results.seq <= n)
Good(p, n) == isProject(p) /\ \A o \in DOMAIN p.objects : Item(p.objects[o], n)

(* Every copy of the project is sound. *)
Copies(n) ==
  /\ Good(project, n) /\ Good(ref, n) /\ Good(drawn, n) /\ Good(file, n)
  /\ saving # None => Good(saving.project, n)

(* No number is used twice, and none that was not given. *)
NumbersFit ==
  /\ \A r \in solves : r.seq \in 1..solveSeq
  /\ \A r, s \in solves : r.seq = s.seq => r = s
  /\ \A n \in 1..MaxSolves : n > solveSeq => ended[n] = None

(* A save holds the project of its revision, unless a page was behind then. *)
SavingFits ==
  saving # None =>
    /\ saving.revision \in Nat /\ saving.revision <= revision
    /\ saving.revision = revision /\ ~late => saving.project.objects = project.objects

(* As long as the revision is the one an export began with, what it was made
   of is still there, unless a page was behind. *)
ExportFits ==
  export # None =>
    /\ export.revision <= revision
    /\ export.revision = revision /\ export.fresh /\ ~late =>
         export.object \in DOMAIN project.objects /\ export.content = project.objects[export.object]

(* IInv in parts, by what the actions change together. *)
DocumentOK == Copies(solveSeq) /\ revision \in Nat /\ opens \in Nat

RequestsOK ==
  /\ solveSeq \in 0..MaxSolves /\ scanSeq \in 0..MaxScans
  /\ solves \subseteq Request /\ scans \subseteq Request
  /\ ended \in [1..MaxSolves -> Terminal \cup {None}]
  /\ NumbersFit /\ EndsOnce /\ BusyMeansAsked

Switches == solving \in BOOLEAN /\ scanning \in BOOLEAN /\ readOnly \in BOOLEAN /\ late \in BOOLEAN

ExportOK ==
  /\ \/ export = None
     \/ export \in [step: {"images", "sent", "delivered"}, object: Object, revision: Nat, content: Solved,
                    fresh: BOOLEAN]
  /\ ExportFits

IInv == DocumentOK /\ SavingFits /\ RequestsOK /\ Switches /\ ExportOK

(* What a save and an export hold is not touched: the revision grows, or the
   objects are the same, unless the page was behind. *)
Later ==
  /\ revision' \in Nat /\ revision <= revision'
  /\ revision' = revision /\ ~late' => ~late /\ project'.objects = project.objects

LEMMA IInvTypes == IInv => TypeOK /\ RequestsAccounted
<1> SUFFICES ASSUME IInv PROVE TypeOK /\ RequestsAccounted
  OBVIOUS
<1>1. /\ isProject(project) /\ isProject(ref) /\ isProject(drawn) /\ isProject(file)
      /\ saving # None => isProject(saving.project) /\ saving.revision \in Nat
  BY Zenon DEF IInv, DocumentOK, Copies, Good, SavingFits
<1> QED  BY <1>1, Zenon DEF IInv, DocumentOK, RequestsOK, Switches, ExportOK, TypeOK, RequestsAccounted

----------------------------------------------------------------------------
(* Objects and projects. *)
LEMMA ItemKept ==
  ASSUME NEW n \in Nat, NEW o, Item(o, n), NEW m \in Model
  PROVE  /\ Item([o EXCEPT !.model = m], n) /\ [o EXCEPT !.model = m].results = o.results
         /\ Item([o EXCEPT !.sens = m, !.prov = m], n) /\ [o EXCEPT !.sens = m, !.prov = m].results = o.results
         /\ Item(unsolved(m), n) /\ unsolved(m).results = None
BY DEF Item, Fits, Solved, unsolved

LEMMA ItemLater ==
  ASSUME NEW n \in Nat, NEW k \in Nat, n <= k, NEW o, Item(o, n)
  PROVE  Item(o, k)
<1>1. CASE o.results = None
  BY <1>1 DEF Item
<1>2. CASE o.results # None
  <2>1. o.results \in Result
    BY <1>2 DEF Item, Solved
  <2>2. o.results.seq \in 1..MaxSolves
    BY <2>1 DEF Result
  <2>3. o.results.seq <= k
    BY <1>2, <2>2, ResultsAssumption DEF ResultsAssumption, Item
  <2> QED  BY <2>3 DEF Item
<1> QED  BY <1>1, <1>2

LEMMA CopiesLater ==
  ASSUME NEW n \in Nat, NEW k \in Nat, n <= k, Copies(n)
  PROVE  Copies(k)
<1>1. ASSUME NEW p, Good(p, n) PROVE Good(p, k)
  BY <1>1, ItemLater DEF Good
<1> QED  BY <1>1 DEF Copies

LEMMA Put ==
  ASSUME NEW n \in Nat, NEW p, Good(p, n), NEW o \in DOMAIN p.objects, NEW next, Item(next, n)
  PROVE  /\ Good([p EXCEPT !.objects[o] = next], n)
         /\ [p EXCEPT !.objects[o] = next].objects = [p.objects EXCEPT ![o] = next]
<1>1. isProject(p) /\ p \in [objects: {p.objects}, active: Object]
  BY DEF Good, isProject
<1> DEFINE q == [p EXCEPT !.objects[o] = next]
<1>2. q.objects = [p.objects EXCEPT ![o] = next] /\ q.active = p.active /\ q \in [objects: {q.objects}, active: Object]
  BY <1>1
<1> HIDE DEF q
<1>3. DOMAIN q.objects = DOMAIN p.objects
  BY <1>2
<1>4. ASSUME NEW a \in DOMAIN q.objects PROVE Item(q.objects[a], n)
  BY <1>2, <1>3, <1>4 DEF Good
<1>5. isProject(q)
  BY <1>1, <1>2, <1>3, <1>4 DEF isProject, Item
<1>6. Good(q, n)
  BY <1>4, <1>5 DEF Good
<1> QED  BY <1>2, <1>6 DEF q

(* Other objects, or another one on the screen. *)
LEMMA Made ==
  ASSUME NEW n \in Nat, NEW S \in SUBSET Object, NEW f, DOMAIN f = S, NEW a \in S, \A o \in S : Item(f[o], n)
  PROVE  Good([objects |-> f, active |-> a], n)
BY DEF Good, isProject, Item

LEMMA Selected ==
  ASSUME NEW n \in Nat, NEW p, Good(p, n), NEW a \in DOMAIN p.objects
  PROVE  Good([p EXCEPT !.active = a], n) /\ [p EXCEPT !.active = a].objects = p.objects
<1>1. isProject(p) /\ p \in [objects: {p.objects}, active: Object]
  BY DEF Good, isProject
<1> DEFINE q == [p EXCEPT !.active = a]
<1>2. q.objects = p.objects /\ q.active = a /\ q \in [objects: {q.objects}, active: Object]
  BY <1>1 DEF isProject
<1> HIDE DEF q
<1>3. Good(q, n)
  BY <1>1, <1>2 DEF isProject, Good
<1> QED  BY <1>2, <1>3 DEF q

LEMMA InitIInv == Init => IInv
<1> SUFFICES ASSUME Init PROVE IInv
  OBVIOUS
<1> USE ResultsAssumption DEF ResultsAssumption
<1>1. PICK S \in (SUBSET Object) \ {{}}, m \in Model : \E a \in S :
        /\ project = [objects |-> [o \in Object |-> unsolved(m)], active |-> a]
        /\ file = [objects |-> [o \in S |-> unsolved(m)], active |-> a]
  BY DEF Init
<1>2. PICK a \in S :
        /\ project = [objects |-> [o \in Object |-> unsolved(m)], active |-> a]
        /\ file = [objects |-> [o \in S |-> unsolved(m)], active |-> a]
  BY <1>1
<1>3. Item(unsolved(m), 0)
  BY DEF unsolved, Item, Solved, Fits
<1>4. Good(project, 0) /\ Good(file, 0)
  BY <1>2, <1>3, Made
<1>5. DocumentOK /\ SavingFits
  BY <1>4 DEF Init, DocumentOK, Copies, SavingFits
<1>6. RequestsOK
  BY DEF Init, RequestsOK, NumbersFit, BusyMeansAsked, EndsOnce
<1>7. Switches
  BY Zenon DEF Init, Switches
<1>8. ExportOK
  BY DEF Init, ExportOK, ExportFits
<1> QED  BY <1>5, <1>6, <1>7, <1>8 DEF IInv

----------------------------------------------------------------------------
(* What happens to the document. *)
LEMMA CommitKeeps ==
  ASSUME NEW n \in Nat, Good(project, n), Good(ref, n), revision \in Nat, late \in BOOLEAN,
         NEW object, NEW next, commit(object, next), has(object) => Item(next, n)
  PROVE  Good(project', n) /\ Good(ref', n) /\ Later /\ late' \in BOOLEAN
<1>1. CASE UNCHANGED contents
  BY <1>1 DEF contents, Later
<1>2. CASE /\ has(object)
           /\ project' = [ref EXCEPT !.objects[object] = next] /\ ref' = project'
           /\ revision' = revision + 1 /\ late' = FALSE
  <2>1. Good(project', n) /\ ref' = project'
    BY <1>2, Put DEF has
  <2>2. late' \in BOOLEAN
    BY <1>2, Zenon
  <2>3. Later
    BY <1>2 DEF Later
  <2> QED  BY <2>1, <2>2, <2>3
<1> QED  BY <1>1, <1>2 DEF commit

(* An edit of the object on the screen. *)
LEMMA EditKeeps ==
  ASSUME NEW n \in Nat, Good(project, n), Good(ref, n), revision \in Nat, late \in BOOLEAN, NEW m \in Model,
         commit(ref.active, [activeOf(ref) EXCEPT !.model = m])
  PROVE  Good(project', n) /\ Good(ref', n) /\ Later /\ late' \in BOOLEAN
<1> DEFINE next == [activeOf(ref) EXCEPT !.model = m]
<1>1. Item(next, n)
  BY ItemKept DEF Good, isProject, activeOf
<1> HIDE DEF next
<1>2. commit(ref.active, next)
  BY DEF next
<1> QED  BY <1>1, <1>2, CommitKeeps

LEMMA SavingStays ==
  ASSUME revision \in Nat, SavingFits, Later, late' \in BOOLEAN, saving' \in {saving, None}
  PROVE  SavingFits'
BY DEF SavingFits, Later

(* An export keeps what it was made of while the revision is the same. *)
LEMMA ExportStays ==
  ASSUME revision \in Nat, ExportOK, export' = export, Later
  PROVE  ExportOK'
BY DEF ExportOK, ExportFits, Later

(* What happens to the requests. *)
LEMMA SendKeeps ==
  ASSUME RequestsOK, drawn.active \in Object, NEW model \in Model, solveSeq < MaxSolves, send(model),
         UNCHANGED sensitivity
  PROVE  RequestsOK' /\ solveSeq' = solveSeq + 1
<1> USE ResultsAssumption DEF ResultsAssumption, RequestsOK, send
<1>1. /\ solves \subseteq Request /\ solveSeq \in Nat
      /\ request(drawn.active, model) \in Request /\ request(drawn.active, model).seq = solveSeq + 1
  BY DEF request, Request
<1>2. solveSeq' \in 0..MaxSolves /\ solves' \subseteq Request
  BY <1>1
<1>3. NumbersFit'
  BY <1>1 DEF NumbersFit
<1>4. EndsOnce'
  BY <1>1 DEF NumbersFit, EndsOnce
<1>5. BusyMeansAsked'
  BY <1>1 DEF BusyMeansAsked, latest, sensitivity
<1> QED  BY <1>2, <1>3, <1>4, <1>5 DEF sensitivity

LEMMA FinishKeeps ==
  ASSUME RequestsOK, NEW r \in solves, NEW outcome \in Terminal, finish(r, outcome),
         UNCHANGED sensitivity
  PROVE  RequestsOK' /\ solveSeq' = solveSeq
<1> USE ResultsAssumption, NoneAssumption DEF ResultsAssumption, NoneAssumption, RequestsOK, finish
<1>1. NumbersFit'
  BY DEF NumbersFit
<1>2. EndsOnce'
  BY DEF NumbersFit, EndsOnce
<1>3. BusyMeansAsked'
  BY DEF BusyMeansAsked, latest, sensitivity
<1> QED  BY <1>1, <1>2, <1>3 DEF sensitivity

LEMMA FinishScanKeeps ==
  ASSUME RequestsOK, NEW r \in scans, finishScan(r), UNCHANGED requests
  PROVE  RequestsOK' /\ solveSeq' = solveSeq
BY DEF RequestsOK, NumbersFit, EndsOnce, BusyMeansAsked, finishScan, Request, latest, requests

----------------------------------------------------------------------------
(* Every step keeps the invariant: what it does to the document, then to the
   requests and the export. *)
LEMMA NextIInv == IInv /\ [Next]_vars => IInv'
<1> SUFFICES ASSUME IInv, [Next]_vars PROVE IInv'
  OBVIOUS
<1> USE ResultsAssumption DEF ResultsAssumption
<1>1. /\ DocumentOK /\ RequestsOK /\ Switches /\ SavingFits /\ ExportOK
      /\ solveSeq \in Nat /\ revision \in Nat /\ opens \in Nat
  BY DEF IInv, DocumentOK, RequestsOK
<1>2. /\ Good(project, solveSeq) /\ Good(ref, solveSeq) /\ Good(drawn, solveSeq) /\ Good(file, solveSeq)
      /\ saving # None => Good(saving.project, solveSeq)
      /\ late \in BOOLEAN
  BY <1>1, Zenon DEF DocumentOK, Copies, Switches
<1>3. /\ drawn.active \in Object /\ drawn.active \in DOMAIN drawn.objects /\ DOMAIN drawn.objects \in SUBSET Object
      /\ ref.active \in Object /\ ref.active \in DOMAIN ref.objects /\ DOMAIN ref.objects \in SUBSET Object
      /\ shown \in Solved /\ shown.model \in Model
  BY <1>2 DEF Good, isProject, shown, activeOf, Item, Solved
<1>4. ASSUME UNCHANGED <<requests, sensitivity>> PROVE RequestsOK' /\ solveSeq' = solveSeq
  BY <1>1, <1>4 DEF RequestsOK, requests, sensitivity, NumbersFit, EndsOnce, BusyMeansAsked, latest
(* The user, a save and the host: no request is touched. *)
<1>5. ASSUME Good(project', solveSeq), Good(ref', solveSeq), Good(drawn', solveSeq), Good(file', solveSeq),
             saving' # None => Good(saving'.project, solveSeq), SavingFits',
             late' \in BOOLEAN, readOnly' \in BOOLEAN, opens' \in Nat,
             Later, UNCHANGED <<requests, sensitivity, export>>
      PROVE  IInv'
  <2>1. RequestsOK' /\ solveSeq' = solveSeq
    BY <1>4, <1>5
  <2>2. DocumentOK'
    BY <1>5, <2>1 DEF DocumentOK, Copies, Later
  <2>3. Switches'
    BY <1>1, <1>5, Zenon DEF Switches, requests, sensitivity
  <2>4. ExportOK'
    BY <1>1, <1>5, ExportStays
  <2> QED  BY <1>5, <2>1, <2>2, <2>3, <2>4 DEF IInv
<1>6. readOnly \in BOOLEAN
  BY <1>1, Zenon DEF Switches
<1>7. ASSUME NEW m \in Model, Edit(m) PROVE IInv'
  <2>1. /\ commit(ref.active, [activeOf(ref) EXCEPT !.model = m]) /\ drawn' = project'
        /\ UNCHANGED <<readOnly, file, saving, opens, requests, sensitivity, export>>
    BY <1>7, Zenon DEF Edit
  <2>2. Good(project', solveSeq) /\ Good(ref', solveSeq) /\ Later /\ late' \in BOOLEAN
    BY <1>1, <1>2, <2>1, EditKeeps
  <2>3. SavingFits'
    BY <1>1, <2>1, <2>2, SavingStays
  <2> QED  BY <1>1, <1>2, <1>5, <1>6, <2>1, <2>2, <2>3
<1>8. ASSUME NEW m \in Model, RestoreTemplate(m) PROVE IInv'
  <2> DEFINE edited == [ref.objects EXCEPT ![ref.active].model = m]
  <2> DEFINE cleared == [o \in DOMAIN edited |-> IF o = drawn.active THEN unsolved(edited[o].model) ELSE edited[o]]
  <2>1. /\ project' = [ref EXCEPT !.objects = cleared] /\ drawn' = project' /\ ref' = project'
        /\ revision' = revision + 1 /\ late' = FALSE
        /\ UNCHANGED <<readOnly, file, saving, opens, requests, sensitivity, export>>
    BY <1>8, Zenon DEF RestoreTemplate, rendered
  <2>2. /\ DOMAIN edited = DOMAIN ref.objects
        /\ \A o \in DOMAIN edited : edited[o] = IF o = ref.active THEN [ref.objects[o] EXCEPT !.model = m] ELSE ref.objects[o]
    OBVIOUS
  <2>3. \A o \in DOMAIN edited : Item(edited[o], solveSeq)
    BY <1>1, <1>2, <2>2, ItemKept DEF Good
  <2>4. DOMAIN cleared = DOMAIN ref.objects
    BY <2>2
  <2>5. \A o \in DOMAIN cleared : Item(cleared[o], solveSeq)
    <3> SUFFICES ASSUME NEW o \in DOMAIN edited PROVE Item(cleared[o], solveSeq)
      OBVIOUS
    <3>1. Item(edited[o], solveSeq) /\ edited[o].model \in Model
      BY <2>3 DEF Item, Solved
    <3> HIDE DEF edited
    <3>2. Item(unsolved(edited[o].model), solveSeq)
      BY <1>1, <3>1, ItemKept
    <3> QED  BY <3>1, <3>2
  <2> HIDE DEF edited, cleared
  <2>6. [ref EXCEPT !.objects = cleared] = [objects |-> cleared, active |-> ref.active]
    BY <1>2 DEF Good, isProject
  <2>7. Good(project', solveSeq)
    BY <1>1, <1>3, <2>1, <2>4, <2>5, <2>6, Made
  <2>8. Later /\ SavingFits'
    BY <1>1, <2>1 DEF Later, SavingFits
  <2> QED  BY <1>1, <1>2, <1>5, <1>6, <2>1, <2>7, <2>8
<1>9. ASSUME NEW a \in Object, SelectObject(a) PROVE IInv'
  <2>1. /\ a \in DOMAIN drawn.objects /\ project' = [drawn EXCEPT !.active = a]
        /\ drawn' = project' /\ ref' = project' /\ late' = (late \/ lagging)
        /\ UNCHANGED <<revision, readOnly, file, saving, opens, requests, sensitivity, export>>
    BY <1>9 DEF SelectObject, rendered
  <2>2. Good(project', solveSeq) /\ project'.objects = drawn.objects
    BY <1>1, <1>2, <2>1, Selected
  <2>3. late' \in BOOLEAN /\ (~late' => ~late /\ ~lagging)
    BY <1>2, <2>1, Zenon
  <2>4. Later
    BY <1>1, <2>1, <2>2, <2>3 DEF Later, lagging
  <2>5. SavingFits'
    BY <1>1, <2>1, <2>3, <2>4, SavingStays
  <2> QED  BY <1>1, <1>2, <1>5, <1>6, <2>1, <2>2, <2>3, <2>4, <2>5
<1>10. ASSUME NEW b \in Object, RemoveObject(b) PROVE IInv'
  <2> DEFINE remaining == DOMAIN drawn.objects \ {b}
  <2>1. PICK a \in remaining : project' = [objects |-> [o \in remaining |-> drawn.objects[o]], active |-> a]
    BY <1>10 DEF RemoveObject
  <2>2. /\ drawn' = project' /\ ref' = project' /\ revision' = revision + 1 /\ late' = FALSE
        /\ UNCHANGED <<readOnly, file, saving, opens, requests, sensitivity, export>>
    BY <1>10 DEF RemoveObject, rendered
  <2>3. Good(project', solveSeq)
    BY <1>1, <1>2, <1>3, <2>1, Made DEF Good
  <2>4. Later /\ SavingFits'
    BY <1>1, <2>2 DEF Later, SavingFits
  <2> QED  BY <1>1, <1>2, <1>5, <1>6, <2>2, <2>3, <2>4
<1>11. CASE SaveStart
  <2>1. /\ saving' = [project |-> drawn, revision |-> revision] /\ late' = (late \/ lagging)
        /\ UNCHANGED <<project, ref, revision, drawn, file, opens, readOnly, requests, sensitivity, export>>
    BY <1>11 DEF SaveStart
  <2>2. late' \in BOOLEAN /\ (~late' => ~late /\ ~lagging)
    BY <1>2, <2>1, Zenon
  <2>3. Later
    BY <1>1, <2>1, <2>2 DEF Later
  <2>4. SavingFits'
    BY <1>1, <2>1, <2>2 DEF SavingFits, lagging
  <2>5. Good(saving'.project, solveSeq)
    BY <1>2, <2>1
  <2> QED  BY <1>1, <1>2, <1>5, <1>6, <2>1, <2>2, <2>3, <2>4, <2>5
<1>12. CASE SaveEnd
  <2>1. /\ saving # None /\ saving' = None /\ file' = saving.project
        /\ UNCHANGED <<revision, late, opens, readOnly, requests, sensitivity, export>>
    BY <1>12 DEF SaveEnd
  <2>2. CASE saving.revision = revision
    <3>1. project' = saving.project /\ ref' \in {ref, project'} /\ drawn' = drawn
      BY <1>12, <2>2 DEF SaveEnd, byUpdater
    <3>2. Later /\ SavingFits'
      BY <1>1, <2>1, <2>2, <3>1 DEF Later, SavingFits
    <3>3. Good(project', solveSeq) /\ Good(ref', solveSeq) /\ Good(drawn', solveSeq) /\ Good(file', solveSeq)
      BY <1>2, <2>1, <3>1
    <3> QED  BY <1>1, <1>2, <1>5, <1>6, <2>1, <3>2, <3>3
  <2>3. CASE saving.revision # revision
    <3>1. UNCHANGED <<project, ref, drawn>>
      BY <1>12, <2>3 DEF SaveEnd
    <3>2. Later /\ SavingFits'
      BY <1>1, <2>1, <3>1 DEF Later, SavingFits
    <3> QED  BY <1>1, <1>2, <1>5, <1>6, <2>1, <3>1, <3>2
  <2> QED  BY <2>2, <2>3
<1>13. CASE SaveFail
  <2>1. /\ saving' = None
        /\ UNCHANGED <<project, ref, revision, late, drawn, file, opens, readOnly, requests, sensitivity, export>>
    BY <1>13 DEF SaveFail, contents
  <2>2. Later /\ SavingFits'
    BY <1>1, <2>1 DEF Later, SavingFits
  <2> QED  BY <1>1, <1>2, <1>5, <1>6, <2>1, <2>2
<1>14. CASE OpenProject
  <2>1. /\ project' = file /\ ref' \in {ref, project'} /\ drawn' = drawn
        /\ revision' = revision + 1 /\ late' = FALSE /\ opens' = opens + 1 /\ readOnly' \in BOOLEAN
        /\ UNCHANGED <<file, saving, requests, sensitivity, export>>
    BY <1>14, Zenon DEF OpenProject, byUpdater
  <2>2. Later /\ SavingFits'
    BY <1>1, <2>1 DEF Later, SavingFits
  <2>3. Good(project', solveSeq) /\ Good(ref', solveSeq) /\ Good(drawn', solveSeq) /\ Good(file', solveSeq)
    BY <1>2, <2>1
  <2>4. late' \in BOOLEAN
    BY <2>1, Zenon
  <2>5. saving' # None => Good(saving'.project, solveSeq)
    BY <1>2, <2>1
  <2>6. opens' \in Nat
    BY <1>1, <2>1
  <2> QED  BY <1>5, <2>1, <2>2, <2>3, <2>4, <2>5, <2>6
<1>15. CASE Render
  <2>1. /\ drawn' = project /\ ref' = project
        /\ UNCHANGED <<project, revision, late, file, saving, opens, readOnly, requests, sensitivity, export>>
    BY <1>15 DEF Render
  <2>2. Later /\ SavingFits'
    BY <1>1, <2>1 DEF Later, SavingFits
  <2> QED  BY <1>1, <1>2, <1>5, <1>6, <2>1, <2>2
(* Requests: the document takes at most an answer or an edit. *)
<1>16. ASSUME RequestsOK', Switches', solveSeq' \in Nat, solveSeq <= solveSeq', UNCHANGED <<file, saving, opens, export>>,
              Good(project', solveSeq'), Good(ref', solveSeq'), drawn' \in {drawn, project'}, Later
       PROVE  IInv'
  <2>1. Copies(solveSeq')
    BY <1>1, <1>16, CopiesLater DEF DocumentOK
  <2>2. /\ Good(drawn, solveSeq') /\ Good(file, solveSeq')
        /\ saving # None => Good(saving.project, solveSeq')
    BY <2>1 DEF Copies
  <2>3. Copies(solveSeq)'
    BY <1>16, <2>2 DEF Copies
  <2>4. DocumentOK'
    BY <1>1, <1>16, <2>3 DEF DocumentOK, Later
  <2>5. late' \in BOOLEAN
    BY <1>16, Zenon DEF Switches
  <2>6. SavingFits' /\ ExportOK'
    BY <1>1, <1>16, <2>5, SavingStays, ExportStays
  <2> QED  BY <1>16, <2>4, <2>6 DEF IInv
<1>17. ASSUME UNCHANGED contents, NEW k \in Nat, solveSeq <= k
       PROVE  Good(project', k) /\ Good(ref', k) /\ Later /\ late' = late
  <2>1. Copies(k)
    BY <1>1, <1>17, CopiesLater DEF DocumentOK
  <2> QED  BY <1>1, <1>17, <2>1 DEF contents, Later, Copies
<1>18. ASSUME NEW k \in Nat, solveSeq <= k PROVE Good(project, k) /\ Good(ref, k)
  <2>1. Copies(k)
    BY <1>1, <1>18, CopiesLater DEF DocumentOK
  <2> QED  BY <2>1 DEF Copies
<1>19. CASE Run
  <2>1. CASE shown.model \in Blocked
    <3>1. /\ solveSeq < MaxSolves /\ solveSeq' = solveSeq + 1 /\ ended' = [ended EXCEPT ![solveSeq + 1] = "blocked"]
          /\ UNCHANGED <<solves, scanSeq, scans, contents, drawn, file, saving, opens, export>>
      BY <1>19, <2>1 DEF Run, sensitivity
    <3>2. ~solving /\ UNCHANGED <<solving, scanning, readOnly>>
      BY <1>19, <2>1 DEF Run, sensitivity
    <3>3. RequestsOK'
      <4>1. NumbersFit'
        BY <1>1, <3>1 DEF RequestsOK, NumbersFit
      <4>2. EndsOnce'
        BY <1>1, <3>1, NoneAssumption DEF NoneAssumption, Terminal, RequestsOK, NumbersFit, EndsOnce
      <4>3. BusyMeansAsked'
        BY <1>1, <3>1, <3>2 DEF RequestsOK, BusyMeansAsked
      <4> QED  BY <1>1, <3>1, <4>1, <4>2, <4>3 DEF RequestsOK, Terminal
    <3>4. solveSeq' \in Nat /\ solveSeq <= solveSeq'
      BY <1>1, <3>1
    <3>5. Good(project', solveSeq') /\ Good(ref', solveSeq') /\ Later /\ late' = late
      BY <1>17, <3>1, <3>4
    <3>6. Switches'
      BY <1>1, <3>2, <3>5, Zenon DEF Switches
    <3> QED  BY <1>16, <3>1, <3>3, <3>4, <3>5, <3>6
  <2>2. CASE shown.model \notin Blocked
    <3>1. /\ solveSeq < MaxSolves /\ send(shown.model) /\ adoptMode
          /\ UNCHANGED <<readOnly, sensitivity, file, saving, opens, export>>
      BY <1>19, <2>2 DEF Run
    <3>2. RequestsOK' /\ solveSeq' = solveSeq + 1
      BY <1>1, <1>3, <3>1, SendKeeps
    <3>3. solveSeq' \in Nat /\ solveSeq <= solveSeq'
      BY <1>1, <3>2
    <3>4. Good(project', solveSeq') /\ Good(ref', solveSeq') /\ Later /\ late' \in BOOLEAN
          /\ drawn' \in {drawn, project'}
      <4>1. CASE UNCHANGED <<contents, drawn>>
        BY <1>2, <1>17, <3>3, <4>1
      <4>2. CASE ~UNCHANGED <<contents, drawn>>
        <5>1. PICK m \in Model : commit(ref.active, [activeOf(ref) EXCEPT !.model = m])
          BY <3>1, <4>2 DEF adoptMode
        <5>2. drawn' = project'
          BY <3>1, <4>2 DEF adoptMode
        <5>3. Good(project, solveSeq') /\ Good(ref, solveSeq')
          BY <1>18, <3>3
        <5> DEFINE k == solveSeq'
        <5>4. k \in Nat /\ Good(project, k) /\ Good(ref, k)
          BY <3>3, <5>3
        <5> HIDE DEF k
        <5>5. Good(project', k) /\ Good(ref', k) /\ Later /\ late' \in BOOLEAN
          BY <1>1, <1>2, <5>1, <5>4, EditKeeps
        <5> QED  BY <5>2, <5>5 DEF k
      <4> QED  BY <4>1, <4>2
    <3>5. Switches'
      BY <1>1, <3>1, <3>4, Zenon DEF Switches, send, sensitivity
    <3> QED  BY <1>16, <3>1, <3>2, <3>3, <3>4, <3>5
  <2> QED  BY <2>1, <2>2
<1>20. ASSUME NEW m \in Model, RunGenerated(m) PROVE IInv'
  <2>1. /\ solveSeq < MaxSolves /\ send(m) /\ UNCHANGED <<readOnly, sensitivity, file, saving, opens, export>>
    BY <1>20 DEF RunGenerated
  <2>2. RequestsOK' /\ solveSeq' = solveSeq + 1
    BY <1>1, <1>3, <2>1, SendKeeps
  <2>3. solveSeq' \in Nat /\ solveSeq <= solveSeq'
    BY <1>1, <2>2
  <2>4. Good(project', solveSeq') /\ Good(ref', solveSeq') /\ Later /\ late' \in BOOLEAN
        /\ drawn' \in {drawn, project'}
    <3>1. CASE UNCHANGED <<contents, drawn>>
      BY <1>2, <1>17, <2>3, <3>1
    <3>2. CASE commit(ref.active, [activeOf(ref) EXCEPT !.model = m]) /\ drawn' = project'
      <4>1. Good(project, solveSeq') /\ Good(ref, solveSeq')
        BY <1>18, <2>3
      <4> DEFINE k == solveSeq'
      <4>2. k \in Nat /\ Good(project, k) /\ Good(ref, k)
        BY <2>3, <4>1
      <4> HIDE DEF k
      <4>3. Good(project', k) /\ Good(ref', k) /\ Later /\ late' \in BOOLEAN
        BY <1>1, <1>2, <3>2, <4>2, EditKeeps
      <4> QED  BY <3>2, <4>3 DEF k
    <3> QED  BY <1>20, <3>1, <3>2 DEF RunGenerated
  <2>5. Switches'
    BY <1>1, <2>1, <2>4, Zenon DEF Switches, send, sensitivity
  <2> QED  BY <1>16, <2>1, <2>2, <2>3, <2>4, <2>5
<1>21. ASSUME NEW r \in solves, NEW outcome \in Terminal, finish(r, outcome), UNCHANGED <<readOnly, sensitivity>>,
              late' \in BOOLEAN
       PROVE  RequestsOK' /\ solveSeq' = solveSeq /\ Switches'
  <2>1. RequestsOK' /\ solveSeq' = solveSeq
    BY <1>1, <1>21, FinishKeeps
  <2>2. solving' = FALSE \/ solving' = solving
    BY <1>21, Zenon DEF finish
  <2> QED  BY <1>1, <1>21, <2>1, <2>2, Zenon DEF Switches, sensitivity
<1>22. ASSUME NEW r \in solves, SolveAnswer(r) PROVE IInv'
  <2>1. PICK outcome \in Terminal : finish(r, outcome)
    BY <1>22 DEF SolveAnswer, Terminal, superseded
  <2>2. r.model \in Model /\ r.seq \in 1..MaxSolves /\ r.seq <= solveSeq
    BY <1>1 DEF RequestsOK, NumbersFit, Request
  <2>3. has(r.object) => Item(solved(r), solveSeq)
    <3> SUFFICES ASSUME has(r.object) PROVE Item(solved(r), solveSeq)
      OBVIOUS
    <3>1. ref.objects[r.object] \in Solved
      BY <1>2 DEF has, Good, Item
    <3>2. [of |-> r.model, seq |-> r.seq] \in Result
      BY <2>2 DEF Result
    <3>3. solved(r) \in Solved /\ solved(r).results = [of |-> r.model, seq |-> r.seq]
          /\ solved(r).sens = None /\ solved(r).prov = r.model
      BY <2>2, <3>1, <3>2 DEF solved, Solved
    <3>4. solved(r).results # None
      BY <3>2, <3>3, NoneAssumption DEF NoneAssumption
    <3> QED  BY <2>2, <3>3, <3>4 DEF Fits, Item
  <2>4. UNCHANGED contents \/ commit(r.object, solved(r))
    BY <1>22 DEF SolveAnswer
  <2>5. Good(project', solveSeq) /\ Good(ref', solveSeq) /\ Later /\ late' \in BOOLEAN
    BY <1>1, <1>2, <1>17, <2>3, <2>4, CommitKeeps
  <2>6. RequestsOK' /\ solveSeq' = solveSeq /\ Switches'
    BY <1>21, <1>22, <2>1, <2>5 DEF SolveAnswer
  <2> QED  BY <1>1, <1>16, <1>22, <2>5, <2>6 DEF SolveAnswer
<1>23. ASSUME NEW r \in solves, SolveError(r) PROVE IInv'
  <2>1. PICK outcome \in Terminal : finish(r, outcome)
    BY <1>23 DEF SolveError, Terminal, superseded
  <2>2. UNCHANGED <<contents, drawn, file, saving, opens, export>>
    BY <1>23 DEF SolveError, document
  <2>3. Good(project', solveSeq) /\ Good(ref', solveSeq) /\ Later /\ late' = late
    BY <1>1, <1>17, <2>2
  <2>4. RequestsOK' /\ solveSeq' = solveSeq /\ Switches'
    BY <1>2, <1>21, <1>23, <2>1, <2>3 DEF SolveError
  <2> QED  BY <1>1, <1>16, <2>2, <2>3, <2>4
<1>24. CASE Scan
  <2>1. /\ scanSeq < MaxScans /\ scanSeq' = scanSeq + 1
        /\ scans' = scans \cup {[seq |-> scanSeq', object |-> drawn.active, model |-> shown.model]}
        /\ UNCHANGED <<contents, drawn, file, saving, opens, readOnly, requests, export>>
    BY <1>24 DEF Scan, document
  <2>2. RequestsOK'
    <3>1. NumbersFit' /\ EndsOnce'
      BY <1>1, <2>1 DEF RequestsOK, NumbersFit, EndsOnce, requests
    <3>2. BusyMeansAsked'
      <4> DEFINE new == [seq |-> scanSeq', object |-> drawn.active, model |-> shown.model]
      <4>1. new \in scans' /\ new.seq = scanSeq'
        BY <2>1, Zenon
      <4> HIDE DEF new
      <4>2. \E r \in scans' : r.seq = scanSeq'
        BY <4>1
      <4> QED  BY <1>1, <2>1, <4>2, Zenon DEF RequestsOK, BusyMeansAsked, latest, requests
    <3> QED  BY <1>1, <1>3, <2>1, <3>1, <3>2 DEF RequestsOK, Request, requests
  <2>3. Good(project', solveSeq) /\ Good(ref', solveSeq) /\ Later /\ late' = late
    BY <1>1, <1>17, <2>1
  <2>4. Switches'
    BY <1>1, <1>24, <2>3, Zenon DEF Scan, Switches, requests
  <2> QED  BY <1>1, <1>16, <2>1, <2>2, <2>3, <2>4 DEF requests
<1>25. ASSUME NEW r \in scans, finishScan(r), UNCHANGED <<readOnly, requests>>, late' \in BOOLEAN
       PROVE  RequestsOK' /\ solveSeq' = solveSeq /\ Switches'
  <2>1. RequestsOK' /\ solveSeq' = solveSeq
    BY <1>1, <1>25, FinishScanKeeps
  <2>2. scanning' = FALSE \/ scanning' = scanning
    BY <1>25, Zenon DEF finishScan
  <2> QED  BY <1>1, <1>25, <2>1, <2>2, Zenon DEF Switches, requests
<1>26. ASSUME NEW r \in scans, ScanAnswer(r) PROVE IInv'
  <2> DEFINE next == [ref.objects[r.object] EXCEPT !.sens = r.model, !.prov = r.model]
  <2>1. r.model \in Model
    BY <1>1 DEF RequestsOK, Request
  <2>2. has(r.object) => Item(next, solveSeq)
    BY <1>1, <1>2, <2>1, ItemKept DEF has, Good
  <2>3. UNCHANGED contents \/ commit(r.object, next)
    BY <1>26 DEF ScanAnswer
  <2> HIDE DEF next
  <2>4. Good(project', solveSeq) /\ Good(ref', solveSeq) /\ Later /\ late' \in BOOLEAN
    BY <1>1, <1>2, <1>17, <2>2, <2>3, CommitKeeps
  <2>5. RequestsOK' /\ solveSeq' = solveSeq /\ Switches'
    BY <1>25, <1>26, <2>4 DEF ScanAnswer
  <2> QED  BY <1>1, <1>16, <1>26, <2>4, <2>5 DEF ScanAnswer
<1>27. ASSUME NEW r \in scans, ScanError(r) PROVE IInv'
  <2>1. UNCHANGED <<contents, drawn, file, saving, opens, export>>
    BY <1>27 DEF ScanError, document
  <2>2. Good(project', solveSeq) /\ Good(ref', solveSeq) /\ Later /\ late' = late
    BY <1>1, <1>17, <2>1
  <2>3. RequestsOK' /\ solveSeq' = solveSeq /\ Switches'
    BY <1>2, <1>25, <1>27, <2>2 DEF ScanError
  <2> QED  BY <1>1, <1>16, <2>1, <2>2, <2>3
(* Exports and stuttering: only the export changes. *)
<1>28. ASSUME UNCHANGED <<document, readOnly, requests, sensitivity>>, ExportOK' PROVE IInv'
  <2>1. RequestsOK' /\ UNCHANGED <<solveSeq, solving, scanning, readOnly>>
    BY <1>4, <1>28 DEF requests, sensitivity
  <2>2. UNCHANGED <<project, ref, revision, late, drawn, file, saving, opens>>
    BY <1>28 DEF document, contents
  <2>3. DocumentOK' /\ SavingFits'
    BY <1>1, <2>1, <2>2 DEF DocumentOK, Copies, SavingFits
  <2>4. Switches'
    BY <1>1, <2>1, <2>2, Zenon DEF Switches
  <2> QED  BY <1>28, <2>1, <2>3, <2>4 DEF IInv
<1>29. CASE ExportStart
  <2>1. /\ export' = [step |-> "images", object |-> drawn.active, revision |-> revision, content |-> shown,
                      fresh |-> ~lagging]
        /\ UNCHANGED <<document, readOnly, requests, sensitivity>>
    BY <1>29 DEF ExportStart
  <2>2. UNCHANGED <<project, revision, late>>
    BY <2>1 DEF document, contents
  <2>3. lagging \in BOOLEAN /\ (~lagging => drawn.objects = project.objects)
    BY DEF lagging
  <2> HIDE DEF lagging
  <2>4. ExportOK'
    <3>1. export' \in [step: {"images", "sent", "delivered"}, object: Object, revision: Nat, content: Solved,
                       fresh: BOOLEAN]
      BY <1>1, <1>3, <2>1, <2>3
    <3>2. export'.revision = revision /\ export'.object = drawn.active /\ export'.content = shown
      BY <2>1
    <3>3. export'.fresh <=> ~lagging
      BY <2>1, Zenon
    <3>4. export'.fresh /\ ~late' =>
            export'.object \in DOMAIN project'.objects /\ export'.content = project'.objects[export'.object]
      BY <1>3, <2>2, <2>3, <3>2, <3>3 DEF shown, activeOf
    <3>5. ExportFits'
      BY <1>1, <2>2, <3>2, <3>4 DEF ExportFits
    <3> QED  BY <3>1, <3>5 DEF ExportOK
  <2> QED  BY <1>28, <2>1, <2>4
<1>30. CASE ExportSend \/ ExportAnswer \/ ExportEnd \/ ExportError
  <2>1. UNCHANGED <<document, readOnly, requests, sensitivity>>
    BY <1>30 DEF ExportSend, ExportAnswer, ExportEnd, ExportError
  <2>2. UNCHANGED <<project, revision, late>>
    BY <2>1 DEF document, contents
  <2>3. ExportOK'
    BY <1>1, <1>30, <2>2 DEF ExportOK, ExportFits, ExportSend, ExportAnswer, ExportEnd, ExportError
  <2> QED  BY <1>28, <2>1, <2>3
<1>31. CASE UNCHANGED vars
  <2>1. UNCHANGED <<document, readOnly, requests, sensitivity, export>> /\ UNCHANGED <<project, revision, late>>
    BY <1>31 DEF vars, document, contents
  <2>2. ExportOK'
    BY <1>1, <2>1 DEF ExportOK, ExportFits
  <2> QED  BY <1>28, <2>1, <2>2
<1> QED
  BY <1>7, <1>8, <1>9, <1>10, <1>11, <1>12, <1>13, <1>14, <1>15, <1>19, <1>20, <1>22, <1>23, <1>24, <1>26, <1>27,
     <1>29, <1>30, <1>31
     DEF Next, Calculate, BackEnd

----------------------------------------------------------------------------
LEMMA AlwaysIInv == Spec => []IInv
BY InitIInv, NextIInv, PTL DEF Spec

(* Every variable has its shape, and the object on the screen is one of the
   project's. *)
THEOREM TypeCorrect == Spec => []TypeOK
BY AlwaysIInv, IInvTypes, PTL

(* What makes an object's results current, on the page or in the project, was
   computed from the model it has: answers of calculations and scans, edits,
   opens and saves in any order. *)
THEOREM CurrentWasComputed == Spec => []CurrentMeansComputed
<1>1. IInv => CurrentMeansComputed
  <2> SUFFICES ASSUME IInv, NEW p \in {project, drawn}, NEW o \in DOMAIN p.objects
               PROVE  /\ validity(p.objects[o]) = "current" =>
                           p.objects[o].model = IF p.objects[o].sens # None THEN p.objects[o].sens
                                                ELSE p.objects[o].results.of
                      /\ p.objects[o].prov # None => p.objects[o].results # None \/ p.objects[o].sens # None
    BY DEF CurrentMeansComputed
  <2>1. Fits(p.objects[o])
    BY DEF IInv, DocumentOK, Copies, Good, Item
  <2> QED  BY <2>1 DEF Fits, validity
<1> QED  BY <1>1, AlwaysIInv, PTL

(* A busy button has a request behind it, and every request ends once
   (handleSolve, trackCalculationTerminal). *)
THEOREM RequestsAreAccounted == Spec => []RequestsAccounted
BY AlwaysIInv, IInvTypes, PTL

(* Answers are taken in the order of the requests: within one document the
   results of an object never become older, unless the page that is acted on
   does not show the newer ones yet. *)
THEOREM ResultsNeverOlder == Spec => ResultsNotOlder
<1>1. IInv /\ [Next]_vars => [opens' = opens =>
         \A o \in DOMAIN project.objects \cap DOMAIN project'.objects :
           project.objects[o].results # None /\ project'.objects[o].results # None =>
             \/ project'.objects[o].results.seq >= project.objects[o].results.seq
             \/ late' \/ ref.objects # project.objects
             \/ lagging /\ project'.objects[o] = drawn.objects[o]]_vars
  <2> SUFFICES ASSUME IInv, Next, opens' = opens, NEW o \in DOMAIN project.objects \cap DOMAIN project'.objects,
                      project.objects[o].results # None, project'.objects[o].results # None,
                      ~late', ref.objects = project.objects,
                      ~(lagging /\ project'.objects[o] = drawn.objects[o])
               PROVE  project'.objects[o].results.seq >= project.objects[o].results.seq
    OBVIOUS
  <2>1. /\ project.objects[o].results \in Result /\ project.objects[o].results.seq <= solveSeq
        /\ project.objects[o].results.seq \in Nat
        /\ project.objects[o] \in Solved
    BY DEF IInv, DocumentOK, Copies, Good, Item, Solved, Result
  <2>2. CASE project'.objects = project.objects
    BY <2>1, <2>2
  <2>3. CASE project'.objects[o].results = project.objects[o].results
    BY <2>1, <2>3
  <2>4. Good(ref, solveSeq) /\ solveSeq \in Nat /\ ref.active \in DOMAIN ref.objects
        /\ project.objects[o] = ref.objects[o]
    BY DEF IInv, DocumentOK, Copies, RequestsOK, Good, isProject
  <2>5. ASSUME NEW a \in DOMAIN ref.objects, NEW next, project' = [ref EXCEPT !.objects[a] = next]
        PROVE  project'.objects[o] = IF o = a THEN next ELSE ref.objects[o]
    <3>1. ref \in [objects: {ref.objects}, active: Object]
      BY <2>4 DEF Good, isProject
    <3> QED  BY <2>5, <3>1
  <2>6. ASSUME NEW r \in solves, SolveAnswer(r) PROVE project'.objects[o].results.seq >= project.objects[o].results.seq
    <3>1. CASE latest(r) /\ has(r.object) /\ project' = [ref EXCEPT !.objects[r.object] = solved(r)]
      <4>1. project'.objects[o] = IF o = r.object THEN solved(r) ELSE ref.objects[o]
        BY <2>5, <3>1 DEF has
      <4>2. CASE o = r.object
        <5>1. solved(r).results = [of |-> r.model, seq |-> r.seq]
          BY <2>1, <2>4, <4>2 DEF solved, Solved
        <5> QED  BY <2>1, <3>1, <4>1, <4>2, <5>1 DEF latest
      <4> QED  BY <2>3, <2>4, <4>1, <4>2
    <3>2. project' = project \/ (latest(r) /\ has(r.object) /\ project' = [ref EXCEPT !.objects[r.object] = solved(r)])
      BY <2>6 DEF SolveAnswer, commit, contents
    <3> QED  BY <2>2, <3>1, <3>2
  <2>7. ASSUME NEW m \in Model, commit(ref.active, [activeOf(ref) EXCEPT !.model = m])
        PROVE  project'.objects[o].results.seq >= project.objects[o].results.seq
    <3>1. CASE project' = [ref EXCEPT !.objects[ref.active] = [activeOf(ref) EXCEPT !.model = m]]
      <4> DEFINE next == [activeOf(ref) EXCEPT !.model = m]
      <4>1. next.results = activeOf(ref).results
        BY <2>4, ItemKept DEF Good, activeOf
      <4>2. project' = [ref EXCEPT !.objects[ref.active] = next]
        BY <3>1
      <4> HIDE DEF next
      <4>3. project'.objects[o] = IF o = ref.active THEN next ELSE ref.objects[o]
        BY <2>4, <2>5, <4>2
      <4> QED  BY <2>3, <2>4, <4>1, <4>3 DEF activeOf
    <3> QED  BY <2>2, <2>7, <3>1 DEF commit, contents
  <2>8. ASSUME NEW m \in Model, RestoreTemplate(m) PROVE project'.objects[o].results.seq >= project.objects[o].results.seq
    <3> DEFINE edited == [ref.objects EXCEPT ![ref.active].model = m]
    <3> DEFINE cleared == [x \in DOMAIN edited |-> IF x = drawn.active THEN unsolved(edited[x].model) ELSE edited[x]]
    <3>1. project' = [ref EXCEPT !.objects = cleared]
      BY <2>8, Zenon DEF RestoreTemplate
    <3>2. o \in DOMAIN edited /\ edited[o].results = ref.objects[o].results
      BY <2>1, <2>4 DEF Solved
    <3>3. cleared[o] = IF o = drawn.active THEN unsolved(edited[o].model) ELSE edited[o]
      BY <3>2
    <3> HIDE DEF edited, cleared
    <3>4. project'.objects = cleared
      BY <2>4, <3>1 DEF Good, isProject
    <3>5. o # drawn.active
      BY <3>3, <3>4 DEF unsolved
    <3> QED  BY <2>3, <2>4, <3>2, <3>3, <3>4, <3>5
  <2>9. ASSUME NEW a \in Object, RemoveObject(a) PROVE project'.objects[o].results.seq >= project.objects[o].results.seq
    <3>1. project'.objects[o] = drawn.objects[o]
      BY <2>9 DEF RemoveObject
    <3> QED  BY <2>3, <3>1 DEF lagging
  <2>10. ASSUME NEW a \in Object, SelectObject(a) PROVE project'.objects[o].results.seq >= project.objects[o].results.seq
    <3>1. project'.objects = drawn.objects /\ ~lagging
      BY <2>10 DEF SelectObject, IInv, DocumentOK, Copies, Good, isProject
    <3> QED  BY <2>2, <3>1 DEF lagging
  <2>11. CASE SaveEnd
    <3>1. ~late /\ SavingFits
      BY <2>11 DEF SaveEnd, IInv
    <3> QED  BY <2>2, <2>11, <3>1 DEF SaveEnd, SavingFits
  <2>12. ASSUME NEW r \in scans, ScanAnswer(r) PROVE project'.objects[o].results.seq >= project.objects[o].results.seq
    <3> DEFINE next == [ref.objects[r.object] EXCEPT !.sens = r.model, !.prov = r.model]
    <3>1. CASE has(r.object) /\ project' = [ref EXCEPT !.objects[r.object] = next]
      <4>1. r.model \in Model
        BY DEF IInv, RequestsOK, Request
      <4>2. next.results = ref.objects[r.object].results
        BY <2>4, <3>1, <4>1, ItemKept DEF Good, has
      <4> HIDE DEF next
      <4>3. project'.objects[o] = IF o = r.object THEN next ELSE ref.objects[o]
        BY <2>5, <3>1 DEF has
      <4> QED  BY <2>3, <2>4, <4>2, <4>3
    <3> QED  BY <2>2, <2>12, <3>1 DEF ScanAnswer, commit, contents
  <2>13. ~OpenProject
    BY DEF OpenProject, IInv, DocumentOK
  <2>14. CASE UNCHANGED project
    BY <2>2, <2>14
  <2>15. CASE Run
    BY <2>7, <2>14, <2>15, Zenon DEF Run, adoptMode, contents
  <2>16. ASSUME NEW m \in Model, RunGenerated(m) \/ Edit(m)
         PROVE  project'.objects[o].results.seq >= project.objects[o].results.seq
    BY <2>7, <2>14, <2>16, Zenon DEF RunGenerated, Edit, contents
  <2> QED
    BY <2>6, <2>8, <2>9, <2>10, <2>11, <2>12, <2>13, <2>14, <2>15, <2>16
       DEF Next, Calculate, BackEnd, SaveStart, SaveFail, Render, Scan, SolveError, ScanError, ExportStart,
           ExportSend, ExportAnswer, ExportEnd, ExportError, document, contents
<1> QED  BY <1>1, AlwaysIInv, PTL DEF Spec, ResultsNotOlder

(* A report is handed over for the object on the screen, and what it was made
   of is what the object has at that moment, if the page was not behind the
   document when it was asked for, nor when an object was selected or a save
   started at this revision (handleExport). *)
THEOREM DeliveredReportIsPresent == Spec => DeliveredIsPresent
<1>1. IInv /\ [Next]_vars => [export' # export /\ export' # None /\ export'.step = "delivered" =>
         /\ export.object = drawn.active
         /\ export.fresh /\ ~late => export.content = project.objects[export.object]]_vars
  <2> SUFFICES ASSUME IInv, Next, export' # export, export' # None, export'.step = "delivered"
               PROVE  /\ export.object = drawn.active
                      /\ export.fresh /\ ~late => export.content = project.objects[export.object]
    OBVIOUS
  <2>1. ExportAnswer /\ export # None /\ unchangedSince(export)
    <3>1. ExportStart \/ ExportSend \/ ExportAnswer \/ ExportEnd \/ ExportError
      BY DEF Next, Calculate, BackEnd, Edit, RestoreTemplate, SelectObject, RemoveObject, SaveStart, SaveEnd, SaveFail,
             OpenProject, Render, Run, RunGenerated, SolveAnswer, SolveError, Scan, ScanAnswer, ScanError
    <3>2. ~ExportStart /\ ~ExportEnd /\ ~ExportError
      BY DEF ExportStart, ExportEnd, ExportError
    <3>3. ~ExportSend
      BY DEF ExportSend, IInv, ExportOK
    <3> QED  BY <3>1, <3>2, <3>3 DEF ExportAnswer
  <2> QED  BY <2>1 DEF unchangedSince, IInv, ExportOK, ExportFits
<1> QED  BY <1>1, AlwaysIInv, PTL DEF Spec, DeliveredIsPresent

(* A document open for review is changed neither by an edit nor by an answer
   that was asked for before (commitProjectMutation), once the page shows it. *)
THEOREM ReviewIsReadOnly == Spec => ReviewChangesNothing
<1>1. IInv /\ [Next]_vars => [readOnly /\ opens' = opens /\ ~late' => project'.objects = project.objects]_vars
  <2> SUFFICES ASSUME IInv, Next, readOnly, opens' = opens, ~late' PROVE project'.objects = project.objects
    OBVIOUS
  <2>1. ~OpenProject
    BY DEF OpenProject, IInv, DocumentOK
  <2>2. CASE UNCHANGED project
    BY <2>2
  <2>3. ASSUME NEW object, NEW next, commit(object, next) PROVE UNCHANGED project
    BY <2>3, Zenon DEF commit, contents
  <2>4. CASE \E r \in solves : SolveAnswer(r)
    BY <2>3, <2>4, Zenon DEF SolveAnswer, contents
  <2>5. CASE \E r \in scans : ScanAnswer(r)
    BY <2>3, <2>5, Zenon DEF ScanAnswer, contents
  <2>6. CASE Run \/ \E m \in Model : RunGenerated(m)
    BY <2>3, <2>6, Zenon DEF Run, RunGenerated, adoptMode, contents
  <2>7. \A m \in Model : ~Edit(m) /\ ~RestoreTemplate(m)
    BY Zenon DEF Edit, RestoreTemplate
  <2>8. \A o \in Object : ~RemoveObject(o)
    BY Zenon DEF RemoveObject
  <2>9. CASE SaveEnd
    <3>1. ~late /\ SavingFits
      BY <2>9 DEF SaveEnd, IInv
    <3> QED  BY <2>9, <3>1 DEF SaveEnd, SavingFits
  <2>10. ASSUME NEW a \in Object, SelectObject(a) PROVE project'.objects = project.objects
    <3>1. project'.objects = drawn.objects /\ ~lagging
      BY <2>10 DEF SelectObject, IInv, DocumentOK, Copies, Good, isProject
    <3> QED  BY <3>1 DEF lagging
  <2> QED
    BY <2>1, <2>2, <2>4, <2>5, <2>6, <2>7, <2>8, <2>9, <2>10
       DEF Next, Calculate, BackEnd, SaveStart, SaveFail, Render, Scan, SolveError, ScanError, ExportStart,
           ExportSend, ExportAnswer, ExportEnd, ExportError, document, contents
<1> QED  BY <1>1, AlwaysIInv, PTL DEF Spec, ReviewChangesNothing
=============================================================================
