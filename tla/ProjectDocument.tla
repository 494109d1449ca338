--------------------------- MODULE ProjectDocument ---------------------------
(***************************************************************************)
(* The project document of the standalone workbench: revisions, undo       *)
(* history, files and the browser's draft.                                 *)
(* frontend/src/hooks/useSolverProjectDocument.ts, useProjectFileActions.ts,*)
(* lib/project-document-lifecycle.ts, workspace-history.ts,                *)
(* project-autosave.ts.                                                    *)
(*                                                                         *)
(* A workspace is [of, edit], the object it describes and the edit that    *)
(* made it; a project lists the workspaces of its objects, names the       *)
(* active one, and has other, the last edit outside the workspaces         *)
(* (results, settings).  doc tells projects apart.  File names and time    *)
(* stamps are left out.                                                    *)
(***************************************************************************)
EXTENDS Integers, FiniteSets, Sequences, SequencesExt

CONSTANTS
  File, Object,             \* file handles; identifiers of analysis objects
  DefaultObjects,           \* the objects of a new project
  None,                     \* no handle, no draft, null
  Limit,                    \* DEFAULT_WORKSPACE_HISTORY_LIMIT
  MaxEdits, MaxRevision, MaxTransfers  \* bounds

ASSUME DocumentAssumption ==
  /\ None \notin File /\ Limit \in Nat \ {0}
  /\ DefaultObjects \in Seq(Object) /\ DefaultObjects # <<>> /\ IsInjective(DefaultObjects)
  /\ MaxEdits \in Nat /\ MaxRevision \in Nat /\ MaxTransfers \in Nat

VARIABLES
  project,      \* the state of React, with every update that awaits a render
  ref,          \* projectRef.current
  lifecycle,    \* generation, revision, savedRevision
  handle,       \* projectFileHandle
  history,      \* past and future workspaces of the active object
  activeRef,    \* the object the history belongs to
  shown,        \* the project, the dirty flag and the generation of the last render
  event,        \* an event of the user awaits its render
  disk,         \* what each file holds
  draft,        \* the project in the browser's storage
  saves,        \* file saves under way
  opens,        \* files that were read to be opened
  edits,        \* edits, new projects and reloads so far
  crossed,      \* since the page was loaded: files saved or read while a save of them was under way
  late          \* what the user's steps on a page that awaited a render may have broken

vars == <<project, ref, lifecycle, handle, history, activeRef, shown, event, disk, draft, saves,
          opens, edits, crossed, late>>

NoRevision == -1    \* savedRevision of a restored draft
Unrendered == -1    \* the generation shown before the first render

blank(doc) == [doc |-> doc, active |-> Head(DefaultObjects), other |-> 0,
               objects |-> [i \in DOMAIN DefaultObjects |-> [of |-> DefaultObjects[i], edit |-> 0]]]

idsOf(p) == {p.objects[i].of : i \in DOMAIN p.objects}
workspaceOf(p) == CHOOSE w \in ToSet(p.objects) : w.of = p.active
withWorkspace(p, workspace) ==
  [p EXCEPT !.objects = [i \in DOMAIN @ |-> IF @[i].of = p.active THEN [@[i] EXCEPT !.edit = workspace.edit]
                                            ELSE @[i]]]
emptyHistory == [past |-> <<>>, future |-> <<>>]

isDirty == lifecycle.saved # lifecycle.revision
advanced(l) == [l EXCEPT !.revision = @ + 1]
replacedRevision(l) ==
  [generation |-> l.generation + 1, revision |-> l.revision + 1, saved |-> l.revision + 1]

(* Mutant: any revision completes the save. *)
completedAnyRevision(l, revision) == [l EXCEPT !.saved = l.revision]
completed(l, revision) == IF revision = l.revision THEN [l EXCEPT !.saved = revision] ELSE l

(* The same project, whichever object the user looks at. *)
sameContent(p, q) == p.doc = q.doc /\ p.objects = q.objects /\ p.other = q.other

present == [project |-> project, dirty |-> isDirty, generation |-> lifecycle.generation]

(* An event of the user is rendered before anything else happens on the page.
   What a promise or a timer changes is rendered later, and until then the
   user acts on the page, and on the closures, of the last render. *)
renderPending == shown # present \/ ref # project \/ event

(* A value is set at once.  An updater runs at once only if no update awaits
   the render, of this or of other state of the page, and in the render
   otherwise.  The ref is not read between an event and its render. *)
inEvent == event' = TRUE /\ ref' = project'
atOnce == ref' = project' /\ UNCHANGED event
byUpdater == (ref' = ref \/ (~renderPending /\ ref' = project')) /\ UNCHANGED event

(* The page, and perhaps the ref, are still those of the project before. *)
replacedUnseen == shown.generation # lifecycle.generation

(* What a step that does not start from the present project may break: it may
   take a step of another project into this one; without a new revision, it
   may give the present revision a second content, and without unsaved
   changes, one that is in no file. *)
lateProject == IF replacedUnseen THEN {"project"} ELSE {}
lateContent ==
  IF sameContent(shown.project, project) THEN {} ELSE {"content"} \cup (IF isDirty THEN {} ELSE {"clean"})

files == <<handle, disk, saves, opens, crossed>>

----------------------------------------------------------------------------
(* Editing *)

Editing == ~event /\ lifecycle.revision < MaxRevision

newest(s, limit) == SubSeq(s, Len(s) - limit + 1, Len(s))
lastOf(s) == IF Len(s) <= Limit THEN s ELSE newest(s, Limit)
firstOf(s) == IF Len(s) <= Limit THEN s ELSE SubSeq(s, 1, Limit)

(* Mutant: what was undone can still be redone after a new edit. *)
pushedKeepsFuture(h, workspace) == [past |-> lastOf(Append(h.past, workspace)), future |-> h.future]
pushed(h, workspace) == [past |-> lastOf(Append(h.past, workspace)), future |-> <<>>]

UpdateWorkspace ==
  /\ Editing /\ edits < MaxEdits
  /\ edits' = edits + 1
  /\ history' = pushed(history, workspaceOf(ref))
  /\ project' = withWorkspace(ref, [workspaceOf(ref) EXCEPT !.edit = edits'])
  /\ lifecycle' = advanced(lifecycle)
  /\ late' = late \cup lateProject
  /\ inEvent /\ UNCHANGED <<files, activeRef, shown, draft>>

Undo ==
  /\ Editing /\ history.past # <<>>
  /\ history' = [past |-> Front(history.past), future |-> firstOf(<<workspaceOf(ref)>> \o history.future)]
  /\ project' = withWorkspace(ref, Last(history.past))
  /\ lifecycle' = advanced(lifecycle)
  /\ late' = late \cup lateProject
  /\ inEvent /\ UNCHANGED <<files, activeRef, shown, draft, edits>>

Redo ==
  /\ Editing /\ history.future # <<>>
  /\ history' = [past |-> lastOf(Append(history.past, workspaceOf(ref))), future |-> Tail(history.future)]
  /\ project' = withWorkspace(ref, Head(history.future))
  /\ lifecycle' = advanced(lifecycle)
  /\ late' = late \cup lateProject
  /\ inEvent /\ UNCHANGED <<files, activeRef, shown, draft, edits>>

(* The answer to an analysis is committed: no entry of the history. *)
CommitMutation ==
  /\ Editing /\ edits < MaxEdits
  /\ edits' = edits + 1
  /\ project' = [ref EXCEPT !.other = edits']
  /\ lifecycle' = advanced(lifecycle)
  /\ late' = late \cup lateProject
  /\ atOnce /\ UNCHANGED <<files, history, activeRef, shown, draft>>

(* The information on the project, its materials, the options of its reports. *)
ChangeSettings ==
  /\ Editing /\ edits < MaxEdits
  /\ edits' = edits + 1
  /\ project' = [project EXCEPT !.other = edits']
  /\ lifecycle' = advanced(lifecycle)
  /\ inEvent /\ UNCHANGED <<files, history, activeRef, shown, draft, late>>

(* Navigation is no change of the document. *)
SelectObject(object) ==
  LET p == shown.project
  IN /\ ~event /\ object \in idsOf(p) \ {p.active}
     /\ project' = [p EXCEPT !.active = object]
     /\ late' = late \cup lateProject \cup lateContent
     /\ inEvent /\ UNCHANGED <<files, lifecycle, history, activeRef, shown, draft, edits>>

(* A new object is the last one, and active. *)
CreateObject(object) ==
  LET p == shown.project
  IN /\ Editing /\ edits < MaxEdits /\ object \notin idsOf(p)
     /\ edits' = edits + 1
     /\ project' = [p EXCEPT !.objects = Append(@, [of |-> object, edit |-> edits']), !.active = object]
     /\ lifecycle' = advanced(lifecycle)
     /\ late' = late \cup lateProject
     /\ inEvent /\ UNCHANGED <<files, history, activeRef, shown, draft>>

(* The last object stays; the first takes the place of a removed active one. *)
RemoveObject(object) ==
  LET p == shown.project
  IN /\ Editing /\ Len(p.objects) > 1
     /\ \E i \in DOMAIN p.objects :
          LET remaining == RemoveAt(p.objects, i)
          IN /\ p.objects[i].of = object
             /\ project' = [p EXCEPT !.objects = remaining,
                                     !.active = IF @ = object THEN Head(remaining).of ELSE @]
     /\ lifecycle' = advanced(lifecycle)
     /\ late' = late \cup lateProject
     /\ inEvent /\ UNCHANGED <<files, history, activeRef, shown, draft, edits>>

(* A template: an edit of the workspace that lets go of the file, and clears
   the results of the object if there are any, a mutation of its own. *)
RestoreTemplate(hadResults) ==
  /\ Editing /\ edits < MaxEdits /\ (hadResults => lifecycle.revision + 1 < MaxRevision)
  /\ edits' = edits + 1
  /\ history' = pushed(history, workspaceOf(ref))
  /\ project' = LET restored == withWorkspace(ref, [workspaceOf(ref) EXCEPT !.edit = edits'])
                IN IF hadResults THEN [restored EXCEPT !.other = edits'] ELSE restored
  /\ lifecycle' = IF hadResults THEN advanced(advanced(lifecycle)) ELSE advanced(lifecycle)
  /\ late' = late \cup lateProject
  /\ handle' = None
  /\ inEvent /\ UNCHANGED <<activeRef, shown, disk, draft, saves, opens, crossed>>

(* The active object is another than in the last render. *)
navigated == shown.generation # Unrendered /\ shown.project.active # project.active

(* Mutant: the draft is written when the document becomes dirty. *)
RenderDraftsOnce ==
  /\ renderPending
  /\ shown' = present
  /\ ref' = project /\ event' = FALSE
  /\ activeRef' = IF navigated THEN project.active ELSE activeRef
  /\ history' = IF navigated /\ activeRef # project.active THEN emptyHistory ELSE history
  /\ draft' = IF ~isDirty THEN None ELSE IF shown.dirty THEN draft ELSE project
  /\ UNCHANGED <<files, project, lifecycle, edits, late>>

(* A render and its effects: another object's history starts empty, and the
   draft follows the project as long as it is not saved. *)
Render ==
  /\ renderPending
  /\ shown' = present
  /\ ref' = project /\ event' = FALSE
  /\ activeRef' = IF navigated THEN project.active ELSE activeRef
  /\ history' = IF navigated /\ activeRef # project.active THEN emptyHistory ELSE history
  /\ draft' = IF isDirty THEN project ELSE None
  /\ UNCHANGED <<files, project, lifecycle, edits, late>>

----------------------------------------------------------------------------
(* Files *)

Transferring == Cardinality(saves) + Cardinality(opens) < MaxTransfers
busy(file) == \E save \in saves : save.file = file
read(file) == \E open \in opens : open.file = file

(* Save to the handle, or to a file the user picks: the project of the last
   render, and the present revision. *)
SaveStart(file) ==
  /\ ~event /\ Transferring
  /\ saves' = saves \cup {[project |-> shown.project, file |-> file, written |-> FALSE,
                           generation |-> lifecycle.generation, revision |-> lifecycle.revision]}
  /\ crossed' = IF busy(file) \/ read(file) THEN crossed \cup {file} ELSE crossed
  /\ late' = late \cup lateProject \cup lateContent
  /\ UNCHANGED <<project, ref, lifecycle, handle, history, activeRef, shown, event, disk, draft, opens, edits>>

SaveWrite(save) ==
  /\ ~save.written
  /\ disk' = [disk EXCEPT ![save.file] = save.project]
  /\ saves' = (saves \ {save}) \cup {[save EXCEPT !.written = TRUE]}
  /\ UNCHANGED <<project, ref, lifecycle, handle, history, activeRef, shown, event, draft, opens, edits,
                 crossed, late>>

(* The picker is dismissed, or the file cannot be written. *)
SaveFail(save) ==
  /\ ~save.written /\ ~event
  /\ saves' = saves \ {save}
  /\ UNCHANGED <<project, ref, lifecycle, handle, history, activeRef, shown, event, disk, draft, opens, edits,
                 crossed, late>>

(* The updater of the project comes after the handle is set. *)
savedBack(save) == project' = save.project /\ byUpdater /\ (ref' # ref => handle = save.file)

(* Mutant: a save of the last project is completed in the present one. *)
SaveCompleteAnyProject(save) ==
  LET accepted == save.revision = lifecycle.revision
  IN /\ save.written /\ ~event
     /\ saves' = saves \ {save}
     /\ handle' = save.file
     /\ lifecycle' = completed(lifecycle, save.revision)
     /\ IF accepted THEN savedBack(save) ELSE UNCHANGED <<project, ref, event>>
     /\ UNCHANGED <<history, activeRef, shown, disk, draft, opens, edits, crossed, late>>

(* completeProjectFileSave(): nothing of a project that was replaced, the
   handle of any save of this one, and the saved mark only for the revision
   the project still has; the project it saved is put back. *)
SaveComplete(save) ==
  LET same == save.generation = lifecycle.generation
      accepted == save.revision = lifecycle.revision
  IN /\ save.written /\ ~event
     /\ saves' = saves \ {save}
     /\ handle' = IF same THEN save.file ELSE handle
     /\ lifecycle' = IF same THEN completed(lifecycle, save.revision) ELSE lifecycle
     /\ IF same /\ accepted THEN savedBack(save) ELSE UNCHANGED <<project, ref, event>>
     /\ UNCHANGED <<history, activeRef, shown, disk, draft, opens, edits, crossed, late>>

(* The user agreed to lose unsaved changes, if there were any, and picked a
   file, which is read. *)
OpenStart(file) ==
  /\ ~event /\ Transferring
  /\ opens' = opens \cup {[file |-> file, project |-> disk[file]]}
  /\ crossed' = IF busy(file) THEN crossed \cup {file} ELSE crossed
  /\ UNCHANGED <<project, ref, lifecycle, handle, history, activeRef, shown, event, disk, draft, saves, edits,
                 late>>

replaceProject(next, file) ==
  /\ project' = next /\ handle' = file
  /\ lifecycle' = replacedRevision(lifecycle)
  /\ activeRef' = next.active /\ history' = emptyHistory

OpenFinish(open) ==
  /\ ~event /\ lifecycle.revision < MaxRevision
  /\ replaceProject(open.project, open.file)
  /\ opens' = opens \ {open}
  /\ byUpdater /\ UNCHANGED <<shown, disk, draft, saves, edits, crossed, late>>

OpenFail(open) ==
  /\ ~event
  /\ opens' = opens \ {open}
  /\ UNCHANGED <<project, ref, lifecycle, handle, history, activeRef, shown, event, disk, draft, saves, edits,
                 crossed, late>>

NewProject ==
  /\ Editing /\ edits < MaxEdits
  /\ edits' = edits + 1
  /\ replaceProject(blank(edits'), None)
  /\ inEvent /\ UNCHANGED <<shown, disk, draft, saves, opens, crossed, late>>

(* The page ends and is loaded again: what the storage has is restored as an
   unsaved project; saves that were not written are lost with the page. *)
restored(p) ==
  /\ project' = IF p = None THEN blank(0) ELSE p
  /\ lifecycle' = [generation |-> 0, revision |-> 0, saved |-> IF p = None THEN 0 ELSE NoRevision]

Reload ==
  /\ ~event /\ edits < MaxEdits /\ edits' = edits + 1
  /\ restored(draft)
  /\ handle' = None /\ history' = emptyHistory /\ activeRef' = project'.active
  /\ shown' = [project |-> None, dirty |-> FALSE, generation |-> Unrendered] /\ inEvent
  /\ saves' = {} /\ opens' = {} /\ crossed' = {} /\ late' = {}
  /\ UNCHANGED <<disk, draft>>
----------------------------------------------------------------------------
Init ==
  /\ project = blank(0) /\ lifecycle = [generation |-> 0, revision |-> 0, saved |-> 0]
  /\ handle = None /\ history = emptyHistory /\ activeRef = project.active
  /\ shown = [project |-> None, dirty |-> FALSE, generation |-> Unrendered] /\ ref = project /\ event = TRUE
  /\ disk = [file \in File |-> blank(file)] /\ draft = None
  /\ saves = {} /\ opens = {} /\ edits = 0 /\ crossed = {} /\ late = {}

Next ==
  \/ UpdateWorkspace \/ Undo \/ Redo \/ CommitMutation \/ ChangeSettings \/ Render
  \/ \E object \in Object : SelectObject(object) \/ CreateObject(object) \/ RemoveObject(object)
  \/ \E hadResults \in BOOLEAN : RestoreTemplate(hadResults)
  \/ \E file \in File : SaveStart(file) \/ OpenStart(file)
  \/ \E save \in saves : SaveWrite(save) \/ SaveFail(save) \/ SaveComplete(save)
  \/ \E open \in opens : OpenFinish(open) \/ OpenFail(open)
  \/ NewProject \/ Reload

Spec == Init /\ [][Next]_vars
----------------------------------------------------------------------------
Workspace == [of: Object, edit: 0..MaxEdits]
Project == [doc: File \cup 0..MaxEdits, active: Object, objects: Seq(Workspace), other: 0..MaxEdits]

(* Every variable has its shape, and the active object is one of the project. *)
TypeOK ==
  /\ {project, ref} \subseteq Project /\ project.active \in idsOf(project)
  /\ lifecycle \in [generation: Nat, revision: 0..MaxRevision, saved: NoRevision..MaxRevision]
  /\ handle \in File \cup {None} /\ event \in BOOLEAN
  /\ history.past \in Seq(Workspace) /\ history.future \in Seq(Workspace)
  /\ disk \in [File -> Project] /\ draft \in Project \cup {None}
  /\ opens \subseteq [file: File, project: Project]
  /\ crossed \subseteq File /\ late \subseteq {"project", "content", "clean"}

(* A project that came from or went to a file and shows no unsaved changes is
   in a file, whatever saves of it or of others come late, and although a save
   writes the project of the last render under the present revision.  Not so
   once a file was saved or read while a save of it was under way, or an object
   was selected or a save started before the page showed a document that had
   just become clean. *)
SavedMeansWritten ==
  handle # None /\ ~isDirty /\ crossed = {} /\ "clean" \notin late =>
    \E file \in File : sameContent(disk[file], project)

(* A late save of one project never makes its file the file of another, as long
   as that file is used by one save or open at a time and the user does nothing
   between the opening of a project and its render. *)
HandleIsOfProject ==
  handle \notin crossed \cup {None} /\ "project" \notin late => disk[handle].doc = project.doc

(* Undo, redo and new edits keep one line of time: everything before the
   present workspace is older, everything after it newer, all of it is of the
   active object, and neither end grows beyond its limit.  That is, if nothing
   is done between the opening of a project and its render. *)
TimelineInOrder ==
  LET line == history.past \o <<workspaceOf(project)>> \o history.future
  IN ~renderPending /\ "project" \notin late =>
       /\ \A i \in 1..Len(line) - 1 : line[i].edit < line[i + 1].edit
       /\ \A i \in DOMAIN line : line[i].of = project.active
       /\ Len(history.past) <= Limit /\ Len(history.future) <= Limit

(* A reload loses nothing that was on the screen: the page comes back with
   it, or it is in a file, or it was a new project without an edit.  And what
   is on the page changes only with the revision: a save that completes puts
   back the content the page has, unless it, or a selection of an object,
   started from a page that did not show that content yet. *)
ReloadKeepsWork ==
  [][/\ shown'.generation = Unrendered /\ ~renderPending /\ crossed = {} /\ "clean" \notin late =>
          \/ sameContent(project', project)
          \/ \E file \in File : sameContent(disk[file], project)
          \/ sameContent(blank(project.doc), project)
     /\ shown'.generation # Unrendered /\ lifecycle'.generation = lifecycle.generation
          /\ lifecycle'.revision = lifecycle.revision /\ "content" \notin late' =>
            sameContent(project', project)]_vars
=============================================================================
