---------------------------- MODULE BrowserStorage ----------------------------
(***************************************************************************)
(* Several tabs of the workbench on one browser storage: the draft of the  *)
(* project (frontend/src/lib/project-autosave.ts, the effect of            *)
(* hooks/useSolverProjectDocument.ts) and the library of templates         *)
(* (lib/template-library.ts, hooks/useTemplateLibrary.ts).  A tab reads    *)
(* the storage once, when its page is loaded, keeps what it read, and      *)
(* writes it in effects; nothing tells it of what another tab writes.      *)
(*                                                                         *)
(* A project is known by its last edit and by whether it has review points *)
(* or snapshots of results, which templates leave out; the rest of the     *)
(* document is ProjectDocument.  Names and time stamps of templates, and   *)
(* with them their order in the list, are left out.                        *)
(***************************************************************************)
EXTENDS Naturals, FiniteSets

CONSTANTS
  Tab,                   \* tabs, standalone or of a host page
  None, Corrupt,         \* no value; a value that cannot be parsed
  MaxCount,              \* MAX_TEMPLATE_COUNT
  Legacies,              \* what the storage may hold under the key of old versions
  MaxMade, MaxFailures   \* bounds on edits and templates, and on refused writes

Project == [edit: Nat, reviewed: BOOLEAN]
Template == [id: Nat, project: Project]
Library == [templates: SUBSET Template, baseline: Nat \cup {None}]
Page == [embedded: BOOLEAN, project: Project, dirty: BOOLEAN, library: Library,
         draftPending: BOOLEAN, libraryPending: BOOLEAN, owned: SUBSET Nat]

ASSUME StorageAssumption ==
  /\ MaxCount \in Nat \ {0} /\ MaxMade \in Nat /\ MaxFailures \in Nat
  /\ Legacies \subseteq Library \cup {None, Corrupt}

ASSUME ValuesAssumption ==
  {None, Corrupt} \cap (Project \cup Library \cup Page \cup Tab) = {} /\ None \notin Nat

VARIABLES
  tab,       \* tab[t]: the page of t
  storage,   \* what the storage holds under its three keys
  files,     \* the projects that are in a file, and the new one
  made,      \* edits and templates so far
  failures,  \* writes that were refused so far
  written    \* who wrote draft and library last, if its last write was not refused

vars == <<tab, storage, files, made, failures, written>>

blank == [edit |-> 0, reviewed |-> FALSE]
emptyLibrary == [templates |-> {}, baseline |-> None]
idsOf(library) == {template.id : template \in library.templates}

----------------------------------------------------------------------------
(* What a page makes of the storage when it is loaded *)

(* A baseline that is no template of the library is forgotten. *)
normalizeTemplateLibraryState(raw) ==
  [raw EXCEPT !.baseline = IF @ \in idsOf(raw) THEN @ ELSE None]

readable(value) == value \notin {None, Corrupt}

createTemplateLibraryStateFromStorage ==
  IF readable(storage.library) THEN normalizeTemplateLibraryState(storage.library)
  ELSE IF readable(storage.legacy) THEN normalizeTemplateLibraryState(storage.legacy)
  ELSE emptyLibrary

(* Mutant: the project of the draft is not called unsaved. *)
initialDocumentAsSaved ==
  [project |-> IF readable(storage.draft) THEN storage.draft ELSE blank, dirty |-> FALSE]

createInitialProjectDocumentState ==
  IF readable(storage.draft) THEN [project |-> storage.draft, dirty |-> TRUE]
  ELSE [project |-> blank, dirty |-> FALSE]

(* A page: its project and library, which of them its effects have not
   written yet, and the templates its user has: read, made, not deleted. *)
page(embedded, document, library) ==
  [embedded |-> embedded, project |-> document.project, dirty |-> document.dirty, library |-> library,
   draftPending |-> TRUE, libraryPending |-> TRUE,
   owned |-> idsOf(library)]

(* An embedded page leaves the storage to those that are not. *)
Load(t, embedded) ==
  /\ tab[t] # None => embedded = tab[t].embedded
  /\ tab' = [tab EXCEPT ![t] =
       IF embedded THEN page(TRUE, [project |-> blank, dirty |-> FALSE], emptyLibrary)
       ELSE page(FALSE, createInitialProjectDocumentState, createTemplateLibraryStateFromStorage)]
  /\ UNCHANGED <<storage, files, made, failures, written>>

(* The effects of a render.  The mere loading of a page is one, and whatever
   sets the project, with or without a change.  A write that the browser
   refuses is passed over. *)
Outcomes(t, pending) == IF pending /\ ~tab[t].embedded THEN {"done", "refused"} ELSE {"none"}

writer(t, last, outcome) ==
  CASE outcome = "none" -> last
    [] outcome = "done" -> t
    [] OTHER -> IF last = t THEN None ELSE last

autosaved(t) == IF tab[t].dirty THEN tab[t].project ELSE None

Effects(t, draftWrite, libraryWrite) ==
  LET p == tab[t]
      refused(write) == IF write = "refused" THEN 1 ELSE 0
  IN /\ p # None /\ (p.draftPending \/ p.libraryPending)
     /\ draftWrite \in Outcomes(t, p.draftPending)
     /\ libraryWrite \in Outcomes(t, p.libraryPending)
     /\ failures' = failures + refused(draftWrite) + refused(libraryWrite) /\ failures' <= MaxFailures
     /\ storage' = [storage EXCEPT !.draft = IF draftWrite = "done" THEN autosaved(t) ELSE @,
                                   !.library = IF libraryWrite = "done" THEN p.library ELSE @]
     /\ written' = [draft |-> writer(t, written.draft, draftWrite),
                    library |-> writer(t, written.library, libraryWrite)]
     /\ tab' = [tab EXCEPT ![t].draftPending = FALSE, ![t].libraryPending = FALSE]
     /\ UNCHANGED <<files, made>>

----------------------------------------------------------------------------
(* The project *)

settled(t) == tab[t] # None /\ ~tab[t].draftPending /\ ~tab[t].libraryPending

(* The project of t is set; React renders before the next event. *)
setProject(t, project, dirty) ==
  /\ tab' = [tab EXCEPT ![t].project = project, ![t].dirty = dirty, ![t].draftPending = TRUE]
  /\ UNCHANGED <<storage, failures, written>>

(* An edit, maybe one that adds a review point or a snapshot of results. *)
Edit(t, reviewed) ==
  /\ settled(t) /\ made < MaxMade /\ made' = made + 1
  /\ setProject(t, [edit |-> made', reviewed |-> reviewed], TRUE)
  /\ UNCHANGED files

(* Another object is looked at: the project is set, and not changed. *)
Navigate(t) ==
  /\ settled(t) /\ setProject(t, tab[t].project, tab[t].dirty) /\ UNCHANGED <<files, made>>

(* A save that ends: in a file, or at the host of an embedded tab.  What may come
   in between is left to ProjectDocument and HostSession. *)
Save(t) ==
  /\ settled(t) /\ files' = files \cup {tab[t].project}
  /\ setProject(t, tab[t].project, FALSE) /\ UNCHANGED made

(* A file, or a new project, once the user agreed to lose what is not saved. *)
Replace(t, project) ==
  /\ settled(t) /\ project \in files
  /\ setProject(t, project, FALSE) /\ UNCHANGED <<files, made>>

(* If the template is what is there, the project is at most set, as by Navigate. *)
RestoreTemplate(t, template) ==
  /\ settled(t) /\ template.project # tab[t].project
  /\ setProject(t, template.project, TRUE) /\ UNCHANGED <<files, made>>

----------------------------------------------------------------------------
(* The library *)

createWorkspaceSnapshot(project) == [project EXCEPT !.reviewed = FALSE]

(* setState: React renders before the next event. *)
setLibrary(t, library, owned) ==
  /\ tab' = [tab EXCEPT ![t].library = library, ![t].libraryPending = TRUE,
                        ![t].owned = owned]
  /\ UNCHANGED <<storage, files, failures, written>>

withTemplate(library, project) ==
  [library EXCEPT !.templates = @ \cup {[id |-> made', project |-> project]}]

(* Mutant: a full library makes room for a new template. *)
withoutOldest(library) ==
  IF Cardinality(library.templates) < MaxCount THEN library
  ELSE [library EXCEPT !.templates =
         {template \in @ : \E older \in @ : older.id < template.id}]
addTemplateMakingRoom(t, project) ==
  /\ settled(t) /\ made < MaxMade /\ made' = made + 1
  /\ setLibrary(t, withTemplate(withoutOldest(tab[t].library), project), tab[t].owned \cup {made'})

(* A full library takes no more. *)
addTemplate(t, project) ==
  /\ settled(t) /\ Cardinality(tab[t].library.templates) < MaxCount
  /\ made < MaxMade /\ made' = made + 1
  /\ setLibrary(t, withTemplate(tab[t].library, project), tab[t].owned \cup {made'})

SaveTemplate(t) == addTemplate(t, createWorkspaceSnapshot(tab[t].project))
DuplicateTemplate(t, template) == addTemplate(t, template.project)

DeleteTemplate(t, template) ==
  /\ settled(t)
  /\ setLibrary(t, [tab[t].library EXCEPT !.templates = {other \in @ : other.id # template.id},
                                          !.baseline = IF @ = template.id THEN None ELSE @],
                tab[t].owned \ {template.id})
  /\ UNCHANGED made

(* The button sets the baseline, or takes it back. *)
ToggleBaseline(t, template) ==
  /\ settled(t)
  /\ setLibrary(t, [tab[t].library EXCEPT !.baseline = IF @ = template.id THEN None ELSE template.id],
                tab[t].owned)
  /\ UNCHANGED made

----------------------------------------------------------------------------
Init ==
  /\ tab = [t \in Tab |-> None]
  /\ storage \in [draft: {None, Corrupt}, library: {None, Corrupt}, legacy: Legacies]
  /\ files = {blank} /\ made = 0 /\ failures = 0
  /\ written = [draft |-> None, library |-> None]

UsesTemplate(t, template) ==
  \/ RestoreTemplate(t, template) \/ DuplicateTemplate(t, template)
  \/ DeleteTemplate(t, template) \/ ToggleBaseline(t, template)

Next ==
  \E t \in Tab :
    \/ \E embedded \in BOOLEAN : Load(t, embedded)
    \/ Navigate(t) \/ Save(t) \/ SaveTemplate(t)
    \/ \E reviewed \in BOOLEAN : Edit(t, reviewed)
    \/ \E project \in files : Replace(t, project)
    \/ \E draftWrite, libraryWrite \in {"none", "done", "refused"} : Effects(t, draftWrite, libraryWrite)
    \/ tab[t] # None /\ \E template \in tab[t].library.templates : UsesTemplate(t, template)

Spec == Init /\ [][Next]_vars

----------------------------------------------------------------------------
(* Every variable has its shape. *)
TypeOK ==
  /\ tab \in [Tab -> Page \cup {None}]
  /\ storage \in [draft: Project \cup {None, Corrupt}, library: Library \cup {None, Corrupt},
                  legacy: Legacies]
  /\ files \subseteq Project /\ made \in Nat /\ failures \in Nat
  /\ written \in [draft: Tab \cup {None}, library: Tab \cup {None}]

storedIds == IF readable(storage.library) THEN idsOf(storage.library) ELSE {}
reloaded(t) == settled(t) /\ tab'[t].draftPending /\ tab'[t].libraryPending

(* A page that is loaded again comes back with what was on the screen, unless
   another tab wrote the storage since or its own last write was refused: the
   project, if it is in no file and has been changed, and the whole library.
   Neither an embedded tab nor what an older version left behind interferes. *)
ReloadBringsBack ==
  [][\A t \in Tab : reloaded(t) =>
       /\ written.draft = t =>
            tab[t].project \in files \/ tab'[t].project = tab[t].project
       /\ written.library = t => tab'[t].library = tab[t].library]_vars

(* A tab that writes the library stores the templates it read and those made
   in it, less those its user deleted: none is dropped, none comes back. *)
LibraryFollowsUser ==
  [][storage'.library # storage.library =>
       storedIds' = tab[written'.library].owned]_vars
=============================================================================
