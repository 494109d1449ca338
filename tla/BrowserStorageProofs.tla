------------------------ MODULE BrowserStorageProofs ------------------------
(***************************************************************************)
(* For any tabs, any libraries left by older versions, any limit and any   *)
(* number of refused writes: what a page loaded again comes back with, and *)
(* what a tab writes as its library.                                       *)
(***************************************************************************)
EXTENDS BrowserStorage, TLAPS

(* A page's library is what its user has, with a baseline of its own. *)
LibraryFits(p) == p.owned = idsOf(p.library) /\ p.library.baseline \in idsOf(p.library) \cup {None}

(* Without unsaved changes a page shows what is in a file. *)
CleanFits(p) == ~p.dirty => p.project \in files

(* The storage holds what the page wrote that wrote last. *)
StorageFits(t) ==
  /\ written.draft = t => tab[t] # None /\ ~tab[t].embedded
       /\ (~tab[t].draftPending => storage.draft = autosaved(t))
  /\ written.library = t => tab[t] # None /\ ~tab[t].embedded
       /\ (~tab[t].libraryPending => storage.library = tab[t].library)

IInv ==
  /\ TypeOK /\ blank \in files
  /\ \A t \in Tab : tab[t] # None => LibraryFits(tab[t]) /\ CleanFits(tab[t])
  /\ \A t \in Tab : StorageFits(t)

(* None and Corrupt are no pages, projects, libraries or tabs. *)
LEMMA NoValues ==
  /\ \A p \in Page : p # None
  /\ \A x \in Project \cup Library : readable(x)
  /\ None \notin Tab
  BY ValuesAssumption DEF readable

(* The identifiers of a library are numbers. *)
LEMMA IdsAreNumbers == \A library \in Library : idsOf(library) \in SUBSET Nat
  BY DEF idsOf, Library, Template

(* A normalized library is a library with the same templates. *)
LEMMA NormalizedFits ==
  \A raw \in Library :
    LET library == normalizeTemplateLibraryState(raw)
    IN /\ library \in Library /\ idsOf(library) = idsOf(raw)
       /\ library.baseline \in idsOf(library) \cup {None}
<1> SUFFICES ASSUME NEW raw \in Library
             PROVE LET library == normalizeTemplateLibraryState(raw)
                   IN /\ library \in Library /\ idsOf(library) = idsOf(raw)
                      /\ library.baseline \in idsOf(library) \cup {None}
  OBVIOUS
<1>1. idsOf(raw) \in SUBSET Nat
  BY IdsAreNumbers
<1>2. normalizeTemplateLibraryState(raw) \in Library
  BY <1>1 DEF normalizeTemplateLibraryState, Library
<1>3. normalizeTemplateLibraryState(raw).templates = raw.templates
  BY DEF normalizeTemplateLibraryState, Library
<1>4. normalizeTemplateLibraryState(raw).baseline \in idsOf(raw) \cup {None}
  BY DEF normalizeTemplateLibraryState, Library
<1> QED  BY <1>2, <1>3, <1>4 DEF idsOf

(* The blank project and the empty library are values of their kind. *)
LEMMA Blanks ==
  blank \in Project /\ emptyLibrary \in Library /\ idsOf(emptyLibrary) = {} /\ emptyLibrary.baseline = None
  BY DEF blank, emptyLibrary, Project, Library, idsOf

(* A page that is loaded gets a library that fits, and a project that is either
   marked unsaved or blank. *)
LEMMA LoadedFits ==
  ASSUME TypeOK, blank \in files
  PROVE /\ createTemplateLibraryStateFromStorage \in Library
        /\ createTemplateLibraryStateFromStorage.baseline
             \in idsOf(createTemplateLibraryStateFromStorage) \cup {None}
        /\ createInitialProjectDocumentState \in [project: Project, dirty: BOOLEAN]
        /\ ~createInitialProjectDocumentState.dirty => createInitialProjectDocumentState.project \in files
<1>1. storage.library \in Library \cup {None, Corrupt} /\ storage.draft \in Project \cup {None, Corrupt}
  BY DEF TypeOK
<1>2. storage.legacy \in Library \cup {None, Corrupt}
  BY StorageAssumption DEF TypeOK
<1>3. /\ createTemplateLibraryStateFromStorage \in Library
      /\ createTemplateLibraryStateFromStorage.baseline
           \in idsOf(createTemplateLibraryStateFromStorage) \cup {None}
  <2>1. CASE readable(storage.library)
    <3>1. storage.library \in Library
      BY <1>1, <2>1 DEF readable
    <3> QED  BY <2>1, <3>1, NormalizedFits DEF createTemplateLibraryStateFromStorage
  <2>2. CASE ~readable(storage.library) /\ readable(storage.legacy)
    <3>1. storage.legacy \in Library
      BY <1>2, <2>2 DEF readable
    <3> QED  BY <2>2, <3>1, NormalizedFits DEF createTemplateLibraryStateFromStorage
  <2>3. CASE ~readable(storage.library) /\ ~readable(storage.legacy)
    BY <2>3, Blanks DEF createTemplateLibraryStateFromStorage
  <2> QED  BY <2>1, <2>2, <2>3
<1>4. /\ createInitialProjectDocumentState \in [project: Project, dirty: BOOLEAN]
      /\ ~createInitialProjectDocumentState.dirty => createInitialProjectDocumentState.project \in files
  <2>1. CASE readable(storage.draft)
    <3>1. storage.draft \in Project
      BY <1>1, <2>1 DEF readable
    <3> QED  BY <2>1, <3>1 DEF createInitialProjectDocumentState
  <2>2. CASE ~readable(storage.draft)
    BY <2>2, Blanks DEF createInitialProjectDocumentState
  <2> QED  BY <2>1, <2>2
<1> QED  BY <1>3, <1>4

(* At the start there is no page. *)
LEMMA InitIInv == Init => IInv
<1> SUFFICES ASSUME Init PROVE IInv
  OBVIOUS
<1>1. TypeOK
  <2>1. tab \in [Tab -> Page \cup {None}]
    BY DEF Init
  <2>2. storage \in [draft: Project \cup {None, Corrupt}, library: Library \cup {None, Corrupt},
                     legacy: Legacies]
    BY DEF Init
  <2> QED  BY <2>1, <2>2, Blanks DEF Init, TypeOK
<1>2. \A t \in Tab : tab[t] = None /\ written.draft # t /\ written.library # t
  BY NoValues DEF Init
<1> QED  BY <1>1, <1>2 DEF IInv, Init, StorageFits

(* What a step must keep that changes one page and does not write the storage:
   a page that calls something written has not changed it. *)
LEMMA PageStep ==
  ASSUME IInv, NEW t \in Tab, NEW p \in Page,
         tab' = [tab EXCEPT ![t] = p], UNCHANGED <<storage, failures, written>>,
         files \subseteq files', files' \subseteq Project, made' \in Nat,
         LibraryFits(p), ~p.dirty => p.project \in files',
         tab[t] # None => p.embedded = tab[t].embedded,
         ~p.draftPending => /\ tab[t] # None /\ ~tab[t].draftPending
                            /\ p.dirty = tab[t].dirty /\ p.project = tab[t].project,
         ~p.libraryPending => tab[t] # None /\ ~tab[t].libraryPending /\ p.library = tab[t].library
  PROVE IInv'
<1>1. TypeOK'
  BY DEF IInv, TypeOK
<1>2. tab'[t] = p /\ \A u \in Tab \ {t} : tab'[u] = tab[u]
  BY DEF IInv, TypeOK
<1>3. ASSUME NEW u \in Tab, tab'[u] # None
      PROVE LibraryFits(tab'[u]) /\ (~tab'[u].dirty => tab'[u].project \in files')
  <2>1. CASE u = t
    BY <1>2, <2>1
  <2>2. CASE u # t
    BY <1>2, <1>3, <2>2 DEF IInv, CleanFits
  <2> QED  BY <2>1, <2>2
<1>4. ASSUME NEW u \in Tab PROVE StorageFits(u)'
  <2>1. CASE u = t
    BY <1>2, <2>1, NoValues DEF IInv, StorageFits, autosaved
  <2>2. CASE u # t
    BY <1>2, <2>2 DEF IInv, StorageFits, autosaved
  <2> QED  BY <2>1, <2>2
<1>5. blank \in files'
  BY DEF IInv
<1> QED  BY <1>1, <1>3, <1>4, <1>5 DEF IInv, CleanFits, LibraryFits, idsOf, blank

(* Setting the project of a page keeps the invariant. *)
LEMMA ProjectSet ==
  ASSUME IInv, NEW t \in Tab, tab[t] # None, NEW project \in Project, NEW dirty \in BOOLEAN,
         setProject(t, project, dirty), files \subseteq files', files' \subseteq Project, made' \in Nat,
         ~dirty => project \in files'
  PROVE IInv'
<1> DEFINE p == [tab[t] EXCEPT !.project = project, !.dirty = dirty, !.draftPending = TRUE]
<1>1. tab[t] \in Page /\ LibraryFits(tab[t])
  BY DEF IInv, TypeOK
<1>2. /\ p \in Page /\ p.draftPending /\ p.embedded = tab[t].embedded
      /\ p.dirty = dirty /\ p.project = project /\ p.library = tab[t].library
      /\ p.owned = tab[t].owned /\ p.libraryPending = tab[t].libraryPending
  BY <1>1 DEF Page
<1>3. LibraryFits(p)
  BY <1>1, <1>2 DEF LibraryFits
<1>4. tab' = [tab EXCEPT ![t] = p]
  BY DEF setProject
<1> HIDE DEF p
<1> QED  BY <1>2, <1>3, <1>4, PageStep DEF setProject

(* Setting its library does, if the new one fits what the user has. *)
LEMMA LibrarySet ==
  ASSUME IInv, NEW t \in Tab, tab[t] # None, NEW library \in Library,
         library.baseline \in idsOf(library) \cup {None},
         setLibrary(t, library, idsOf(library)), made' \in Nat
  PROVE IInv'
<1> DEFINE p == [tab[t] EXCEPT !.library = library, !.libraryPending = TRUE, !.owned = idsOf(library)]
<1>1. tab[t] \in Page /\ CleanFits(tab[t]) /\ files \subseteq Project
  BY DEF IInv, TypeOK
<1>2. /\ p \in Page /\ p.libraryPending /\ p.embedded = tab[t].embedded
      /\ p.dirty = tab[t].dirty /\ p.project = tab[t].project /\ p.library = library
      /\ p.owned = idsOf(library) /\ p.draftPending = tab[t].draftPending
  BY <1>1, IdsAreNumbers DEF Page
<1>3. LibraryFits(p) /\ (~p.dirty => p.project \in files)
  BY <1>1, <1>2 DEF LibraryFits, CleanFits
<1>4. tab' = [tab EXCEPT ![t] = p]
  BY DEF setLibrary
<1> HIDE DEF p
<1> QED  BY <1>1, <1>2, <1>3, <1>4, PageStep DEF setLibrary

(* A loaded page has nothing written yet, and fits. *)
LEMMA LoadKeeps ==
  ASSUME IInv, NEW t \in Tab, NEW embedded \in BOOLEAN, Load(t, embedded) PROVE IInv'
<1>1. TypeOK /\ blank \in files /\ files \subseteq Project /\ made \in Nat
  BY DEF IInv, TypeOK
<1>2. CASE embedded
  <2> DEFINE p == page(TRUE, [project |-> blank, dirty |-> FALSE], emptyLibrary)
  <2>1. /\ p \in Page /\ p.embedded /\ p.draftPending /\ p.libraryPending /\ LibraryFits(p)
        /\ p.project = blank
    BY Blanks DEF page, Page, LibraryFits
  <2>2. tab' = [tab EXCEPT ![t] = p]
    BY <1>2 DEF Load
  <2> HIDE DEF p
  <2> QED  BY <1>1, <1>2, <2>1, <2>2, PageStep DEF Load
<1>3. CASE ~embedded
  <2> DEFINE document == createInitialProjectDocumentState
             library == createTemplateLibraryStateFromStorage
             p == page(FALSE, document, library)
  <2>1. /\ library \in Library /\ library.baseline \in idsOf(library) \cup {None}
        /\ document \in [project: Project, dirty: BOOLEAN] /\ (~document.dirty => document.project \in files)
    BY <1>1, LoadedFits
  <2> HIDE DEF document, library
  <2>2. /\ p \in Page /\ p.embedded = FALSE /\ p.draftPending /\ p.libraryPending /\ LibraryFits(p)
        /\ (~p.dirty => p.project \in files)
    BY <2>1, IdsAreNumbers DEF page, Page, LibraryFits
  <2>3. tab' = [tab EXCEPT ![t] = p] /\ (tab[t] # None => tab[t].embedded = FALSE)
    BY <1>3 DEF Load, document, library
  <2> HIDE DEF p
  <2> QED  BY <1>1, <1>3, <2>2, <2>3, PageStep DEF Load
<1> QED  BY <1>2, <1>3

(* What the effects of a page store is what the page shows, and nothing of what
   another page called its own any more. *)
LEMMA EffectsKeep ==
  ASSUME IInv, NEW t \in Tab, NEW draftWrite, NEW libraryWrite, Effects(t, draftWrite, libraryWrite)
  PROVE IInv'
<1> DEFINE p == tab[t]
           q == [p EXCEPT !.draftPending = FALSE, !.libraryPending = FALSE]
<1>1. p \in Page /\ LibraryFits(p) /\ CleanFits(p)
  BY DEF IInv, TypeOK, Effects
<1>2. /\ q \in Page /\ q.embedded = p.embedded /\ q.dirty = p.dirty /\ q.project = p.project
      /\ q.library = p.library /\ q.owned = p.owned /\ ~q.draftPending /\ ~q.libraryPending
  BY <1>1 DEF Page
<1>3. tab'[t] = q /\ (\A u \in Tab \ {t} : tab'[u] = tab[u]) /\ tab' \in [Tab -> Page \cup {None}]
  <2>1. tab' = [tab EXCEPT ![t] = q]
    BY DEF Effects
  <2> QED  BY <1>2, <2>1 DEF IInv, TypeOK
<1>4. /\ storage' \in [draft: Project \cup {None, Corrupt}, library: Library \cup {None, Corrupt},
                       legacy: Legacies]
      /\ storage'.draft = IF draftWrite = "done" THEN autosaved(t) ELSE storage.draft
      /\ storage'.library = IF libraryWrite = "done" THEN p.library ELSE storage.library
  <2>1. autosaved(t) \in Project \cup {None} /\ p.library \in Library
    BY <1>1 DEF autosaved, Page
  <2> QED  BY <2>1 DEF Effects, IInv, TypeOK
<1>5. /\ draftWrite \in Outcomes(t, p.draftPending) /\ libraryWrite \in Outcomes(t, p.libraryPending)
      /\ written'.draft = writer(t, written.draft, draftWrite)
      /\ written'.library = writer(t, written.library, libraryWrite)
      /\ written' \in [draft: Tab \cup {None}, library: Tab \cup {None}]
  BY DEF Effects, IInv, TypeOK, writer
<1>6. failures' \in Nat /\ files' = files /\ made' = made
  BY DEF Effects, IInv, TypeOK
<1>7. TypeOK'
  BY <1>3, <1>4, <1>5, <1>6 DEF IInv, TypeOK
<1>8. autosaved(t)' = autosaved(t)
  BY <1>2, <1>3 DEF autosaved
<1> HIDE DEF p, q
<1>9. ASSUME NEW u \in Tab, tab'[u] # None PROVE LibraryFits(tab'[u]) /\ (~tab'[u].dirty => tab'[u].project \in files')
  <2>1. CASE u = t
    BY <1>1, <1>2, <1>3, <1>6, <2>1 DEF LibraryFits, CleanFits
  <2>2. CASE u # t
    BY <1>3, <1>6, <1>9, <2>2 DEF IInv, CleanFits
  <2> QED  BY <2>1, <2>2
<1>10. StorageFits(t)'
  <2>1. p # None /\ StorageFits(t) /\ tab[t] = p
    BY DEF Effects, IInv, p
  <2>2. ASSUME written'.draft = t PROVE ~q.embedded /\ storage'.draft = autosaved(t)
    <3>1. CASE draftWrite = "done"
      BY <1>2, <1>4, <1>5, <2>1, <3>1 DEF Outcomes
    <3>2. CASE draftWrite = "none"
      BY <1>2, <1>4, <1>5, <2>1, <2>2, <3>2 DEF Outcomes, writer, StorageFits
    <3>3. CASE draftWrite = "refused"
      BY <1>5, <2>2, <3>3, NoValues DEF writer
    <3> QED  BY <1>5, <3>1, <3>2, <3>3 DEF Outcomes
  <2>3. ASSUME written'.library = t PROVE ~q.embedded /\ storage'.library = q.library
    <3>1. CASE libraryWrite = "done"
      BY <1>2, <1>4, <1>5, <2>1, <3>1 DEF Outcomes
    <3>2. CASE libraryWrite = "none"
      BY <1>2, <1>4, <1>5, <2>1, <2>3, <3>2 DEF Outcomes, writer, StorageFits
    <3>3. CASE libraryWrite = "refused"
      BY <1>5, <2>3, <3>3, NoValues DEF writer
    <3> QED  BY <1>5, <3>1, <3>2, <3>3 DEF Outcomes
  <2> QED  BY <1>2, <1>3, <1>8, <2>2, <2>3, NoValues DEF StorageFits
<1>11. ASSUME NEW u \in Tab, u # t PROVE StorageFits(u)'
  <2>1. StorageFits(u) /\ tab'[u] = tab[u]
    BY <1>3, <1>11 DEF IInv
  <2>2. written'.draft = u => written.draft = u /\ storage'.draft = storage.draft
    BY <1>4, <1>5, <1>11, NoValues DEF writer, Outcomes
  <2>3. written'.library = u => written.library = u /\ storage'.library = storage.library
    BY <1>4, <1>5, <1>11, NoValues DEF writer, Outcomes
  <2> QED  BY <2>1, <2>2, <2>3 DEF StorageFits, autosaved
<1>12. blank \in files'
  BY <1>6 DEF IInv
<1> QED  BY <1>7, <1>9, <1>10, <1>11, <1>12 DEF IInv, CleanFits, LibraryFits, idsOf, blank

(* What a tab shows, and what it may open and restore, are projects. *)
LEMMA Shown ==
  ASSUME IInv, NEW t \in Tab, tab[t] # None
  PROVE /\ tab[t] \in Page /\ tab[t].project \in Project /\ tab[t].dirty \in BOOLEAN
        /\ tab[t].library \in Library /\ tab[t].owned = idsOf(tab[t].library)
        /\ tab[t].library.baseline \in idsOf(tab[t].library) \cup {None}
        /\ \A template \in tab[t].library.templates : template \in Template /\ template.project \in Project
        /\ files \subseteq Project /\ made \in Nat
<1>1. tab[t] \in Page /\ LibraryFits(tab[t])
  BY DEF IInv, TypeOK
<1>2. tab[t].library \in Library
  BY <1>1 DEF Page
<1> QED  BY <1>1, <1>2 DEF Page, Library, Template, LibraryFits, IInv, TypeOK

(* An edit is a project, marked unsaved. *)
LEMMA EditKeeps ==
  ASSUME IInv, NEW t \in Tab, NEW reviewed \in BOOLEAN, Edit(t, reviewed) PROVE IInv'
<1>1. tab[t] # None /\ made' \in Nat /\ files' = files
  BY DEF Edit, settled, IInv, TypeOK
<1>2. [edit |-> made', reviewed |-> reviewed] \in Project
  BY <1>1 DEF Project
<1>3. setProject(t, [edit |-> made', reviewed |-> reviewed], TRUE)
  BY DEF Edit
<1> QED  BY <1>1, <1>2, <1>3, Shown, ProjectSet

(* Looking at another object changes neither project nor mark. *)
LEMMA NavigateKeeps == ASSUME IInv, NEW t \in Tab, Navigate(t) PROVE IInv'
<1>1. tab[t] # None /\ made' = made /\ files' = files /\ setProject(t, tab[t].project, tab[t].dirty)
  BY DEF Navigate, settled
<1>2. ~tab[t].dirty => tab[t].project \in files
  BY <1>1 DEF IInv, CleanFits
<1> QED  BY <1>1, <1>2, Shown, ProjectSet

(* What was saved is in a file. *)
LEMMA SaveKeeps == ASSUME IInv, NEW t \in Tab, Save(t) PROVE IInv'
<1>1. tab[t] # None /\ made' = made /\ files' = files \cup {tab[t].project}
      /\ setProject(t, tab[t].project, FALSE)
  BY DEF Save, settled
<1> QED  BY <1>1, Shown, ProjectSet

(* What was opened is in a file. *)
LEMMA ReplaceKeeps ==
  ASSUME IInv, NEW t \in Tab, NEW project \in files, Replace(t, project) PROVE IInv'
<1>1. tab[t] # None /\ made' = made /\ files' = files /\ setProject(t, project, FALSE)
  BY DEF Replace, settled
<1>2. project \in Project
  BY <1>1, Shown
<1> QED  BY <1>1, <1>2, Shown, ProjectSet

(* What a template restores is unsaved. *)
LEMMA RestoreKeeps ==
  ASSUME IInv, NEW t \in Tab, tab[t] # None, NEW template \in tab[t].library.templates,
         RestoreTemplate(t, template)
  PROVE IInv'
<1>1. made' = made /\ files' = files /\ setProject(t, template.project, TRUE)
  BY DEF RestoreTemplate
<1> QED  BY <1>1, Shown, ProjectSet

(* A new template has the identifier its user has with it. *)
LEMMA AddKeeps ==
  ASSUME IInv, NEW t \in Tab, NEW project \in Project, addTemplate(t, project) PROVE IInv'
<1> DEFINE library == withTemplate(tab[t].library, project)
<1>1. tab[t] # None /\ made' \in Nat /\ setLibrary(t, library, tab[t].owned \cup {made'})
  BY DEF addTemplate, settled, IInv, TypeOK
<1>2. tab[t].library \in Library
  BY <1>1, Shown
<1>3. [id |-> made', project |-> project] \in Template
  BY <1>1 DEF Template
<1>4. /\ library \in Library /\ library.baseline = tab[t].library.baseline
      /\ library.templates = tab[t].library.templates \cup {[id |-> made', project |-> project]}
  BY <1>2, <1>3 DEF withTemplate, Library
<1> HIDE DEF library
<1>5. idsOf(library) = idsOf(tab[t].library) \cup {made'}
  <2> DEFINE new == [id |-> made', project |-> project]
             old == tab[t].library.templates
  <2>1. new.id = made' /\ library.templates = old \cup {new}
    BY <1>4
  <2> HIDE DEF new, old
  <2>2. {template.id : template \in old \cup {new}} = {template.id : template \in old} \cup {new.id}
    OBVIOUS
  <2> QED  BY <2>1, <2>2 DEF idsOf, old
<1>6. tab[t].owned \cup {made'} = idsOf(library)
  BY <1>1, <1>5, Shown
<1>7. setLibrary(t, library, idsOf(library))
  BY <1>1, <1>6
<1> QED  BY <1>1, <1>4, <1>5, <1>7, Shown, LibrarySet

(* A deleted template leaves the library, its user and the baseline. *)
LEMMA DeleteKeeps ==
  ASSUME IInv, NEW t \in Tab, tab[t] # None, NEW template \in tab[t].library.templates,
         DeleteTemplate(t, template)
  PROVE IInv'
<1> DEFINE old == tab[t].library
           library == [old EXCEPT !.templates = {other \in @ : other.id # template.id},
                                  !.baseline = IF @ = template.id THEN None ELSE @]
<1>1. made' \in Nat /\ setLibrary(t, library, tab[t].owned \ {template.id})
  BY DEF DeleteTemplate, IInv, TypeOK
<1>2. old \in Library /\ tab[t].owned = idsOf(old) /\ old.baseline \in idsOf(old) \cup {None}
  BY Shown
<1>3. /\ library \in Library
      /\ library.templates = {other \in old.templates : other.id # template.id}
      /\ library.baseline = IF old.baseline = template.id THEN None ELSE old.baseline
  BY <1>2 DEF Library
<1> HIDE DEF library, old
<1>4. idsOf(library) = idsOf(old) \ {template.id}
  BY <1>3 DEF idsOf
<1>5. setLibrary(t, library, idsOf(library))
  BY <1>1, <1>2, <1>4
<1>6. library.baseline \in idsOf(library) \cup {None}
  BY <1>2, <1>3, <1>4
<1> QED  BY <1>1, <1>3, <1>5, <1>6, LibrarySet

(* A baseline is set to a template of the library. *)
LEMMA ToggleKeeps ==
  ASSUME IInv, NEW t \in Tab, tab[t] # None, NEW template \in tab[t].library.templates,
         ToggleBaseline(t, template)
  PROVE IInv'
<1> DEFINE old == tab[t].library
           library == [old EXCEPT !.baseline = IF @ = template.id THEN None ELSE template.id]
<1>1. made' \in Nat /\ setLibrary(t, library, tab[t].owned)
  BY DEF ToggleBaseline, IInv, TypeOK
<1>2. old \in Library /\ tab[t].owned = idsOf(old) /\ template.id \in Nat /\ template.id \in idsOf(old)
  BY Shown DEF Template, idsOf
<1>3. /\ library \in Library /\ library.templates = old.templates
      /\ library.baseline \in {None, template.id}
  BY <1>2 DEF Library
<1> HIDE DEF library, old
<1>4. idsOf(library) = idsOf(old)
  BY <1>3 DEF idsOf
<1>5. setLibrary(t, library, idsOf(library))
  BY <1>1, <1>2, <1>4
<1> QED  BY <1>1, <1>2, <1>3, <1>4, <1>5, LibrarySet

(* Every step keeps the invariant, one lemma for each kind. *)
LEMMA StepIInv == IInv /\ [Next]_vars => IInv'
<1> SUFFICES ASSUME IInv, [Next]_vars PROVE IInv'
  OBVIOUS
<1>1. ASSUME NEW t \in Tab, NEW embedded \in BOOLEAN, Load(t, embedded) PROVE IInv'
  BY <1>1, LoadKeeps
<1>2. ASSUME NEW t \in Tab, Navigate(t) PROVE IInv'
  BY <1>2, NavigateKeeps
<1>3. ASSUME NEW t \in Tab, Save(t) PROVE IInv'
  BY <1>3, SaveKeeps
<1>4. ASSUME NEW t \in Tab, SaveTemplate(t) PROVE IInv'
  <2>1. createWorkspaceSnapshot(tab[t].project) \in Project
    BY <1>4, Shown DEF SaveTemplate, addTemplate, settled, createWorkspaceSnapshot, Project
  <2> QED  BY <1>4, <2>1, AddKeeps DEF SaveTemplate
<1>5. ASSUME NEW t \in Tab, NEW reviewed \in BOOLEAN, Edit(t, reviewed) PROVE IInv'
  BY <1>5, EditKeeps
<1>6. ASSUME NEW t \in Tab, NEW project \in files, Replace(t, project) PROVE IInv'
  BY <1>6, ReplaceKeeps
<1>7. ASSUME NEW t \in Tab, NEW draftWrite, NEW libraryWrite, Effects(t, draftWrite, libraryWrite) PROVE IInv'
  BY <1>7, EffectsKeep
<1>8. ASSUME NEW t \in Tab, tab[t] # None, NEW template \in tab[t].library.templates, UsesTemplate(t, template)
      PROVE IInv'
  <2>1. CASE RestoreTemplate(t, template)
    BY <1>8, <2>1, RestoreKeeps
  <2>2. CASE DuplicateTemplate(t, template)
    BY <1>8, <2>2, Shown, AddKeeps DEF DuplicateTemplate
  <2>3. CASE DeleteTemplate(t, template)
    BY <1>8, <2>3, DeleteKeeps
  <2>4. CASE ToggleBaseline(t, template)
    BY <1>8, <2>4, ToggleKeeps
  <2> QED  BY <1>8, <2>1, <2>2, <2>3, <2>4 DEF UsesTemplate
<1>9. CASE UNCHANGED vars
  BY <1>9 DEF vars, IInv, TypeOK, CleanFits, LibraryFits, StorageFits, autosaved, idsOf, blank
<1> QED  BY <1>1, <1>2, <1>3, <1>4, <1>5, <1>6, <1>7, <1>8, <1>9 DEF Next

(* The invariant holds in every state. *)
LEMMA Invariant == Spec => []IInv
  BY InitIInv, StepIInv, PTL DEF Spec

(* Every variable has its shape, in particular every page a library whose
   baseline is one of its templates or none. *)
THEOREM TypeCorrect == Spec => []TypeOK
<1>1. IInv => TypeOK
  BY DEF IInv
<1> QED  BY <1>1, Invariant, PTL

(* Whatever tabs are open, and whatever an older version left: the library a tab
   writes is what it read and what was made in it, less what its user deleted. *)
THEOREM StorageFollowsUser == Spec => LibraryFollowsUser
<1>1. ASSUME IInv, Next, storage'.library # storage.library
      PROVE storedIds' = tab[written'.library].owned
  <2>1. PICK t \in Tab, draftWrite, libraryWrite \in {"none", "done", "refused"} :
          Effects(t, draftWrite, libraryWrite)
    BY <1>1, ZenonT(60) DEF Next, UsesTemplate, Load, Navigate, Save, SaveTemplate, Edit, Replace, RestoreTemplate,
                DuplicateTemplate, DeleteTemplate, ToggleBaseline, addTemplate, setProject, setLibrary
  <2>2. tab[t] # None
    BY <2>1 DEF Effects
  <2>3. tab[t].library \in Library /\ tab[t].owned = idsOf(tab[t].library)
    BY <1>1, <2>2, Shown
  <2>4. libraryWrite = "done"
    BY <1>1, <2>1 DEF Effects, IInv, TypeOK
  <2>5. storage'.library = tab[t].library /\ written'.library = t
    BY <1>1, <2>1, <2>4 DEF Effects, writer, IInv, TypeOK
  <2>6. storedIds' = idsOf(storage'.library)
    BY <2>3, <2>5, NoValues DEF storedIds, idsOf
  <2>7. idsOf(storage'.library) = idsOf(tab[t].library)
    BY <2>5
  <2> QED  BY <2>3, <2>5, <2>6, <2>7
<1>2. IInv /\ [Next]_vars => [storage'.library # storage.library =>
                                storedIds' = tab[written'.library].owned]_vars
  BY <1>1
<1> QED  BY <1>2, Invariant, PTL DEF Spec, LibraryFollowsUser

(* A page that is loaded again comes back with what was on the screen, unless
   another tab wrote since or the browser refused its last write. *)
THEOREM ReloadLosesNothing == Spec => ReloadBringsBack
<1> DEFINE Back(t) ==
      /\ written.draft = t => tab[t].project \in files \/ tab'[t].project = tab[t].project
      /\ written.library = t => tab'[t].library = tab[t].library
<1>1. ASSUME IInv, Next, NEW t \in Tab, reloaded(t) PROVE Back(t)
  <2>1. PICK u \in Tab :
          \/ \E embedded \in BOOLEAN : Load(u, embedded)
          \/ \E project, dirty : setProject(u, project, dirty)
          \/ \E library, owned : setLibrary(u, library, owned)
          \/ \E draftWrite, libraryWrite : Effects(u, draftWrite, libraryWrite)
    BY <1>1 DEF Next, UsesTemplate, Navigate, Save, SaveTemplate, Edit, Replace, RestoreTemplate,
                DuplicateTemplate, DeleteTemplate, ToggleBaseline, addTemplate
  <2>2. tab[t] # None /\ ~tab[t].draftPending /\ ~tab[t].libraryPending
    BY <1>1 DEF reloaded, settled
  <2>3. tab[t] \in Page /\ tab \in [Tab -> Page \cup {None}]
    BY <1>1, <2>2, Shown DEF IInv, TypeOK
  <2>4. tab'[t].draftPending /\ tab'[t].libraryPending
    BY <1>1 DEF reloaded
  <2>5. PICK embedded \in BOOLEAN : Load(t, embedded)
    <3>1. ASSUME NEW project, NEW dirty, setProject(u, project, dirty) PROVE FALSE
      BY <2>2, <2>3, <2>4, <3>1 DEF setProject, Page
    <3>2. ASSUME NEW library, NEW owned, setLibrary(u, library, owned) PROVE FALSE
      BY <2>2, <2>3, <2>4, <3>2 DEF setLibrary, Page
    <3>3. ASSUME NEW draftWrite, NEW libraryWrite, Effects(u, draftWrite, libraryWrite) PROVE FALSE
      BY <2>2, <2>3, <2>4, <3>3 DEF Effects, Page
    <3>4. ASSUME NEW embedded \in BOOLEAN, Load(u, embedded), u # t PROVE FALSE
      BY <2>2, <2>3, <2>4, <3>4 DEF Load
    <3> QED  BY <2>1, <3>1, <3>2, <3>3, <3>4
  <2>6. StorageFits(t) /\ LibraryFits(tab[t]) /\ CleanFits(tab[t])
    BY <1>1, <2>2 DEF IInv
  <2>7. ASSUME ~tab[t].embedded
        PROVE tab'[t] = page(FALSE, createInitialProjectDocumentState, createTemplateLibraryStateFromStorage)
    BY <2>2, <2>3, <2>5, <2>7 DEF Load
  <2>8. ASSUME written.draft = t, tab[t].project \notin files PROVE tab'[t].project = tab[t].project
    <3>1. ~tab[t].embedded /\ tab[t].dirty /\ storage.draft = tab[t].project
      BY <2>2, <2>6, <2>8 DEF StorageFits, CleanFits, autosaved
    <3>2. readable(storage.draft)
      BY <1>1, <2>2, <3>1, Shown, NoValues
    <3> QED  BY <2>7, <3>1, <3>2 DEF page, createInitialProjectDocumentState
  <2>9. ASSUME written.library = t PROVE tab'[t].library = tab[t].library
    <3>1. ~tab[t].embedded /\ storage.library = tab[t].library
      BY <2>2, <2>6, <2>9 DEF StorageFits
    <3>2. readable(storage.library) /\ tab[t].library \in Library
      BY <1>1, <2>2, <3>1, Shown, NoValues
    <3>3. normalizeTemplateLibraryState(tab[t].library) = tab[t].library
      BY <2>6, <3>2 DEF normalizeTemplateLibraryState, LibraryFits, Library
    <3> QED  BY <2>7, <3>1, <3>2, <3>3 DEF page, createTemplateLibraryStateFromStorage
  <2> QED  BY <2>8, <2>9
<1>2. IInv /\ [Next]_vars => [\A t \in Tab : reloaded(t) => Back(t)]_vars
  BY <1>1
<1> QED  BY <1>2, Invariant, PTL DEF Spec, ReloadBringsBack
=============================================================================
