------------------------ MODULE ProjectDocumentProofs ------------------------
(* Proofs about ProjectDocument, for any files, objects and bounds.  What the
   properties say of handles, saved marks and drafts follows from one
   invariant, IInv, which speaks of the saves and openings under way as well,
   and of what the crossed files and the late steps so far may have broken.
   The history is not part of it, and follows in the second part of the
   module. *)
EXTENDS ProjectDocument, SequenceTheorems, TLAPS

(* A record with the fields of a project, of a save, of an opening. *)
IsProject(p) == p \in [doc: {p.doc}, active: {p.active}, objects: {p.objects}, other: {p.other}]
IsSave(s) ==
  s \in [project: {s.project}, file: File, written: BOOLEAN, generation: Nat, revision: Nat]
IsOpen(o) == o \in [file: File, project: {o.project}]
Lifecycles == [generation: Nat, revision: Nat, saved: Int]

Shapes ==
  /\ lifecycle \in Lifecycles /\ lifecycle.saved <= lifecycle.revision
  /\ IsProject(project) /\ IsProject(ref)
  /\ event \/ IsProject(shown.project)
  /\ shown.generation \in Int /\ shown.generation <= lifecycle.generation
  /\ disk \in [File -> {disk[file] : file \in File}] /\ \A file \in File : IsProject(disk[file])
  /\ draft # None => IsProject(draft)
  /\ handle \in File \cup {None}
  /\ \A s \in saves : IsSave(s) /\ IsProject(s.project)
  /\ \A o \in opens : IsOpen(o) /\ IsProject(o.project)

(* A file that is not crossed has one save under way, or is as it was read. *)
OnePerFile ==
  /\ \A s, t \in saves : s.file = t.file => s = t \/ s.file \in crossed
  /\ \A o \in opens : o.file \notin crossed =>
       disk[o.file] = o.project /\ \A s \in saves : s.file # o.file

Unmixed == "project" \notin late

(* The page and the ref are of the present project. *)
PageFits ==
  ~event /\ Unmixed /\ ~replacedUnseen => ref.doc = project.doc /\ shown.project.doc = project.doc

(* What a save wrote is still in its file; a save of the present project is of
   its present content if it is of its present revision. *)
SaveFits(s) ==
  /\ s.written /\ s.file \notin crossed => disk[s.file] = s.project
  /\ s.generation <= lifecycle.generation
  /\ s.generation = lifecycle.generation =>
       /\ s.revision <= lifecycle.revision
       /\ Unmixed => s.project.doc = project.doc
       /\ s.revision = lifecycle.revision /\ "content" \notin late => sameContent(s.project, project)
       /\ handle = None /\ ~isDirty => s.revision = lifecycle.revision
SavesFit == \A s \in saves : SaveFits(s)

(* The file of the project holds it, and no save of another is under way to it. *)
HandleFits ==
  Unmixed /\ handle \notin crossed \cup {None} =>
    /\ disk[handle].doc = project.doc
    /\ \A s \in saves : s.file = handle => s.project.doc = project.doc

(* A clean project is in a file that no save is about to change, or blank. *)
KeptIn(file) ==
  /\ sameContent(disk[file], project)
  /\ \A s \in saves : s.file = file => sameContent(s.project, project)
CleanFits ==
  ~isDirty /\ crossed = {} /\ "clean" \notin late =>
    IF handle # None THEN \E file \in File : KeptIn(file)
    ELSE sameContent(blank(project.doc), project)

DraftFits == shown.generation # Unrendered => draft = IF shown.dirty THEN shown.project ELSE None

IInv == Shapes /\ OnePerFile /\ PageFits /\ SavesFit /\ HandleFits /\ CleanFits /\ DraftFits

----------------------------------------------------------------------------
LEMMA BlankIsProject == ASSUME NEW doc PROVE IsProject(blank(doc)) /\ blank(doc).doc = doc
BY DEF IsProject, blank

LEMMA InitIInv == Init => IInv
<1> SUFFICES ASSUME Init PROVE IInv
  OBVIOUS
<1>1. Shapes
  <2>1. lifecycle \in Lifecycles /\ lifecycle.saved <= lifecycle.revision
    BY DEF Init, Lifecycles
  <2>2. IsProject(project) /\ IsProject(ref)
    BY BlankIsProject DEF Init
  <2>3. disk \in [File -> {disk[file] : file \in File}] /\ \A file \in File : IsProject(disk[file])
    BY BlankIsProject DEF Init
  <2>4. shown.generation = -1 /\ lifecycle.generation = 0
    BY DEF Init, Unrendered
  <2> QED  BY <2>1, <2>2, <2>3, <2>4 DEF Init, Shapes
<1>2. sameContent(blank(project.doc), project)
  BY BlankIsProject DEF Init, sameContent
<1>3. shown.generation = Unrendered
  BY DEF Init
<1> QED  BY <1>1, <1>2, <1>3 DEF Init, IInv, OnePerFile, PageFits, SavesFit, HandleFits, CleanFits, DraftFits

----------------------------------------------------------------------------
(* Mutations of the document: a new revision, and nothing of the files. *)
Mutated ==
  /\ lifecycle' \in Lifecycles
  /\ lifecycle'.generation = lifecycle.generation /\ lifecycle'.saved = lifecycle.saved
  /\ lifecycle.revision < lifecycle'.revision
  /\ IsProject(project')
  /\ handle' \in {handle, None}
  /\ ref' = project' /\ ~event
  /\ UNCHANGED <<disk, saves, opens, shown, draft, crossed>>
  /\ late \subseteq late' /\ (Unmixed' => project'.doc = project.doc)

LEMMA AdvancedAdvances ==
  ASSUME NEW l \in Lifecycles
  PROVE  /\ advanced(l) \in Lifecycles
         /\ advanced(l).generation = l.generation /\ advanced(l).saved = l.saved
         /\ advanced(l).revision = l.revision + 1
BY DEF advanced, Lifecycles

LEMMA AdvancedGrows ==
  ASSUME NEW l \in Lifecycles, NEW k \in {advanced(l), advanced(advanced(l))}
  PROVE  k \in Lifecycles /\ k.generation = l.generation /\ l.revision < k.revision
<1>1. advanced(l) \in Lifecycles /\ advanced(l).generation = l.generation /\ advanced(l).revision = l.revision + 1
  BY AdvancedAdvances
<1>2. /\ advanced(advanced(l)) \in Lifecycles
      /\ advanced(advanced(l)).generation = l.generation
      /\ advanced(advanced(l)).revision = (l.revision + 1) + 1
  BY <1>1, AdvancedAdvances
<1>3. l.revision \in Nat
  BY DEF Lifecycles
<1>4. CASE k = advanced(l)
  BY <1>1, <1>3, <1>4
<1>5. CASE k = advanced(advanced(l))
  BY <1>2, <1>3, <1>5
<1> QED  BY <1>4, <1>5

LEMMA AdvancedMutates ==
  ASSUME Shapes, ~event,
         lifecycle' \in {advanced(lifecycle), advanced(advanced(lifecycle))},
         inEvent \/ atOnce, late \subseteq late',
         IsProject(project'), Unmixed' => project'.doc = project.doc,
         handle' \in {handle, None}, UNCHANGED <<disk, saves, opens, crossed, shown, draft>>
  PROVE  Mutated
<1>1. lifecycle \in Lifecycles
  BY DEF Shapes
<1>2. /\ lifecycle' \in Lifecycles
      /\ lifecycle'.generation = lifecycle.generation /\ lifecycle'.saved = lifecycle.saved
      /\ lifecycle.revision < lifecycle'.revision
  BY <1>1, AdvancedAdvances DEF Lifecycles
<1> QED  BY <1>2 DEF Mutated, Shapes, inEvent, atOnce

LEMMA WorkspaceOfProject ==
  ASSUME NEW p, IsProject(p), NEW w
  PROVE  IsProject(withWorkspace(p, w)) /\ withWorkspace(p, w).doc = p.doc
BY DEF IsProject, withWorkspace

LEMMA OtherOfProject ==
  ASSUME NEW p, IsProject(p), NEW e
  PROVE  IsProject([p EXCEPT !.other = e]) /\ [p EXCEPT !.other = e].doc = p.doc
BY DEF IsProject

LEMMA ActiveOfProject ==
  ASSUME NEW p, IsProject(p), NEW o
  PROVE  IsProject([p EXCEPT !.active = o]) /\ sameContent([p EXCEPT !.active = o], p)
BY DEF IsProject, sameContent

(* A step that leaves the projects unmixed starts from the present one. *)
LEMMA FromPresent ==
  ASSUME IInv, ~event, lateProject \subseteq late', late \subseteq late', Unmixed'
  PROVE  /\ Unmixed
         /\ ref.doc = project.doc /\ shown.project.doc = project.doc
<1>1. Unmixed /\ ~replacedUnseen
  BY DEF lateProject, Unmixed
<1> QED  BY <1>1 DEF IInv, PageFits

LEMMA MutationsMutate ==
  ASSUME IInv,
         \/ UpdateWorkspace \/ Undo \/ Redo \/ CommitMutation \/ ChangeSettings
         \/ \E o \in Object : CreateObject(o) \/ RemoveObject(o)
         \/ \E b \in BOOLEAN : RestoreTemplate(b)
  PROVE  Mutated
<1>0. Shapes /\ IsProject(project) /\ IsProject(ref) /\ (~event => IsProject(shown.project))
  BY DEF Shapes, IInv
<1>1. ASSUME ~event, late' = late \cup lateProject, IsProject(project'),
             project'.doc \in {ref.doc, shown.project.doc}
      PROVE  late \subseteq late' /\ (Unmixed' => project'.doc = project.doc)
  BY <1>1, FromPresent
<1>2. ASSUME NEW w, project' = withWorkspace(ref, w) PROVE IsProject(project') /\ project'.doc = ref.doc
  BY <1>0, <1>2, WorkspaceOfProject
<1>3. CASE UpdateWorkspace
  BY <1>0, <1>1, <1>2, <1>3, AdvancedMutates DEF UpdateWorkspace, Editing, files
<1>4. CASE Undo
  BY <1>0, <1>1, <1>2, <1>4, AdvancedMutates DEF Undo, Editing, files
<1>5. CASE Redo
  BY <1>0, <1>1, <1>2, <1>5, AdvancedMutates DEF Redo, Editing, files
<1>6. CASE CommitMutation
  <2>1. IsProject(project') /\ project'.doc = ref.doc
    BY <1>0, <1>6, OtherOfProject DEF CommitMutation
  <2> QED  BY <1>0, <1>1, <1>6, <2>1, AdvancedMutates DEF CommitMutation, Editing, files
<1>7. CASE ChangeSettings
  <2>1. IsProject(project') /\ project'.doc = project.doc
    BY <1>0, <1>7, OtherOfProject DEF ChangeSettings
  <2> QED  BY <1>0, <1>7, <2>1, AdvancedMutates DEF ChangeSettings, Editing, files
<1>8. ASSUME NEW o \in Object, CreateObject(o) PROVE Mutated
  <2>1. IsProject(project') /\ project'.doc = shown.project.doc
    BY <1>0, <1>8 DEF CreateObject, Editing, IsProject
  <2> QED  BY <1>0, <1>1, <1>8, <2>1, AdvancedMutates DEF CreateObject, Editing, files
<1>9. ASSUME NEW o \in Object, RemoveObject(o) PROVE Mutated
  <2>1. IsProject(project') /\ project'.doc = shown.project.doc
    BY <1>0, <1>9 DEF RemoveObject, Editing, IsProject
  <2> QED  BY <1>0, <1>1, <1>9, <2>1, AdvancedMutates DEF RemoveObject, Editing, files
<1>10. ASSUME NEW b \in BOOLEAN, RestoreTemplate(b) PROVE Mutated
  <2>1. PICK r : /\ r = withWorkspace(ref, [workspaceOf(ref) EXCEPT !.edit = edits'])
                 /\ project' = IF b THEN [r EXCEPT !.other = edits'] ELSE r
    BY <1>10 DEF RestoreTemplate
  <2>2. IsProject(r) /\ r.doc = ref.doc
    BY <1>0, <2>1, WorkspaceOfProject
  <2>3. IsProject(project') /\ project'.doc = ref.doc
    <3>1. CASE b
      BY <2>1, <2>2, <3>1, OtherOfProject
    <3>2. CASE ~b
      BY Zenon, <2>1, <2>2, <3>2
    <3> QED  BY <3>1, <3>2
  <2>4. lifecycle' \in {advanced(lifecycle), advanced(advanced(lifecycle))}
    BY <1>10 DEF RestoreTemplate
  <2> QED  BY <1>0, <1>1, <1>10, <2>3, <2>4, AdvancedMutates DEF RestoreTemplate, Editing
<1> QED  BY <1>3, <1>4, <1>5, <1>6, <1>7, <1>8, <1>9, <1>10

LEMMA MutatedKeeps == ASSUME IInv, Mutated PROVE IInv'
<1> USE DEF IInv, Mutated
<1>1. isDirty'
  BY DEF Shapes, isDirty, Lifecycles
<1>2. Unmixed' => Unmixed
  BY DEF Unmixed
<1>3. Shapes'
  BY DEF Shapes, IsProject, IsSave, IsOpen, Lifecycles
<1>4. OnePerFile'
  BY DEF OnePerFile
<1>5. SavesFit'
  BY <1>1, <1>2 DEF Shapes, Lifecycles, IsSave, SavesFit, SaveFits
<1>6. HandleFits'
  BY <1>2 DEF HandleFits
<1>7. CleanFits' /\ DraftFits'
  BY <1>1 DEF CleanFits, DraftFits
<1>8. PageFits'
  BY <1>2 DEF PageFits, replacedUnseen
<1> QED  BY <1>3, <1>4, <1>5, <1>6, <1>7, <1>8

----------------------------------------------------------------------------
(* The other actions. *)
LEMMA SelectKeeps == ASSUME IInv, NEW o \in Object, SelectObject(o) PROVE IInv'
<1> USE DEF IInv, files
<1>0. /\ ~event /\ event' /\ ref' = project' /\ late \subseteq late'
      /\ late' = late \cup lateProject \cup lateContent
      /\ project' = [shown.project EXCEPT !.active = o]
      /\ UNCHANGED <<lifecycle, handle, shown, disk, draft, saves, opens, crossed>>
  BY DEF SelectObject, inEvent
<1>1. IsProject(project') /\ sameContent(project', shown.project)
  BY <1>0, ActiveOfProject DEF Shapes
<1>2. Unmixed' => Unmixed /\ shown.project.doc = project.doc /\ project'.doc = project.doc
  BY <1>0, <1>1, FromPresent DEF sameContent
<1>3. Shapes'
  BY <1>0, <1>1 DEF Shapes, IsProject, IsSave, IsOpen
<1>4. OnePerFile' /\ DraftFits'
  BY <1>0 DEF OnePerFile, DraftFits
<1>5. "content" \notin late' => "content" \notin late /\ sameContent(shown.project, project)
  BY <1>0 DEF lateContent
<1>6. SavesFit'
  BY <1>0, <1>1, <1>2, <1>5 DEF SavesFit, SaveFits, sameContent, isDirty
<1>7. HandleFits'
  BY <1>0, <1>2 DEF HandleFits
<1>8. ~isDirty /\ "clean" \notin late' => "clean" \notin late /\ sameContent(shown.project, project)
  BY <1>0 DEF lateContent
<1>9. CleanFits'
  <2>1. ASSUME ~isDirty, crossed = {}, "clean" \notin late'
        PROVE  IF handle # None THEN \E file \in File : KeptIn(file)' ELSE sameContent(blank(project.doc), project)'
    <3>1. sameContent(project', project)
      BY <1>1, <1>8, <2>1 DEF sameContent
    <3>2. \A file : KeptIn(file) => KeptIn(file)'
      BY <1>0, <3>1 DEF KeptIn, sameContent
    <3>3. sameContent(blank(project.doc), project) => sameContent(blank(project.doc), project)'
      BY <3>1 DEF sameContent
    <3>4. IF handle # None THEN \E file \in File : KeptIn(file) ELSE sameContent(blank(project.doc), project)
      BY <1>8, <2>1 DEF CleanFits
    <3> QED  BY <3>2, <3>3, <3>4
  <2> QED  BY <1>0, <2>1 DEF CleanFits, isDirty
<1>10. PageFits'
  BY <1>0, <1>2 DEF PageFits
<1> QED  BY <1>3, <1>4, <1>6, <1>7, <1>9, <1>10

LEMMA RenderKeeps == ASSUME IInv, Render PROVE IInv'
<1> USE DEF IInv, files
<1>1. /\ UNCHANGED <<lifecycle, handle, project, disk, saves, opens, crossed, late>>
      /\ ref' = project /\ shown' = present
      /\ draft' = IF isDirty THEN project ELSE None
  BY DEF Render
<1>2. /\ shown'.project = project /\ shown'.dirty = isDirty /\ shown'.generation = lifecycle.generation
  BY Zenon, <1>1 DEF present
<1>3. Shapes'
  <2> QED  BY <1>1, <1>2 DEF Lifecycles, Shapes, IsProject, IsSave, IsOpen
<1>4. OnePerFile' /\ SavesFit' /\ HandleFits' /\ CleanFits' /\ PageFits'
  BY <1>1, <1>2 DEF OnePerFile, SavesFit, SaveFits, HandleFits, CleanFits, KeptIn, isDirty, Unmixed, PageFits
<1>5. DraftFits'
  BY Zenon, <1>1, <1>2 DEF DraftFits
<1> QED  BY <1>3, <1>4, <1>5

LEMMA SaveStartKeeps == ASSUME IInv, NEW file \in File, SaveStart(file) PROVE IInv'
<1> USE DEF IInv
<1> DEFINE s == [project |-> shown.project, file |-> file, written |-> FALSE,
                 generation |-> lifecycle.generation, revision |-> lifecycle.revision]
<1>1. /\ saves' = saves \cup {s} /\ ~event
      /\ crossed' = IF busy(file) \/ read(file) THEN crossed \cup {file} ELSE crossed
      /\ late' = late \cup lateProject \cup lateContent
      /\ UNCHANGED <<project, ref, event, lifecycle, handle, shown, disk, draft, opens>>
  BY DEF SaveStart
<1>2. /\ IsSave(s) /\ IsProject(s.project)
      /\ s.project = shown.project /\ s.file = file /\ ~s.written
      /\ s.generation = lifecycle.generation /\ s.revision = lifecycle.revision
  BY <1>1 DEF Shapes, IsSave, Lifecycles
<1> HIDE DEF s
<1>3. Unmixed' => Unmixed /\ s.project.doc = project.doc
  BY <1>1, <1>2, FromPresent
<1>4. /\ "content" \notin late' => "content" \notin late /\ sameContent(s.project, project)
      /\ ~isDirty /\ "clean" \notin late' => "clean" \notin late /\ sameContent(s.project, project)
      /\ late \subseteq late' /\ crossed \subseteq crossed'
      /\ file \notin crossed' => ~busy(file) /\ ~read(file)
  BY <1>1, <1>2 DEF lateContent
<1>5. Shapes'
  BY <1>1, <1>2 DEF Shapes, IsProject, IsSave, IsOpen
<1>6. OnePerFile' /\ DraftFits' /\ PageFits'
  BY <1>1, <1>2, <1>3, <1>4 DEF OnePerFile, DraftFits, PageFits, replacedUnseen, busy, read
<1>7. SavesFit'
  <2>1. ASSUME NEW t \in saves PROVE SaveFits(t)'
    BY <1>1, <1>3, <1>4 DEF SavesFit, SaveFits, isDirty
  <2>2. ASSUME NEW t, t = s PROVE SaveFits(t)'
    BY <1>1, <1>2, <1>3, <1>4, <2>2 DEF SaveFits, Shapes, Lifecycles, isDirty
  <2> QED  BY <1>1, <2>1, <2>2 DEF SavesFit
<1>8. HandleFits'
  BY <1>1, <1>2, <1>3, <1>4 DEF HandleFits
<1>9. CleanFits'
  BY <1>1, <1>2, <1>4 DEF CleanFits, KeptIn, isDirty
<1> QED  BY <1>5, <1>6, <1>7, <1>8, <1>9

LEMMA SaveWriteKeeps == ASSUME IInv, NEW s \in saves, SaveWrite(s) PROVE IInv'
<1> USE DEF IInv
<1> DEFINE t == [s EXCEPT !.written = TRUE]
<1>1. /\ saves' = (saves \ {s}) \cup {t} /\ disk' = [disk EXCEPT ![s.file] = s.project]
      /\ UNCHANGED <<project, ref, event, lifecycle, handle, shown, draft, opens, crossed, late>>
  BY DEF SaveWrite
<1>2. IsSave(s) /\ IsProject(s.project)
  BY DEF Shapes
<1>3. /\ IsSave(t) /\ t.project = s.project /\ t.file = s.file
      /\ t.generation = s.generation /\ t.revision = s.revision
  BY <1>2 DEF IsSave
<1>4. \A file \in File : disk'[file] = IF file = s.file THEN s.project ELSE disk[file]
  BY <1>1 DEF Shapes
<1> HIDE DEF t
<1>5. Shapes'
  <2>1. disk' \in [File -> {disk'[file] : file \in File}] /\ \A file \in File : IsProject(disk'[file])
    BY <1>1, <1>2, <1>4 DEF Shapes
  <2> QED  BY <1>1, <1>2, <1>3, <2>1 DEF Shapes, IsProject, IsSave, IsOpen
<1>6. OnePerFile'
  <2>1. ASSUME NEW o \in opens, o.file \notin crossed PROVE disk'[o.file] = o.project /\ \A r \in saves' : r.file # o.file
    <3>1. o.file \in File /\ o.file # s.file
      BY <2>1 DEF Shapes, IsOpen, OnePerFile
    <3> QED  BY <1>1, <1>3, <1>4, <2>1, <3>1 DEF OnePerFile
  <2> QED  BY <1>1, <1>3, <2>1 DEF OnePerFile
<1>7. DraftFits' /\ PageFits'
  BY <1>1 DEF DraftFits, PageFits, Unmixed, replacedUnseen
<1>8. SavesFit'
  <2>1. ASSUME NEW r \in saves, r # s PROVE SaveFits(r)'
    <3>1. r.file \in File /\ (r.file \notin crossed => r.file # s.file)
      BY <2>1 DEF OnePerFile, Shapes, IsSave
    <3> QED  BY <1>1, <1>4, <3>1 DEF SavesFit, SaveFits, isDirty, Unmixed
  <2>2. SaveFits(t)'
    <3>1. disk'[t.file] = t.project
      BY <1>2, <1>3, <1>4 DEF IsSave
    <3> QED  BY <1>1, <1>3, <3>1 DEF SavesFit, SaveFits, isDirty, Unmixed
  <2> QED  BY <1>1, <2>1, <2>2 DEF SavesFit
<1>9. HandleFits'
  BY <1>1, <1>3, <1>4 DEF HandleFits, Shapes, Unmixed
<1>10. CleanFits'
  <2>1. ASSUME NEW file \in File, KeptIn(file) PROVE KeptIn(file)'
    BY <1>1, <1>3, <1>4, <2>1 DEF KeptIn
  <2> QED  BY <1>1, <2>1 DEF CleanFits, isDirty
<1> QED  BY <1>5, <1>6, <1>7, <1>8, <1>9, <1>10

LEMMA FewerKeep ==
  ASSUME IInv, saves' \subseteq saves, opens' \subseteq opens,
         UNCHANGED <<project, ref, event, lifecycle, handle, shown, disk, draft, crossed, late>>
  PROVE  IInv'
<1> USE DEF IInv
<1>1. Shapes' /\ OnePerFile' /\ PageFits' /\ DraftFits'
  BY DEF Shapes, IsProject, IsSave, IsOpen, OnePerFile, PageFits, DraftFits, Unmixed, replacedUnseen
<1>2. SavesFit' /\ HandleFits' /\ CleanFits'
  BY DEF SavesFit, SaveFits, HandleFits, CleanFits, KeptIn, isDirty, Unmixed
<1> QED  BY <1>1, <1>2

LEMMA SaveCompleteKeeps == ASSUME IInv, NEW s \in saves, SaveComplete(s) PROVE IInv'
<1> USE DEF IInv
<1>1. s.written /\ ~event /\ saves' = saves \ {s} /\ UNCHANGED <<shown, disk, draft, opens, crossed, late>>
  BY DEF SaveComplete
<1>2. IsSave(s) /\ IsProject(s.project) /\ s.file \in File /\ s.file # None
  BY DocumentAssumption DEF Shapes, IsSave, DocumentAssumption
<1>3. CASE s.generation # lifecycle.generation
  BY <1>1, <1>3, FewerKeep DEF SaveComplete
<1>4. ASSUME s.generation = lifecycle.generation PROVE IInv'
  <2>1. /\ s.file \notin crossed => disk[s.file] = s.project
        /\ Unmixed => s.project.doc = project.doc
        /\ s.revision = lifecycle.revision /\ "content" \notin late => sameContent(s.project, project)
        /\ handle = None /\ ~isDirty => s.revision = lifecycle.revision
    BY <1>1, <1>4 DEF SavesFit, SaveFits
  <2>2. handle' = s.file
    BY <1>4 DEF SaveComplete
  <2>3. s.file \notin crossed => \A t \in saves' : t.file # s.file
    BY <1>1 DEF OnePerFile
  <2>4. OnePerFile' /\ DraftFits'
    BY <1>1 DEF OnePerFile, DraftFits
  <2>5. CASE s.revision # lifecycle.revision
    <3>1. UNCHANGED <<lifecycle, project, ref, event>>
      BY <1>4, <2>5 DEF SaveComplete, completed
    <3>2. Shapes' /\ PageFits'
      BY <1>1, <1>2, <2>2, <3>1 DEF Shapes, IsProject, IsSave, IsOpen, PageFits, Unmixed, replacedUnseen
    <3>3. SavesFit'
      BY <1>1, <1>2, <2>2, <3>1 DEF SavesFit, SaveFits, isDirty, Unmixed
    <3>4. HandleFits'
      BY <2>1, <2>2, <2>3, <1>1, <3>1 DEF HandleFits, Unmixed
    <3>5. CleanFits'
      BY <1>1, <1>2, <2>1, <2>2, <2>5, <3>1 DEF CleanFits, KeptIn, isDirty
    <3> QED  BY <2>4, <3>2, <3>3, <3>4, <3>5
  <2>6. CASE s.revision = lifecycle.revision
    <3>1. /\ project' = s.project /\ ref' \in {ref, project'} /\ event' = event
          /\ lifecycle' = [lifecycle EXCEPT !.saved = s.revision]
      BY <1>4, <2>1, <2>6 DEF SaveComplete, completed, savedBack, byUpdater
    <3>2. /\ lifecycle' \in Lifecycles
          /\ lifecycle'.generation = lifecycle.generation /\ lifecycle'.revision = lifecycle.revision
          /\ lifecycle'.saved = lifecycle'.revision
      BY <1>2, <2>6, <3>1 DEF Shapes, Lifecycles, IsSave
    <3>3. Shapes'
      BY <1>1, <1>2, <2>2, <3>1, <3>2 DEF Shapes, Lifecycles, IsProject, IsSave, IsOpen
    <3>4. SavesFit'
      BY <1>1, <1>2, <2>1, <2>2, <2>6, <3>1, <3>2 DEF SavesFit, SaveFits, isDirty, sameContent, Unmixed
    <3>5. HandleFits'
      BY <1>1, <2>1, <2>2, <2>3, <3>1 DEF HandleFits, Unmixed
    <3>6. CleanFits'
      <4>1. crossed = {} => KeptIn(s.file)'
        BY <1>1, <2>1, <2>3, <3>1 DEF KeptIn, sameContent
      <4> QED  BY <1>1, <1>2, <2>2, <4>1 DEF CleanFits
    <3>7. PageFits'
      BY <1>1, <2>1, <3>1, <3>2 DEF PageFits, Unmixed, replacedUnseen
    <3> QED  BY <2>4, <3>3, <3>4, <3>5, <3>6, <3>7
  <2> QED  BY <2>5, <2>6
<1> QED  BY <1>3, <1>4

LEMMA OpenStartKeeps == ASSUME IInv, NEW file \in File, OpenStart(file) PROVE IInv'
<1> USE DEF IInv
<1> DEFINE o == [file |-> file, project |-> disk[file]]
<1>1. /\ opens' = opens \cup {o}
      /\ crossed' = IF busy(file) THEN crossed \cup {file} ELSE crossed
      /\ UNCHANGED <<project, ref, event, lifecycle, handle, shown, disk, draft, saves, late>>
  BY DEF OpenStart
<1>2. IsOpen(o) /\ IsProject(o.project) /\ o.file = file /\ o.project = disk[file]
  BY DEF IsOpen, Shapes
<1> HIDE DEF o
<1>3. Shapes'
  BY <1>1, <1>2 DEF Shapes, IsProject, IsSave, IsOpen
<1>4. OnePerFile' /\ PageFits' /\ DraftFits'
  BY <1>1, <1>2 DEF OnePerFile, PageFits, DraftFits, Unmixed, replacedUnseen, busy
<1>5. SavesFit' /\ HandleFits' /\ CleanFits'
  BY <1>1 DEF SavesFit, SaveFits, HandleFits, CleanFits, KeptIn, isDirty, Unmixed
<1> QED  BY <1>3, <1>4, <1>5

(* A replaced project has a generation of its own, and no save. *)
LEMMA ReplacedRevision ==
  ASSUME Shapes, lifecycle' = replacedRevision(lifecycle)
  PROVE  /\ lifecycle' \in Lifecycles
         /\ lifecycle.generation < lifecycle'.generation
         /\ lifecycle'.saved = lifecycle'.revision
BY DEF Shapes, Lifecycles, replacedRevision

LEMMA OldSavesFit ==
  ASSUME Shapes, SavesFit, lifecycle' \in Lifecycles,
         lifecycle.generation < lifecycle'.generation, UNCHANGED <<disk, saves, crossed>>
  PROVE  SavesFit'
<1>1. \A s \in saves : s.generation \in Nat /\ s.generation <= lifecycle.generation
  BY DEF Shapes, IsSave, SavesFit, SaveFits
<1> QED  BY <1>1 DEF Shapes, Lifecycles, SavesFit, SaveFits

LEMMA OpenFinishKeeps == ASSUME IInv, NEW o \in opens, OpenFinish(o) PROVE IInv'
<1> USE DEF IInv
<1>1. /\ project' = o.project /\ handle' = o.file /\ ref' \in {ref, project'} /\ event' = event /\ ~event
      /\ opens' = opens \ {o} /\ UNCHANGED <<shown, disk, draft, saves, crossed, late>>
      /\ lifecycle' = replacedRevision(lifecycle)
  BY DEF OpenFinish, replaceProject, byUpdater
<1>2. /\ lifecycle' \in Lifecycles
      /\ lifecycle.generation < lifecycle'.generation
      /\ lifecycle'.saved = lifecycle'.revision
  BY <1>1, ReplacedRevision
<1>3. o.file \in File /\ IsProject(o.project) /\ o.file # None
  BY DocumentAssumption DEF Shapes, IsOpen
<1>4. shown.generation < lifecycle'.generation /\ shown.generation \in Int
  BY <1>2 DEF Shapes, Lifecycles
<1>5. Shapes'
  BY <1>1, <1>2, <1>3, <1>4 DEF Shapes, Lifecycles, IsProject, IsSave, IsOpen
<1>6. OnePerFile' /\ DraftFits'
  BY <1>1 DEF OnePerFile, DraftFits
<1>7. PageFits'
  BY <1>1, <1>2, <1>4 DEF PageFits, replacedUnseen, Lifecycles
<1>8. SavesFit'
  BY <1>1, <1>2, OldSavesFit
<1>9. o.file \notin crossed => disk[o.file] = o.project /\ \A s \in saves : s.file # o.file
  BY DEF OnePerFile
<1>10. HandleFits'
  BY <1>1, <1>9 DEF HandleFits
<1>11. CleanFits'
  <2>1. crossed = {} => KeptIn(o.file)'
    BY <1>1, <1>9 DEF KeptIn, sameContent
  <2> QED  BY <1>1, <1>3, <2>1 DEF CleanFits
<1> QED  BY <1>5, <1>6, <1>7, <1>8, <1>10, <1>11

LEMMA NewProjectKeeps == ASSUME IInv, NewProject PROVE IInv'
<1> USE DEF IInv
<1>1. /\ project' = blank(edits') /\ handle' = None /\ ref' = project' /\ event'
      /\ UNCHANGED <<shown, disk, draft, saves, opens, crossed, late>>
      /\ lifecycle' = replacedRevision(lifecycle)
  BY DEF NewProject, replaceProject, inEvent
<1>2. /\ lifecycle' \in Lifecycles
      /\ lifecycle.generation < lifecycle'.generation
      /\ lifecycle'.saved = lifecycle'.revision
  BY <1>1, ReplacedRevision
<1>3. IsProject(project') /\ project'.doc = edits'
  BY <1>1, BlankIsProject
<1>4. Shapes'
  BY <1>1, <1>2, <1>3 DEF Shapes, Lifecycles, IsProject, IsSave, IsOpen
<1>5. OnePerFile' /\ DraftFits' /\ HandleFits' /\ PageFits'
  BY <1>1 DEF OnePerFile, DraftFits, HandleFits, PageFits
<1>6. SavesFit'
  BY <1>1, <1>2, OldSavesFit
<1>7. CleanFits'
  BY <1>1, <1>3 DEF CleanFits, sameContent
<1> QED  BY <1>4, <1>5, <1>6, <1>7

LEMMA ReloadKeeps == ASSUME IInv, Reload PROVE IInv'
<1> USE DEF IInv
<1>1. /\ handle' = None /\ opens' = {} /\ saves' = {} /\ UNCHANGED <<disk, draft>>
      /\ shown' = [project |-> None, dirty |-> FALSE, generation |-> Unrendered] /\ restored(draft)
      /\ ref' = project' /\ event'
  BY DEF Reload, inEvent
<1>2. lifecycle' \in Lifecycles /\ lifecycle'.saved <= lifecycle'.revision
      /\ lifecycle'.generation = 0 /\ shown'.generation = -1
  BY <1>1 DEF restored, Unrendered, NoRevision, Lifecycles
<1>3. IsProject(project')
  BY <1>1, BlankIsProject DEF restored, Shapes
<1>4. Shapes'
  BY <1>1, <1>2, <1>3 DEF Shapes, Lifecycles, IsProject
<1>5. OnePerFile' /\ SavesFit' /\ HandleFits' /\ DraftFits' /\ PageFits'
  BY <1>1 DEF OnePerFile, SavesFit, HandleFits, DraftFits, PageFits
<1>6. CleanFits'
  <2>1. CASE draft = None
    BY <1>1, <2>1, BlankIsProject DEF CleanFits, restored, sameContent
  <2>2. CASE draft # None
    BY <1>1, <2>2 DEF CleanFits, restored, isDirty, NoRevision
  <2> QED  BY <2>1, <2>2
<1> QED  BY <1>4, <1>5, <1>6

LEMMA NextKeeps == ASSUME IInv, [Next]_vars PROVE IInv'
<1>1. CASE UNCHANGED vars
  BY <1>1, FewerKeep DEF vars
<1>2. CASE \/ UpdateWorkspace \/ Undo \/ Redo \/ CommitMutation \/ ChangeSettings
           \/ \E o \in Object : CreateObject(o) \/ RemoveObject(o)
           \/ \E b \in BOOLEAN : RestoreTemplate(b)
  <2>1. Mutated
    BY <1>2, MutationsMutate
  <2> QED  BY <2>1, MutatedKeeps
<1>3. CASE Render
  BY <1>3, RenderKeeps
<1>4. CASE \E o \in Object : SelectObject(o)
  BY <1>4, SelectKeeps
<1>5. CASE \E file \in File : SaveStart(file) \/ OpenStart(file)
  BY <1>5, SaveStartKeeps, OpenStartKeeps
<1>6. CASE \E s \in saves : SaveWrite(s) \/ SaveComplete(s)
  BY <1>6, SaveWriteKeeps, SaveCompleteKeeps
<1>7. CASE \/ \E s \in saves : SaveFail(s)
           \/ \E o \in opens : OpenFail(o)
  BY <1>7, FewerKeep DEF SaveFail, OpenFail
<1>8. CASE (\E o \in opens : OpenFinish(o)) \/ NewProject \/ Reload
  BY <1>8, OpenFinishKeeps, NewProjectKeeps, ReloadKeeps
<1> QED  BY <1>1, <1>2, <1>3, <1>4, <1>5, <1>6, <1>7, <1>8 DEF Next

----------------------------------------------------------------------------
(* The file the workbench calls the project's own holds this project, never
   the one it replaced, however late a save of that one completes: as long as
   the file was used by one save or open at a time, and no step was taken
   between the replacement and its render. *)
THEOREM HandleKeepsItsProject == Spec => []HandleIsOfProject
<1>1. IInv => HandleIsOfProject
  BY DEF IInv, HandleFits, HandleIsOfProject, Unmixed
<1> QED  BY <1>1, InitIInv, NextKeeps, PTL DEF Spec

(* A project with a file and no unsaved changes is in a file, in whatever
   order its saves are written and completed, and although a save may write an
   older page than the revision it marks. *)
THEOREM SavedIsWritten == Spec => []SavedMeansWritten
<1>1. IInv => SavedMeansWritten
  BY DEF IInv, CleanFits, KeptIn, SavedMeansWritten
<1> QED  BY <1>1, InitIInv, NextKeeps, PTL DEF Spec

(* A reload of the page at any time gives back what was on the screen, or it
   is in a file, or there was nothing to lose; and no step gives the present
   revision another content.  None is no project. *)
THEOREM ReloadLosesNothing == ASSUME ~IsProject(None) PROVE Spec => ReloadKeepsWork
<1> DEFINE Kept == \/ sameContent(project', project)
                   \/ \E file \in File : sameContent(disk[file], project)
                   \/ sameContent(blank(project.doc), project)
           Reloaded == shown'.generation = Unrendered /\ ~renderPending /\ crossed = {} /\ "clean" \notin late
           SameRevision ==
             /\ shown'.generation # Unrendered /\ lifecycle'.generation = lifecycle.generation
             /\ lifecycle'.revision = lifecycle.revision /\ "content" \notin late'
<1>1. ASSUME IInv, [Next]_vars, Reloaded PROVE Kept
  <2>1. shown = present /\ project # None
    BY <1>1 DEF renderPending, IInv, Shapes
  <2>2. shown.project = project /\ shown.dirty = isDirty /\ shown.generation = lifecycle.generation
    BY Zenon, <2>1 DEF present
  <2>6. shown.generation # Unrendered
    BY <1>1, <2>2 DEF IInv, Shapes, Lifecycles, Unrendered
  <2>3. Reload
    <3>1. shown' # shown
      BY <1>1, <2>6
    <3>2. ~Render
      BY <1>1 DEF Render
    <3> QED  BY <1>1, <3>1, <3>2 DEF Next, vars, UpdateWorkspace, Undo, Redo, CommitMutation, ChangeSettings,
                  SelectObject, CreateObject, RemoveObject, RestoreTemplate, SaveStart, OpenStart, SaveWrite,
                  SaveFail, SaveComplete, OpenFinish, OpenFail, NewProject
  <2>4. CASE isDirty
    <3>1. draft = project
      BY Zenon, <1>1, <2>6, <2>2, <2>4 DEF IInv, DraftFits
    <3>2. project' = project
      BY <2>1, <2>3, <3>1 DEF Reload, restored
    <3> QED  BY <3>2 DEF sameContent
  <2>5. CASE ~isDirty
    BY <1>1, <2>5 DEF IInv, CleanFits, KeptIn
  <2> QED  BY <2>4, <2>5
<1>2. ASSUME IInv, [Next]_vars, SameRevision PROVE sameContent(project', project)
  <2>1. CASE project' = project
    BY <2>1 DEF sameContent
  <2>2. CASE \/ UpdateWorkspace \/ Undo \/ Redo \/ CommitMutation \/ ChangeSettings
             \/ \E o \in Object : CreateObject(o) \/ RemoveObject(o)
             \/ \E b \in BOOLEAN : RestoreTemplate(b)
    <3>1. Mutated
      BY <1>2, <2>2, MutationsMutate
    <3> QED  BY <1>2, <3>1 DEF Mutated, IInv, Shapes, Lifecycles
  <2>3. ASSUME NEW o \in Object, SelectObject(o) PROVE sameContent(project', project)
    <3>1. ~event /\ project' = [shown.project EXCEPT !.active = o] /\ sameContent(shown.project, project)
      BY <1>2, <2>3 DEF SelectObject, lateContent
    <3>2. sameContent(project', shown.project)
      BY <1>2, <3>1, ActiveOfProject DEF IInv, Shapes
    <3> QED  BY <3>1, <3>2 DEF sameContent
  <2>4. ASSUME NEW s \in saves, SaveComplete(s) PROVE sameContent(project', project)
    <3>1. CASE s.generation = lifecycle.generation /\ s.revision = lifecycle.revision
      BY <1>2, <2>4, <3>1 DEF SaveComplete, savedBack, IInv, SavesFit, SaveFits
    <3>2. CASE ~(s.generation = lifecycle.generation /\ s.revision = lifecycle.revision)
      BY <2>4, <3>2 DEF SaveComplete, sameContent
    <3> QED  BY <3>1, <3>2
  <2>5. ASSUME (\E o \in opens : OpenFinish(o)) \/ NewProject PROVE FALSE
    <3>1. lifecycle' = replacedRevision(lifecycle)
      BY <2>5 DEF OpenFinish, NewProject, replaceProject
    <3>2. lifecycle.generation < lifecycle'.generation /\ lifecycle.generation \in Nat
      BY <1>2, <3>1, ReplacedRevision DEF IInv, Shapes, Lifecycles
    <3> QED  BY <1>2, <3>2
  <2>6. CASE Reload
    <3>1. shown'.generation = Unrendered
      BY <2>6 DEF Reload
    <3> QED  BY <1>2, <3>1
  <2> QED  BY <1>2, <2>1, <2>2, <2>3, <2>4, <2>5, <2>6 DEF Next, vars, Render, SaveStart, OpenStart,
              SaveWrite, SaveFail, OpenFail
<1>3. IInv /\ [Next]_vars => [(Reloaded => Kept) /\ (SameRevision => sameContent(project', project))]_vars
  BY <1>1, <1>2
<1> QED  BY <1>3, InitIInv, NextKeeps, PTL DEF Spec, ReloadKeepsWork
----------------------------------------------------------------------------
(* The history stays in order, for any objects, limits and bounds, however the
   saves and openings meet.  Everything the workbench can put in its project,
   from files, from the draft, from the page or from saves that complete late,
   was made by the edits so far, with one workspace per object; and unless a
   step was taken between the opening of a project and its render, the history
   is that of the object last rendered: past, workspace and future of that
   object are strictly increasing in their edits. *)

WorkspaceBy(n) == [of: Object, edit: 0..n]

(* A project made by the first n edits: one workspace per object, and the
   active object is one of them. *)
MadeBy(p, n) ==
  /\ p.objects \in Seq(WorkspaceBy(n))
  /\ p.active \in idsOf(p)
  /\ \A i, j \in DOMAIN p.objects : p.objects[i].of = p.objects[j].of => i = j

AllMade ==
  /\ edits \in Nat
  /\ MadeBy(project, edits) /\ MadeBy(ref, edits) /\ (event \/ MadeBy(shown.project, edits))
  /\ history.past \in Seq(WorkspaceBy(edits)) /\ history.future \in Seq(WorkspaceBy(edits))
  /\ \A file \in File : MadeBy(disk[file], edits)
  /\ draft # None => MadeBy(draft, edits)
  /\ \A s \in saves : MadeBy(s.project, edits)
  /\ \A o \in opens : MadeBy(o.project, edits)

(* Entries of one object, oldest first. *)
IsLine(entries, object, n) ==
  /\ entries \in Seq(WorkspaceBy(n))
  /\ \A i \in 1..Len(entries) : entries[i].of = object
  /\ \A i, j \in 1..Len(entries) : i < j => entries[i].edit < entries[j].edit

(* Every entry of the one is an entry of the other. *)
Among(entries, all) ==
  \A i \in 1..Len(entries) : \E j \in 1..Len(all) : entries[i] = all[j]

(* The past, a workspace and the future, in the order of their edits. *)
InOrder(h, w, n) ==
  /\ IsLine(h.past, w.of, n) /\ Len(h.past) <= Limit
  /\ IsLine(h.future, w.of, n) /\ Len(h.future) <= Limit
  /\ \A i \in 1..Len(h.past) : h.past[i].edit < w.edit
  /\ \A i \in 1..Len(h.future) : w.edit < h.future[i].edit

(* A project that replaced another has no history and no save before it is
   rendered.  Afterwards the history is that of the object on the page, and
   the page, the ref and the saves of the present revision have the objects of
   the project. *)
HistoryFits ==
  Unmixed =>
    /\ replacedUnseen =>
         /\ history = emptyHistory /\ activeRef = project.active
         /\ \A s \in saves : s.generation # lifecycle.generation
    /\ ~replacedUnseen => activeRef = shown.project.active
    /\ activeRef = project.active => InOrder(history, workspaceOf(project), edits)
    /\ ~event /\ ~replacedUnseen =>
         /\ shown.project.objects = project.objects /\ ref.objects = project.objects
         /\ InOrder(history, workspaceOf(shown.project), edits)
    /\ \A s \in saves : s.generation = lifecycle.generation /\ s.revision = lifecycle.revision =>
         s.project.objects = project.objects

TimelineInv == AllMade /\ HistoryFits

----------------------------------------------------------------------------
LEMMA OwnWorkspace ==
  ASSUME NEW n, NEW p, MadeBy(p, n)
  PROVE  /\ workspaceOf(p) \in WorkspaceBy(n) /\ workspaceOf(p).of = p.active
         /\ \A i \in DOMAIN p.objects : p.objects[i].of = p.active => workspaceOf(p) = p.objects[i]
<1>1. \E w \in ToSet(p.objects) : w.of = p.active
  BY DEF MadeBy, idsOf, ToSet
<1>2. workspaceOf(p) \in ToSet(p.objects) /\ workspaceOf(p).of = p.active
  BY <1>1 DEF workspaceOf
<1>3. PICK i \in DOMAIN p.objects : workspaceOf(p) = p.objects[i]
  BY <1>2 DEF ToSet
<1>4. \A k \in DOMAIN p.objects : p.objects[k] \in WorkspaceBy(n)
  BY ElementOfSeq, LenProperties DEF MadeBy
<1> QED  BY <1>2, <1>3, <1>4 DEF MadeBy

LEMMA MadeLater ==
  ASSUME NEW n \in Nat, NEW m \in Nat, n <= m, NEW p, MadeBy(p, n)
  PROVE  MadeBy(p, m)
<1>1. WorkspaceBy(n) \subseteq WorkspaceBy(m)
  BY DEF WorkspaceBy
<1> QED  BY <1>1, SeqMonotonic DEF MadeBy

(* A workspace put in the place of the active one. *)
LEMMA Replaced ==
  ASSUME NEW n, NEW p, IsProject(p), MadeBy(p, n), NEW w \in WorkspaceBy(n)
  PROVE  /\ MadeBy(withWorkspace(p, w), n)
         /\ withWorkspace(p, w).active = p.active
         /\ w.of = p.active => workspaceOf(withWorkspace(p, w)) = w
<1> DEFINE q == withWorkspace(p, w)
           put == [i \in DOMAIN p.objects |-> IF p.objects[i].of = p.active
                                           THEN [p.objects[i] EXCEPT !.edit = w.edit] ELSE p.objects[i]]
<1>1. q.objects = put /\ q.active = p.active
  BY DEF withWorkspace, IsProject
<1>2. DOMAIN p.objects = 1..Len(p.objects) /\ Len(p.objects) \in Nat
      /\ \A i \in DOMAIN p.objects : p.objects[i] \in WorkspaceBy(n)
  BY LenProperties, ElementOfSeq DEF MadeBy
<1>3. put \in [1..Len(p.objects) -> WorkspaceBy(n)]
  BY <1>2 DEF WorkspaceBy
<1>4. put \in Seq(WorkspaceBy(n))
  BY <1>2, <1>3
<1>5. \A i \in DOMAIN put : put[i].of = p.objects[i].of
  BY <1>2 DEF WorkspaceBy
<1>6. MadeBy(q, n)
  <2>1. DOMAIN put = DOMAIN p.objects
    OBVIOUS
  <2> HIDE DEF q, put
  <2>2. idsOf(q) = idsOf(p)
    BY <1>1, <1>5, <2>1 DEF idsOf
  <2> QED  BY <1>1, <1>4, <1>5, <2>1, <2>2 DEF MadeBy
<1>7. PICK i \in DOMAIN p.objects : p.objects[i].of = p.active
  BY DEF MadeBy, idsOf
<1>8. w.of = p.active => put[i] = w
  BY <1>2, <1>7 DEF WorkspaceBy
<1>9. i \in DOMAIN q.objects /\ q.objects[i].of = q.active /\ (w.of = p.active => q.objects[i] = w)
  BY <1>1, <1>5, <1>7, <1>8
<1>10. w.of = p.active => workspaceOf(q) = w
  <2> HIDE DEF q, put
  <2> QED  BY <1>6, <1>9, OwnWorkspace
<1> QED  BY <1>1, <1>6, <1>10

----------------------------------------------------------------------------
LEMMA PartOfLine ==
  ASSUME NEW n, NEW o, NEW s, IsLine(s, o, n), NEW a \in 1..Len(s) + 1, NEW b \in 0..Len(s)
  PROVE  /\ IsLine(SubSeq(s, a, b), o, n)
         /\ Len(SubSeq(s, a, b)) = IF a <= b THEN b - a + 1 ELSE 0
         /\ \A i \in 1..Len(SubSeq(s, a, b)) : SubSeq(s, a, b)[i] = s[a + i - 1] /\ a + i - 1 \in 1..Len(s)
<1>1. Len(s) \in Nat /\ \A i \in 1..Len(s) : s[i] \in WorkspaceBy(n)
  BY LenProperties, ElementOfSeq DEF IsLine
<1>2. /\ SubSeq(s, a, b) \in Seq(WorkspaceBy(n))
      /\ Len(SubSeq(s, a, b)) = IF a <= b THEN b - a + 1 ELSE 0
      /\ \A i \in 1..b - a + 1 : SubSeq(s, a, b)[i] = s[a + i - 1]
  <2>1. a \in Int /\ b \in Int /\ \A i \in a..b : s[i] \in WorkspaceBy(n)
    BY <1>1
  <2> QED  BY <2>1, SubSeqProperties
<1>3. \A i \in 1..Len(SubSeq(s, a, b)) : SubSeq(s, a, b)[i] = s[a + i - 1] /\ a + i - 1 \in 1..Len(s)
  BY <1>1, <1>2
<1>4. \A i, j \in 1..Len(SubSeq(s, a, b)) : i < j => a + i - 1 < a + j - 1
  BY <1>1, <1>2
<1> QED  BY <1>2, <1>3, <1>4 DEF IsLine

LEMMA LastOfLine ==
  ASSUME NEW n, NEW o, NEW s, IsLine(s, o, n)
  PROVE  /\ IsLine(lastOf(s), o, n) /\ Len(lastOf(s)) <= Limit
         /\ Among(lastOf(s), s)
<1>1. Len(s) \in Nat /\ Limit \in Nat \ {0}
  BY LenProperties, DocumentAssumption DEF IsLine
<1>2. CASE Len(s) <= Limit
  BY <1>2 DEF lastOf, Among
<1>3. CASE ~(Len(s) <= Limit)
  <2>1. lastOf(s) = SubSeq(s, Len(s) - Limit + 1, Len(s))
    BY <1>3 DEF lastOf, newest
  <2>2. Len(s) - Limit + 1 \in 1..Len(s) + 1 /\ Len(s) \in 0..Len(s) /\ Len(s) - Limit + 1 <= Len(s)
    BY <1>1, <1>3
  <2>3. Len(lastOf(s)) = Limit
    BY <1>1, <2>1, <2>2, PartOfLine
  <2>4. IsLine(lastOf(s), o, n)
    BY <2>1, <2>2, PartOfLine
  <2>5. ASSUME NEW i \in 1..Len(lastOf(s)) PROVE \E j \in 1..Len(s) : lastOf(s)[i] = s[j]
    <3>1. /\ lastOf(s)[i] = s[(Len(s) - Limit + 1) + i - 1]
          /\ (Len(s) - Limit + 1) + i - 1 \in 1..Len(s)
      BY <2>1, <2>2, PartOfLine
    <3> QED  BY <3>1
  <2> QED  BY <1>1, <2>3, <2>4, <2>5 DEF Among
<1> QED  BY <1>2, <1>3

LEMMA FirstOfLine ==
  ASSUME NEW n, NEW o, NEW s, IsLine(s, o, n)
  PROVE  /\ IsLine(firstOf(s), o, n) /\ Len(firstOf(s)) <= Limit
         /\ Among(firstOf(s), s)
<1>1. Len(s) \in Nat /\ Limit \in Nat \ {0}
  BY LenProperties, DocumentAssumption DEF IsLine
<1>2. CASE Len(s) <= Limit
  BY <1>2 DEF firstOf, Among
<1>3. CASE ~(Len(s) <= Limit)
  <2>1. firstOf(s) = SubSeq(s, 1, Limit)
    BY <1>3 DEF firstOf
  <2>2. 1 \in 1..Len(s) + 1 /\ Limit \in 0..Len(s) /\ 1 <= Limit
    BY <1>1, <1>3
  <2>3. Len(firstOf(s)) = Limit
    BY <1>1, <2>1, <2>2, PartOfLine
  <2>4. IsLine(firstOf(s), o, n)
    BY <2>1, <2>2, PartOfLine
  <2>5. ASSUME NEW i \in 1..Len(firstOf(s)) PROVE \E j \in 1..Len(s) : firstOf(s)[i] = s[j]
    <3>1. firstOf(s)[i] = s[1 + i - 1] /\ 1 + i - 1 \in 1..Len(s)
      BY <2>1, <2>2, PartOfLine
    <3> QED  BY <3>1
  <2> QED  BY <1>1, <2>3, <2>4, <2>5 DEF Among
<1> QED  BY <1>2, <1>3

(* A workspace after the past, or before the future. *)
LEMMA Appended ==
  ASSUME NEW n, NEW w \in WorkspaceBy(n), NEW s, IsLine(s, w.of, n),
         \A i \in 1..Len(s) : s[i].edit < w.edit
  PROVE  /\ IsLine(Append(s, w), w.of, n)
         /\ \A i \in 1..Len(Append(s, w)) : Append(s, w)[i].edit <= w.edit
<1>1. /\ Append(s, w) \in Seq(WorkspaceBy(n)) /\ Len(Append(s, w)) = Len(s) + 1
      /\ \A i \in 1..Len(s) : Append(s, w)[i] = s[i]
      /\ Append(s, w)[Len(s) + 1] = w
  BY AppendProperties DEF IsLine
<1>2. Len(s) \in Nat /\ \A i \in 1..Len(s) : s[i].edit \in Nat
  <2>1. Len(s) \in Nat /\ \A i \in 1..Len(s) : s[i] \in WorkspaceBy(n)
    BY LenProperties, ElementOfSeq DEF IsLine
  <2> QED  BY <2>1 DEF WorkspaceBy
<1>3. w.edit \in Nat
  BY DEF WorkspaceBy
<1> QED  BY <1>1, <1>2, <1>3 DEF IsLine

LEMMA Prepended ==
  ASSUME NEW n, NEW w \in WorkspaceBy(n), NEW s, IsLine(s, w.of, n),
         \A i \in 1..Len(s) : w.edit < s[i].edit
  PROVE  /\ IsLine(<<w>> \o s, w.of, n)
         /\ \A i \in 1..Len(<<w>> \o s) : w.edit <= (<<w>> \o s)[i].edit
<1>1. <<w>> \in Seq(WorkspaceBy(n)) /\ Len(<<w>>) = 1 /\ <<w>>[1] = w
  OBVIOUS
<1>2. Len(s) \in Nat /\ \A i \in 1..Len(s) : s[i].edit \in Nat
  <2>1. Len(s) \in Nat /\ \A i \in 1..Len(s) : s[i] \in WorkspaceBy(n)
    BY LenProperties, ElementOfSeq DEF IsLine
  <2> QED  BY <2>1 DEF WorkspaceBy
<1>3. /\ <<w>> \o s \in Seq(WorkspaceBy(n)) /\ Len(<<w>> \o s) = Len(s) + 1
      /\ (<<w>> \o s)[1] = w
      /\ \A i \in 2..Len(s) + 1 : (<<w>> \o s)[i] = s[i - 1] /\ i - 1 \in 1..Len(s)
  <2>1. /\ <<w>> \o s \in Seq(WorkspaceBy(n)) /\ Len(<<w>> \o s) = 1 + Len(s)
        /\ \A i \in 1..1 + Len(s) : (<<w>> \o s)[i] = IF i <= 1 THEN <<w>>[i] ELSE s[i - 1]
    BY <1>1, ConcatProperties DEF IsLine
  <2> QED  BY <1>1, <1>2, <2>1
<1>4. w.edit \in Nat
  BY DEF WorkspaceBy
<1> DEFINE t == <<w>> \o s
<1> HIDE DEF t
<1>5. \A i \in 1..Len(t) : t[i] = w \/ (\E k \in 1..Len(s) : t[i] = s[k])
  BY <1>2, <1>3 DEF t
<1>6. \A i, j \in 1..Len(t) : i < j => t[i].edit < t[j].edit
  <2> SUFFICES ASSUME NEW i \in 1..Len(t), NEW j \in 1..Len(t), i < j PROVE t[i].edit < t[j].edit
    OBVIOUS
  <2>1. j \in 2..Len(s) + 1 /\ t[j] = s[j - 1] /\ j - 1 \in 1..Len(s)
    BY <1>2, <1>3 DEF t
  <2>2. CASE i = 1
    BY <1>3, <2>1, <2>2 DEF t
  <2>3. CASE i # 1
    <3>1. t[i] = s[i - 1] /\ i - 1 \in 1..Len(s) /\ i - 1 < j - 1
      BY <1>2, <1>3, <2>1, <2>3 DEF t
    <3> QED  BY <2>1, <3>1 DEF IsLine
  <2> QED  BY <2>2, <2>3
<1>7. IsLine(t, w.of, n)
  BY <1>3, <1>5, <1>6 DEF t, IsLine
<1>8. \A i \in 1..Len(t) : w.edit <= t[i].edit
  BY <1>2, <1>4, <1>5
<1> QED  BY <1>7, <1>8 DEF t

LEMMA LineLater ==
  ASSUME NEW n \in Nat, NEW m \in Nat, n <= m, NEW o, NEW s, IsLine(s, o, n)
  PROVE  IsLine(s, o, m)
<1>1. WorkspaceBy(n) \subseteq WorkspaceBy(m)
  BY DEF WorkspaceBy
<1> QED  BY <1>1, SeqMonotonic DEF IsLine

LEMMA EmptyInOrder ==
  ASSUME NEW n, NEW w PROVE InOrder(emptyHistory, w, n)
<1>1. Limit \in Nat
  BY DocumentAssumption
<1>2. <<>> \in Seq(WorkspaceBy(n)) /\ Len(<<>>) = 0
  BY EmptySeq
<1>3. 1..0 = {}
  OBVIOUS
<1> QED  BY <1>1, <1>2, <1>3 DEF InOrder, emptyHistory, IsLine

LEMMA InOrderLater ==
  ASSUME NEW n \in Nat, NEW m \in Nat, n <= m, NEW h, NEW w, InOrder(h, w, n)
  PROVE  InOrder(h, w, m)
BY LineLater DEF InOrder

LEMMA EntryEdits ==
  ASSUME NEW n, NEW o, NEW s, IsLine(s, o, n)
  PROVE  /\ Len(s) \in Nat
         /\ \A i \in 1..Len(s) : s[i] \in WorkspaceBy(n) /\ s[i].of = o /\ s[i].edit \in Nat
<1>1. Len(s) \in Nat /\ \A i \in 1..Len(s) : s[i] \in WorkspaceBy(n)
  BY LenProperties, ElementOfSeq DEF IsLine
<1> QED  BY <1>1 DEF WorkspaceBy, IsLine

(* A new edit: the workspace it replaces is the last of the past. *)
LEMMA PushedInOrder ==
  ASSUME NEW n \in Nat, NEW h, NEW w \in WorkspaceBy(n), InOrder(h, w, n),
         NEW v \in WorkspaceBy(n + 1), v.of = w.of, v.edit = n + 1
  PROVE  InOrder(pushed(h, w), v, n + 1)
<1> DEFINE s == Append(h.past, w)
<1>1. IsLine(s, w.of, n) /\ \A i \in 1..Len(s) : s[i].edit <= w.edit
  BY Appended DEF InOrder
<1>2. w.edit \in 0..n
  BY DEF WorkspaceBy
<1> HIDE DEF s
<1>3. /\ IsLine(lastOf(s), w.of, n) /\ Len(lastOf(s)) <= Limit
      /\ Among(lastOf(s), s)
  BY <1>1, LastOfLine
<1>4. IsLine(lastOf(s), v.of, n + 1)
  BY <1>3, LineLater
<1>5. \A i \in 1..Len(lastOf(s)) : lastOf(s)[i].edit < v.edit
  <2> SUFFICES ASSUME NEW i \in 1..Len(lastOf(s)) PROVE lastOf(s)[i].edit < v.edit
    OBVIOUS
  <2>1. PICK j \in 1..Len(s) : lastOf(s)[i] = s[j]
    BY <1>3 DEF Among
  <2>2. s[j].edit \in Nat /\ s[j].edit <= w.edit
    BY <1>1, EntryEdits
  <2> QED  BY <1>2, <2>1, <2>2
<1>6. pushed(h, w) = [past |-> lastOf(s), future |-> <<>>]
  BY DEF pushed, s
<1>7. IsLine(<<>>, v.of, n + 1) /\ Len(<<>>) <= Limit /\ \A i \in 1..Len(<<>>) : v.edit < <<>>[i].edit
  BY EmptyInOrder DEF InOrder, emptyHistory
<1> QED  BY <1>3, <1>4, <1>5, <1>6, <1>7 DEF InOrder

(* Undo: the last of the past is the workspace, which is the first of the future. *)
LEMMA UndoneInOrder ==
  ASSUME NEW n \in Nat, NEW h, NEW w \in WorkspaceBy(n), InOrder(h, w, n), h.past # <<>>
  PROVE  /\ Last(h.past) \in WorkspaceBy(n) /\ Last(h.past).of = w.of
         /\ InOrder([past |-> Front(h.past), future |-> firstOf(<<w>> \o h.future)], Last(h.past), n)
<1> DEFINE line == h.past
           t == <<w>> \o h.future
           v == Last(h.past)
<1>1. IsLine(line, w.of, n) /\ Len(line) <= Limit
  BY DEF InOrder
<1>2. Len(line) \in Nat \ {0} /\ \A i \in 1..Len(line) : line[i] \in WorkspaceBy(n) /\ line[i].of = w.of /\ line[i].edit \in Nat
  BY <1>1, EntryEdits, EmptySeq DEF IsLine
<1>3. v = line[Len(line)] /\ v \in WorkspaceBy(n) /\ v.of = w.of /\ v.edit \in Nat /\ v.edit < w.edit
  <2>1. v = line[Len(line)] /\ Len(line) \in 1..Len(line)
    BY <1>2 DEF Last
  <2>2. \A i \in 1..Len(line) : line[i].edit < w.edit
    BY DEF InOrder
  <2> QED  BY <1>2, <2>1, <2>2
<1>4. IsLine(t, w.of, n) /\ \A i \in 1..Len(t) : w.edit <= t[i].edit
  BY Prepended DEF InOrder
<1>5. Limit \in Nat /\ w.edit \in Nat
  BY DocumentAssumption DEF WorkspaceBy
<1> HIDE DEF t, v
<1>6. /\ IsLine(firstOf(t), v.of, n) /\ Len(firstOf(t)) <= Limit
      /\ Among(firstOf(t), t)
  <2>1. IsLine(t, v.of, n)
    BY <1>3, <1>4
  <2> QED  BY <2>1, FirstOfLine
<1>7. \A i \in 1..Len(firstOf(t)) : v.edit < firstOf(t)[i].edit
  <2> SUFFICES ASSUME NEW i \in 1..Len(firstOf(t)) PROVE v.edit < firstOf(t)[i].edit
    OBVIOUS
  <2>1. PICK j \in 1..Len(t) : firstOf(t)[i] = t[j]
    BY <1>6 DEF Among
  <2>2. t[j].edit \in Nat /\ w.edit <= t[j].edit
    BY <1>4, EntryEdits
  <2> QED  BY <1>3, <1>5, <2>1, <2>2
<1> DEFINE f == Front(h.past)
<1>8. /\ IsLine(f, v.of, n) /\ Len(f) = Len(line) - 1
      /\ \A i \in 1..Len(f) : f[i] = line[i]
  <2>1. f = SubSeq(line, 1, Len(line) - 1)
    BY DEF Front
  <2>2. 1 \in 1..Len(line) + 1 /\ Len(line) - 1 \in 0..Len(line)
    BY <1>2
  <2> HIDE DEF f
  <2>3. IsLine(f, w.of, n) /\ Len(f) = IF 1 <= Len(line) - 1 THEN Len(line) - 1 - 1 + 1 ELSE 0
    BY <1>1, <2>1, <2>2, PartOfLine
  <2>4. \A i \in 1..Len(f) : f[i] = line[1 + i - 1]
    BY <1>1, <2>1, <2>2, PartOfLine
  <2> QED  BY <1>2, <1>3, <2>3, <2>4
<1> HIDE DEF f
<1>9. Len(f) <= Limit
  BY <1>1, <1>2, <1>5, <1>8
<1>10. \A i \in 1..Len(f) : f[i].edit < v.edit
  BY <1>1, <1>2, <1>3, <1>8 DEF IsLine
<1>11. InOrder([past |-> f, future |-> firstOf(t)], v, n)
  BY <1>6, <1>7, <1>8, <1>9, <1>10 DEF InOrder
<1> QED  BY <1>3, <1>11 DEF f, t, v

(* Redo: the first of the future is the workspace, which is the last of the past. *)
LEMMA RedoneInOrder ==
  ASSUME NEW n \in Nat, NEW h, NEW w \in WorkspaceBy(n), InOrder(h, w, n), h.future # <<>>
  PROVE  /\ Head(h.future) \in WorkspaceBy(n) /\ Head(h.future).of = w.of
         /\ InOrder([past |-> lastOf(Append(h.past, w)), future |-> Tail(h.future)], Head(h.future), n)
<1> DEFINE line == h.future
           t == Append(h.past, w)
           v == Head(h.future)
           r == Tail(h.future)
<1>1. IsLine(line, w.of, n) /\ Len(line) <= Limit /\ line \in Seq(WorkspaceBy(n))
  BY DEF InOrder, IsLine
<1>2. Len(line) \in Nat \ {0} /\ \A i \in 1..Len(line) : line[i] \in WorkspaceBy(n) /\ line[i].of = w.of /\ line[i].edit \in Nat
  BY <1>1, EntryEdits, EmptySeq
<1>3. v = line[1] /\ v \in WorkspaceBy(n) /\ v.of = w.of /\ v.edit \in Nat /\ w.edit < v.edit
  <2>1. v = line[1] /\ 1 \in 1..Len(line)
    BY <1>2
  <2>2. \A i \in 1..Len(line) : w.edit < line[i].edit
    BY DEF InOrder
  <2> QED  BY <1>2, <2>1, <2>2
<1>4. IsLine(t, w.of, n) /\ \A i \in 1..Len(t) : t[i].edit <= w.edit
  BY Appended DEF InOrder
<1>5. Limit \in Nat /\ w.edit \in Nat
  BY DocumentAssumption DEF WorkspaceBy
<1>6. /\ r \in Seq(WorkspaceBy(n)) /\ Len(r) = Len(line) - 1
      /\ \A i \in 1..Len(r) : r[i] = line[i + 1]
  BY <1>1, HeadTailProperties
<1> HIDE DEF t, v, r
<1>7. /\ IsLine(lastOf(t), v.of, n) /\ Len(lastOf(t)) <= Limit
      /\ Among(lastOf(t), t)
  <2>1. IsLine(t, v.of, n)
    BY <1>3, <1>4
  <2> QED  BY <2>1, LastOfLine
<1>8. \A i \in 1..Len(lastOf(t)) : lastOf(t)[i].edit < v.edit
  <2> SUFFICES ASSUME NEW i \in 1..Len(lastOf(t)) PROVE lastOf(t)[i].edit < v.edit
    OBVIOUS
  <2>1. PICK j \in 1..Len(t) : lastOf(t)[i] = t[j]
    BY <1>7 DEF Among
  <2>2. t[j].edit \in Nat /\ t[j].edit <= w.edit
    BY <1>4, EntryEdits
  <2> QED  BY <1>3, <1>5, <2>1, <2>2
<1>9. \A i \in 1..Len(r) : r[i] = line[i + 1] /\ i + 1 \in 1..Len(line)
  BY <1>2, <1>6
<1>10. IsLine(r, v.of, n) /\ Len(r) <= Limit
  <2>1. Len(r) <= Limit
    BY <1>1, <1>2, <1>5, <1>6
  <2>2. \A i \in 1..Len(r) : r[i].of = v.of
    BY <1>2, <1>3, <1>9
  <2>3. ASSUME NEW i \in 1..Len(r), NEW j \in 1..Len(r), i < j PROVE r[i].edit < r[j].edit
    <3>1. i + 1 \in 1..Len(line) /\ j + 1 \in 1..Len(line) /\ i + 1 < j + 1
      BY <1>2, <1>9, <2>3
    <3>2. line[i + 1].edit < line[j + 1].edit
      BY <1>1, <3>1 DEF IsLine
    <3> QED  BY <1>9, <3>2
  <2> QED  BY <1>6, <2>1, <2>2, <2>3 DEF IsLine
<1>11. \A i \in 1..Len(r) : v.edit < r[i].edit
  BY <1>1, <1>2, <1>3, <1>9 DEF IsLine
<1>12. InOrder([past |-> lastOf(t), future |-> r], v, n)
  BY <1>7, <1>8, <1>10, <1>11 DEF InOrder
<1> QED  BY <1>3, <1>12 DEF r, t, v

----------------------------------------------------------------------------
LEMMA BlankMade == ASSUME NEW doc, NEW n \in Nat PROVE MadeBy(blank(doc), n)
<1> DEFINE d == DefaultObjects
           p == blank(doc)
           made == [i \in DOMAIN d |-> [of |-> d[i], edit |-> 0]]
<1>1. p.objects = made /\ p.active = Head(d)
  BY DEF blank
<1>2. /\ d \in Seq(Object) /\ d # <<>> /\ Len(d) \in Nat \ {0} /\ DOMAIN d = 1..Len(d)
      /\ \A i \in DOMAIN d : d[i] \in Object
  BY DocumentAssumption, EmptySeq, LenProperties, ElementOfSeq
<1>3. made \in [1..Len(d) -> WorkspaceBy(n)]
  BY <1>2 DEF WorkspaceBy
<1>4. made \in Seq(WorkspaceBy(n)) /\ DOMAIN made = DOMAIN d /\ \A i \in DOMAIN d : made[i].of = d[i]
  BY <1>2, <1>3
<1>5. Head(d) = d[1] /\ 1 \in DOMAIN d
  BY <1>2
<1> HIDE DEF p, made
<1>6. p.active \in idsOf(p)
  BY <1>1, <1>4, <1>5 DEF idsOf
<1>7. \A i, j \in DOMAIN d : d[i] = d[j] => i = j
  BY DocumentAssumption DEF IsInjective
<1>8. MadeBy(p, n)
  BY <1>1, <1>4, <1>6, <1>7 DEF MadeBy
<1> QED  BY <1>8 DEF p

LEMMA SameObjects ==
  ASSUME NEW n, NEW p, MadeBy(p, n), NEW q, q.objects = p.objects, q.active \in idsOf(p)
  PROVE  /\ MadeBy(q, n)
         /\ q.active = p.active => workspaceOf(q) = workspaceOf(p)
BY DEF MadeBy, idsOf, workspaceOf

LEMMA WorkspacesLater ==
  ASSUME NEW n \in Nat, NEW m \in Nat, n <= m PROVE Seq(WorkspaceBy(n)) \subseteq Seq(WorkspaceBy(m))
<1>1. WorkspaceBy(n) \subseteq WorkspaceBy(m)
  BY DEF WorkspaceBy
<1> QED  BY <1>1, SeqMonotonic

(* The ends of a history are histories. *)
LEMMA EndsOfHistory ==
  ASSUME NEW S, NEW s \in Seq(S)
  PROVE  /\ lastOf(s) \in Seq(S) /\ firstOf(s) \in Seq(S)
         /\ s # <<>> => Front(s) \in Seq(S) /\ Tail(s) \in Seq(S) /\ Last(s) \in S /\ Head(s) \in S
<1>1. Len(s) \in Nat /\ Limit \in Nat \ {0} /\ \A i \in 1..Len(s) : s[i] \in S
  BY LenProperties, ElementOfSeq, DocumentAssumption
<1>2. ASSUME NEW a \in Int, NEW b \in Int, a >= 1, b <= Len(s) PROVE SubSeq(s, a, b) \in Seq(S)
  BY <1>1, <1>2, SubSeqProperties
<1>3. lastOf(s) \in Seq(S)
  BY <1>1, <1>2 DEF lastOf, newest
<1>4. firstOf(s) \in Seq(S)
  BY <1>1, <1>2 DEF firstOf
<1>5. s # <<>> => Front(s) \in Seq(S) /\ Last(s) \in S
  BY <1>1, <1>2, EmptySeq DEF Front, Last
<1>6. s # <<>> => Tail(s) \in Seq(S) /\ Head(s) \in S
  BY HeadTailProperties
<1> QED  BY <1>3, <1>4, <1>5, <1>6

LEMMA EmptyIsHistory ==
  ASSUME NEW S PROVE emptyHistory.past \in Seq(S) /\ emptyHistory.future \in Seq(S)
BY EmptySeq DEF emptyHistory

(* What is stored, on the page or in the ref was the project at some time. *)
LEMMA StoredMade ==
  ASSUME AllMade, edits' \in Nat, edits <= edits', MadeBy(project', edits'),
         ref' \in {ref, project'},
         event' \/ (~event /\ shown' = shown) \/ shown'.project = project',
         history'.past \in Seq(WorkspaceBy(edits')), history'.future \in Seq(WorkspaceBy(edits')),
         \A file \in File : disk'[file] = disk[file] \/ \E s \in saves : disk'[file] = s.project,
         draft' \in {draft, project, None},
         \A s \in saves' : (~event /\ s.project = shown.project) \/ \E t \in saves : s.project = t.project,
         \A o \in opens' : (\E file \in File : o.project = disk[file]) \/ \E q \in opens : o.project = q.project
  PROVE  AllMade'
<1>1. \A q : MadeBy(q, edits) => MadeBy(q, edits')
  BY MadeLater DEF AllMade
<1> QED  BY <1>1 DEF AllMade

(* A step that leaves the projects unmixed starts from a page with the objects
   of the project, and with the history of its active object. *)
LEMMA FromPage ==
  ASSUME TimelineInv, ~event, lateProject \subseteq late', late \subseteq late', Unmixed'
  PROVE  /\ Unmixed /\ ~replacedUnseen /\ activeRef = shown.project.active
         /\ shown.project.objects = project.objects /\ ref.objects = project.objects
         /\ InOrder(history, workspaceOf(shown.project), edits)
<1>1. Unmixed /\ ~replacedUnseen
  BY DEF lateProject, Unmixed
<1> QED  BY <1>1 DEF TimelineInv, HistoryFits

LEMMA SameWorkspace ==
  ASSUME NEW p, NEW q, p.objects = q.objects, p.active = q.active PROVE workspaceOf(p) = workspaceOf(q)
BY DEF workspaceOf

(* A save has a revision the document had. *)
LEMMA SavesAreOlder ==
  ASSUME IInv, lifecycle' \in Lifecycles, lifecycle'.generation = lifecycle.generation,
         lifecycle.revision < lifecycle'.revision
  PROVE  \A s \in saves : ~(s.generation = lifecycle'.generation /\ s.revision = lifecycle'.revision)
BY DEF IInv, Shapes, Lifecycles, IsSave, SavesFit, SaveFits

(* A step of the user, to be rendered. *)
LEMMA UserTimeline ==
  ASSUME IInv, TimelineInv, ~event, inEvent, late \subseteq late', lateProject \subseteq late',
         edits' \in Nat, edits <= edits', MadeBy(project', edits'),
         history'.past \in Seq(WorkspaceBy(edits')), history'.future \in Seq(WorkspaceBy(edits')),
         \/ lifecycle' \in {advanced(lifecycle), advanced(advanced(lifecycle))}
         \/ lifecycle' = lifecycle /\ project'.objects = shown.project.objects,
         UNCHANGED <<shown, activeRef, disk, saves, opens, draft>>,
         Unmixed' /\ activeRef = project'.active => InOrder(history', workspaceOf(project'), edits')
  PROVE  TimelineInv'
<1>1. AllMade'
  BY StoredMade DEF TimelineInv, inEvent
<1>2. lifecycle'.generation = lifecycle.generation
  BY AdvancedAdvances DEF IInv, Shapes
<1>3. ASSUME Unmixed'
      PROVE \A s \in saves : s.generation = lifecycle'.generation /\ s.revision = lifecycle'.revision =>
              s.project.objects = project'.objects
  <2>1. CASE lifecycle' \in {advanced(lifecycle), advanced(advanced(lifecycle))}
    <3>1. lifecycle \in Lifecycles
      BY DEF IInv, Shapes
    <3>2. lifecycle' \in Lifecycles /\ lifecycle.revision < lifecycle'.revision
      BY <2>1, <3>1, AdvancedGrows
    <3> QED  BY <1>2, <3>2, SavesAreOlder
  <2>2. CASE lifecycle' = lifecycle /\ project'.objects = shown.project.objects
    BY <1>3, <2>2, FromPage DEF TimelineInv, HistoryFits
  <2> QED  BY <2>1, <2>2
<1>4. HistoryFits'
  <2> SUFFICES ASSUME Unmixed' PROVE HistoryFits'
    BY DEF HistoryFits
  <2>1. ~replacedUnseen' /\ activeRef = shown.project.active
    BY <1>2, FromPage DEF replacedUnseen
  <2> QED  BY <1>3, <2>1 DEF HistoryFits, inEvent
<1> QED  BY <1>1, <1>4 DEF TimelineInv

LEMMA PushedIsHistory ==
  ASSUME NEW n, NEW w \in WorkspaceBy(n), NEW h, h.past \in Seq(WorkspaceBy(n))
  PROVE  pushed(h, w).past \in Seq(WorkspaceBy(n)) /\ pushed(h, w).future \in Seq(WorkspaceBy(n))
<1>1. Append(h.past, w) \in Seq(WorkspaceBy(n))
  BY AppendProperties
<1> QED  BY <1>1, EndsOfHistory, EmptySeq DEF pushed

(* The active workspace is edited, and what it was goes to the past. *)
LEMMA EditTimeline ==
  ASSUME IInv, TimelineInv, Editing, inEvent, edits' = edits + 1, late' = late \cup lateProject,
         history' = pushed(history, workspaceOf(ref)),
         NEW q, q = withWorkspace(ref, [workspaceOf(ref) EXCEPT !.edit = edits']),
         project'.objects = q.objects, project'.active = q.active,
         lifecycle' \in {advanced(lifecycle), advanced(advanced(lifecycle))},
         UNCHANGED <<shown, activeRef, disk, saves, opens, draft>>
  PROVE  TimelineInv'
<1> DEFINE w == workspaceOf(ref)
           v == [w EXCEPT !.edit = edits']
<1>1. /\ edits \in Nat /\ edits' \in Nat /\ edits <= edits' /\ MadeBy(ref, edits) /\ IsProject(ref)
      /\ history.past \in Seq(WorkspaceBy(edits))
  BY DEF TimelineInv, AllMade, IInv, Shapes
<1>2. w \in WorkspaceBy(edits) /\ w.of = ref.active
  BY <1>1, OwnWorkspace
<1>3. v \in WorkspaceBy(edits + 1) /\ v.of = w.of /\ v.edit = edits + 1 /\ v.of = ref.active
  BY <1>1, <1>2 DEF WorkspaceBy
<1>4. MadeBy(ref, edits')
  BY <1>1, MadeLater
<1>5. q = withWorkspace(ref, v) /\ v \in WorkspaceBy(edits') /\ history' = pushed(history, w)
  BY <1>2, <1>3
<1> HIDE DEF v, w
<1>6. MadeBy(q, edits') /\ q.active = ref.active /\ workspaceOf(q) = v
  BY <1>1, <1>3, <1>4, <1>5, Replaced
<1>7. MadeBy(project', edits') /\ project'.active = ref.active /\ workspaceOf(project') = v
  BY <1>6, SameObjects, SMTT(30) DEF MadeBy
<1>8. history'.past \in Seq(WorkspaceBy(edits')) /\ history'.future \in Seq(WorkspaceBy(edits'))
  BY <1>1, <1>2, <1>5, PushedIsHistory, WorkspacesLater
<1>9. ASSUME Unmixed', activeRef = project'.active PROVE InOrder(history', workspaceOf(project'), edits')
  <2>1. InOrder(history, workspaceOf(shown.project), edits) /\ workspaceOf(shown.project) = w
    BY <1>7, <1>9, FromPage, SameWorkspace DEF Editing, w
  <2> QED  BY <1>1, <1>2, <1>3, <1>5, <1>7, <2>1, PushedInOrder
<1> QED  BY <1>1, <1>7, <1>8, <1>9, UserTimeline DEF Editing

(* Undo and redo put an entry of the history in the place of the workspace. *)
LEMMA UndoTimeline == ASSUME IInv, TimelineInv, Undo \/ Redo PROVE TimelineInv'
<1> DEFINE w == workspaceOf(ref)
           S == WorkspaceBy(edits)
<1>1. /\ edits \in Nat /\ edits' = edits /\ MadeBy(ref, edits) /\ IsProject(ref)
      /\ history.past \in Seq(S) /\ history.future \in Seq(S)
  BY DEF TimelineInv, AllMade, IInv, Shapes, Undo, Redo
<1>2. w \in S /\ w.of = ref.active
  BY <1>1, OwnWorkspace
<1>3. ASSUME Unmixed', activeRef = ref.active PROVE InOrder(history, w, edits)
  <2>1. ~event /\ late' = late \cup lateProject
    BY DEF Undo, Redo, Editing
  <2>2. InOrder(history, workspaceOf(shown.project), edits) /\ workspaceOf(shown.project) = w
    BY <1>3, <2>1, FromPage, SameWorkspace
  <2> QED  BY <2>2
<1> HIDE DEF w
<1>4. ASSUME NEW u \in S, project' = withWorkspace(ref, u),
             history'.past \in Seq(S), history'.future \in Seq(S),
             Unmixed' /\ activeRef = ref.active => u.of = w.of /\ InOrder(history', u, edits)
      PROVE  TimelineInv'
  <2>1. /\ MadeBy(project', edits') /\ project'.active = ref.active
        /\ u.of = w.of => workspaceOf(project') = u
    BY <1>1, <1>2, <1>4, Replaced
  <2>2. Unmixed' /\ activeRef = project'.active => InOrder(history', workspaceOf(project'), edits')
    BY <1>1, <1>4, <2>1
  <2> QED  BY <1>1, <1>4, <2>1, <2>2, UserTimeline DEF Undo, Redo, Editing, files
<1>5. CASE Undo
  <2>1. /\ history' = [past |-> Front(history.past), future |-> firstOf(<<w>> \o history.future)]
        /\ project' = withWorkspace(ref, Last(history.past)) /\ history.past # <<>>
    BY <1>5 DEF Undo, w
  <2>2. <<w>> \o history.future \in Seq(S)
    <3>1. <<w>> \in Seq(S)
      BY <1>2
    <3> QED  BY <1>1, <3>1, ConcatProperties
  <2>3. Last(history.past) \in S /\ history'.past \in Seq(S) /\ history'.future \in Seq(S)
    BY <1>1, <2>1, <2>2, EndsOfHistory
  <2>4. ASSUME Unmixed', activeRef = ref.active
        PROVE Last(history.past).of = w.of /\ InOrder(history', Last(history.past), edits)
    BY <1>1, <1>2, <1>3, <2>1, <2>4, UndoneInOrder
  <2> QED  BY <1>4, <2>1, <2>3, <2>4
<1>6. CASE Redo
  <2>1. /\ history' = [past |-> lastOf(Append(history.past, w)), future |-> Tail(history.future)]
        /\ project' = withWorkspace(ref, Head(history.future)) /\ history.future # <<>>
    BY <1>6 DEF Redo, w
  <2>2. Append(history.past, w) \in Seq(S)
    BY <1>1, <1>2, AppendProperties
  <2>3. Head(history.future) \in S /\ history'.past \in Seq(S) /\ history'.future \in Seq(S)
    BY <1>1, <2>1, <2>2, EndsOfHistory
  <2>4. ASSUME Unmixed', activeRef = ref.active
        PROVE Head(history.future).of = w.of /\ InOrder(history', Head(history.future), edits)
    BY <1>1, <1>2, <1>3, <2>1, <2>4, RedoneInOrder
  <2> QED  BY <1>4, <2>1, <2>3, <2>4
<1> QED  BY <1>5, <1>6

(* Another object becomes active: the history is no longer that of the
   active object, until the next render empties it. *)
LEMMA NavigateTimeline ==
  ASSUME IInv, TimelineInv, ~event, inEvent, late \subseteq late', lateProject \subseteq late',
         MadeBy(project', edits'), project'.active # shown.project.active,
         edits' \in Nat, edits <= edits',
         \/ lifecycle' \in {advanced(lifecycle), advanced(advanced(lifecycle))}
         \/ lifecycle' = lifecycle /\ project'.objects = shown.project.objects,
         UNCHANGED <<shown, activeRef, history, disk, saves, opens, draft>>
  PROVE  TimelineInv'
<1>1. history'.past \in Seq(WorkspaceBy(edits')) /\ history'.future \in Seq(WorkspaceBy(edits'))
  BY WorkspacesLater DEF TimelineInv, AllMade
<1>2. Unmixed' => activeRef # project'.active
  BY FromPage
<1> QED  BY <1>1, <1>2, UserTimeline

LEMMA SelectTimeline == ASSUME IInv, TimelineInv, NEW o \in Object, SelectObject(o) PROVE TimelineInv'
<1>1. /\ edits \in Nat /\ edits' = edits /\ MadeBy(shown.project, edits) /\ IsProject(shown.project)
      /\ project' = [shown.project EXCEPT !.active = o] /\ o \in idsOf(shown.project) \ {shown.project.active}
      /\ ~event
  BY DEF TimelineInv, AllMade, IInv, Shapes, SelectObject
<1>2. project'.objects = shown.project.objects /\ project'.active = o
  BY <1>1 DEF IsProject
<1>3. MadeBy(project', edits')
  BY <1>1, <1>2, SameObjects
<1> QED  BY <1>1, <1>2, <1>3, NavigateTimeline DEF SelectObject, files

LEMMA CreateTimeline == ASSUME IInv, TimelineInv, NEW o \in Object, CreateObject(o) PROVE TimelineInv'
<1> DEFINE old == shown.project.objects
           new == [of |-> o, edit |-> edits']
<1>1. edits \in Nat /\ edits' = edits + 1 /\ MadeBy(shown.project, edits) /\ IsProject(shown.project)
      /\ ~event /\ o \notin idsOf(shown.project)
      /\ project' = [shown.project EXCEPT !.objects = Append(@, [of |-> o, edit |-> edits']), !.active = o]
  BY DEF TimelineInv, AllMade, IInv, Shapes, CreateObject, Editing
<1>2. MadeBy(shown.project, edits') /\ new \in WorkspaceBy(edits')
  BY <1>1, MadeLater DEF WorkspaceBy
<1>3. project'.objects = Append(old, new) /\ project'.active = o /\ new.of = o
  BY <1>1 DEF IsProject
<1> HIDE DEF old, new
<1>4. /\ Append(old, new) \in Seq(WorkspaceBy(edits')) /\ Len(Append(old, new)) = Len(old) + 1
      /\ \A i \in 1..Len(old) : Append(old, new)[i] = old[i]
      /\ Append(old, new)[Len(old) + 1] = new
  BY <1>2, AppendProperties DEF MadeBy, old
<1>5. /\ Len(old) \in Nat /\ DOMAIN old = 1..Len(old)
      /\ DOMAIN Append(old, new) = 1..Len(old) + 1
  BY <1>2, <1>4, LenProperties DEF MadeBy, old
<1>6. /\ \A i \in 1..Len(old) : old[i].of # o
      /\ \A i, j \in 1..Len(old) : old[i].of = old[j].of => i = j
  BY <1>1, <1>5 DEF idsOf, MadeBy, old
<1> DEFINE now == Append(old, new)
<1> HIDE DEF now
<1>7. \A i, j \in DOMAIN now : now[i].of = now[j].of => i = j
  <2> SUFFICES ASSUME NEW i \in DOMAIN now, NEW j \in DOMAIN now, now[i].of = now[j].of PROVE i = j
    OBVIOUS
  <2>1. ASSUME NEW k \in DOMAIN now
        PROVE  \/ k \in 1..Len(old) /\ now[k] = old[k]
               \/ k = Len(old) + 1 /\ now[k] = new
    BY <1>4, <1>5, <2>1 DEF now
  <2>2. \/ i \in 1..Len(old) /\ now[i] = old[i]
        \/ i = Len(old) + 1 /\ now[i] = new
    BY <2>1
  <2>3. \/ j \in 1..Len(old) /\ now[j] = old[j]
        \/ j = Len(old) + 1 /\ now[j] = new
    BY <2>1
  <2> QED  BY <1>3, <1>6, <2>2, <2>3
<1>8. project'.active \in idsOf(project')
  <2>1. Len(old) + 1 \in DOMAIN now /\ now[Len(old) + 1].of = o
    BY <1>3, <1>4, <1>5 DEF now
  <2> QED  BY <1>3, <2>1 DEF idsOf, now
<1>9. MadeBy(project', edits')
  BY <1>3, <1>4, <1>7, <1>8 DEF MadeBy, now
<1>10. project'.active # shown.project.active
  BY <1>1, <1>3 DEF MadeBy
<1> QED  BY <1>1, <1>9, <1>10, NavigateTimeline DEF CreateObject, Editing, files

LEMMA RemoveTimeline == ASSUME IInv, TimelineInv, NEW o \in Object, RemoveObject(o) PROVE TimelineInv'
<1> DEFINE p == shown.project
           old == p.objects
<1>1. edits \in Nat /\ edits' = edits /\ MadeBy(p, edits) /\ IsProject(p) /\ ~event /\ Len(old) > 1
  BY DEF TimelineInv, AllMade, IInv, Shapes, RemoveObject, Editing
<1>2. PICK k \in DOMAIN old :
        /\ old[k].of = o
        /\ project' = [p EXCEPT !.objects = RemoveAt(old, k),
                                !.active = IF @ = o THEN Head(RemoveAt(old, k)).of ELSE @]
  BY DEF RemoveObject
<1> DEFINE now == RemoveAt(old, k)
           at(i) == IF i < k THEN i ELSE i + 1
<1>3. /\ project'.objects = now
      /\ project'.active = IF p.active = o THEN Head(now).of ELSE p.active
  BY <1>1, <1>2 DEF IsProject
<1>4. /\ old \in Seq(WorkspaceBy(edits)) /\ Len(old) \in Nat /\ Len(old) > 1 /\ DOMAIN old = 1..Len(old)
      /\ \A i \in 1..Len(old) : old[i] \in WorkspaceBy(edits)
  BY <1>1, LenProperties, ElementOfSeq DEF MadeBy
<1>5. /\ now \in Seq(WorkspaceBy(edits)) /\ Len(now) = Len(old) - 1
      /\ \A i \in 1..Len(now) : now[i] = old[at(i)]
  <2> DEFINE a == SubSeq(old, 1, k - 1)
             b == SubSeq(old, k + 1, Len(old))
  <2>1. k \in 1..Len(old)
    BY <1>4
  <2>2. a \in Seq(WorkspaceBy(edits)) /\ Len(a) = k - 1 /\ \A i \in 1..k - 1 : a[i] = old[i]
    BY <1>4, <2>1, SubSeqProperties
  <2>3. /\ b \in Seq(WorkspaceBy(edits)) /\ Len(b) = Len(old) - k
        /\ \A i \in 1..Len(old) - k : b[i] = old[k + i]
    BY <1>4, <2>1, SubSeqProperties
  <2>4. now = a \o b
    BY DEF RemoveAt
  <2> HIDE DEF a, b, now
  <2>5. /\ now \in Seq(WorkspaceBy(edits)) /\ Len(now) = Len(a) + Len(b)
        /\ \A i \in 1..Len(a) + Len(b) : now[i] = IF i <= Len(a) THEN a[i] ELSE b[i - Len(a)]
    BY <2>2, <2>3, <2>4, ConcatProperties
  <2>6. Len(now) = Len(old) - 1
    BY <1>4, <2>1, <2>2, <2>3, <2>5
  <2>7. ASSUME NEW i \in 1..Len(now) PROVE now[i] = old[at(i)]
    <3>0. /\ i \in 1..Len(a) + Len(b) /\ i \in Nat /\ k \in Nat /\ Len(a) = k - 1 /\ i <= Len(old) - 1
          /\ now[i] = IF i <= Len(a) THEN a[i] ELSE b[i - Len(a)]
      BY <1>4, <2>1, <2>2, <2>5, <2>6
    <3>1. CASE i < k
      <4>1. now[i] = a[i] /\ i \in 1..k - 1
        BY <3>0, <3>1
      <4> QED  BY <2>2, <3>1, <4>1
    <3>2. CASE ~(i < k)
      <4>1. now[i] = b[i - (k - 1)] /\ i - (k - 1) \in 1..Len(old) - k
        <5>1. ~(i <= Len(a))
          BY <3>0, <3>2
        <5>2. now[i] = b[i - (k - 1)]
          BY <3>0, <5>1
        <5>3. i - (k - 1) \in 1..Len(old) - k
          BY <1>4, <3>0, <3>2
        <5> QED  BY <5>2, <5>3
      <4>2. b[i - (k - 1)] = old[k + (i - (k - 1))] /\ k + (i - (k - 1)) = i + 1
        BY <1>4, <2>1, <2>3, <2>6, <4>1
      <4> QED  BY <3>2, <4>1, <4>2
    <3> QED  BY <3>1, <3>2
  <2> QED  BY <2>5, <2>6, <2>7
<1> HIDE DEF now
<1>6. k \in 1..Len(old) /\ DOMAIN now = 1..Len(old) - 1
  BY <1>4, <1>5, LenProperties
<1>7. \A i \in DOMAIN now : at(i) \in DOMAIN old /\ at(i) # k /\ now[i] = old[at(i)]
  BY <1>4, <1>5, <1>6
<1>8. \A i, j \in DOMAIN now : at(i) = at(j) => i = j
  BY <1>6
<1> HIDE DEF at
<1>9. \A i, j \in DOMAIN now : now[i].of = now[j].of => i = j
  BY <1>1, <1>7, <1>8 DEF MadeBy
<1>10. \A i \in DOMAIN now : now[i].of # o
  BY <1>1, <1>2, <1>7 DEF MadeBy
<1>11. CASE p.active = o
  <2>1. Head(now) = now[1] /\ 1 \in DOMAIN now
    BY <1>4, <1>5, <1>6
  <2>2. project'.active = now[1].of
    BY <1>3, <1>11, <2>1
  <2>3. project'.active \in idsOf(project')
    BY <1>3, <2>1, <2>2 DEF idsOf
  <2>4. MadeBy(project', edits') /\ project'.active # p.active
    BY <1>1, <1>3, <1>5, <1>9, <1>10, <1>11, <2>1, <2>2, <2>3 DEF MadeBy
  <2> QED  BY <1>1, <2>4, NavigateTimeline DEF RemoveObject, files
<1>12. CASE p.active # o
  <2>1. project'.active = p.active
    BY <1>3, <1>12
  <2>2. PICK m \in DOMAIN old : old[m].of = p.active
    BY <1>1 DEF MadeBy, idsOf
  <2>3. m # k
    BY <1>2, <1>12, <2>2
  <2>4. PICK i \in DOMAIN now : at(i) = m
    <3>1. CASE m < k
      <4>1. m \in DOMAIN now /\ at(m) = m
        BY <1>4, <1>6, <3>1 DEF at
      <4> QED  BY <4>1
    <3>2. CASE ~(m < k)
      <4>1. m - 1 \in DOMAIN now /\ at(m - 1) = m
        BY <1>4, <1>6, <2>3, <3>2 DEF at
      <4> QED  BY <4>1
    <3> QED  BY <3>1, <3>2
  <2>5. now[i] = old[m]
    BY <1>7, <2>4
  <2>6. project'.active \in idsOf(project')
    BY <1>3, <2>1, <2>2, <2>5 DEF idsOf
  <2>7. MadeBy(project', edits')
    BY <1>1, <1>3, <1>5, <1>9, <2>6 DEF MadeBy
  <2>8. workspaceOf(project') = now[i] /\ workspaceOf(p) = old[m]
    <3>1. project'.objects[i].of = project'.active /\ i \in DOMAIN project'.objects
      BY <1>3, <2>1, <2>2, <2>5
    <3> QED  BY <1>1, <1>3, <2>2, <2>7, <3>1, OwnWorkspace
  <2>9. history' = history /\ edits \in Nat /\ edits' = edits /\ late' = late \cup lateProject
        /\ history.past \in Seq(WorkspaceBy(edits)) /\ history.future \in Seq(WorkspaceBy(edits))
    BY <1>1 DEF RemoveObject, TimelineInv, AllMade
  <2>10. Unmixed' => InOrder(history, workspaceOf(p), edits)
    BY <1>1, <2>9, FromPage
  <2>11. Unmixed' => InOrder(history', workspaceOf(project'), edits')
    BY <2>5, <2>8, <2>9, <2>10
  <2> QED  BY <1>1, <2>7, <2>9, <2>11, UserTimeline DEF RemoveObject, files
<1> QED  BY <1>11, <1>12

(* The project, its history and the page stay. *)
LEMMA QuietTimeline ==
  ASSUME TimelineInv, UNCHANGED <<project, ref, lifecycle, history, activeRef, shown, event, draft, edits>>,
         late \subseteq late',
         \A file \in File : disk'[file] = disk[file] \/ \E s \in saves : disk'[file] = s.project,
         \A o \in opens' : (\E file \in File : o.project = disk[file]) \/ \E q \in opens : o.project = q.project,
         \A s \in saves' :
           \/ \E t \in saves : s.project = t.project /\ s.generation = t.generation /\ s.revision = t.revision
           \/ ~event /\ s.project = shown.project /\ lateProject \subseteq late'
  PROVE  TimelineInv'
<1>1. AllMade'
  BY DEF TimelineInv, AllMade
<1>2. HistoryFits'
  <2> SUFFICES ASSUME Unmixed' PROVE HistoryFits'
    BY DEF HistoryFits
  <2>1. Unmixed
    BY DEF Unmixed
  <2>2. ASSUME NEW s \in saves', ~event, s.project = shown.project, lateProject \subseteq late'
        PROVE  ~replacedUnseen /\ s.project.objects = project.objects
    BY <2>2, FromPage
  <2>3. \A s \in saves' : s.generation = lifecycle.generation /\ s.revision = lifecycle.revision =>
          s.project.objects = project.objects
    BY <2>1, <2>2 DEF TimelineInv, HistoryFits
  <2>4. replacedUnseen => \A s \in saves' : s.generation # lifecycle.generation
    BY <2>1, <2>2 DEF TimelineInv, HistoryFits
  <2> QED  BY <2>1, <2>3, <2>4 DEF TimelineInv, HistoryFits, replacedUnseen
<1> QED  BY <1>1, <1>2 DEF TimelineInv

(* Results and settings change no workspace. *)
LEMMA OtherTimeline ==
  ASSUME NEW p, IsProject(p), MadeBy(p, edits), edits \in Nat, edits' = edits + 1,
         project' = [p EXCEPT !.other = edits']
  PROVE  /\ project'.objects = p.objects /\ project'.active = p.active
         /\ MadeBy(project', edits') /\ workspaceOf(project') = workspaceOf(p)
         /\ edits' \in Nat /\ edits <= edits'
<1>1. project'.objects = p.objects /\ project'.active = p.active
  BY DEF IsProject
<1>2. MadeBy(p, edits') /\ edits' \in Nat /\ edits <= edits'
  BY MadeLater
<1>3. MadeBy(project', edits')
  <2>1. project'.active \in idsOf(p)
    BY <1>1 DEF MadeBy
  <2> DEFINE q == project'
  <2>2. q.objects = p.objects /\ q.active \in idsOf(p)
    BY <1>1, <2>1
  <2> HIDE DEF q
  <2>3. MadeBy(q, edits')
    BY <1>2, <2>2, SameObjects
  <2> QED  BY <2>3 DEF q
<1> QED  BY <1>1, <1>2, <1>3, SameWorkspace

LEMMA CommitTimeline == ASSUME IInv, TimelineInv, CommitMutation PROVE TimelineInv'
<1>1. /\ edits \in Nat /\ edits' = edits + 1 /\ MadeBy(ref, edits) /\ IsProject(ref) /\ ~event
      /\ project' = [ref EXCEPT !.other = edits'] /\ ref' = project' /\ event' = event
      /\ lifecycle' = advanced(lifecycle) /\ late' = late \cup lateProject
      /\ UNCHANGED <<history, activeRef, shown, draft, disk, saves, opens>>
  BY DEF TimelineInv, AllMade, IInv, Shapes, CommitMutation, Editing, atOnce, files
<1>2. /\ project'.objects = ref.objects /\ project'.active = ref.active
      /\ MadeBy(project', edits') /\ workspaceOf(project') = workspaceOf(ref)
      /\ edits' \in Nat /\ edits <= edits'
  BY <1>1, OtherTimeline
<1>3. history'.past \in Seq(WorkspaceBy(edits')) /\ history'.future \in Seq(WorkspaceBy(edits'))
  BY <1>1, <1>2, WorkspacesLater DEF TimelineInv, AllMade
<1>4. AllMade'
  BY <1>1, <1>2, <1>3, StoredMade DEF TimelineInv
<1>5. HistoryFits'
  <2> SUFFICES ASSUME Unmixed' PROVE HistoryFits'
    BY DEF HistoryFits
  <2>1. /\ ~replacedUnseen /\ activeRef = shown.project.active
        /\ shown.project.objects = project'.objects
        /\ InOrder(history, workspaceOf(shown.project), edits)
    BY <1>1, <1>2, FromPage
  <2>2. InOrder(history, workspaceOf(shown.project), edits')
    BY <1>1, <1>2, <2>1, InOrderLater
  <2>3. activeRef = project'.active => workspaceOf(project') = workspaceOf(shown.project)
    BY <2>1, SameWorkspace
  <2>4. /\ lifecycle' \in Lifecycles /\ lifecycle'.generation = lifecycle.generation
        /\ lifecycle.revision < lifecycle'.revision
    BY <1>1, AdvancedAdvances DEF IInv, Shapes, Lifecycles
  <2> QED  BY <1>1, <2>1, <2>2, <2>3, <2>4, SavesAreOlder DEF HistoryFits, replacedUnseen
<1> QED  BY <1>4, <1>5 DEF TimelineInv

LEMMA SettingsTimeline == ASSUME IInv, TimelineInv, ChangeSettings PROVE TimelineInv'
<1>1. /\ edits \in Nat /\ edits' = edits + 1 /\ MadeBy(project, edits) /\ IsProject(project)
      /\ project' = [project EXCEPT !.other = edits'] /\ ref' = project' /\ event'
      /\ lifecycle' = advanced(lifecycle)
      /\ UNCHANGED <<history, activeRef, shown, draft, disk, saves, opens, late>>
  BY DEF TimelineInv, AllMade, IInv, Shapes, ChangeSettings, inEvent, files
<1>2. /\ project'.objects = project.objects /\ project'.active = project.active
      /\ MadeBy(project', edits') /\ workspaceOf(project') = workspaceOf(project)
      /\ edits' \in Nat /\ edits <= edits'
  BY <1>1, OtherTimeline
<1>3. history'.past \in Seq(WorkspaceBy(edits')) /\ history'.future \in Seq(WorkspaceBy(edits'))
  BY <1>1, <1>2, WorkspacesLater DEF TimelineInv, AllMade
<1>4. AllMade'
  BY <1>1, <1>2, <1>3, StoredMade DEF TimelineInv
<1>5. HistoryFits'
  <2>1. /\ lifecycle' \in Lifecycles /\ lifecycle'.generation = lifecycle.generation
        /\ lifecycle.revision < lifecycle'.revision
    BY <1>1, AdvancedAdvances DEF IInv, Shapes, Lifecycles
  <2>2. Unmixed /\ activeRef = project.active => InOrder(history, workspaceOf(project), edits')
    BY <1>1, <1>2, InOrderLater DEF TimelineInv, HistoryFits
  <2> QED  BY <1>1, <1>2, <2>1, <2>2, SavesAreOlder DEF TimelineInv, HistoryFits, replacedUnseen, Unmixed
<1> QED  BY <1>4, <1>5 DEF TimelineInv

LEMMA RenderTimeline == ASSUME IInv, TimelineInv, Render PROVE TimelineInv'
<1>1. /\ edits \in Nat /\ UNCHANGED <<edits, project, lifecycle, disk, saves, opens, late>>
      /\ shown' = present /\ ref' = project /\ ~event'
      /\ draft' \in {project, None}
      /\ activeRef' = IF navigated THEN project.active ELSE activeRef
      /\ history' = IF navigated /\ activeRef # project.active THEN emptyHistory ELSE history
  BY DEF TimelineInv, AllMade, Render, files
<1>2. shown'.project = project /\ shown'.generation = lifecycle.generation
  BY Zenon, <1>1 DEF present
<1>3. history'.past \in Seq(WorkspaceBy(edits)) /\ history'.future \in Seq(WorkspaceBy(edits))
  BY <1>1, EmptyIsHistory DEF TimelineInv, AllMade
<1>4. AllMade'
  BY <1>1, <1>2, <1>3, StoredMade DEF TimelineInv, AllMade
<1>5. HistoryFits'
  <2> SUFFICES ASSUME Unmixed PROVE HistoryFits'
    BY <1>1 DEF HistoryFits, Unmixed
  <2>1. activeRef' = project.active
    <3>1. CASE replacedUnseen
      BY <1>1, <3>1 DEF TimelineInv, HistoryFits
    <3>2. CASE ~replacedUnseen
      <4>1. shown.generation # Unrendered /\ activeRef = shown.project.active
        BY <3>2 DEF replacedUnseen, Unrendered, IInv, Shapes, Lifecycles, TimelineInv, HistoryFits
      <4> QED  BY <1>1, <4>1 DEF navigated
    <3> QED  BY <3>1, <3>2
  <2>2. InOrder(history', workspaceOf(project), edits)
    <3>1. CASE activeRef = project.active
      BY <1>1, <3>1 DEF TimelineInv, HistoryFits
    <3>2. CASE activeRef # project.active
      BY <1>1, <2>1, <3>2, EmptyInOrder
    <3> QED  BY <3>1, <3>2
  <2> QED  BY <1>1, <1>2, <2>1, <2>2 DEF TimelineInv, HistoryFits, replacedUnseen
<1> QED  BY <1>4, <1>5 DEF TimelineInv

LEMMA TemplateTimeline ==
  ASSUME IInv, TimelineInv, NEW b \in BOOLEAN, RestoreTemplate(b) PROVE TimelineInv'
<1>1. IsProject(ref)
  BY DEF IInv, Shapes
<1>2. PICK q : /\ q = withWorkspace(ref, [workspaceOf(ref) EXCEPT !.edit = edits'])
               /\ project' = IF b THEN [q EXCEPT !.other = edits'] ELSE q
  BY DEF RestoreTemplate
<1>3. IsProject(q)
  BY <1>1, <1>2, WorkspaceOfProject
<1>4. project'.objects = q.objects /\ project'.active = q.active
  <2>1. CASE b
    BY <1>2, <1>3, <2>1 DEF IsProject
  <2>2. CASE ~b
    BY <1>2, <2>2
  <2> QED  BY <2>1, <2>2
<1>5. lifecycle' \in {advanced(lifecycle), advanced(advanced(lifecycle))}
  BY DEF RestoreTemplate
<1> QED  BY <1>2, <1>4, <1>5, EditTimeline DEF RestoreTemplate

LEMMA UpdateTimeline == ASSUME IInv, TimelineInv, UpdateWorkspace PROVE TimelineInv'
BY EditTimeline DEF UpdateWorkspace, files

(* A save that is completed keeps the objects, but may bring back the object
   that was active when it began: a render is due then. *)
LEMMA CompleteTimeline == ASSUME IInv, TimelineInv, NEW s \in saves, SaveComplete(s) PROVE TimelineInv'
<1>1. /\ edits' = edits /\ MadeBy(project, edits) /\ MadeBy(s.project, edits) /\ edits \in Nat
      /\ ~event /\ saves' = saves \ {s}
      /\ UNCHANGED <<history, activeRef, shown, disk, draft, opens, late>>
  BY DEF TimelineInv, AllMade, SaveComplete
<1>2. CASE ~(s.generation = lifecycle.generation /\ s.revision = lifecycle.revision)
  <2>1. UNCHANGED <<project, ref, event, lifecycle>>
    BY <1>2 DEF SaveComplete, completed
  <2> QED  BY <1>1, <2>1, QuietTimeline
<1>3. CASE s.generation = lifecycle.generation /\ s.revision = lifecycle.revision
  <2>1. /\ project' = s.project /\ ref' \in {ref, project'} /\ event' = event
        /\ lifecycle' = [lifecycle EXCEPT !.saved = s.revision]
    BY <1>3 DEF SaveComplete, savedBack, byUpdater, completed
  <2>2. lifecycle'.generation = lifecycle.generation /\ lifecycle'.revision = lifecycle.revision
    BY <2>1 DEF IInv, Shapes, Lifecycles
  <2>3. AllMade'
    BY <1>1, <2>1, StoredMade DEF TimelineInv, AllMade
  <2>4. HistoryFits'
    <3> SUFFICES ASSUME Unmixed PROVE HistoryFits'
      BY <1>1 DEF HistoryFits, Unmixed
    <3>1. ~replacedUnseen /\ s.project.objects = project.objects
      BY <1>3 DEF TimelineInv, HistoryFits
    <3>2. /\ activeRef = shown.project.active /\ InOrder(history, workspaceOf(shown.project), edits)
          /\ shown.project.objects = project'.objects /\ ref'.objects = project'.objects
      BY <1>1, <2>1, <3>1 DEF TimelineInv, HistoryFits
    <3>3. activeRef = project'.active => workspaceOf(project') = workspaceOf(shown.project)
      BY <3>2, SameWorkspace
    <3>4. \A t \in saves' : t.generation = lifecycle.generation /\ t.revision = lifecycle.revision =>
            t.project.objects = project'.objects
      BY <1>1, <2>1, <3>1 DEF TimelineInv, HistoryFits
    <3> QED  BY <1>1, <2>1, <2>2, <3>1, <3>2, <3>3, <3>4 DEF HistoryFits, replacedUnseen
  <2> QED  BY <2>3, <2>4 DEF TimelineInv
<1> QED  BY <1>2, <1>3

(* Another project comes with an empty history. *)
LEMMA FreshTimeline ==
  ASSUME TimelineInv, edits' \in Nat, edits <= edits', MadeBy(project', edits'),
         history' = emptyHistory, activeRef' = project'.active, ref' \in {ref, project'},
         event' \/ (~event /\ shown' = shown), replacedUnseen',
         \A s \in saves' : s.generation # lifecycle'.generation,
         UNCHANGED <<disk, draft>>, saves' \subseteq saves, opens' \subseteq opens
  PROVE  TimelineInv'
<1>1. history'.past \in Seq(WorkspaceBy(edits')) /\ history'.future \in Seq(WorkspaceBy(edits'))
  BY EmptyIsHistory
<1>2. AllMade'
  BY <1>1, StoredMade DEF TimelineInv
<1>3. InOrder(history', workspaceOf(project'), edits')
  BY EmptyInOrder
<1> QED  BY <1>2, <1>3 DEF TimelineInv, HistoryFits

LEMMA ReplaceTimeline ==
  ASSUME IInv, TimelineInv, (\E o \in opens : OpenFinish(o)) \/ NewProject \/ Reload
  PROVE  TimelineInv'
<1>1. edits \in Nat
  BY DEF TimelineInv, AllMade
<1>2. ASSUME lifecycle' = replacedRevision(lifecycle), UNCHANGED <<shown, saves>>
      PROVE  replacedUnseen' /\ \A s \in saves' : s.generation # lifecycle'.generation
  <2>1. lifecycle' \in Lifecycles /\ lifecycle.generation < lifecycle'.generation
    BY <1>2, ReplacedRevision DEF IInv
  <2> QED  BY <1>2, <2>1 DEF replacedUnseen, IInv, Shapes, Lifecycles, IsSave, SavesFit, SaveFits
<1>3. ASSUME NEW o \in opens, OpenFinish(o) PROVE TimelineInv'
  <2>1. project' = o.project /\ edits' = edits /\ ref' \in {ref, project'} /\ event' = event /\ ~event
    BY <1>3 DEF OpenFinish, replaceProject, byUpdater
  <2>2. MadeBy(project', edits')
    BY <2>1 DEF TimelineInv, AllMade
  <2>3. replacedUnseen' /\ \A s \in saves' : s.generation # lifecycle'.generation
    BY <1>2, <1>3 DEF OpenFinish, replaceProject
  <2> QED  BY <1>1, <1>3, <2>1, <2>2, <2>3, FreshTimeline DEF OpenFinish, replaceProject
<1>4. CASE NewProject
  <2>1. edits' = edits + 1 /\ project' = blank(edits') /\ ref' = project' /\ event'
    BY <1>4 DEF NewProject, replaceProject, inEvent
  <2>2. MadeBy(project', edits')
    BY <1>1, <2>1, BlankMade
  <2>3. replacedUnseen' /\ \A s \in saves' : s.generation # lifecycle'.generation
    BY <1>2, <1>4 DEF NewProject, replaceProject
  <2> QED  BY <1>1, <1>4, <2>1, <2>2, <2>3, FreshTimeline DEF NewProject, replaceProject
<1>5. CASE Reload
  <2>1. edits' = edits + 1 /\ project' = (IF draft = None THEN blank(0) ELSE draft)
        /\ ref' = project' /\ event' /\ saves' = {} /\ opens' = {}
    BY <1>5 DEF Reload, restored, inEvent
  <2>2. MadeBy(project', edits')
    <3>1. CASE draft = None
      BY <1>1, <2>1, <3>1, BlankMade
    <3>2. CASE draft # None
      BY <1>1, <2>1, <3>2, MadeLater DEF TimelineInv, AllMade
    <3> QED  BY <3>1, <3>2
  <2>3. replacedUnseen'
    BY <1>5 DEF Reload, restored, replacedUnseen, Unrendered
  <2> QED  BY <1>1, <1>5, <2>1, <2>2, <2>3, FreshTimeline DEF Reload
<1> QED  BY <1>3, <1>4, <1>5

LEMMA FilesTimeline ==
  ASSUME IInv, TimelineInv,
         \/ \E file \in File : SaveStart(file) \/ OpenStart(file)
         \/ \E s \in saves : SaveWrite(s) \/ SaveFail(s)
         \/ \E o \in opens : OpenFail(o)
  PROVE  TimelineInv'
<1>1. UNCHANGED <<project, ref, lifecycle, history, activeRef, shown, event, draft, edits>>
  BY DEF SaveStart, OpenStart, SaveWrite, SaveFail, OpenFail
<1>2. CASE \E file \in File : SaveStart(file)
  <2>1. PICK file \in File : SaveStart(file)
    BY <1>2
  <2>2. /\ ~event /\ lateProject \subseteq late' /\ late \subseteq late' /\ UNCHANGED <<disk, opens>>
        /\ \A s \in saves' : s \in saves \/ s.project = shown.project
    BY <2>1 DEF SaveStart
  <2> QED  BY <1>1, <2>2, QuietTimeline
<1>3. CASE \E file \in File : OpenStart(file)
  <2>1. PICK file \in File : OpenStart(file)
    BY <1>3
  <2>2. /\ UNCHANGED <<disk, saves, late>>
        /\ \A o \in opens' : o \in opens \/ o.project = disk[file]
    BY <2>1 DEF OpenStart
  <2> QED  BY <1>1, <2>1, <2>2, QuietTimeline
<1>4. CASE \E s \in saves : SaveWrite(s)
  <2>1. PICK s \in saves : SaveWrite(s)
    BY <1>4
  <2>2. \A file \in File : disk'[file] = disk[file] \/ disk'[file] = s.project
    BY <2>1 DEF SaveWrite, IInv, Shapes
  <2>3. IsSave(s)
    BY DEF IInv, Shapes
  <2>4. /\ UNCHANGED <<opens, late>>
        /\ \A t \in saves' : \/ t \in saves
                             \/ t.project = s.project /\ t.generation = s.generation /\ t.revision = s.revision
    BY <2>1, <2>3 DEF SaveWrite, IsSave
  <2> QED  BY <1>1, <2>2, <2>4, QuietTimeline
<1>5. CASE \/ \E s \in saves : SaveFail(s)
           \/ \E o \in opens : OpenFail(o)
  <2>1. UNCHANGED <<disk, late>> /\ saves' \subseteq saves /\ opens' \subseteq opens
    BY <1>5 DEF SaveFail, OpenFail
  <2> QED  BY <1>1, <2>1, QuietTimeline
<1> QED  BY <1>2, <1>3, <1>4, <1>5

LEMMA TimelineInit == Init => TimelineInv
<1> SUFFICES ASSUME Init PROVE TimelineInv
  OBVIOUS
<1>1. AllMade
  BY BlankMade, EmptyIsHistory DEF Init, AllMade
<1>2. HistoryFits
  BY EmptyInOrder DEF Init, HistoryFits, replacedUnseen, Unrendered
<1> QED  BY <1>1, <1>2 DEF TimelineInv

LEMMA TimelineNext == ASSUME IInv, TimelineInv, [Next]_vars PROVE TimelineInv'
<1>1. CASE UNCHANGED vars
  BY <1>1, QuietTimeline DEF vars
<1>2. CASE UpdateWorkspace \/ Undo \/ Redo \/ CommitMutation \/ ChangeSettings \/ Render
  BY <1>2, UpdateTimeline, UndoTimeline, CommitTimeline, SettingsTimeline, RenderTimeline
<1>3. CASE \E o \in Object : SelectObject(o) \/ CreateObject(o) \/ RemoveObject(o)
  BY <1>3, SelectTimeline, CreateTimeline, RemoveTimeline
<1>4. CASE \E b \in BOOLEAN : RestoreTemplate(b)
  BY <1>4, TemplateTimeline
<1>5. CASE \/ \E file \in File : SaveStart(file) \/ OpenStart(file)
           \/ \E s \in saves : SaveWrite(s) \/ SaveFail(s)
           \/ \E o \in opens : OpenFail(o)
  BY <1>5, FilesTimeline
<1>6. CASE \E s \in saves : SaveComplete(s)
  BY <1>6, CompleteTimeline
<1>7. CASE (\E o \in opens : OpenFinish(o)) \/ NewProject \/ Reload
  BY <1>7, ReplaceTimeline
<1> QED  BY <1>1, <1>2, <1>3, <1>4, <1>5, <1>6, <1>7 DEF Next

(* Undo, redo and edits keep one line of time of the object on the screen,
   through changes of the object, templates, files and reloads
   (pushWorkspaceHistory, undoWorkspaceHistory, redoWorkspaceHistory), if no
   step is taken between the opening of a project and its render. *)
THEOREM TimelineStaysInOrder == Spec => []TimelineInOrder
<1>1. IInv /\ TimelineInv => TimelineInOrder
  <2> SUFFICES ASSUME IInv, TimelineInv, ~renderPending, Unmixed PROVE TimelineInOrder
    BY DEF TimelineInOrder, Unmixed
  <2> DEFINE w == workspaceOf(project)
             a == history.past
             b == history.future
             e == a \o <<w>>
             line == e \o b
  <2>1. MadeBy(project, edits) /\ edits \in Nat /\ InOrder(history, w, edits)
    <3>1. shown.project = project /\ shown.generation = lifecycle.generation
      <4>1. shown = present
        BY DEF renderPending
      <4>2. present.project = project /\ present.generation = lifecycle.generation
        BY DEF present
      <4> QED  BY <4>1, <4>2
    <3> QED  BY <3>1 DEF TimelineInv, AllMade, HistoryFits, replacedUnseen
  <2>2. w.of = project.active /\ w \in WorkspaceBy(edits)
    BY <2>1, OwnWorkspace
  <2> HIDE DEF w
  <2>3. /\ IsLine(a, w.of, edits) /\ Len(a) <= Limit /\ \A i \in 1..Len(a) : a[i].edit < w.edit
        /\ IsLine(b, w.of, edits) /\ Len(b) <= Limit /\ \A i \in 1..Len(b) : w.edit < b[i].edit
    BY <2>1 DEF InOrder
  <2> HIDE DEF a, b
  <2>4. a \in Seq(WorkspaceBy(edits)) /\ b \in Seq(WorkspaceBy(edits)) /\ Len(a) \in Nat /\ Len(b) \in Nat
    BY <2>3, EntryEdits DEF IsLine
  <2>5. <<w>> \in Seq(WorkspaceBy(edits)) /\ Len(<<w>>) = 1 /\ <<w>>[1] = w
    BY <2>2
  <2>6. /\ e \in Seq(WorkspaceBy(edits)) /\ Len(e) = Len(a) + 1
        /\ \A i \in 1..Len(a) + 1 : e[i] = IF i <= Len(a) THEN a[i] ELSE <<w>>[i - Len(a)]
    BY <2>4, <2>5, ConcatProperties
  <2> HIDE DEF e
  <2>7. /\ line \in Seq(WorkspaceBy(edits)) /\ Len(line) = Len(e) + Len(b)
        /\ \A i \in 1..Len(e) + Len(b) : line[i] = IF i <= Len(e) THEN e[i] ELSE b[i - Len(e)]
    BY <2>4, <2>6, ConcatProperties
  <2> HIDE DEF line
  <2>8. DOMAIN line = 1..Len(line)
    BY <2>7, LenProperties
  <2>9. ASSUME NEW i \in 1..Len(line)
        PROVE  \/ i \in 1..Len(a) /\ line[i] = a[i]
               \/ i = Len(a) + 1 /\ line[i] = w
               \/ i > Len(a) + 1 /\ i - (Len(a) + 1) \in 1..Len(b) /\ line[i] = b[i - (Len(a) + 1)]
    <3>1. CASE i <= Len(a)
      BY <2>4, <2>6, <2>7, <3>1
    <3>2. CASE i = Len(a) + 1
      <4>1. line[i] = e[i] /\ e[i] = <<w>>[1]
        BY <2>4, <2>6, <2>7, <3>2
      <4> QED  BY <2>5, <3>2, <4>1
    <3>3. CASE i > Len(a) + 1
      <4>1. line[i] = b[i - Len(e)] /\ i - (Len(a) + 1) \in 1..Len(b)
        BY <2>4, <2>6, <2>7, <3>3
      <4> QED  BY <2>6, <3>3, <4>1
    <3> QED  BY <2>4, <3>1, <3>2, <3>3
  <2>10. \A i \in 1..Len(line) : line[i].of = project.active
    <3> SUFFICES ASSUME NEW i \in 1..Len(line) PROVE line[i].of = project.active
      OBVIOUS
    <3> QED  BY <2>2, <2>3, <2>9 DEF IsLine
  <2>11. ASSUME NEW i \in 1..Len(line) - 1 PROVE line[i].edit < line[i + 1].edit
    <3>1. i \in 1..Len(line) /\ i + 1 \in 1..Len(line)
      BY <2>4, <2>6, <2>7
    <3>2. CASE i \in 1..Len(a) - 1
      <4>1. line[i] = a[i] /\ line[i + 1] = a[i + 1] /\ i \in 1..Len(a) /\ i + 1 \in 1..Len(a) /\ i < i + 1
        BY <2>4, <2>9, <3>1, <3>2
      <4> QED  BY <2>3, <4>1 DEF IsLine
    <3>3. CASE i = Len(a)
      <4>1. line[i] = a[i] /\ line[i + 1] = w /\ i \in 1..Len(a)
        BY <2>4, <2>9, <3>1, <3>3
      <4> QED  BY <2>3, <4>1
    <3>4. CASE i = Len(a) + 1
      <4>1. line[i] = w /\ line[i + 1] = b[1] /\ 1 \in 1..Len(b)
        BY <2>4, <2>9, <3>1, <3>4
      <4> QED  BY <2>3, <4>1
    <3>5. CASE i > Len(a) + 1
      <4> DEFINE k == i - (Len(a) + 1)
      <4>1. line[i] = b[k] /\ line[i + 1] = b[k + 1] /\ k \in 1..Len(b) /\ k + 1 \in 1..Len(b) /\ k < k + 1
        <5>1. k \in Int /\ i + 1 - (Len(a) + 1) = k + 1 /\ i \in Int /\ i + 1 > Len(a) + 1
          BY <2>4, <3>1, <3>5
        <5>2. line[i] = b[k] /\ k \in 1..Len(b)
          BY <2>4, <2>9, <3>1, <3>5
        <5>3. /\ line[i + 1] = b[i + 1 - (Len(a) + 1)]
              /\ i + 1 - (Len(a) + 1) \in 1..Len(b)
          BY <2>4, <2>9, <3>1, <5>1
        <5> QED  BY <5>1, <5>2, <5>3
      <4> QED  BY <2>3, <4>1 DEF IsLine
    <3> QED  BY <2>4, <3>1, <3>2, <3>3, <3>4, <3>5
  <2>12. line = history.past \o <<workspaceOf(project)>> \o history.future
    BY DEF line, e, a, b, w
  <2> QED  BY <2>3, <2>8, <2>10, <2>11, <2>12 DEF TimelineInOrder, a, b
<1> QED  BY <1>1, InitIInv, NextKeeps, TimelineInit, TimelineNext, PTL DEF Spec
=============================================================================
