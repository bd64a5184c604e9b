----------------------------- MODULE LayoutStudio -----------------------------
(***************************************************************************)
(* The layout studio: useCustomLayout edits the active layout and          *)
(* LayoutStorageManager keeps the user's layouts, by id, and the active id *)
(* in localStorage.  Every list of layouts begins with the presets, so     *)
(* what is stored under the id of a preset is never loaded.  The browser   *)
(* may refuse any write.  What a layout consists of is a number here, a    *)
(* new one for every edit.                                                 *)
(***************************************************************************)
EXTENDS Naturals

CONSTANTS
  Presets,    \* ids of the built-in layouts
  Default,    \* DEFAULT_XBOX_LAYOUT's id
  Ids,        \* ids a new layout may get
  MaxEdits    \* bound on the edits, of which one at most waits to be rendered

ASSUME PresetAssumption == Default \in Presets /\ Ids \cap Presets = {}
ASSUME EditsAssumption == MaxEdits \in Nat

VARIABLES
  saved,      \* per id, what is stored under it, or Absent
  activeId,   \* the active id in localStorage
  open,       \* the studio is mounted
  known,      \* allLayouts: per id what it was when the list was last read
  edited,     \* the studio's activeLayout
  dragged,    \* dragRef: the pointer is dragging an element
  edits,      \* how many edits there were
  waiting,    \* the edit that React has not made yet: what it makes of the layout it was
              \* meant for, and whether another one has been put in its place since
  refused,    \* a write has been refused
  outrun      \* an edit was stored that another layout had been put in place of

studioVars == <<saved, activeId, open, known, edited, dragged, edits, waiting, refused, outrun>>

Absent == MaxEdits + 1
Layouts == Presets \cup Ids
Builtin == 0   \* what presets and blank layouts consist of
Contents == 0 .. MaxEdits
LayoutRecords == [id : Layouts, preset : BOOLEAN, content : Contents]

StudioTypeOK ==
  /\ saved \in [Layouts -> Contents \cup {Absent}]
  /\ known \in [Layouts -> Contents \cup {Absent}]
  /\ activeId \in Layouts /\ open \in BOOLEAN /\ dragged \in BOOLEAN
  /\ edited \in LayoutRecords /\ edits \in Contents
  /\ waiting \subseteq [layout : LayoutRecords, over : BOOLEAN]
  /\ refused \in BOOLEAN /\ outrun \in BOOLEAN

\* loadAllLayouts, and find in it: of two layouts with one id the preset comes first.
LoadAll(store) == [id \in Layouts |-> IF id \in Presets THEN Builtin ELSE store[id]]

\* getActiveLayout.
Load(store, id) ==
  IF id \in Ids /\ store[id] # Absent
  THEN [id |-> id, preset |-> FALSE, content |-> store[id]]
  ELSE [id |-> IF id \in Presets THEN id ELSE Default, preset |-> TRUE, content |-> Builtin]

StudioInit ==
  /\ saved = [id \in Layouts |-> Absent]
  /\ activeId = Default
  /\ open = FALSE /\ dragged = FALSE /\ edits = 0
  /\ known = LoadAll(saved)
  /\ edited = Load(saved, Default)
  /\ waiting = {} /\ refused = FALSE /\ outrun = FALSE

\* saveLayout: the layout goes with the others, unless the write is refused, of which
\* nobody hears.
Save(layout, written) ==
  saved' = IF written THEN [saved EXCEPT ![layout.id] = layout.content] ELSE saved

\* setActiveLayout with a layout: an edit that waits is for the one before.
Show(layout) ==
  /\ edited' = layout
  /\ waiting' = {[edit EXCEPT !.over = TRUE] : edit \in waiting}

\* refreshLayouts.
Refresh(store, id) == known' = LoadAll(store) /\ Show(Load(store, id))

OpenStudio ==
  /\ ~open /\ open' = TRUE
  /\ Refresh(saved, activeId)
  /\ UNCHANGED <<saved, activeId, dragged, edits, refused, outrun>>

\* Back to the gamepad; the edit that waits is dropped.
CloseStudio ==
  /\ open /\ open' = FALSE
  /\ dragged' = FALSE /\ waiting' = {}
  /\ UNCHANGED <<saved, activeId, known, edited, edits, refused, outrun>>

\* selectLayout, of a layout on the list.  setActiveLayoutId throws if it is refused,
\* and leaves all as it was.
SelectLayout(id) ==
  /\ open /\ known[id] # Absent
  /\ \/ /\ activeId' = id
        /\ IF id \in Ids /\ saved[id] = Absent THEN UNCHANGED <<edited, waiting>>
                                               ELSE Show(Load(saved, id))
        /\ UNCHANGED refused
     \/ refused' = TRUE /\ UNCHANGED <<activeId, edited, waiting>>
  /\ UNCHANGED <<saved, open, known, dragged, edits, outrun>>

\* The ids of new layouts contain the time.
Fresh(id) ==
  saved[id] = Absent /\ id \notin {activeId, edited.id} \cup {edit.layout.id : edit \in waiting}

\* createNewLayout and duplicateLayout store a new layout and make it the active one;
\* the list is read again unless that throws.
Store(id, content) ==
  /\ open /\ Fresh(id)
  /\ \E written, activated \in BOOLEAN :
       /\ Save([id |-> id, content |-> content], written)
       /\ refused' = (refused \/ ~written \/ ~activated)
       /\ IF activated THEN activeId' = id /\ Refresh(saved', id)
                       ELSE UNCHANGED <<activeId, known, edited, waiting>>
  /\ UNCHANGED <<open, dragged, edits, outrun>>

CreateNewLayout(id) == Store(id, Builtin)

\* The source comes from the list, which knows nothing of the edits made since.
DuplicateLayout(id) ==
  Store(id, IF known[edited.id] = Absent THEN edited.content ELSE known[edited.id])

\* importLayoutFromJson, refreshLayouts and selectLayout.
Import(id, content) ==
  /\ open /\ Fresh(id) /\ content <= edits
  /\ \E written, activated \in BOOLEAN :
       /\ Save([id |-> id, content |-> content], written)
       /\ refused' = (refused \/ ~written \/ ~activated)
       /\ activeId' = IF activated THEN id ELSE activeId
       /\ known' = LoadAll(saved')
       /\ Show(Load(saved', IF activated /\ written THEN id ELSE activeId))
  /\ UNCHANGED <<open, dragged, edits, outrun>>

\* Mutant: what an edit makes of a layout is shown only.
KeepNothing(layout) == UNCHANGED <<saved, refused>>

\* What an edit makes of a layout of the user's own is stored.
Keep(layout) ==
  IF layout.preset THEN UNCHANGED <<saved, refused>>
  ELSE \E written \in BOOLEAN : Save(layout, written) /\ refused' = (refused \/ ~written)

\* setActiveLayout with an updater, which stores what it returns: React runs it at once
\* or, if it has other updates to make, when it renders.  Bound: MaxEdits of them, and
\* none is made while another waits.
Edit(preset) ==
  /\ open /\ edits < MaxEdits /\ waiting = {}
  /\ edits' = edits + 1
  /\ LET layout == [id |-> edited.id, preset |-> preset, content |-> edits'] IN
     \/ edited' = layout /\ Keep(layout) /\ UNCHANGED waiting
     \/ waiting' = {[layout |-> layout, over |-> FALSE]} /\ UNCHANGED <<saved, refused, edited>>
  /\ UNCHANGED <<activeId, open, known, dragged, outrun>>

\* The edit that waited is made, of the layout it was meant for, and stored; shown is
\* the layout that was set last.
RenderEdit ==
  \E edit \in waiting :
    /\ waiting' = {}
    /\ Keep(edit.layout)
    /\ edited' = IF edit.over THEN edited ELSE edit.layout
    /\ outrun' = (outrun \/ edit.over)
    /\ UNCHANGED <<activeId, open, known, dragged, edits>>

\* updateElement, by the inspector or by dragging, and setGridSnap: a preset is
\* changed on the screen only.
UpdateElement == Edit(edited.preset)
SetGridSnap == UpdateElement

\* addElement and removeElement make a preset the user's, under the same id.
AddElement == Edit(FALSE)
RemoveElement == AddElement

DragElement ==
  /\ open /\ ~dragged
  /\ dragged' = TRUE
  /\ UNCHANGED <<saved, activeId, open, known, edited, edits, waiting, refused, outrun>>

\* The drag goes on in whatever layout is edited by then; there, the element may not
\* exist, and nothing is changed but saved again.
MoveDragged == dragged /\ UpdateElement

DropElement ==
  /\ dragged /\ dragged' = FALSE
  /\ UNCHANGED <<saved, activeId, open, known, edited, edits, waiting, refused, outrun>>

\* Mutant: the deleted layout stays the active one.
DeleteKeepsActive ==
  /\ open /\ ~edited.preset
  /\ saved' = [saved EXCEPT ![edited.id] = Absent]
  /\ Refresh(saved', activeId)
  /\ UNCHANGED <<activeId, open, dragged, edits, refused, outrun>>

\* deleteActiveLayout, which does not look at what deleteLayout returns: it may fail to
\* delete the layout, or to make another one the active one.
DeleteLayout ==
  /\ open /\ ~edited.preset
  /\ \E deleted, activated \in BOOLEAN :
       /\ saved' = IF deleted THEN [saved EXCEPT ![edited.id] = Absent] ELSE saved
       /\ activeId' = IF deleted /\ activated /\ activeId = edited.id THEN Default ELSE activeId
       /\ refused' = (refused \/ ~deleted \/ ~activated)
       /\ Refresh(saved', activeId')
  /\ UNCHANGED <<open, dragged, edits, outrun>>

StudioStep ==
  \/ OpenStudio \/ CloseStudio \/ DeleteLayout
  \/ UpdateElement \/ SetGridSnap \/ AddElement \/ RemoveElement \/ RenderEdit
  \/ DragElement \/ MoveDragged \/ DropElement
  \/ \E id \in Layouts : SelectLayout(id)
  \/ \E id \in Ids :
       \/ CreateNewLayout(id) \/ DuplicateLayout(id)
       \/ \E content \in Contents : Import(id, content)

-----------------------------------------------------------------------------

\* What the studio shows of a layout of the user's own is what is stored, whichever of
\* the edits, at once or when rendered, selections, copies, imports and deletions led
\* there, while the browser has refused no write and no edit was overtaken by another
\* layout.
SavedAsShown ==
  open /\ edited.id \in Ids => saved[edited.id] = edited.content \/ refused \/ outrun

\* The layout on the canvas is the active one, which exists: an edit, a delete or the
\* return to the gamepad concerns the layout the user sees, as long as no write has been
\* refused.
ActiveIsEdited ==
  \/ refused
  \/ /\ open => edited.id = activeId
     /\ activeId \in Presets \/ saved[activeId] # Absent

\* What is shown of a layout of the user's own is stored, refused or not.  The code
\* violates this: saveLayout swallows the error and the hook goes on.
EditsAreStored == open /\ edited.id \in Ids => saved[edited.id] = edited.content
=============================================================================
