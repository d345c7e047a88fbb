------------------------- MODULE SecureEditorProofs -------------------------
(***************************************************************************)
(* Proofs about the editor: the properties that MCSecureEditor checks hold *)
(* for every set of names, keys and texts.  The invariant says where the   *)
(* text comes from and what a running handler holds.                       *)
(***************************************************************************)
EXTENDS SecureEditor, TLAPS

Window == [rows : SUBSET (Valid \ Hidden), sel : (Valid \ Hidden) \union {None},
           buttons : BOOLEAN, entry : Name \union {Empty},
           key : Key \union {Empty}, text : Text \union {Empty}]

Work == [pc : {"off", "idle", "confirm", "deleted", "saved"}, name : Name \union {Empty}]

(* What a window may look like whatever handler is running.                *)
WindowOK(w) ==
  /\ w \in Window
  /\ w.sel # None => w.sel \in w.rows
  /\ w.buttons = (w.sel # None)

Shape ==
  /\ disk \in [Valid -> File \union {None}]
  /\ WindowOK(window)
  /\ work \in Work
  /\ work.pc = "confirm" => work.name \in Valid
  /\ origin \in [name : Valid, file : File] \union {None}

(* The file that the entry names is the one that was seen, unless others   *)
(* changed it; the text is the one of that file.                           *)
Provenance ==
  ~drift => IF origin = None THEN window.entry = Empty
            ELSE /\ window.entry = origin.name
                 /\ origin.name \in foreign \/ disk[origin.name] = origin.file

(* The rows lag behind only within a handler, or for others' sake.         *)
Freshness == work.pc \in {"idle", "confirm"} /\ ~behind => window.rows = Listed

OffBehind == work.pc = "off" => behind /\ window.sel = None

EditorInv == Shape /\ Provenance /\ Freshness /\ OffBehind

-----------------------------------------------------------------------------
(* The helpers keep the window in shape.                                   *)

(* Selecting a row, or none, keeps a window in shape.                      *)
LEMMA WithSelectionOK ==
  ASSUME EditorAssumption, NEW w, WindowOK(w), NEW row \in w.rows \union {None}
  PROVE  /\ WindowOK(WithSelection(w, row))
         /\ WithSelection(w, row).rows = w.rows
  BY DEF EditorAssumption, WindowOK, Window, WithSelection, WithButtons

(* A refresh shows every listed file, in a window in shape.                *)
LEMMA RefreshedOK ==
  ASSUME EditorAssumption, Shape, NEW w \in Refreshed
  PROVE  WindowOK(w) /\ w.rows = Listed
<1>1. PICK entry \in AfterClear : w = Filled(entry)
  BY DEF Refreshed
<1>2. entry \in Name \union {Empty}
  BY DEF AfterClear, Shape, WindowOK, Window, EditorAssumption
<1>3. Listed \subseteq Valid \ Hidden
  BY DEF Listed
<1> QED
  BY <1>1, <1>2, <1>3 DEF Filled, WithButtons, Shape, WindowOK, Window

(* Selecting the saved name's row leaves the rows.                         *)
LEMMA SelectedByNameOK ==
  ASSUME EditorAssumption, NEW w, WindowOK(w), NEW v \in SelectedByName(w)
  PROVE  WindowOK(v) /\ v.rows = w.rows
<1>1. PICK row \in Pointed(w) : v = WithSelection(w, row)
  BY DEF SelectedByName
<1>2. row \in w.rows \union {None}
  BY <1>1 DEF Pointed, WindowOK
<1> QED
  BY <1>1, <1>2, WithSelectionOK

(* So does a refresh with the selection that may follow it.                *)
LEMMA AfterRefreshOK ==
  ASSUME EditorAssumption, Shape, NEW after, NEW w \in AfterRefresh(after)
  PROVE  WindowOK(w) /\ w.rows = Listed
<1>1. CASE after = "save"
  <2>1. PICK v \in Refreshed : w \in SelectedByName(v)
    BY <1>1 DEF AfterRefresh
  <2> QED
    BY <2>1, RefreshedOK, SelectedByNameOK
<1>2. CASE after # "save"
  BY <1>2, RefreshedOK DEF AfterRefresh
<1> QED
  BY <1>1, <1>2

(* Every refresh, from whatever handler, keeps the invariant: a name that  *)
(* it moves into the entry is noticed.                                     *)
LEMMA RefreshKeeps ==
  ASSUME EditorAssumption, EditorInv, NEW after, Refresh(after)
  PROVE  EditorInv'
<1>1. work' = Idle /\ disk' = disk /\ origin' = origin /\ foreign' = foreign
  BY DEF Refresh
<1>2. drift' = (drift \/ window'.entry # window.entry)
  BY DEF Refresh, Moved
<1>3. WindowOK(window') /\ (behind' \/ window'.rows = Listed)
  <2>1. CASE window' \in AfterRefresh(after) /\ behind' = FALSE
    BY <2>1, AfterRefreshOK DEF EditorInv
  <2>2. CASE window' \in (IF after = "save" THEN SelectedByName(window) ELSE {window}) /\ behind' = TRUE
    BY <2>2, SelectedByNameOK DEF EditorInv, Shape
  <2> QED
    BY <2>1, <2>2 DEF Refresh
<1>4. Shape'
  BY <1>1, <1>3 DEF EditorInv, Shape, Work, Idle, WindowOK
<1>5. Provenance'
  BY <1>1, <1>2 DEF EditorInv, Provenance
<1>6. Freshness' /\ OffBehind'
  BY <1>1, <1>3 DEF Freshness, OffBehind, Idle, Listed
<1> QED
  BY <1>4, <1>5, <1>6 DEF EditorInv

-----------------------------------------------------------------------------
(* The invariant.                                                          *)

(* The invariant holds before the window is built.                         *)
LEMMA InitInv ==
  ASSUME EditorAssumption, Init
  PROVE  EditorInv
<1>1. PICK key \in LegalKey : window = Blank(key)
  BY DEF Init
<1>2. key \in Key
  BY DEF EditorAssumption
<1>3. window.sel = None /\ window.buttons = FALSE /\ window \in Window
  BY <1>1, <1>2 DEF Blank, Window
<1>4. work \in Work /\ work.pc = "off"
  BY DEF Init, Idle, Work
<1>5. Shape
  BY <1>3, <1>4 DEF Init, Shape, WindowOK
<1> QED
  BY <1>1, <1>3, <1>4, <1>5 DEF Init, EditorInv, Provenance, Freshness, OffBehind, Blank, Idle

(* Open shows the file it read under the file's name.                      *)
LEMMA OpenKeeps ==
  ASSUME EditorAssumption, EditorInv, Open
  PROVE  EditorInv'
<1> USE DEF EditorInv
<1>1. PICK data \in Readings(disk[window.sel]) :
        /\ window' = Showing(window.sel, data)
        /\ origin' = [name |-> window.sel, file |-> disk[window.sel]]
  BY DEF Open
<1>2. window.sel \in Valid \ Hidden /\ window.sel \in Name
  BY DEF Open, Shape, WindowOK, Window, EditorAssumption
<1>3. disk[window.sel] \in File /\ data \in Text \union {Empty}
  <2>1. disk[window.sel] # None
    BY <1>1 DEF Readings
  <2>2. disk[window.sel] \in File
    BY <1>2, <2>1 DEF Shape
  <2> QED
    BY <1>1, <2>2 DEF Readings, File
<1>4. window' = [window EXCEPT !.entry = window.sel, !.text = data]
  BY <1>1 DEF Showing
<1>5. WindowOK(window')
  BY <1>2, <1>3, <1>4 DEF Shape, WindowOK, Window
<1>6. window'.entry = window.sel /\ window'.rows = window.rows
  BY <1>4 DEF Shape, WindowOK, Window
<1>7. Shape' /\ origin' # None
  BY <1>1, <1>2, <1>3, <1>5 DEF Open, Shape, EditorAssumption
<1>8. Provenance'
  BY <1>1, <1>6, <1>7 DEF Open, Provenance
<1>9. Freshness' /\ OffBehind'
  BY <1>6 DEF Open, Freshness, OffBehind, Listed
<1> QED
  BY <1>7, <1>8, <1>9

(* New leaves a text of no file, and no name.                              *)
LEMMA NewKeeps ==
  ASSUME EditorAssumption, EditorInv, New
  PROVE  EditorInv'
<1> DEFINE blank == [window EXCEPT !.entry = Empty, !.text = Empty]
<1>1. WindowOK(blank) /\ blank.entry = Empty /\ blank.rows = window.rows
  BY DEF EditorInv, Shape, WindowOK, Window
<1>2. window' = WithSelection(blank, None)
  BY DEF New, Cleared
<1>3. WindowOK(window') /\ window'.rows = window.rows
  BY <1>1, <1>2, WithSelectionOK
<1>4. window'.entry = Empty
  BY <1>1, <1>2 DEF WithSelection, WithButtons, WindowOK, Window
<1> QED
  BY <1>3, <1>4 DEF New, At, EditorInv, Shape, Provenance, Freshness, OffBehind, Listed

(* Asking takes the selected row, which is a valid name.                   *)
LEMMA AskDeleteKeeps ==
  ASSUME EditorAssumption, EditorInv, AskDelete
  PROVE  EditorInv'
<1>1. window.sel \in Valid /\ window.sel \in Name
  BY DEF AskDelete, EditorInv, Shape, WindowOK, Window, EditorAssumption
<1>2. Shape'
  BY <1>1 DEF AskDelete, history, EditorInv, Shape, Work
<1> QED
  BY <1>2 DEF AskDelete, history, EditorInv, At, Provenance, Freshness, OffBehind, Listed

(* A deletion marks the text as no file's, or changes nothing.             *)
LEMMA DeleteKeeps ==
  ASSUME EditorAssumption, EditorInv, Delete
  PROVE  EditorInv'
<1> DEFINE blank == [window EXCEPT !.entry = Empty, !.text = Empty]
<1>1. WindowOK(blank) /\ blank.entry = Empty
  BY DEF EditorInv, Shape, WindowOK, Window
<1>2. window' = IF window.entry = work.name THEN blank ELSE window
  BY DEF Delete, AfterDelete
<1>3. disk' \in [Valid -> File \union {None}]
  BY DEF Delete, EditorInv, Shape
<1>4. work' \in Work /\ work'.pc = "deleted"
  BY DEF Delete, EditorInv, Shape, Work
<1>5. Shape'
  BY <1>1, <1>2, <1>3, <1>4 DEF Delete, EditorInv, Shape
<1>6. Provenance'
  <2>1. CASE window.entry = work.name
    BY <1>1, <1>2, <2>1 DEF Delete, Provenance
  <2>2. CASE window.entry # work.name /\ origin # None
    <3>1. origin.name \in Valid
      BY <2>2 DEF EditorInv, Shape
    <3>2. ~drift => disk'[origin.name] = disk[origin.name]
      BY <2>2, <3>1 DEF Delete, EditorInv, Shape, Provenance
    <3> QED
      BY <1>2, <2>2, <3>2 DEF Delete, EditorInv, Provenance
  <2>3. CASE window.entry # work.name /\ origin = None
    BY <1>2, <2>3 DEF Delete, EditorInv, Provenance
  <2> QED
    BY <2>1, <2>2, <2>3
<1> QED
  BY <1>4, <1>5, <1>6 DEF EditorInv, Freshness, OffBehind

(* An answer of no changes nothing.                                        *)
LEMMA DoNotDeleteKeeps ==
  ASSUME EditorAssumption, EditorInv, DoNotDelete
  PROVE  EditorInv'
<1>1. Shape'
  BY DEF DoNotDelete, history, EditorInv, Shape, Work, Idle
<1> QED
  BY <1>1 DEF DoNotDelete, history, EditorInv, At, Idle, Provenance, Freshness, OffBehind, Listed

(* A save makes the text the named file's, or changes nothing.             *)
LEMMA SaveKeeps ==
  ASSUME EditorAssumption, EditorInv, Save
  PROVE  EditorInv'
<1>1. window.entry \in Valid /\ window.key \in LegalKey
  BY DEF Save
<1>2. Content \in File
  BY <1>1 DEF EditorInv, Shape, WindowOK, Window, Content, File
<1>3. disk' \in [Valid -> File \union {None}] /\ disk'[window.entry] = Content
  BY <1>1, <1>2 DEF Save, EditorInv, Shape
<1>4. work' \in Work /\ work'.pc = "saved"
  BY <1>1 DEF Save, Work, EditorAssumption
<1>5. origin' = [name |-> window.entry, file |-> Content] /\ origin' # None
  BY <1>1, <1>2 DEF Save, EditorAssumption
<1>6. Shape'
  BY <1>1, <1>2, <1>3, <1>4, <1>5 DEF Save, EditorInv, Shape
<1>7. Provenance'
  BY <1>3, <1>5 DEF Save, Provenance
<1> QED
  BY <1>4, <1>6, <1>7 DEF EditorInv, Freshness, OffBehind

(* What is typed goes into one entry, and changes the name or does not.    *)
LEMMA TypingKeeps ==
  ASSUME EditorAssumption, EditorInv,
         \/ \E n \in Name \union {Empty} : TypeName(n)
         \/ \E k \in Key \union {Empty} : TypeKey(k)
         \/ \E t \in Text \union {Empty} : TypeText(t)
  PROVE  EditorInv'
<1>1. /\ WindowOK(window') /\ window'.rows = window.rows /\ work' = work
      /\ work.pc = "idle" /\ UNCHANGED <<disk, origin, foreign, behind>>
      /\ ~drift' => (~drift /\ window'.entry = window.entry)
  <2>1. CASE \E n \in Name \union {Empty} : TypeName(n)
    BY <2>1 DEF TypeName, Moved, At, EditorInv, Shape, WindowOK, Window
  <2>2. CASE \E k \in Key \union {Empty} : TypeKey(k)
    BY <2>2 DEF TypeKey, history, At, EditorInv, Shape, WindowOK, Window
  <2>3. CASE \E t \in Text \union {Empty} : TypeText(t)
    BY <2>3 DEF TypeText, history, At, EditorInv, Shape, WindowOK, Window
  <2> QED
    BY <2>1, <2>2, <2>3
<1>2. disk' = disk /\ origin' = origin /\ foreign' = foreign /\ behind' = behind
  BY <1>1
<1>3. Shape'
  BY <1>1, <1>2 DEF EditorInv, Shape, WindowOK
<1>4. Provenance'
  BY <1>1, <1>2 DEF EditorInv, Provenance
<1>5. Freshness' /\ OffBehind'
  BY <1>1, <1>2 DEF EditorInv, Freshness, OffBehind, Listed
<1> QED
  BY <1>3, <1>4, <1>5 DEF EditorInv

(* A selection that changes the entry is noticed.                          *)
LEMMA SelectKeeps ==
  ASSUME EditorAssumption, EditorInv, NEW row, Select(row)
  PROVE  EditorInv'
<1>1. WindowOK(window') /\ window'.rows = window.rows
  BY WithSelectionOK DEF Select, EditorInv, Shape
<1> QED
  BY <1>1 DEF Select, Moved, At, EditorInv, Shape, Provenance, Freshness, OffBehind, Listed

(* What others change is remembered, and the list is behind.               *)
LEMMA OthersKeeps ==
  ASSUME EditorAssumption, EditorInv,
         NEW n \in Valid, NEW file \in File \union {None}, Others(n, file)
  PROVE  EditorInv'
<1>1. Shape'
  BY DEF Others, EditorInv, Shape, WindowOK
<1>2. Provenance'
  <2>1. CASE origin # None /\ origin.name # n
    <3>1. origin.name \in Valid
      BY <2>1 DEF EditorInv, Shape
    <3> QED
      BY <2>1, <3>1 DEF Others, EditorInv, Shape, Provenance
  <2>2. CASE origin = None \/ origin.name = n
    BY <2>2 DEF Others, EditorInv, Provenance
  <2> QED
    BY <2>1, <2>2
<1> QED
  BY <1>1, <1>2 DEF Others, EditorInv, Freshness, OffBehind

(* Building the window lists the files and shows no text.                  *)
LEMMA ActivateKeeps ==
  ASSUME EditorAssumption, EditorInv, Activate
  PROVE  EditorInv'
<1>1. work' = Idle /\ UNCHANGED <<disk, origin, drift, foreign>> /\ window.sel = None
  BY DEF Activate, At, EditorInv, OffBehind
<1>2. Listed \subseteq Valid \ Hidden
  BY DEF Listed
<1>3. /\ WindowOK(window') /\ window'.entry = window.entry
      /\ behind' \/ window'.rows = Listed
  <2>1. CASE window' = [window EXCEPT !.rows = Listed]
    BY <1>1, <1>2, <2>1 DEF EditorInv, Shape, WindowOK, Window
  <2>2. CASE UNCHANGED <<window, behind>>
    BY <2>2 DEF Activate, At, EditorInv, Shape, OffBehind, WindowOK
  <2> QED
    BY <2>1, <2>2 DEF Activate
<1>4. Shape'
  BY <1>1, <1>3 DEF EditorInv, Shape, Work, Idle
<1> QED
  BY <1>1, <1>3, <1>4 DEF EditorInv, Provenance, Freshness, OffBehind, Idle, Listed

(* A stuttering step changes nothing.                                      *)
LEMMA StutterKeeps ==
  ASSUME EditorInv, UNCHANGED vars
  PROVE  EditorInv'
  BY DEF vars, EditorInv, Shape, WindowOK, Provenance, Freshness, OffBehind, Listed

(* The invariant is inductive.                                             *)
LEMMA NextKeeps ==
  ASSUME EditorAssumption, EditorInv, [Next]_vars
  PROVE  EditorInv'
<1>1. CASE Activate
  BY <1>1, ActivateKeeps
<1>2. CASE OnRefresh \/ RefreshAfterDelete \/ RefreshAfterSave
  BY <1>2, RefreshKeeps DEF OnRefresh, RefreshAfterDelete, RefreshAfterSave
<1>3. CASE Open
  BY <1>3, OpenKeeps
<1>4. CASE New
  BY <1>4, NewKeeps
<1>5. CASE AskDelete
  BY <1>5, AskDeleteKeeps
<1>6. CASE Delete
  BY <1>6, DeleteKeeps
<1>7. CASE DoNotDelete
  BY <1>7, DoNotDeleteKeeps
<1>8. CASE Save
  BY <1>8, SaveKeeps
<1>9. CASE \E row \in window.rows \union {None} : Select(row)
  BY <1>9, SelectKeeps
<1>10. CASE \/ \E n \in Name \union {Empty} : TypeName(n)
            \/ \E k \in Key \union {Empty} : TypeKey(k)
            \/ \E t \in Text \union {Empty} : TypeText(t)
  BY <1>10, TypingKeeps
<1>11. CASE \E n \in Valid : \E file \in File \union {None} : Others(n, file)
  BY <1>11, OthersKeeps
<1>12. CASE UNCHANGED vars
  BY <1>12, StutterKeeps
<1> QED
  BY <1>1, <1>2, <1>3, <1>4, <1>5, <1>6, <1>7, <1>8, <1>9, <1>10, <1>11, <1>12 DEF Next

(* The invariant holds in every reachable state.                           *)
THEOREM Inductive == EditorSpec => []EditorInv
<1>1. Init => EditorInv
  BY EditorAssumption, InitInv
<1>2. EditorInv /\ [Next]_vars => EditorInv'
  BY EditorAssumption, NextKeeps
<1> QED
  BY <1>1, <1>2, PTL DEF EditorSpec

-----------------------------------------------------------------------------
(* The theorems.                                                           *)

(* Types, and buttons that work exactly while a row is selected.           *)
THEOREM EditorTypeCorrect == EditorSpec => []EditorTypeOK
<1>1. EditorInv => EditorTypeOK
  BY DEF EditorInv, Shape, WindowOK, Window, Work, EditorTypeOK
<1> QED
  BY <1>1, Inductive, PTL

(* The name entry names the file of the text, unless it was changed.       *)
THEOREM TextStaysNamed == EditorSpec => []TextBelongs
<1>1. EditorInv => TextBelongs
  BY DEF EditorInv, Provenance, TextBelongs
<1> QED
  BY <1>1, Inductive, PTL

(* Outside a handler the list lags behind only for others' sake.           *)
THEOREM RowsStayFresh == EditorSpec => []RowsFresh
<1>1. EditorInv => RowsFresh
  BY DEF EditorInv, Freshness, RowsFresh, At
<1> QED
  BY <1>1, Inductive, PTL

(* A save from the idle window is Save, and writes the named file only.    *)
LEMMA OnlySaveSaves ==
  ASSUME [Next]_vars, work.pc = "idle", work'.pc = "saved"
  PROVE  Save
  BY DEF Next, vars, history, At, Idle, Activate, OnRefresh, RefreshAfterDelete, RefreshAfterSave,
         Refresh, Open, New, AskDelete, Delete, DoNotDelete, Select,
         TypeName, TypeKey, TypeText, Others

(* A save replaces a file only if the entry names it, and a file that the  *)
(* user did not see only if the name or, by others, the file was changed.  *)
THEOREM SavesWhatWasSeen == EditorSpec => SavesOverItsOwn
<1>1. ASSUME EditorInv, [Next]_vars, work.pc = "idle", work'.pc = "saved",
             NEW n \in Valid, disk'[n] # disk[n], disk[n] # None
      PROVE  n = window.entry /\ (drift \/ n \in foreign \/ origin = [name |-> n, file |-> disk[n]])
  <2>1. Save
    BY <1>1, OnlySaveSaves
  <2>2. n = window.entry
    BY <1>1, <2>1 DEF Save, EditorInv, Shape
  <2>3. ASSUME ~drift, n \notin foreign
        PROVE  origin = [name |-> n, file |-> disk[n]]
    <3>1. n # Empty
      BY EditorAssumption DEF EditorAssumption
    <3>2. origin # None /\ origin.name = n /\ origin.file = disk[n]
      BY <1>1, <2>2, <2>3, <3>1 DEF EditorInv, Provenance
    <3>3. origin \in [name : Valid, file : File]
      BY <1>1, <3>2 DEF EditorInv, Shape
    <3> QED
      BY <3>2, <3>3
  <2> QED
    BY <2>2, <2>3
<1>2. EditorInv /\ [Next]_vars => [SaveHitsOnly]_vars
  BY <1>1 DEF SaveHitsOnly, At
<1> QED
  BY <1>2, Inductive, PTL DEF EditorSpec, SavesOverItsOwn
=============================================================================
