---------------------------- MODULE SecureEditor ----------------------------
(***************************************************************************)
(* The editor of bai_1/app/gui_main.c: one window with the list of the     *)
(* storage, an entry for the file name, one for the key, and the text.     *)
(* Its thread calls the storage service, which does what SecureStorage     *)
(* promises: a call fails and changes nothing, or takes effect at once.    *)
(* Other processes change the storage between its steps.  The status line  *)
(* and the log are left out.                                               *)
(***************************************************************************)
EXTENDS FiniteSets

CONSTANTS
  Name, Valid, Hidden, \* as in SecureStorage
  Key, LegalKey,
  Text,     \* what may be typed as text
  NotText,  \* the content of a file that is not UTF-8
  Fault,    \* whether calls of the storage may fail for no reason
  Empty,    \* the empty entry, and the empty text
  None      \* no file, no row

File == [key : LegalKey, data : Text \union {Empty, NotText}]

ASSUME EditorAssumption ==
  /\ Hidden \subseteq Valid /\ Valid \subseteq Name /\ LegalKey \subseteq Key
  /\ Empty \notin Name \union Key \union Text
  /\ None \notin Name \union File \union [name : Valid, file : File]
  /\ NotText \notin Text \union {Empty} /\ Fault \in BOOLEAN

VARIABLES
  disk,    \* per valid name: the file in the storage, or None
  window,  \* the rows, the selected one, the two buttons, the entries, the text
  work,    \* the handler that is running, and its file name
  origin,  \* history: the file the text was opened from or saved to, or None
  drift,   \* history: the name entry changed since then
  foreign, \* history: the files that others changed since then
  behind   \* history: since the rows were made others changed the storage, or
           \* a refresh failed

vars == <<disk, window, work, origin, drift, foreign, behind>>
history == <<origin, drift, foreign, behind>>

At(pc) == work.pc = pc
Idle == [pc |-> "idle", name |-> Empty]
Listed == {n \in Valid \ Hidden : disk[n] # None}

-----------------------------------------------------------------------------
(* The selection.                                                          *)

(* Faulty variant: the buttons are not updated when nothing is selected.   *)
WithButtonsOn(w) == IF w.sel = None THEN w ELSE [w EXCEPT !.buttons = TRUE]

(* gui_update_action_buttons *)
WithButtons(w) == [w EXCEPT !.buttons = w.sel # None]

(* on_selection_changed: the name goes into the entry, the text stays.     *)
WithSelection(w, row) ==
  WithButtons(IF row = None THEN [w EXCEPT !.sel = None]
              ELSE [w EXCEPT !.sel = row, !.entry = row])

Moved(w) == drift' = (drift \/ w.entry # window.entry)

Select(row) ==
  /\ At("idle") /\ row \in window.rows \union {None}
  /\ window' = WithSelection(window, row)
  /\ Moved(window')
  /\ UNCHANGED <<disk, work, origin, foreign, behind>>

-----------------------------------------------------------------------------
(* gui_refresh_file_list *)

(* gtk_list_store_clear removes row after row.  When the selected row goes *)
(* the view may select the next one, whose name on_selection_changed       *)
(* writes into the entry, until no row is left.                            *)
AfterClear == {window.entry} \union IF window.sel = None THEN {} ELSE window.rows

Filled(entry) ==
  WithButtons([window EXCEPT !.rows = Listed, !.sel = None, !.entry = entry])

(* gui_select_file_by_name.  The name is a pointer into the entry: after   *)
(* the entry was written to, it may name any row, or none.                 *)
Pointed(w) ==
  IF w.entry = work.name THEN {IF work.name \in w.rows THEN work.name ELSE w.sel}
  ELSE w.rows \union {w.sel}

SelectedByName(w) == {WithSelection(w, row) : row \in Pointed(w)}

(* Faulty variant: the list is not loaded again.                           *)
NotRefreshed == {window}

(* The rows as the storage has them now.                                   *)
Refreshed == {Filled(entry) : entry \in AfterClear}

AfterRefresh(after) == IF after = "save" THEN UNION {SelectedByName(w) : w \in Refreshed}
                       ELSE Refreshed

Refresh(after) ==
  /\ work' = Idle
  /\ \/ /\ window' \in AfterRefresh(after)
        /\ behind' = FALSE
     \/ /\ Fault
        /\ window' \in IF after = "save" THEN SelectedByName(window) ELSE {window}
        /\ behind' = TRUE
  /\ Moved(window')
  /\ UNCHANGED <<disk, origin, foreign>>

OnRefresh == At("idle") /\ Refresh("nothing")
RefreshAfterDelete == At("deleted") /\ Refresh("nothing")
RefreshAfterSave == At("saved") /\ Refresh("save")

-----------------------------------------------------------------------------
(* gui_open_selected_file: the button, or a double click on a row.         *)

Showing(name, data) == [window EXCEPT !.entry = name, !.text = data]

(* A wrong key is an error, or gives nonsense, which is text or is not.    *)
Readings(file) ==
  (IF file = None \/ window.key \notin LegalKey THEN {}
   ELSE IF file.key = window.key THEN {file.data} ELSE Text) \ {NotText}

Open ==
  /\ At("idle") /\ window.sel # None
  /\ LET file == disk[window.sel] IN
       \E data \in Readings(file) :
         /\ window' = Showing(window.sel, data)
         /\ origin' = [name |-> window.sel, file |-> file]
  /\ drift' = FALSE /\ foreign' = {}
  /\ UNCHANGED <<disk, work, behind>>

(* Faulty variant: the name stays in the entry.                            *)
ClearedButName == WithSelection([window EXCEPT !.text = Empty], None)

(* on_new_clicked *)
Cleared == WithSelection([window EXCEPT !.entry = Empty, !.text = Empty], None)

New ==
  /\ At("idle")
  /\ window' = Cleared
  /\ origin' = None /\ drift' = FALSE /\ foreign' = {}
  /\ UNCHANGED <<disk, work, behind>>

-----------------------------------------------------------------------------
(* on_delete_clicked: the dialog names the selected file and is modal.     *)

AskDelete ==
  /\ At("idle") /\ window.sel # None
  /\ work' = [pc |-> "confirm", name |-> window.sel]
  /\ UNCHANGED <<disk, window, history>>

(* The entry and the text are cleared if they are the deleted file's.      *)
AfterDelete(name) ==
  IF window.entry = name THEN [window EXCEPT !.entry = Empty, !.text = Empty] ELSE window

Delete ==
  /\ At("confirm") /\ disk[work.name] # None
  /\ disk' = [disk EXCEPT ![work.name] = None]
  /\ window' = AfterDelete(work.name)
  /\ work' = [work EXCEPT !.pc = "deleted"]
  /\ IF window.entry = work.name
     THEN origin' = None /\ drift' = FALSE /\ foreign' = {}
     ELSE UNCHANGED <<origin, drift, foreign>>
  /\ UNCHANGED behind

(* The user cancels, or the deletion fails, because the file is gone or    *)
(* for another reason.                                                     *)
DoNotDelete ==
  /\ At("confirm")
  /\ work' = Idle
  /\ UNCHANGED <<disk, window, history>>

-----------------------------------------------------------------------------
(* on_save_clicked: overwriting is always allowed.                         *)

Content == [key |-> window.key, data |-> window.text]

(* Faulty variant: the file is the selected one, if there is one.          *)
SaveToSelected ==
  /\ At("idle") /\ window.entry \in Valid /\ window.key \in LegalKey
  /\ disk' = [disk EXCEPT ![IF window.sel # None THEN window.sel ELSE window.entry] = Content]
  /\ work' = [pc |-> "saved", name |-> window.entry]
  /\ origin' = [name |-> window.entry, file |-> Content]
  /\ drift' = FALSE /\ foreign' = {}
  /\ UNCHANGED <<window, behind>>

Save ==
  /\ At("idle") /\ window.entry \in Valid /\ window.key \in LegalKey
  /\ disk' = [disk EXCEPT ![window.entry] = Content]
  /\ work' = [pc |-> "saved", name |-> window.entry]
  /\ origin' = [name |-> window.entry, file |-> Content]
  /\ drift' = FALSE /\ foreign' = {}
  /\ UNCHANGED <<window, behind>>

-----------------------------------------------------------------------------
(* The keyboard, and the other processes.                                  *)

TypeName(n) ==
  /\ At("idle")
  /\ window' = [window EXCEPT !.entry = n]
  /\ Moved(window')
  /\ UNCHANGED <<disk, work, origin, foreign, behind>>

TypeKey(k) ==
  /\ At("idle")
  /\ window' = [window EXCEPT !.key = k]
  /\ UNCHANGED <<disk, work, history>>

TypeText(t) ==
  /\ At("idle")
  /\ window' = [window EXCEPT !.text = t]
  /\ UNCHANGED <<disk, work, history>>

Others(n, file) ==
  /\ disk[n] # file
  /\ disk' = [disk EXCEPT ![n] = file]
  /\ foreign' = foreign \union {n}
  /\ behind' = TRUE
  /\ UNCHANGED <<window, work, origin, drift>>

-----------------------------------------------------------------------------

(* build_gui, with the key it writes into the entry.                       *)
Blank(key) == [rows |-> {}, sel |-> None, buttons |-> FALSE,
               entry |-> Empty, key |-> key, text |-> Empty]

(* on_activate.  If the directory cannot be found the list is not loaded,  *)
(* and every later call looks for it again.                                *)
Activate ==
  /\ At("off")
  /\ \/ /\ window' = [window EXCEPT !.rows = Listed]
        /\ behind' = FALSE
     \/ Fault /\ UNCHANGED <<window, behind>>
  /\ work' = Idle
  /\ UNCHANGED <<disk, origin, drift, foreign>>

Init ==
  /\ disk = [n \in Valid |-> None]
  /\ \E key \in LegalKey : window = Blank(key)
  /\ work = [Idle EXCEPT !.pc = "off"]
  /\ origin = None /\ drift = FALSE /\ foreign = {} /\ behind = TRUE

Next ==
  \/ Activate \/ OnRefresh \/ RefreshAfterDelete \/ RefreshAfterSave
  \/ Open \/ New \/ AskDelete \/ Delete \/ DoNotDelete \/ Save
  \/ \E row \in window.rows \union {None} : Select(row)
  \/ \E n \in Name \union {Empty} : TypeName(n)
  \/ \E k \in Key \union {Empty} : TypeKey(k)
  \/ \E t \in Text \union {Empty} : TypeText(t)
  \/ \E n \in Valid : \E file \in File \union {None} : Others(n, file)

EditorSpec == Init /\ [][Next]_vars

-----------------------------------------------------------------------------
(* Properties.                                                             *)

(* Every variable stays in its type; a selected row is a row, and Open and *)
(* Delete work exactly while there is one.                                 *)
EditorTypeOK ==
  /\ disk \in [Valid -> File \union {None}]
  /\ window.rows \subseteq Valid \ Hidden
  /\ window.sel \in window.rows \union {None}
  /\ window.buttons = (window.sel # None)
  /\ window.entry \in Name \union {Empty} /\ window.key \in Key \union {Empty}
  /\ window.text \in Text \union {Empty}
  /\ work.pc \in {"off", "idle", "confirm", "deleted", "saved"}
  /\ origin \in [name : Valid, file : File] \union {None}

(* Unless the name was changed afterwards, by typing, by selecting a row   *)
(* or by a refresh, the entry names the file that the text comes from, and *)
(* is empty when the text comes from none.                                 *)
TextBelongs ==
  ~drift => window.entry = IF origin = None THEN Empty ELSE origin.name

(* What a save may replace: see SavesOverItsOwn.                           *)
SaveHitsOnly ==
  work'.pc = "saved" /\ At("idle") =>
    \A n \in Valid :
      disk'[n] # disk[n] /\ disk[n] # None =>
        /\ n = window.entry
        /\ drift \/ n \in foreign \/ origin = [name |-> n, file |-> disk[n]]

(* Open, edit, save: a save replaces no file but the one in the name       *)
(* entry, and one that the user did not see only if the name was changed   *)
(* since, or another process changed that file.                            *)
SavesOverItsOwn == [][SaveHitsOnly]_vars

(* The list is up to date whenever no handler is running: it lags behind   *)
(* only what others did and what a failed refresh missed.                  *)
RowsFresh == At("idle") /\ ~behind => window.rows = Listed

=============================================================================
