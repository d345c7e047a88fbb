---------------------------- MODULE UsbGuardView ----------------------------
(***************************************************************************)
(* What the window of bai_2/usb_guard_gui.cpp shows and acts on: the list  *)
(* of sticks, the selected row, the two access buttons, the log and the    *)
(* timer.  The one thread of the GUI, run by root, reads the kernel's list *)
(* and then looks every device up under /sys by its port; sticks come and  *)
(* go in between.  A stick has one disk, which stands for its partitions   *)
(* too.  The whitelist and the configuration file are in UsbGuardGui.      *)
(***************************************************************************)
EXTENDS Integers, Sequences, FiniteSets, SequencesExt

CONSTANTS
  Port,          \* devpaths
  Stick,
  Key, KeyOf(_), \* VID:PID and serial number; two sticks may share them
  Disk,          \* numbers of block devices, given again once they are free
  Policies,      \* what the configuration file may hold
  Fits,          \* bound: which stick is ever plugged into which port
  MaxPlugs,      \* bound: how often a stick is plugged in
  MaxChoices,    \* bound: how often an access button is clicked
  None

Mode == {"rw", "ro"}

(* A stick that is plugged in, and what the status says of one.            *)
Device == [stick : Stick, authorized : BOOLEAN, disk : Disk \union {None}, mode : Mode]
ActiveDevice == [port : Port, key : Key, authorized : BOOLEAN,
                 disk : Disk \union {None}, mode : Mode]

ASSUME ViewAssumption ==
  /\ IsFiniteSet(Port)
  /\ \A s \in Stick : KeyOf(s) \in Key
  /\ Fits \subseteq Port \X Stick
  /\ Disk \subseteq Nat /\ None \notin Disk
  /\ None \notin Mode \union Device \union ActiveDevice
  /\ Policies \subseteq [Key -> Mode \union {None}]

VARIABLES
  port,   \* what is plugged into each port, or None
  list,   \* usb_guard.ko: its list of active devices, or None if not loaded
  view,   \* GuiState: the status, the rows and what depends on them
  saved,  \* persistent_config.access_policies
  work,   \* where the thread is, and its locals
  timer,  \* the check button, and whether the timeout source exists
  said,   \* history: the devices that the log says are plugged in
  plugs, choices

world == <<port, list, plugs>>
vars == <<port, list, view, saved, work, timer, said, plugs, choices>>

Plugged == {p \in Port : port[p] # None}
FreeDisks == Disk \ {port[p].disk : p \in Plugged}

At(pc) == work.pc = pc
Idle == [pc |-> "idle", status |-> <<>>, i |-> 0, todo |-> {}, again |-> FALSE]

Blank == [status |-> <<>>, filled |-> FALSE, sel |-> 0, buttons |-> FALSE,
          first |-> TRUE, prev |-> {}]

(* selected_device_key: the devpath with VID:PID and serial number.        *)
RowKey(e) == <<e.port, e.key>>
Keys(status) == {RowKey(e) : e \in ToSet(status)}

(* ACTIVE_COL_INDEX of a row is its place in current_status, so row i is   *)
(* entry i; after a failed refresh the rows are gone and current_status is *)
(* still there.                                                            *)
Rows(v) == IF v.filled THEN Len(v.status) ELSE 0
Selected(v) == IF v.sel = 0 THEN None ELSE v.status[v.sel]
SelectedKey(v) == IF v.sel = 0 THEN None ELSE RowKey(v.status[v.sel])

Usable(e) == e # None /\ e.authorized /\ e.disk # None

(* update_access_action_buttons                                            *)
WithButtons(v) == [v EXCEPT !.buttons = Usable(Selected(v))]

-----------------------------------------------------------------------------
(* refresh_status_view                                                     *)

(* parse_status_text: what /sys will say is not known yet.                 *)
Entry(p) == [port |-> p, key |-> KeyOf(port[p].stick), authorized |-> TRUE,
             disk |-> None, mode |-> "rw"]

(* Faulty variant: the rows are removed without a signal.                  *)
NoRowsUnsignalled(v) == [v EXCEPT !.filled = FALSE, !.sel = 0]

(* Faulty variant: the selection is left where it is.                      *)
NoRowsStillSelected(v) == WithButtons([v EXCEPT !.filled = FALSE])

(* gtk_list_store_clear.  The selected row going away, the selection       *)
(* emits `changed`, and update_detail_text updates the buttons.            *)
NoRows(v) == WithButtons([v EXCEPT !.filled = FALSE, !.sel = 0])

(* load_status throws: current_status is kept, the rows are removed.       *)
FailRefresh ==
  /\ view' = NoRows(view)
  /\ work' = Idle
  /\ UNCHANGED <<world, saved, timer, said, choices>>

(* load_status asks first whether the status file exists ...               *)
FindList ==
  IF list = None THEN FailRefresh
  ELSE /\ work' = [work EXCEPT !.pc = "read"]
       /\ UNCHANGED <<world, view, saved, timer, said, choices>>

OnTimer == At("idle") /\ timer.source /\ FindList
OnRefreshButton == At("idle") /\ FindList

(* The first refresh, and one after access modes were set.                 *)
LoadList == At("list") /\ FindList

(* ... and then reads it; a file that is gone by now reads as empty.       *)
ReadList ==
  /\ At("read")
  /\ work' = [work EXCEPT !.pc = "enrich", !.i = 1,
       !.status = IF list = None THEN <<>> ELSE [k \in DOMAIN list |-> Entry(list[k])]]
  /\ UNCHANGED <<world, view, saved, timer, said, choices>>

(* enrich_authorization, find_usb_block_devices and collect_block_info, of *)
(* whatever is plugged into the port by now.  Without a device there is no *)
(* `authorized`, which counts as authorized.                               *)
Enriched(e) ==
  IF port[e.port] = None THEN e
  ELSE [e EXCEPT !.authorized = port[e.port].authorized,
                 !.disk = port[e.port].disk, !.mode = port[e.port].mode]

(* Faulty variant: the policy of the selected device.                      *)
DesiredOfSelected(e) == saved[IF view.sel = 0 THEN e.key ELSE Selected(view).key]

(* desired_access_mode_for_device                                          *)
Desired(e) == saved[e.key]

(* apply_saved_access_policies: the entries whose access mode is to be     *)
(* set; that is done in the order of the list.                             *)
Due(status) ==
  {i \in DOMAIN status :
     Usable(status[i]) /\ Desired(status[i]) \notin {None, status[i].mode}}

(* Faulty variant: the row number is kept.                                 *)
RowKept(status) ==
  IF status = <<>> THEN 0 ELSE IF view.sel \in DOMAIN status THEN view.sel ELSE 1

(* restore_active_selection, after the rows were made anew: the row of the *)
(* device that was selected, or else the first one.                        *)
RestoredRow(status) ==
  LET same == {i \in DOMAIN status : RowKey(status[i]) = SelectedKey(view)} IN
    IF status = <<>> THEN 0 ELSE IF same # {} THEN CHOOSE i \in same : TRUE ELSE 1

(* Faulty variant: a device that was seen once is remembered for ever.     *)
LabelsMerged(status) == view.prev \union Keys(status)

(* log_device_changes: the new previous_active_labels.                     *)
Labels(status) == Keys(status)

(* A line per device that is new and per device that is gone; the first    *)
(* refresh logs only how many there are.                                   *)
LogChanges(status) ==
  said' = IF view.first THEN Keys(status)
          ELSE (said \union (Keys(status) \ view.prev)) \ (view.prev \ Keys(status))

(* The access mode of an entry is only displayed from here on.             *)
Displayed(status) == [k \in DOMAIN status |-> [status[k] EXCEPT !.mode = "rw"]]

Show(status) ==
  /\ LogChanges(status)
  /\ LET sel == RestoredRow(status) IN
       view' = [status |-> Displayed(status), filled |-> TRUE, sel |-> sel,
                buttons |-> sel # 0 /\ Usable(status[sel]),
                first |-> FALSE, prev |-> Labels(status)]
  /\ work' = Idle

Loaded(status) ==
  IF work.again \/ Due(status) = {} THEN Show(status)
  ELSE /\ work' = [work EXCEPT !.pc = "apply", !.status = status, !.todo = Due(status)]
       /\ UNCHANGED <<view, said>>

(* One entry after the other; the last completes the status.               *)
Enrich ==
  /\ At("enrich")
  /\ IF work.i < Len(work.status)
     THEN /\ work' = [work EXCEPT !.i = @ + 1, !.status[work.i] = Enriched(@)]
          /\ UNCHANGED <<view, said>>
     ELSE Loaded([k \in DOMAIN work.status |->
                    IF k = work.i THEN Enriched(work.status[k]) ELSE work.status[k]])
  /\ UNCHANGED <<world, saved, timer, choices>>

-----------------------------------------------------------------------------
(* Setting access modes.                                                   *)

(* set_block_node_access: the disk that has this name by now, if any has.  *)
(* It may refuse; a stick of which only a part obeys counts as one that    *)
(* refuses.                                                                *)
SetDisk(disk, mode, obeyed) ==
  port' = [p \in Port |-> IF port[p] # None /\ port[p].disk = disk /\ obeyed
                          THEN [port[p] EXCEPT !.mode = mode] ELSE port[p]]

(* Once a disk or a mount has obeyed, the status is loaded again.          *)
AfterPolicies(again) ==
  IF again THEN /\ work' = [Idle EXCEPT !.pc = "list", !.again = TRUE]
                /\ UNCHANGED <<view, said>>
  ELSE Show(work.status)

ApplyPolicy ==
  /\ At("apply")
  /\ \E i \in work.todo, obeyed, remounted \in BOOLEAN :
       LET e == work.status[i]
           again == work.again \/ obeyed \/ remounted IN
       /\ \A k \in work.todo : i <= k
       /\ obeyed => \E p \in Plugged : port[p].disk = e.disk
       /\ SetDisk(e.disk, Desired(e), obeyed)
       /\ IF work.todo = {i} THEN AfterPolicies(again)
          ELSE /\ work' = [work EXCEPT !.todo = @ \ {i}, !.again = again]
               /\ UNCHANGED <<view, said>>
  /\ UNCHANGED <<list, saved, timer, plugs, choices>>

(* perform_access_mode_action on the selected device: the policy is saved, *)
(* the mode set, and the status loaded again.  If the file cannot be       *)
(* written, only the policy in memory has changed.                         *)
Choose(mode) ==
  /\ At("idle") /\ view.buttons /\ Selected(view) # None /\ choices < MaxChoices
  /\ saved' = [saved EXCEPT ![Selected(view).key] = mode]
  /\ \/ work' = [work EXCEPT !.pc = "act", !.status = view.status, !.todo = {view.sel}]
     \/ UNCHANGED work
  /\ choices' = choices + 1
  /\ UNCHANGED <<world, view, timer, said>>

Act ==
  /\ At("act")
  /\ \E i \in work.todo, obeyed \in BOOLEAN :
       SetDisk(work.status[i].disk, Desired(work.status[i]), obeyed)
  /\ work' = [Idle EXCEPT !.pc = "list"]
  /\ UNCHANGED <<list, view, saved, timer, said, plugs, choices>>

-----------------------------------------------------------------------------
(* The user.                                                               *)

(* on_active_selection_changed; a click with the control key unselects.    *)
Select(i) ==
  /\ At("idle") /\ i # view.sel
  /\ view' = WithButtons([view EXCEPT !.sel = i])
  /\ UNCHANGED <<world, saved, work, timer, said, choices>>

(* Faulty variant: the old source is removed and no new one made.          *)
RestartedWithout(on) == [on |-> on, source |-> FALSE]

(* restart_refresh_timer *)
Restarted(on) == [on |-> on, source |-> on]

(* on_auto_refresh_toggled and on_interval_changed                         *)
SetTimer(on) ==
  /\ At("idle")
  /\ timer' = Restarted(on)
  /\ UNCHANGED <<world, view, saved, work, said, choices>>

(* on_activate, with the access policies of the configuration file: the    *)
(* first refresh begins, and the timer cannot fire before it ends.         *)
Launch ==
  /\ At("off")
  /\ saved' \in Policies
  /\ work' = [Idle EXCEPT !.pc = "list"]
  /\ timer' = Restarted(TRUE)
  /\ UNCHANGED <<world, view, said, choices>>

-----------------------------------------------------------------------------
(* The sticks, the kernel and its module.                                  *)

(* The kernel module learns of a stick before its disk is there.  A disk   *)
(* gets the first name that is free.                                       *)
Plug(p, s) ==
  /\ port[p] = None /\ <<p, s>> \in Fits /\ plugs < MaxPlugs
  /\ \A q \in Plugged : port[q].stick # s
  /\ port' = [port EXCEPT ![p] = [stick |-> s, authorized |-> TRUE, disk |-> None, mode |-> "rw"]]
  /\ list' = IF list = None THEN None ELSE Append(list, p)
  /\ plugs' = plugs + 1
  /\ UNCHANGED <<view, saved, work, timer, said, choices>>

DiskUp(p) ==
  /\ p \in Plugged /\ port[p].authorized /\ port[p].disk = None
  /\ \E d \in FreeDisks :
       /\ \A e \in FreeDisks : d <= e
       /\ port' = [port EXCEPT ![p].disk = d, ![p].mode = "rw"]
  /\ UNCHANGED <<list, view, saved, work, timer, said, plugs, choices>>

Unplug(p) ==
  /\ p \in Plugged
  /\ port' = [port EXCEPT ![p] = None]
  /\ \/ list = None /\ UNCHANGED list
     \/ list # None /\ \E i \in DOMAIN list : list[i] = p /\ list' = RemoveAt(list, i)
  /\ UNCHANGED <<view, saved, work, timer, said, plugs, choices>>

(* usb_guard_block_workfn deauthorizes it, and its disk goes away.         *)
Block(p) ==
  /\ p \in Plugged /\ port[p].authorized /\ list # None
  /\ port' = [port EXCEPT ![p].authorized = FALSE, ![p].disk = None, ![p].mode = "rw"]
  /\ UNCHANGED <<list, view, saved, work, timer, said, plugs, choices>>

Rmmod ==
  /\ list # None
  /\ list' = None
  /\ UNCHANGED <<port, view, saved, work, timer, said, plugs, choices>>

(* The module lists what is plugged in, in the order of the bus.           *)
Insmod ==
  /\ list = None
  /\ list' \in SetToSeqs(Plugged)
  /\ UNCHANGED <<port, view, saved, work, timer, said, plugs, choices>>

-----------------------------------------------------------------------------

Init ==
  /\ port = [p \in Port |-> None] /\ list = <<>>
  /\ view = Blank
  /\ saved = [k \in Key |-> None]
  /\ work = [Idle EXCEPT !.pc = "off"]
  /\ timer = [on |-> FALSE, source |-> FALSE]
  /\ said = {}
  /\ plugs = 0 /\ choices = 0

Thread == LoadList \/ ReadList \/ Enrich \/ ApplyPolicy \/ Act

World ==
  \/ Rmmod \/ Insmod
  \/ \E p \in Port :
       \/ Unplug(p) \/ DiskUp(p) \/ Block(p)
       \/ \E s \in Stick : Plug(p, s)

Next ==
  \/ Thread \/ OnTimer \/ OnRefreshButton \/ Launch \/ World
  \/ \E m \in Mode : Choose(m)
  \/ \E i \in 0 .. Rows(view) : Select(i)
  \/ \E on \in BOOLEAN : SetTimer(on)

(* The thread runs, and the timeout comes round while its source exists.   *)
ViewSpec == Init /\ [][Next]_vars /\ WF_vars(Thread) /\ WF_vars(OnTimer)

-----------------------------------------------------------------------------
(* Properties.                                                             *)

(* Every variable stays in its type, and the selected row exists.          *)
ViewTypeOK ==
  /\ \A p \in Plugged : port[p].stick \in Stick /\ port[p].disk \in Disk \union {None}
  /\ list # None => IsInjective(list) /\ ToSet(list) = Plugged
  /\ view.sel \in 0 .. Rows(view)
  /\ saved \in [Key -> Mode \union {None}]
  /\ work.pc \in {"off", "idle", "list", "read", "enrich", "apply", "act"}

(* A refresh (reordered lists, reloaded modules, replaced sticks) never    *)
(* moves the selection off a device that is still listed at its port.      *)
SelectionKept ==
  [][work'.pc # work.pc /\ SelectedKey(view) # None
       /\ view'.filled /\ SelectedKey(view) \in Keys(view'.status)
     => SelectedKey(view') = SelectedKey(view)]_vars

(* The access buttons work exactly while the selected row is a device that *)
(* the status shows authorized and with a disk, also after the module went *)
(* away and the list was emptied.                                          *)
ButtonsRight == view.buttons <=> Usable(Selected(view))

True(e) == port[e.port] # None /\ e.key = KeyOf(port[e.port].stick) /\ e.disk = port[e.port].disk

(* A disk that the status in use shows as it is, and no other entry of it  *)
(* names by mistake, gets only the access mode that was chosen for its own *)
(* stick, or for one with the same VID:PID and serial number.              *)
WrittenAsChosen ==
  [][\A p \in Plugged :
       At("act") \/ At("apply") =>
         LET about == {e \in ToSet(work.status) : e.disk = port[p].disk} IN
           about # {} /\ (\A e \in about : True(e)) /\ port[p].disk # None
             /\ port'[p] # None /\ port'[p].disk = port[p].disk /\ port'[p].mode # port[p].mode
           => port'[p].mode = saved[KeyOf(port[p].stick)]]_vars

(* The lines of the log, the first one standing for the devices that were  *)
(* shown then, add up to the devices of the status that was shown last.    *)
LogFollows == ~view.first => said = Keys(view.status)

Shown(p) == view.filled /\ <<p, KeyOf(port[p].stick)>> \in Keys(view.status)

(* A stick that stays plugged in is shown in the end, while the timer is   *)
(* on and the module loaded.                                               *)
EventuallyShown ==
  \A p \in Port :
    (p \in Plugged /\ ~At("off")) ~> (p \notin Plugged \/ Shown(p) \/ list = None \/ ~timer.on)

=============================================================================
