---------------------------- MODULE UsbGuardGui ----------------------------
(***************************************************************************)
(* How bai_2/usb_guard_gui.cpp keeps three things in step: the whitelist   *)
(* of the kernel module, the access modes of the sticks, and its           *)
(* configuration file.  The GUI is one thread run by root; each file       *)
(* operation it makes is an action, so that the kernel, the user of the    *)
(* sticks and other root processes can act in between.  Without root the   *)
(* GUI changes nothing.                                                    *)
(***************************************************************************)
EXTENDS Integers, FiniteSets

CONSTANTS
  Entry,       \* what may be typed as a rule, or be found in a saved list
  Rule,        \* the entries the kernel accepts
  Tokens(_),   \* the entries a rule falls into when its text is cut at commas
  Param,       \* the rules insmod may be given
  MaxRules,    \* USB_GUARD_MAX_WHITELIST
  Stick,       \* the USB sticks
  Trusting(_), \* the rules that cover a stick
  Key, KeyOf(_), \* what an access policy is stored under: VID:PID[:SERIAL]
  Fault,       \* "others", "reload", "kill", "open", "write", "flush", "access"
  Nothing      \* no file, no action

Mode == {"rw", "ro"}

(* "out": not plugged in; "blocked": deauthorized, without block devices;  *)
(* "mixed": some block nodes are read-only and some are not.               *)
StickState == {"out", "blocked", "mixed"} \union Mode
Usable == {"mixed"} \union Mode

Access == [Key -> Mode \union {Nothing}]
Config == [rules : SUBSET Entry, access : Access]
EmptyConfig == [rules |-> {}, access |-> [k \in Key |-> Nothing]]

(* An action of the user, while the GUI is at it: what is left to do of an *)
(* addition or a removal does not depend on the rule.                      *)
RuleAction == [kind : {"rules"}]
AccessAction == [kind : {"access"}, stick : Stick, mode : Mode]

ASSUME GuiAssumption ==
  /\ IsFiniteSet(Entry) /\ MaxRules \in Nat
  /\ Rule \subseteq Entry /\ \A r \in Rule : Tokens(r) \subseteq Entry
  /\ Param \subseteq SUBSET Rule /\ \A p \in Param : Cardinality(p) <= MaxRules
  /\ \A s \in Stick : Trusting(s) \subseteq Rule /\ KeyOf(s) \in Key
  /\ Fault \subseteq {"others", "reload", "kill", "open", "write", "flush", "access"}
  /\ Nothing \notin Config \union Mode \union RuleAction \union AccessAction

VARIABLES
  kernel,  \* usb_guard.ko: loaded, and its whitelist
  usb,     \* the state of every stick
  file,    \* the configuration file, or Nothing
  gui,     \* GuiState, and where its thread is
  meddled  \* history: since the launch somebody else changed the whitelist

vars == <<kernel, usb, file, gui, meddled>>

NoStatus == [rules |-> {}, usb |-> [s \in Stick |-> "out"]]

(* What is kept of a status: its rules, and the sticks whose access        *)
(* buttons work, being authorized and having block devices.                *)
Current(status) == [rules |-> status.rules,
                    sticks |-> {s \in Stick : status.usb[s] \in Usable}]

Fresh == [pc |-> "status", action |-> Nothing, present |-> FALSE,
          attempted |-> FALSE, config |-> EmptyConfig, seen |-> Current(NoStatus),
          status |-> NoStatus, todo |-> {}, changed |-> FALSE, reported |-> FALSE]
Off == [Fresh EXCEPT !.pc = "off"]

At(pc) == gui.pc = pc

(* load_status: the rules are cut at every comma.                          *)
Snapshot == [rules |-> UNION {Tokens(r) : r \in kernel.rules}, usb |-> usb]

(* Faulty variant: a rule is stored unparsed.                              *)
AddedUnparsed(rules, e) ==
  IF Cardinality(rules) < MaxRules THEN rules \union {e} ELSE rules

(* What the control file does with `add` and `remove`.  The write is       *)
(* flushed when the stream is destroyed, so its error is never seen.       *)
Added(rules, e) ==
  IF e \in Rule /\ Cardinality(rules) < MaxRules THEN rules \union {e} ELSE rules
Removed(rules, e) == rules \ {e}

SetRules(rules) == kernel' = [kernel EXCEPT !.rules = rules]

-----------------------------------------------------------------------------
(* refresh_status_view, called by the timer, a button or an action.        *)

Rest(g) == [g EXCEPT !.pc = "idle", !.action = Nothing]

(* It returns, having failed or not, and its locals are gone.              *)
Returned(g) ==
  LET h == [g EXCEPT !.status = NoStatus, !.todo = {}, !.changed = FALSE] IN
    IF g.action # Nothing /\ g.action.kind = "rules"
    THEN [h EXCEPT !.pc = "persist"] ELSE Rest(h)

(* An exception is swallowed: the old status stays, but the rows go, and   *)
(* no stick can be chosen until a refresh succeeds.                        *)
FailRefresh ==
  /\ ~kernel.loaded
  /\ gui' = Returned([gui EXCEPT !.seen.sticks = {}])
  /\ UNCHANGED <<kernel, usb, file, meddled>>

(* load_status asks first whether the status file exists.                  *)
FindStatus ==
  /\ kernel.loaded
  /\ \/ At("status") /\ gui' = [gui EXCEPT !.pc = "read"]
     \/ At("reload") /\ gui' = [gui EXCEPT !.pc = "reread"]
  /\ UNCHANGED <<kernel, usb, file, meddled>>

(* Then it reads it, and a file that is gone by now reads as empty.        *)
StatusRead == IF kernel.loaded THEN Snapshot ELSE NoStatus

Desired(s) == gui.config.access[KeyOf(s)]

(* Faulty variant: only the sticks that the last status did not have.      *)
ToApplyNew(status) ==
  {s \in Current(status).sticks \ gui.seen.sticks :
     Desired(s) \notin {Nothing, status.usb[s]}}

(* apply_saved_access_policies looks at the sticks of the status.          *)
ToApply(status) ==
  {s \in Current(status).sticks : Desired(s) \notin {Nothing, status.usb[s]}}

Shown(g, status) == Returned([g EXCEPT !.seen = Current(status)])

WithStatus(g, status) ==
  IF ToApply(status) = {} THEN Shown(g, status)
  ELSE [g EXCEPT !.status = status, !.pc = "apply", !.todo = ToApply(status)]

SyncNeeded == gui.present /\ ~gui.attempted

(* The first time a file is known, the kernel's list is replaced by the    *)
(* saved one if they differ.                                               *)
LoadStatus ==
  /\ At("read")
  /\ gui' = IF SyncNeeded /\ gui.config.rules # StatusRead.rules
            THEN [gui EXCEPT !.attempted = TRUE, !.pc = "clear"]
            ELSE [WithStatus(gui, StatusRead) EXCEPT !.attempted = @ \/ SyncNeeded]
  /\ UNCHANGED <<kernel, usb, file, meddled>>

(* Faulty variant: the saved rules are added to what is there.             *)
SyncClearSkipped ==
  /\ At("clear") /\ kernel.loaded
  /\ gui' = [gui EXCEPT !.pc = IF gui.config.rules = {} THEN "status" ELSE "adding",
                        !.todo = gui.config.rules]
  /\ UNCHANGED <<kernel, usb, file, meddled>>

SyncClear ==
  /\ At("clear") /\ kernel.loaded
  /\ SetRules({})
  /\ gui' = [gui EXCEPT !.pc = IF gui.config.rules = {} THEN "status" ELSE "adding",
                        !.todo = gui.config.rules]
  /\ UNCHANGED <<usb, file, meddled>>

SyncAdd ==
  /\ At("adding") /\ kernel.loaded
  /\ \E e \in gui.todo :
       /\ SetRules(Added(kernel.rules, e))
       /\ gui' = [gui EXCEPT !.todo = @ \ {e},
                             !.pc = IF gui.todo = {e} THEN "status" ELSE "adding"]
  /\ UNCHANGED <<usb, file, meddled>>

(* apply_access_mode_to_device: how it leaves the stick, and whether any   *)
(* node or mount obeyed.  Its block nodes may be gone by now, or a part of *)
(* them refuse; what is still mounted may be remounted all the same.       *)
Outcome(s, mode) ==
  IF usb[s] \notin Usable THEN {usb[s]} \X BOOLEAN
  ELSE {<<mode, TRUE>>} \union
       (IF "access" \in Fault THEN {<<"mixed", TRUE>>} \union ({usb[s]} \X BOOLEAN) ELSE {})

ApplyPolicy ==
  /\ At("apply")
  /\ \E s \in gui.todo : \E outcome \in Outcome(s, Desired(s)) :
       LET changed == gui.changed \/ outcome[2] IN
       /\ usb' = [usb EXCEPT ![s] = outcome[1]]
       /\ gui' = IF gui.todo # {s}
                 THEN [gui EXCEPT !.todo = @ \ {s}, !.changed = changed]
                 ELSE IF changed THEN [gui EXCEPT !.todo = {}, !.pc = "reload"]
                 ELSE Shown(gui, gui.status)
  /\ UNCHANGED <<kernel, file, meddled>>

Reload ==
  /\ At("reread")
  /\ gui' = Shown(gui, StatusRead)
  /\ UNCHANGED <<kernel, usb, file, meddled>>

Refresh ==
  \/ FindStatus \/ LoadStatus \/ SyncClear \/ SyncAdd \/ ApplyPolicy \/ Reload
  \/ (gui.pc \in {"status", "clear", "adding", "reload"} /\ FailRefresh)

-----------------------------------------------------------------------------
(* What the user does.                                                     *)

(* Faulty variant: that the file cannot be opened is ignored.              *)
OpenFileUnchecked(g) ==
  \/ /\ file' = EmptyConfig
     /\ gui' = [g EXCEPT !.pc = "saving"]
  \/ /\ "open" \in Fault
     /\ gui' = [Rest(g) EXCEPT !.present = TRUE, !.reported = TRUE]
     /\ UNCHANGED file

(* save_persistent_config_or_throw: opening the file empties it.           *)
OpenFile(g) ==
  \/ /\ file' = EmptyConfig
     /\ gui' = [g EXCEPT !.pc = "saving"]
  \/ /\ "open" \in Fault
     /\ gui' = Rest(g)
     /\ UNCHANGED file

AfterSave(g) ==
  IF g.action.kind = "access" THEN [g EXCEPT !.pc = "change", !.present = TRUE]
  ELSE [Rest(g) EXCEPT !.present = TRUE, !.reported = TRUE]

(* The rules are written first, then the modes; a line that is cut off in  *)
(* the middle counts as one that is not there.                             *)
Partial ==
  [rules : SUBSET gui.config.rules, access : {EmptyConfig.access}] \union
  [rules : {gui.config.rules},
   access : {a \in Access : \A k \in Key : a[k] \in {Nothing, gui.config.access[k]}}]

(* An error is seen if the text is too long for the buffer of the stream;  *)
(* one of the last flush, by the destructor, never is.                     *)
WriteFile ==
  /\ At("saving")
  /\ \/ file' = gui.config /\ gui' = AfterSave(gui)
     \/ "flush" \in Fault /\ file' \in Partial /\ gui' = AfterSave(gui)
     \/ "write" \in Fault /\ file' \in Partial /\ gui' = Rest(gui)
  /\ UNCHANGED <<kernel, usb, meddled>>

(* on_add_whitelist_clicked and on_remove_whitelist_clicked, after the     *)
(* dialog: the command, then a refresh.                                    *)
Tell(kind, e) ==
  /\ At("idle")
  /\ IF kernel.loaded
     THEN /\ SetRules(IF kind = "add" THEN Added(kernel.rules, e)
                                      ELSE Removed(kernel.rules, e))
          /\ gui' = [gui EXCEPT !.pc = "status", !.reported = FALSE,
                                !.action = [kind |-> "rules"]]
     ELSE gui' = [gui EXCEPT !.reported = FALSE] /\ UNCHANGED kernel
  /\ UNCHANGED <<usb, file, meddled>>

(* Then the list of the status that is shown becomes the saved one.        *)
Persist ==
  /\ At("persist")
  /\ OpenFile([gui EXCEPT !.config.rules = gui.seen.rules])
  /\ UNCHANGED <<kernel, usb, meddled>>

(* perform_access_mode_action on the selected stick.                       *)
Choose(s, mode) ==
  /\ At("idle") /\ s \in gui.seen.sticks
  /\ OpenFile([gui EXCEPT !.reported = FALSE, !.config.access[KeyOf(s)] = mode,
                    !.action = [kind |-> "access", stick |-> s, mode |-> mode]])
  /\ UNCHANGED <<kernel, usb, meddled>>

ChangeMode ==
  /\ At("change")
  /\ \E outcome \in Outcome(gui.action.stick, gui.action.mode) :
       usb' = [usb EXCEPT ![gui.action.stick] = outcome[1]]
  /\ gui' = [gui EXCEPT !.pc = "status", !.reported = TRUE]
  /\ UNCHANGED <<kernel, file, meddled>>

(* The timer, or the refresh button.                                       *)
StartRefresh ==
  /\ At("idle")
  /\ gui' = [gui EXCEPT !.pc = "status", !.reported = FALSE]
  /\ UNCHANGED <<kernel, usb, file, meddled>>

(* The first refresh begins by loading the file, which nobody else writes. *)
Launch ==
  /\ At("off")
  /\ gui' = [Fresh EXCEPT !.present = file # Nothing,
                          !.config = IF file = Nothing THEN EmptyConfig ELSE file]
  /\ meddled' = FALSE
  /\ UNCHANGED <<kernel, usb, file>>

(* The window is closed, or the process is killed.                         *)
Quit ==
  /\ At("idle") \/ ("kill" \in Fault /\ ~At("off"))
  /\ gui' = Off
  /\ UNCHANGED <<kernel, usb, file, meddled>>

-----------------------------------------------------------------------------
(* The others.                                                             *)

Plug(s) ==
  /\ usb[s] = "out"
  /\ usb' = [usb EXCEPT ![s] = "rw"]
  /\ UNCHANGED <<kernel, file, gui, meddled>>

Unplug(s) ==
  /\ usb[s] # "out"
  /\ usb' = [usb EXCEPT ![s] = "out"]
  /\ UNCHANGED <<kernel, file, gui, meddled>>

(* The kernel module deauthorizes a stick that no rule covers.             *)
Block(s) ==
  /\ kernel.loaded /\ kernel.rules # {} /\ kernel.rules \cap Trusting(s) = {}
  /\ usb[s] \in Usable
  /\ usb' = [usb EXCEPT ![s] = "blocked"]
  /\ UNCHANGED <<kernel, file, gui, meddled>>

(* Another root process writes to the control file.                        *)
OtherCommand ==
  /\ "others" \in Fault /\ kernel.loaded
  /\ \E e \in Rule : \E rules \in {Added(kernel.rules, e), Removed(kernel.rules, e), {}} :
       rules # kernel.rules /\ SetRules(rules)
  /\ meddled' = TRUE
  /\ UNCHANGED <<usb, file, gui>>

Insmod ==
  /\ "reload" \in Fault /\ ~kernel.loaded
  /\ \E p \in Param : kernel' = [loaded |-> TRUE, rules |-> p]
  /\ meddled' = TRUE
  /\ UNCHANGED <<usb, file, gui>>

Rmmod ==
  /\ "reload" \in Fault /\ kernel.loaded
  /\ kernel' = [loaded |-> FALSE, rules |-> {}]
  /\ meddled' = TRUE
  /\ UNCHANGED <<usb, file, gui>>

-----------------------------------------------------------------------------

Init ==
  /\ \E p \in Param : kernel = [loaded |-> TRUE, rules |-> p]
  /\ usb = [s \in Stick |-> "out"]
  /\ file = Nothing
  /\ gui = Off
  /\ meddled = FALSE

Thread == Refresh \/ Persist \/ WriteFile \/ ChangeMode

Next ==
  \/ Thread \/ StartRefresh \/ Launch \/ Quit \/ OtherCommand \/ Insmod \/ Rmmod
  \/ \E e \in Entry : Tell("add", e) \/ Tell("remove", e)
  \/ \E s \in Stick : Plug(s) \/ Unplug(s) \/ Block(s) \/ \E m \in Mode : Choose(s, m)

(* The GUI's thread runs, and its timer, which is on unless the user       *)
(* switches it off, comes round however often the user clicks: the main    *)
(* loop dispatches a timeout that is due along with the events.            *)
Spec == Init /\ [][Next]_vars /\ WF_vars(Thread) /\ SF_vars(StartRefresh)

-----------------------------------------------------------------------------
(* Properties.                                                             *)

(* Every variable stays in its type; the module never holds more rules     *)
(* than it has room for.                                                   *)
GuiTypeOK ==
  /\ kernel \in [loaded : BOOLEAN, rules : SUBSET Rule]
  /\ Cardinality(kernel.rules) <= MaxRules
  /\ usb \in [Stick -> StickState]
  /\ file \in Config \union {Nothing}
  /\ meddled \in BOOLEAN
  /\ gui.pc \in {"off", "status", "read", "clear", "adding", "apply", "reload", "reread",
                 "idle", "persist", "saving", "change"}
  /\ gui.config \in Config
  /\ gui.todo \subseteq Entry \/ gui.todo \subseteq Stick
  /\ gui.seen \in [rules : SUBSET Entry, sticks : SUBSET Stick]
  /\ gui.status \in [rules : SUBSET Entry, usb : [Stick -> StickState]]

(* The saved rules are ones the kernel can be given back.                  *)
Expressible ==
  /\ gui.config.rules \subseteq Rule /\ Cardinality(gui.config.rules) <= MaxRules
  /\ \A r \in gui.config.rules : Tokens(r) = {r}

(* Once the saved list has been synchronized, the list in the kernel and   *)
(* the list the GUI saves are the same whenever the GUI rests, through any *)
(* additions, removals, rejected rules and access changes, until somebody  *)
(* else changes the kernel's.                                              *)
InStep ==
  At("idle") /\ gui.attempted /\ Expressible /\ ~meddled => gui.config.rules = Snapshot.rules

(* When the GUI says that an action succeeded, what it saved is on disk in *)
(* full (errors of the final flush excepted).                              *)
SavedWhenReported ==
  At("idle") /\ gui.reported => gui.present /\ file = gui.config

(* A stick with a saved access mode gets it, also when it is plugged in    *)
(* again, unless it is gone or blocked by then, the policy changes, the    *)
(* module is unloaded or the GUI is closed.                                *)
PolicyReapplied ==
  \A s \in Stick : \A m \in Mode :
    (usb[s] \in Usable /\ gui.pc # "off" /\ Desired(s) = m) ~>
      (usb[s] \in {m, "out", "blocked"} \/ gui.pc = "off" \/ Desired(s) # m
        \/ ~kernel.loaded)

(* Choosing an access mode for one stick leaves the whitelist, which       *)
(* concerns every other stick, alone.                                      *)
AccessActionKeepsWhitelist ==
  [][gui.action # Nothing /\ gui.action.kind = "access" /\ gui' # gui
       => kernel'.rules = kernel.rules]_vars

=============================================================================
