-------------------------- MODULE UsbGuardGuiProofs --------------------------
(* Theorems about UsbGuardGui, for every set of rules, sticks and faults.  *)
EXTENDS UsbGuardGui, FiniteSetTheorems, TLAPS

USE GuiAssumption

-----------------------------------------------------------------------------
(* The thread's state.                                                     *)

Seen == [rules : SUBSET Entry, sticks : SUBSET Stick]
Status == [rules : SUBSET Entry, usb : [Stick -> StickState]]

GuiState ==
  [pc : {"off", "status", "read", "clear", "adding", "apply", "reload", "reread",
         "idle", "persist", "saving", "change"},
   action : RuleAction \union AccessAction \union {Nothing},
   present : BOOLEAN, attempted : BOOLEAN, config : Config, seen : Seen, status : Status,
   todo : (SUBSET Entry) \union (SUBSET Stick), changed : BOOLEAN, reported : BOOLEAN]

(* What the thread is at fits the place where it is.                       *)
ThreadShape ==
  /\ gui.pc = "saving" => gui.action # Nothing
  /\ gui.pc = "persist" => gui.action \in RuleAction
  /\ gui.pc = "change" => gui.action \in AccessAction
  /\ gui.pc = "adding" => gui.todo \subseteq Entry
  /\ gui.pc = "apply" => gui.todo \subseteq Stick /\ \A s \in gui.todo : Desired(s) # Nothing

(* A status file that was found is read in the loaded module, unless       *)
(* somebody has unloaded it since.                                         *)
ReadShape == gui.pc \in {"read", "reread"} /\ ~meddled => kernel.loaded

TypeInv == GuiTypeOK /\ gui \in GuiState /\ ThreadShape

(* What a refresh leaves alone.                                            *)
Same(g, h) ==
  /\ h.present = g.present /\ h.attempted = g.attempted
  /\ h.config = g.config /\ h.reported = g.reported

(* Where a refresh ends: an addition or a removal still has to be saved.   *)
Ended(g, h) ==
  \/ h.pc = "persist" /\ g.action \in RuleAction /\ h.action = g.action
  \/ h.pc = "idle" /\ g.action \notin RuleAction /\ h.action = Nothing

LEMMA KindOfAction ==
  ASSUME NEW g \in GuiState
  PROVE  /\ g.action # Nothing /\ g.action.kind = "rules" <=> g.action \in RuleAction
         /\ g.action # Nothing /\ g.action.kind = "access" <=> g.action \in AccessAction
  BY DEF GuiState, RuleAction, AccessAction

LEMMA StatusTyped == NoStatus \in Status /\ EmptyConfig \in Config
  BY DEF NoStatus, Status, StickState, EmptyConfig, Config, Access

LEMMA CurrentTyped ==
  ASSUME NEW status \in Status
  PROVE  Current(status) \in Seen /\ Current(status).rules = status.rules
  BY DEF Current, Status, Seen

LEMMA SnapshotTyped ==
  ASSUME TypeInv
  PROVE  /\ Snapshot \in Status /\ StatusRead \in Status /\ Snapshot.usb = usb
         /\ kernel.loaded => StatusRead = Snapshot
         /\ Snapshot.rules = UNION {Tokens(r) : r \in kernel.rules}
<1>1. kernel.rules \subseteq Rule /\ usb \in [Stick -> StickState]
  BY DEF TypeInv, GuiTypeOK
<1>2. UNION {Tokens(r) : r \in kernel.rules} \subseteq Entry
  BY <1>1
<1> QED
  BY <1>1, <1>2, StatusTyped DEF Snapshot, StatusRead, Status

LEMMA RestFacts ==
  ASSUME NEW g \in GuiState
  PROVE  /\ Rest(g) \in GuiState /\ Same(g, Rest(g)) /\ Rest(g).pc = "idle"
         /\ Rest(g).action = Nothing /\ Rest(g).seen = g.seen
  BY DEF Rest, GuiState, Same

LEMMA ReturnedFacts ==
  ASSUME NEW g \in GuiState
  PROVE  /\ Returned(g) \in GuiState /\ Same(g, Returned(g)) /\ Ended(g, Returned(g))
         /\ Returned(g).seen = g.seen
<1> DEFINE h == [g EXCEPT !.status = NoStatus, !.todo = {}, !.changed = FALSE]
<1>1. /\ h \in GuiState /\ Same(g, h) /\ h.action = g.action /\ h.seen = g.seen
  BY StatusTyped DEF GuiState, Same
<1>2. Returned(g) = IF g.action # Nothing /\ g.action.kind = "rules"
                    THEN [h EXCEPT !.pc = "persist"] ELSE Rest(h)
  BY DEF Returned
<1>3. CASE g.action \in RuleAction
  <2> DEFINE k == [h EXCEPT !.pc = "persist"]
  <2> HIDE DEF h
  <2>1. /\ k \in GuiState /\ Same(h, k) /\ k.action = h.action /\ k.seen = h.seen
        /\ k.pc = "persist"
    BY <1>1 DEF GuiState, Same
  <2>2. Returned(g) = k
    BY <1>2, <1>3, KindOfAction
  <2> HIDE DEF k
  <2> QED
    BY <1>1, <1>3, <2>1, <2>2 DEF Same, Ended
<1>4. CASE g.action \notin RuleAction
  <2> HIDE DEF h
  <2>1. Returned(g) = Rest(h)
    BY <1>2, <1>4, KindOfAction
  <2> QED
    BY <1>1, <1>4, <2>1, RestFacts DEF Same, Ended
<1> QED
  BY <1>3, <1>4

LEMMA ShownFacts ==
  ASSUME NEW g \in GuiState, NEW status \in Status
  PROVE  /\ Shown(g, status) \in GuiState /\ Same(g, Shown(g, status))
         /\ Ended(g, Shown(g, status)) /\ Shown(g, status).seen.rules = status.rules
<1> DEFINE h == [g EXCEPT !.seen = Current(status)]
<1>1. h \in GuiState /\ Same(g, h) /\ h.action = g.action /\ h.seen = Current(status)
  BY CurrentTyped DEF GuiState, Same
<1>2. Shown(g, status) = Returned(h)
  BY DEF Shown
<1> HIDE DEF h
<1> QED
  BY <1>1, <1>2, ReturnedFacts, CurrentTyped DEF Same, Ended

(* A status was loaded: it is shown, or access modes have to be set first. *)
LEMMA WithStatusFacts ==
  ASSUME gui \in GuiState, NEW status \in Status
  PROVE  LET h == WithStatus(gui, status) IN
         /\ h \in GuiState /\ Same(gui, h)
         /\ \/ Ended(gui, h) /\ h.seen.rules = status.rules
            \/ /\ h.pc = "apply" /\ h.status = status /\ h.todo = ToApply(status)
               /\ h.action = gui.action
<1>1. CASE ToApply(status) = {}
  BY <1>1, ShownFacts DEF WithStatus
<1>2. CASE ToApply(status) # {}
  <2> DEFINE h == [gui EXCEPT !.status = status, !.pc = "apply", !.todo = ToApply(status)]
  <2>1. ToApply(status) \subseteq Stick
    BY DEF ToApply, Current
  <2>2. /\ h \in GuiState /\ Same(gui, h) /\ h.pc = "apply" /\ h.status = status
        /\ h.todo = ToApply(status) /\ h.action = gui.action
    BY <2>1 DEF GuiState, Same
  <2>3. WithStatus(gui, status) = h
    BY <1>2 DEF WithStatus
  <2> HIDE DEF h
  <2> QED
    BY <2>2, <2>3
<1> QED
  BY <1>1, <1>2

(* The refresh in steps.                                                   *)
LEMMA FailRefreshFacts ==
  ASSUME gui \in GuiState, FailRefresh
  PROVE  /\ gui' \in GuiState /\ Same(gui, gui') /\ Ended(gui, gui')
<1> DEFINE seen == [gui.seen EXCEPT !.sticks = {}]
           h == [gui EXCEPT !.seen = seen]
<1>1. seen \in Seen
  BY DEF GuiState, Seen
<1>2. gui' = Returned(h)
  BY DEF FailRefresh, GuiState
<1> HIDE DEF seen
<1>3. h \in GuiState /\ Same(gui, h) /\ h.action = gui.action
  BY <1>1 DEF GuiState, Same
<1> HIDE DEF h
<1> QED
  BY <1>2, <1>3, ReturnedFacts DEF Same, Ended

LEMMA FindStatusFacts ==
  ASSUME gui \in GuiState, FindStatus
  PROVE  /\ gui' \in GuiState /\ Same(gui, gui') /\ gui'.action = gui.action
         /\ \/ gui.pc = "status" /\ gui'.pc = "read"
            \/ gui.pc = "reload" /\ gui'.pc = "reread"
  BY DEF FindStatus, At, GuiState, Same

LEMMA LoadStatusFacts ==
  ASSUME TypeInv, LoadStatus
  PROVE  /\ gui' \in GuiState
         /\ gui'.present = gui.present /\ gui'.config = gui.config /\ gui'.reported = gui.reported
         /\ gui.attempted => gui'.attempted
         /\ \/ gui'.pc = "clear" /\ gui'.action = gui.action
            \/ /\ gui'.attempted => gui.attempted \/ gui.config.rules = StatusRead.rules
               /\ \/ Ended(gui, gui') /\ gui'.seen.rules = StatusRead.rules
                  \/ /\ gui'.pc = "apply" /\ gui'.status = StatusRead
                     /\ gui'.todo = ToApply(StatusRead) /\ gui'.action = gui.action
<1>1. gui \in GuiState /\ StatusRead \in Status
  BY SnapshotTyped DEF TypeInv
<1>2. CASE SyncNeeded /\ gui.config.rules # StatusRead.rules
  <2>1. gui' = [gui EXCEPT !.attempted = TRUE, !.pc = "clear"]
    BY <1>2 DEF LoadStatus
  <2> QED
    BY <1>1, <2>1 DEF GuiState
<1>3. CASE ~(SyncNeeded /\ gui.config.rules # StatusRead.rules)
  <2> DEFINE h == WithStatus(gui, StatusRead)
             a == h.attempted \/ SyncNeeded
  <2>1. gui' = [h EXCEPT !.attempted = a]
    BY <1>3 DEF LoadStatus
  <2>2. /\ h \in GuiState /\ Same(gui, h)
        /\ \/ Ended(gui, h) /\ h.seen.rules = StatusRead.rules
           \/ /\ h.pc = "apply" /\ h.status = StatusRead /\ h.todo = ToApply(StatusRead)
              /\ h.action = gui.action
    BY <1>1, WithStatusFacts
  <2> HIDE DEF h
  <2>3. a \in BOOLEAN /\ (gui.attempted => a)
        /\ (a => gui.attempted \/ gui.config.rules = StatusRead.rules)
    BY <1>1, <1>3, <2>2 DEF Same, SyncNeeded, GuiState
  <2> HIDE DEF a
  <2>4. /\ gui' \in GuiState /\ gui'.attempted = a
        /\ gui'.present = h.present /\ gui'.config = h.config /\ gui'.reported = h.reported
        /\ gui'.pc = h.pc /\ gui'.action = h.action /\ gui'.seen = h.seen
        /\ gui'.status = h.status /\ gui'.todo = h.todo
    BY <2>1, <2>2, <2>3 DEF GuiState
  <2> QED
    BY <2>2, <2>3, <2>4 DEF Same, Ended
<1> QED
  BY <1>2, <1>3

LEMMA OutcomeTyped ==
  ASSUME usb \in [Stick -> StickState], NEW s \in Stick, NEW mode \in Mode,
         NEW outcome \in Outcome(s, mode)
  PROVE  outcome[1] \in StickState /\ outcome[2] \in BOOLEAN
<1>1. usb[s] \in StickState /\ mode \in StickState /\ "mixed" \in StickState
  BY DEF StickState
<1>2. \/ outcome \in {usb[s]} \X BOOLEAN
      \/ outcome = <<mode, TRUE>>
      \/ outcome = <<"mixed", TRUE>>
  BY DEF Outcome
<1>3. CASE outcome \in {usb[s]} \X BOOLEAN
  BY <1>1, <1>3
<1>4. CASE outcome = <<mode, TRUE>>
  BY <1>1, <1>4
<1>5. CASE outcome = <<"mixed", TRUE>>
  BY <1>1, <1>5
<1> QED
  BY <1>2, <1>3, <1>4, <1>5

LEMMA ApplyPolicyFacts ==
  ASSUME TypeInv, ApplyPolicy
  PROVE  /\ gui' \in GuiState /\ Same(gui, gui') /\ usb' \in [Stick -> StickState]
         /\ \/ /\ gui'.pc = "apply" /\ gui'.status = gui.status /\ gui'.todo \subseteq gui.todo
               /\ gui'.action = gui.action
            \/ gui'.pc = "reload" /\ gui'.action = gui.action
            \/ Ended(gui, gui') /\ gui'.seen.rules = gui.status.rules
<1>1. /\ gui \in GuiState /\ usb \in [Stick -> StickState] /\ gui.status \in Status
      /\ gui.todo \subseteq Stick /\ \A s \in gui.todo : Desired(s) # Nothing
  BY DEF TypeInv, GuiTypeOK, GuiState, ThreadShape, ApplyPolicy, At
<1>2. PICK s \in gui.todo : \E outcome \in Outcome(s, Desired(s)) :
        LET changed == gui.changed \/ outcome[2] IN
        /\ usb' = [usb EXCEPT ![s] = outcome[1]]
        /\ gui' = IF gui.todo # {s}
                  THEN [gui EXCEPT !.todo = @ \ {s}, !.changed = changed]
                  ELSE IF changed THEN [gui EXCEPT !.todo = {}, !.pc = "reload"]
                  ELSE Shown(gui, gui.status)
  BY DEF ApplyPolicy
<1>3. PICK outcome \in Outcome(s, Desired(s)) :
        LET changed == gui.changed \/ outcome[2] IN
        /\ usb' = [usb EXCEPT ![s] = outcome[1]]
        /\ gui' = IF gui.todo # {s}
                  THEN [gui EXCEPT !.todo = @ \ {s}, !.changed = changed]
                  ELSE IF changed THEN [gui EXCEPT !.todo = {}, !.pc = "reload"]
                  ELSE Shown(gui, gui.status)
  BY <1>2
<1> DEFINE changed == gui.changed \/ outcome[2]
<1>o. outcome[1] \in StickState /\ outcome[2] \in BOOLEAN
  <2>1. Desired(s) \in Mode
    BY <1>1 DEF Desired, GuiState, Config, Access
  <2> QED
    BY <1>1, <2>1, OutcomeTyped
<1>4. changed \in BOOLEAN
  BY <1>1, <1>o DEF GuiState
<1>5. usb' \in [Stick -> StickState]
  BY <1>1, <1>3, <1>o
<1>6. gui' = IF gui.todo # {s}
             THEN [gui EXCEPT !.todo = gui.todo \ {s}, !.changed = changed]
             ELSE IF changed THEN [gui EXCEPT !.todo = {}, !.pc = "reload"]
             ELSE Shown(gui, gui.status)
  BY <1>3
<1> HIDE DEF changed
<1>7. CASE gui' = [gui EXCEPT !.todo = gui.todo \ {s}, !.changed = changed]
  <2>1. gui.todo \ {s} \in SUBSET Stick
    BY <1>1
  <2>2. /\ gui' \in GuiState /\ Same(gui, gui') /\ gui'.todo = gui.todo \ {s}
        /\ gui'.pc = gui.pc /\ gui'.status = gui.status /\ gui'.action = gui.action
    BY <1>1, <1>4, <1>7, <2>1 DEF GuiState, Same
  <2> QED
    BY <1>5, <2>2 DEF ApplyPolicy, At
<1>8. CASE gui' = [gui EXCEPT !.todo = {}, !.pc = "reload"]
  <2>1. gui' \in GuiState /\ Same(gui, gui') /\ gui'.pc = "reload" /\ gui'.action = gui.action
    BY <1>1, <1>8 DEF GuiState, Same
  <2> QED
    BY <1>5, <2>1
<1>9. CASE gui' = Shown(gui, gui.status)
  BY <1>1, <1>5, <1>9, ShownFacts
<1> QED
  BY <1>6, <1>7, <1>8, <1>9

LEMMA SyncFacts ==
  ASSUME TypeInv, SyncClear \/ SyncAdd
  PROVE  /\ gui' \in GuiState /\ Same(gui, gui') /\ gui'.action = gui.action
         /\ gui'.pc \in {"status", "adding"} /\ gui'.todo \subseteq Entry
<1>1. gui \in GuiState /\ gui.config.rules \subseteq Entry
  BY DEF TypeInv, GuiState, Config
<1>2. CASE SyncClear
  <2> DEFINE pc == IF gui.config.rules = {} THEN "status" ELSE "adding"
  <2>1. pc \in {"status", "adding"} /\ gui' = [gui EXCEPT !.pc = pc, !.todo = gui.config.rules]
    BY <1>2 DEF SyncClear
  <2> HIDE DEF pc
  <2> QED
    BY <1>1, <2>1 DEF GuiState, Same
<1>3. CASE SyncAdd
  <2>1. PICK e \in gui.todo : gui' = [gui EXCEPT !.todo = @ \ {e},
                                        !.pc = IF gui.todo = {e} THEN "status" ELSE "adding"]
    BY <1>3 DEF SyncAdd
  <2> DEFINE pc == IF gui.todo = {e} THEN "status" ELSE "adding"
             todo == gui.todo \ {e}
  <2>2. gui.todo \subseteq Entry
    BY <1>3 DEF SyncAdd, At, TypeInv, ThreadShape
  <2>3. /\ pc \in {"status", "adding"} /\ todo \subseteq Entry
        /\ gui' = [gui EXCEPT !.todo = todo, !.pc = pc]
    BY <2>1, <2>2
  <2> HIDE DEF pc, todo
  <2> QED
    BY <1>1, <2>3 DEF GuiState, Same
<1> QED
  BY <1>2, <1>3

(* Saving the file begins, or fails at once.                               *)
LEMMA OpenFileFacts ==
  ASSUME NEW g \in GuiState, OpenFile(g)
  PROVE  /\ gui' \in GuiState /\ Same(g, gui') /\ gui'.seen = g.seen
         /\ \/ file' = EmptyConfig /\ gui'.pc = "saving" /\ gui'.action = g.action
            \/ file' = file /\ gui'.pc = "idle" /\ gui'.action = Nothing
<1>1. CASE file' = EmptyConfig /\ gui' = [g EXCEPT !.pc = "saving"]
  BY <1>1 DEF GuiState, Same
<1>2. CASE gui' = Rest(g) /\ UNCHANGED file
  BY <1>2, RestFacts
<1> QED
  BY <1>1, <1>2 DEF OpenFile

LEMMA PersistFacts ==
  ASSUME TypeInv, Persist
  PROVE  /\ gui' \in GuiState /\ gui'.present = gui.present /\ gui'.attempted = gui.attempted
         /\ gui'.config.rules = gui.seen.rules /\ gui'.reported = gui.reported
         /\ \/ file' = EmptyConfig /\ gui'.pc = "saving" /\ gui'.action = gui.action
            \/ file' = file /\ gui'.pc = "idle" /\ gui'.action = Nothing
<1> DEFINE c == [gui.config EXCEPT !.rules = gui.seen.rules]
           g == [gui EXCEPT !.config = c]
<1>1. gui \in GuiState /\ gui.seen.rules \subseteq Entry /\ gui.config \in Config
  BY DEF TypeInv, GuiState, Seen
<1>2. c \in Config /\ c.rules = gui.seen.rules
  BY <1>1 DEF Config
<1>3. [gui EXCEPT !.config.rules = gui.seen.rules] = g
  BY <1>1 DEF GuiState
<1> HIDE DEF c
<1>4. /\ g \in GuiState /\ g.present = gui.present /\ g.attempted = gui.attempted
      /\ g.config = c /\ g.reported = gui.reported /\ g.action = gui.action
  BY <1>1, <1>2 DEF GuiState
<1>5. OpenFile(g)
  BY <1>3 DEF Persist
<1> HIDE DEF g
<1> QED
  BY <1>2, <1>4, <1>5, OpenFileFacts DEF Same

LEMMA ChooseFacts ==
  ASSUME TypeInv, NEW s \in Stick, NEW mode \in Mode, Choose(s, mode)
  PROVE  /\ gui' \in GuiState /\ gui'.present = gui.present /\ gui'.attempted = gui.attempted
         /\ gui'.config.rules = gui.config.rules /\ ~gui'.reported
         /\ \/ /\ file' = EmptyConfig /\ gui'.pc = "saving" /\ gui'.action \in AccessAction
            \/ file' = file /\ gui'.pc = "idle" /\ gui'.action = Nothing
<1> DEFINE act == [kind |-> "access", stick |-> s, mode |-> mode]
           acc == [gui.config.access EXCEPT ![KeyOf(s)] = mode]
           c == [gui.config EXCEPT !.access = acc]
           g == [gui EXCEPT !.reported = FALSE, !.config = c, !.action = act]
<1>1. gui \in GuiState /\ gui.config \in Config
  BY DEF TypeInv, GuiState
<1>2. act \in AccessAction
  BY DEF AccessAction
<1>3. acc \in Access
  BY <1>1 DEF Config, Access
<1>4. [gui EXCEPT !.reported = FALSE, !.config.access[KeyOf(s)] = mode, !.action = act] = g
  BY <1>1 DEF GuiState
<1> HIDE DEF acc, act
<1>5. c \in Config /\ c.rules = gui.config.rules
  BY <1>1, <1>3 DEF Config
<1> HIDE DEF c
<1>6. /\ g \in GuiState /\ g.present = gui.present /\ g.attempted = gui.attempted
      /\ g.config = c /\ ~g.reported /\ g.action = act
  BY <1>1, <1>2, <1>5 DEF GuiState
<1>7. OpenFile(g)
  BY <1>4 DEF Choose, act
<1> HIDE DEF g
<1> QED
  BY <1>2, <1>5, <1>6, <1>7, OpenFileFacts DEF Same

LEMMA WriteFileFacts ==
  ASSUME TypeInv, WriteFile
  PROVE  /\ gui' \in GuiState /\ gui'.attempted = gui.attempted /\ gui'.config = gui.config
         /\ file' \in Config
         /\ \/ /\ gui'.pc = "change" /\ gui'.action = gui.action /\ gui.action \in AccessAction
               /\ gui'.reported = gui.reported /\ gui'.present
               /\ "flush" \notin Fault => file' = gui.config
            \/ /\ gui'.pc = "idle" /\ gui'.action = Nothing /\ gui'.present
               /\ "flush" \notin Fault => file' = gui.config
            \/ /\ gui'.pc = "idle" /\ gui'.action = Nothing /\ gui'.reported = gui.reported
<1>1. gui \in GuiState /\ gui.config \in Config /\ gui.action # Nothing /\ EmptyConfig \in Config
  BY StatusTyped DEF TypeInv, GuiState, ThreadShape, WriteFile, At
<1>2. file' \in Config
  <2>1. Partial \subseteq Config
    BY <1>1 DEF Partial, Config, EmptyConfig
  <2> QED
    BY <1>1, <2>1 DEF WriteFile
<1>3. CASE gui' = AfterSave(gui) /\ ("flush" \notin Fault => file' = gui.config)
  <2>1. CASE gui.action.kind = "access"
    <3>1. gui' = [gui EXCEPT !.pc = "change", !.present = TRUE] /\ gui.action \in AccessAction
      BY <1>1, <1>3, <2>1, KindOfAction DEF AfterSave
    <3> QED
      BY <1>1, <1>2, <1>3, <3>1 DEF GuiState
  <2>2. CASE gui.action.kind # "access"
    <3> DEFINE r == Rest(gui)
    <3>1. gui' = [r EXCEPT !.present = TRUE, !.reported = TRUE]
      BY <1>3, <2>2 DEF AfterSave
    <3>2. r \in GuiState /\ Same(gui, r) /\ r.pc = "idle" /\ r.action = Nothing
      BY <1>1, RestFacts
    <3> HIDE DEF r
    <3>3. /\ gui' \in GuiState /\ gui'.attempted = r.attempted /\ gui'.config = r.config
          /\ gui'.present /\ gui'.pc = r.pc /\ gui'.action = r.action
      BY <3>1, <3>2 DEF GuiState
    <3> QED
      BY <1>2, <1>3, <3>2, <3>3 DEF Same
  <2> QED
    BY <2>1, <2>2
<1>4. CASE gui' = Rest(gui)
  BY <1>1, <1>2, <1>4, RestFacts DEF Same
<1> QED
  BY <1>3, <1>4 DEF WriteFile

-----------------------------------------------------------------------------
(* Type correctness.                                                       *)

Kernel == [loaded : BOOLEAN, rules : SUBSET Rule]

(* The control file keeps the table within its size.                       *)
LEMMA RulesFit ==
  ASSUME NEW rules \in SUBSET Rule, Cardinality(rules) <= MaxRules, NEW e
  PROVE  /\ Added(rules, e) \subseteq Rule /\ Cardinality(Added(rules, e)) <= MaxRules
         /\ Removed(rules, e) \subseteq Rule /\ Cardinality(Removed(rules, e)) <= MaxRules
         /\ Cardinality({}) <= MaxRules
<1>1. IsFiniteSet(rules) /\ Cardinality(rules) \in Nat
  BY FS_Subset, FS_CardinalityType
<1>2. /\ Added(rules, e) \subseteq Rule
      /\ Cardinality(Added(rules, e)) <= MaxRules
  <2>1. CASE e \in Rule /\ Cardinality(rules) < MaxRules /\ e \notin rules
    <3>1. Cardinality(rules \union {e}) = Cardinality(rules) + 1
      BY <1>1, <2>1, FS_AddElement
    <3>2. Added(rules, e) = rules \union {e}
      BY <2>1 DEF Added
    <3> QED
      BY <1>1, <2>1, <3>1, <3>2
  <2>2. CASE ~(e \in Rule /\ Cardinality(rules) < MaxRules /\ e \notin rules)
    <3>1. Added(rules, e) = rules
      BY <2>2 DEF Added
    <3> QED
      BY <3>1
  <2> QED
    BY <2>1, <2>2
<1>3. Removed(rules, e) \subseteq rules
  BY DEF Removed
<1>4. Cardinality(Removed(rules, e)) <= Cardinality(rules) /\ Cardinality(Removed(rules, e)) \in Nat
  BY <1>1, <1>3, FS_Subset, FS_CardinalityType
<1>5. Cardinality({}) = 0
  BY FS_EmptySet
<1> QED
  BY <1>1, <1>2, <1>3, <1>4, <1>5

(* A step of the thread that leaves the kernel alone.                      *)
LEMMA ThreadKeepsType ==
  ASSUME TypeInv, gui' \in GuiState, ThreadShape', UNCHANGED <<kernel, meddled>>,
         usb' \in [Stick -> StickState], file' \in Config \union {Nothing}
  PROVE  TypeInv'
<1>1. gui'.todo \subseteq Entry \/ gui'.todo \subseteq Stick
  BY DEF GuiState
<1>2. /\ gui'.pc \in {"off", "status", "read", "clear", "adding", "apply", "reload", "reread",
                      "idle", "persist", "saving", "change"}
      /\ gui'.config \in Config /\ gui'.seen \in Seen /\ gui'.status \in Status
  BY DEF GuiState
<1> QED
  BY <1>1, <1>2 DEF TypeInv, GuiTypeOK, Seen, Status

(* A step of somebody else.                                                *)
LEMMA OthersKeepType ==
  ASSUME TypeInv, UNCHANGED <<file, gui>>, meddled' \in BOOLEAN,
         kernel' \in Kernel, Cardinality(kernel'.rules) <= MaxRules,
         usb' \in [Stick -> StickState]
  PROVE  TypeInv'
<1>1. ThreadShape'
  BY DEF TypeInv, ThreadShape, Desired
<1> QED
  BY <1>1 DEF TypeInv, GuiTypeOK, Kernel

(* Where a refresh ends, the thread is in shape.                           *)
LEMMA EndedShape ==
  ASSUME Ended(gui, gui')
  PROVE  ThreadShape'
  BY DEF Ended, ThreadShape

LEMMA RefreshKeepsType ==
  ASSUME TypeInv, Refresh
  PROVE  TypeInv'
<1>1. /\ gui \in GuiState /\ ThreadShape /\ usb \in [Stick -> StickState]
      /\ file \in Config \union {Nothing} /\ kernel \in Kernel
      /\ Cardinality(kernel.rules) <= MaxRules /\ kernel.rules \in SUBSET Rule
      /\ meddled \in BOOLEAN
  BY DEF TypeInv, GuiTypeOK, Kernel
<1>2. CASE LoadStatus
  <2>1. /\ gui' \in GuiState /\ gui'.config = gui.config
        /\ \/ gui'.pc = "clear" \/ Ended(gui, gui')
           \/ gui'.pc = "apply" /\ gui'.todo = ToApply(StatusRead)
    BY <1>2, LoadStatusFacts
  <2>2. ToApply(StatusRead) \subseteq Stick /\ \A s \in ToApply(StatusRead) : Desired(s) # Nothing
    BY DEF ToApply, Current
  <2>3. ThreadShape'
    BY <2>1, <2>2, EndedShape DEF ThreadShape, Desired
  <2> QED
    BY <1>1, <1>2, <2>1, <2>3, ThreadKeepsType DEF LoadStatus
<1>3. CASE ApplyPolicy
  <2>1. /\ gui' \in GuiState /\ gui'.config = gui.config /\ usb' \in [Stick -> StickState]
        /\ \/ gui'.pc = "reload" \/ Ended(gui, gui')
           \/ gui'.pc = "apply" /\ gui'.todo \subseteq gui.todo
    BY <1>3, ApplyPolicyFacts DEF Same
  <2>2. gui.todo \subseteq Stick /\ \A s \in gui.todo : Desired(s) # Nothing
    BY <1>1, <1>3 DEF ApplyPolicy, At, ThreadShape
  <2>3. ThreadShape'
    BY <2>1, <2>2, EndedShape DEF ThreadShape, Desired
  <2> QED
    BY <1>1, <1>3, <2>1, <2>3, ThreadKeepsType DEF ApplyPolicy
<1>4. CASE Reload
  <2>1. gui' \in GuiState /\ Ended(gui, gui')
    BY <1>1, <1>4, SnapshotTyped, ShownFacts DEF Reload
  <2> QED
    BY <1>1, <1>4, <2>1, EndedShape, ThreadKeepsType DEF Reload
<1>5. CASE FailRefresh
  <2>1. gui' \in GuiState /\ Ended(gui, gui')
    BY <1>1, <1>5, FailRefreshFacts
  <2> QED
    BY <1>1, <1>5, <2>1, EndedShape, ThreadKeepsType DEF FailRefresh
<1>6. CASE SyncClear \/ SyncAdd
  <2>1. /\ gui' \in GuiState /\ gui'.pc \in {"status", "adding"} /\ gui'.todo \subseteq Entry
        /\ UNCHANGED <<usb, file, meddled>>
    BY <1>6, SyncFacts DEF SyncClear, SyncAdd
  <2>2. ThreadShape'
    BY <2>1 DEF ThreadShape
  <2>3. \E rules \in SUBSET Rule :
          Cardinality(rules) <= MaxRules /\ kernel' = [kernel EXCEPT !.rules = rules]
    BY <1>1, <1>6, RulesFit DEF SyncClear, SyncAdd, SetRules
  <2>4. kernel' \in Kernel /\ Cardinality(kernel'.rules) <= MaxRules
    BY <1>1, <2>3 DEF Kernel
  <2>5. gui'.todo \subseteq Entry \/ gui'.todo \subseteq Stick
    BY <2>1
  <2>6. gui'.config \in Config /\ gui'.seen \in Seen /\ gui'.status \in Status
    BY <2>1 DEF GuiState
  <2> QED
    BY <1>1, <2>1, <2>2, <2>4, <2>5, <2>6 DEF TypeInv, GuiTypeOK, Kernel, Seen, Status
<1>7. CASE FindStatus
  <2>1. gui' \in GuiState /\ gui'.pc \in {"read", "reread"}
    BY <1>1, <1>7, FindStatusFacts
  <2>2. ThreadShape'
    BY <2>1 DEF ThreadShape
  <2> QED
    BY <1>1, <1>7, <2>1, <2>2, ThreadKeepsType DEF FindStatus
<1> QED
  BY <1>2, <1>3, <1>4, <1>5, <1>6, <1>7 DEF Refresh

LEMMA ActionsKeepType ==
  ASSUME TypeInv,
         \/ Persist \/ WriteFile \/ ChangeMode \/ StartRefresh \/ Launch \/ Quit
         \/ \E s \in Stick, m \in Mode : Choose(s, m)
  PROVE  TypeInv'
<1>1. /\ gui \in GuiState /\ ThreadShape /\ usb \in [Stick -> StickState]
      /\ file \in Config \union {Nothing} /\ EmptyConfig \in Config /\ Fresh \in GuiState
  <2>1. EmptyConfig \in Config /\ NoStatus \in Status /\ Current(NoStatus) \in Seen
    BY StatusTyped, CurrentTyped
  <2>2. Fresh \in GuiState
    BY <2>1 DEF Fresh, GuiState
  <2> QED
    BY <2>1, <2>2 DEF TypeInv, GuiTypeOK
<1>2. CASE Persist
  <2>1. /\ gui' \in GuiState /\ file' \in Config \union {Nothing}
        /\ \/ gui'.pc = "saving" /\ gui'.action = gui.action
           \/ gui'.pc = "idle"
    BY <1>1, <1>2, PersistFacts
  <2>2. ThreadShape'
    BY <1>1, <1>2, <2>1 DEF Persist, At, ThreadShape
  <2> QED
    BY <1>1, <1>2, <2>1, <2>2, ThreadKeepsType DEF Persist
<1>3. ASSUME NEW s \in Stick, NEW m \in Mode, Choose(s, m)
      PROVE  TypeInv'
  <2>1. /\ gui' \in GuiState /\ file' \in Config \union {Nothing}
        /\ \/ gui'.pc = "saving" /\ gui'.action \in AccessAction
           \/ gui'.pc = "idle"
    BY <1>1, <1>3, ChooseFacts
  <2>2. ThreadShape'
    BY <2>1 DEF ThreadShape
  <2> QED
    BY <1>1, <1>3, <2>1, <2>2, ThreadKeepsType DEF Choose
<1>4. CASE WriteFile
  <2>1. /\ gui' \in GuiState /\ file' \in Config
        /\ \/ gui'.pc = "change" /\ gui'.action \in AccessAction
           \/ gui'.pc = "idle"
    BY <1>4, WriteFileFacts
  <2>2. ThreadShape'
    BY <2>1 DEF ThreadShape
  <2> QED
    BY <1>1, <1>4, <2>1, <2>2, ThreadKeepsType DEF WriteFile
<1>5. CASE ChangeMode
  <2>1. gui.action \in AccessAction /\ gui' = [gui EXCEPT !.pc = "status", !.reported = TRUE]
    BY <1>1, <1>5 DEF ChangeMode, At, ThreadShape
  <2>2. gui.action.stick \in Stick /\ gui.action.mode \in Mode
    BY <2>1 DEF AccessAction
  <2>3. usb' \in [Stick -> StickState]
    <3>1. \A outcome \in Outcome(gui.action.stick, gui.action.mode) : outcome[1] \in StickState
      BY <1>1, <2>2, OutcomeTyped
    <3> QED
      BY <1>1, <1>5, <3>1 DEF ChangeMode
  <2>4. gui' \in GuiState /\ gui'.pc = "status"
    BY <1>1, <2>1 DEF GuiState
  <2>5. ThreadShape'
    BY <2>4 DEF ThreadShape
  <2> QED
    BY <1>1, <1>5, <2>3, <2>4, <2>5, ThreadKeepsType DEF ChangeMode
<1>6. CASE StartRefresh
  <2>1. gui' \in GuiState /\ gui'.pc = "status"
    BY <1>1, <1>6 DEF StartRefresh, GuiState
  <2>2. ThreadShape'
    BY <2>1 DEF ThreadShape
  <2> QED
    BY <1>1, <1>6, <2>1, <2>2, ThreadKeepsType DEF StartRefresh
<1>7. CASE Launch
  <2> DEFINE known == file # Nothing
             c == IF file = Nothing THEN EmptyConfig ELSE file
  <2>1. known \in BOOLEAN /\ c \in Config /\ gui' = [Fresh EXCEPT !.present = known, !.config = c]
    BY <1>1, <1>7 DEF Launch
  <2> HIDE DEF known, c
  <2>2. gui' \in GuiState /\ gui'.pc = Fresh.pc
    BY <1>1, <2>1 DEF GuiState
  <2>3. Fresh.pc = "status"
    BY DEF Fresh
  <2>4. ThreadShape'
    BY <2>2, <2>3 DEF ThreadShape
  <2>5. gui'.todo \subseteq Entry \/ gui'.todo \subseteq Stick
    BY <2>2 DEF GuiState
  <2>6. gui'.config \in Config /\ gui'.seen \in Seen /\ gui'.status \in Status
    BY <2>2 DEF GuiState
  <2>7. UNCHANGED <<kernel, usb, file>> /\ meddled' = FALSE
    BY <1>7 DEF Launch
  <2> QED
    BY <2>2, <2>3, <2>4, <2>5, <2>6, <2>7 DEF TypeInv, GuiTypeOK, Seen, Status
<1>8. CASE Quit
  <2>1. gui' \in GuiState /\ gui'.pc = "off"
    BY <1>1, <1>8 DEF Quit, Off, GuiState
  <2>2. ThreadShape'
    BY <2>1 DEF ThreadShape
  <2> QED
    BY <1>1, <1>8, <2>1, <2>2, ThreadKeepsType DEF Quit
<1> QED
  BY <1>2, <1>3, <1>4, <1>5, <1>6, <1>7, <1>8

(* A rule typed by the user goes to the control file.                      *)
LEMMA TellFacts ==
  ASSUME TypeInv, NEW kind \in {"add", "remove"}, NEW e \in Entry, Tell(kind, e)
  PROVE  /\ gui' \in GuiState /\ ~gui'.reported
         /\ gui'.present = gui.present /\ gui'.attempted = gui.attempted
         /\ gui'.config = gui.config
         /\ \/ kernel.loaded /\ gui'.pc = "status" /\ gui'.action \in RuleAction
            \/ /\ ~kernel.loaded /\ UNCHANGED kernel /\ gui'.pc = "idle"
               /\ gui'.action = gui.action
         /\ \E rules \in SUBSET Rule :
              Cardinality(rules) <= MaxRules /\ kernel' = [kernel EXCEPT !.rules = rules]
<1>1. /\ gui \in GuiState /\ kernel \in Kernel /\ kernel.rules \in SUBSET Rule
      /\ Cardinality(kernel.rules) <= MaxRules
  BY DEF TypeInv, GuiTypeOK, Kernel
<1>2. CASE kernel.loaded
  <2> DEFINE act == [kind |-> "rules"]
  <2>1. act \in RuleAction
    BY DEF RuleAction
  <2>2. /\ gui' = [gui EXCEPT !.pc = "status", !.reported = FALSE, !.action = act]
        /\ SetRules(IF kind = "add" THEN Added(kernel.rules, e) ELSE Removed(kernel.rules, e))
    BY <1>2 DEF Tell
  <2> HIDE DEF act
  <2>3. /\ gui' \in GuiState /\ ~gui'.reported
        /\ gui'.present = gui.present /\ gui'.attempted = gui.attempted
        /\ gui'.config = gui.config /\ gui'.pc = "status" /\ gui'.action \in RuleAction
    BY <1>1, <2>1, <2>2 DEF GuiState
  <2>4. \E rules \in SUBSET Rule :
          Cardinality(rules) <= MaxRules /\ kernel' = [kernel EXCEPT !.rules = rules]
    BY <1>1, <2>2, RulesFit DEF SetRules
  <2> QED
    BY <1>2, <2>3, <2>4
<1>3. CASE ~kernel.loaded
  <2>1. gui' = [gui EXCEPT !.reported = FALSE] /\ UNCHANGED kernel /\ gui.pc = "idle"
    BY <1>3 DEF Tell, At
  <2>2. kernel' = [kernel EXCEPT !.rules = kernel.rules]
    BY <1>1, <2>1 DEF Kernel
  <2>3. /\ gui' \in GuiState /\ ~gui'.reported
        /\ gui'.present = gui.present /\ gui'.attempted = gui.attempted
        /\ gui'.config = gui.config /\ gui'.pc = "idle" /\ gui'.action = gui.action
    BY <1>1, <2>1 DEF GuiState
  <2> QED
    BY <1>1, <1>3, <2>1, <2>2, <2>3
<1> QED
  BY <1>2, <1>3

LEMMA NextKeepsType ==
  ASSUME TypeInv, [Next]_vars
  PROVE  TypeInv'
<1>1. /\ gui \in GuiState /\ usb \in [Stick -> StickState] /\ kernel \in Kernel
      /\ Cardinality(kernel.rules) <= MaxRules /\ kernel.rules \in SUBSET Rule
      /\ meddled \in BOOLEAN
  BY DEF TypeInv, GuiTypeOK, Kernel
<1>2. ASSUME NEW kind \in {"add", "remove"}, NEW e \in Entry, Tell(kind, e)
      PROVE  TypeInv'
  <2>1. /\ gui' \in GuiState /\ gui'.pc \in {"status", "idle"}
        /\ \E rules \in SUBSET Rule :
             Cardinality(rules) <= MaxRules /\ kernel' = [kernel EXCEPT !.rules = rules]
    BY <1>2, TellFacts
  <2>2. kernel' \in Kernel /\ Cardinality(kernel'.rules) <= MaxRules
    BY <1>1, <2>1 DEF Kernel
  <2>3. ThreadShape'
    BY <2>1 DEF ThreadShape
  <2>4. gui'.todo \subseteq Entry \/ gui'.todo \subseteq Stick
    BY <2>1 DEF GuiState
  <2>5. gui'.config \in Config /\ gui'.seen \in Seen /\ gui'.status \in Status
    BY <2>1 DEF GuiState
  <2>6. UNCHANGED <<usb, file, meddled>>
    BY <1>2 DEF Tell
  <2> QED
    BY <2>1, <2>2, <2>3, <2>4, <2>5, <2>6 DEF TypeInv, GuiTypeOK, Kernel, Seen, Status
<1>3. ASSUME NEW s \in Stick, Plug(s) \/ Unplug(s) \/ Block(s)
      PROVE  TypeInv'
  <2>1. usb' \in [Stick -> StickState] /\ UNCHANGED <<kernel, file, gui, meddled>>
    BY <1>1, <1>3 DEF Plug, Unplug, Block, StickState, Mode
  <2> QED
    BY <1>1, <2>1, OthersKeepType
<1>4. CASE OtherCommand
  <2>1. /\ UNCHANGED <<usb, file, gui>> /\ meddled' = TRUE
        /\ \E rules \in SUBSET Rule :
             Cardinality(rules) <= MaxRules /\ kernel' = [kernel EXCEPT !.rules = rules]
    BY <1>1, <1>4, RulesFit DEF OtherCommand, SetRules
  <2>2. kernel' \in Kernel /\ Cardinality(kernel'.rules) <= MaxRules
    BY <1>1, <2>1 DEF Kernel
  <2> QED
    BY <1>1, <2>1, <2>2, OthersKeepType
<1>5. CASE Insmod \/ Rmmod
  <2>1. Cardinality({}) <= MaxRules
    BY FS_EmptySet
  <2>2. \E rules \in SUBSET Rule, b \in BOOLEAN :
          Cardinality(rules) <= MaxRules /\ kernel' = [loaded |-> b, rules |-> rules]
    BY <1>5, <2>1 DEF Insmod, Rmmod
  <2>3. kernel' \in Kernel /\ Cardinality(kernel'.rules) <= MaxRules
    BY <2>2 DEF Kernel
  <2>4. UNCHANGED <<usb, file, gui>> /\ meddled' = TRUE
    BY <1>5 DEF Insmod, Rmmod
  <2> QED
    BY <1>1, <2>3, <2>4, OthersKeepType
<1>6. CASE UNCHANGED vars
  BY <1>1, <1>6, OthersKeepType DEF vars
<1> QED
  BY <1>2, <1>3, <1>4, <1>5, <1>6, RefreshKeepsType, ActionsKeepType DEF Next, Thread

LEMMA InitTyped == Init => TypeInv
<1> SUFFICES ASSUME Init PROVE TypeInv
  OBVIOUS
<1>1. EmptyConfig \in Config /\ NoStatus \in Status /\ Current(NoStatus) \in Seen
  BY StatusTyped, CurrentTyped
<1>2. Fresh \in GuiState
  BY <1>1 DEF Fresh, GuiState
<1>3. gui \in GuiState /\ gui.pc = "off"
  BY <1>2 DEF Init, Off, GuiState
<1>4. gui.todo \subseteq Entry \/ gui.todo \subseteq Stick
  BY <1>3 DEF GuiState
<1>5. gui.config \in Config /\ gui.seen \in Seen /\ gui.status \in Status
  BY <1>3 DEF GuiState
<1>6. ThreadShape
  BY <1>3 DEF ThreadShape
<1>7. kernel \in Kernel /\ Cardinality(kernel.rules) <= MaxRules
  BY DEF Init, Kernel
<1>8. usb \in [Stick -> StickState] /\ file = Nothing /\ meddled = FALSE
  BY DEF Init, StickState
<1> QED
  BY <1>3, <1>4, <1>5, <1>6, <1>7, <1>8 DEF TypeInv, GuiTypeOK, Kernel, Seen, Status

(* Types, the size of the kernel's table, and the thread's own shape: a    *)
(* mode to be set is one that somebody chose, and an action is there to be *)
(* saved or carried out.                                                   *)
THEOREM GuiTypeCorrect == Spec => [](GuiTypeOK /\ ThreadShape)
<1>1. Init => TypeInv
  BY InitTyped
<1>2. TypeInv /\ [Next]_vars => TypeInv'
  BY NextKeepsType
<1>3. TypeInv => GuiTypeOK /\ ThreadShape
  BY DEF TypeInv
<1> QED
  BY <1>1, <1>2, <1>3, PTL DEF Spec

-----------------------------------------------------------------------------
(* The two whitelists.                                                     *)

(* Between an addition or a removal and the saving of the list, the two    *)
(* differ; then the list to be saved is on its way, in the status that was *)
(* loaded or in the one that is shown.  While the kernel's list is filled  *)
(* again, the rest of the saved one is still to come.                      *)
SyncShape ==
  /\ kernel.loaded
  /\ gui.pc = "apply" => gui.status.rules = Snapshot.rules
  /\ gui.pc = "persist" => gui.seen.rules = Snapshot.rules
  /\ Expressible =>
       /\ gui.pc = "adding" => kernel.rules \union gui.todo = gui.config.rules
       /\ \/ gui.pc \in {"idle", "saving", "change"}
          \/ gui.pc \in {"status", "read", "apply", "reload", "reread"} /\ gui.action \notin RuleAction
          => gui.config.rules = Snapshot.rules

SyncInv == gui.attempted /\ ~meddled => SyncShape

(* Rules whose text has no comma come back as they are.                    *)
LEMMA PlainRules ==
  ASSUME Expressible, kernel.rules = gui.config.rules
  PROVE  Snapshot.rules = gui.config.rules
<1>1. \A r \in kernel.rules : Tokens(r) = {r}
  BY DEF Expressible
<1>2. UNION {Tokens(r) : r \in kernel.rules} = kernel.rules
  BY <1>1
<1> QED
  BY <1>2 DEF Snapshot

LEMMA RefreshKeepsSync ==
  ASSUME TypeInv, ReadShape, SyncInv, gui'.attempted, ~meddled, Refresh
  PROVE  SyncShape'
<1>1. gui \in GuiState /\ kernel \in Kernel /\ ThreadShape
  BY DEF TypeInv, GuiTypeOK, Kernel
<1>2. CASE LoadStatus
  <2>1. UNCHANGED kernel /\ kernel.loaded /\ gui.pc = "read" /\ StatusRead = Snapshot
    BY <1>2, SnapshotTyped DEF LoadStatus, At, ReadShape
  <2>2. Snapshot.rules' = Snapshot.rules
    BY <2>1 DEF Snapshot
  <2>3. CASE gui'.pc = "clear"
    BY <2>1, <2>3 DEF SyncShape
  <2>4. CASE gui'.pc # "clear"
    <3>1. /\ gui'.config = gui.config
          /\ gui.attempted \/ gui.config.rules = Snapshot.rules
          /\ \/ Ended(gui, gui') /\ gui'.seen.rules = Snapshot.rules
             \/ /\ gui'.pc = "apply" /\ gui'.status = Snapshot /\ gui'.action = gui.action
      BY <1>2, <2>1, <2>4, LoadStatusFacts
    <3>2. Expressible' <=> Expressible
      BY <3>1 DEF Expressible
    <3>3. Expressible /\ gui.action \notin RuleAction => gui.config.rules = Snapshot.rules
      BY <2>1, <3>1 DEF SyncInv, SyncShape
    <3> QED
      BY <2>1, <2>2, <3>1, <3>2, <3>3 DEF SyncShape, Ended
  <2> QED
    BY <2>3, <2>4
<1>3. CASE ApplyPolicy
  <2>1. UNCHANGED kernel /\ gui.pc = "apply"
    BY <1>3 DEF ApplyPolicy, At
  <2>2. Snapshot.rules' = Snapshot.rules
    BY <2>1 DEF Snapshot
  <2>3. /\ Same(gui, gui')
        /\ \/ gui'.pc = "apply" /\ gui'.status = gui.status /\ gui'.action = gui.action
           \/ gui'.pc = "reload" /\ gui'.action = gui.action
           \/ Ended(gui, gui') /\ gui'.seen.rules = gui.status.rules
    BY <1>3, ApplyPolicyFacts
  <2>4. Expressible' <=> Expressible
    BY <2>3 DEF Expressible, Same
  <2>5. SyncShape
    BY <2>3 DEF SyncInv, Same
  <2> QED
    BY <2>1, <2>2, <2>3, <2>4, <2>5 DEF SyncShape, Ended, Same
<1>4. CASE Reload
  <2>1. UNCHANGED kernel /\ gui.pc = "reread" /\ StatusRead = Snapshot
    BY <1>4, SnapshotTyped DEF Reload, At, ReadShape
  <2>2. Snapshot.rules' = Snapshot.rules
    BY <2>1 DEF Snapshot
  <2>3. Same(gui, gui') /\ Ended(gui, gui') /\ gui'.seen.rules = Snapshot.rules
    BY <1>1, <1>4, <2>1, SnapshotTyped, ShownFacts DEF Reload
  <2>4. Expressible' <=> Expressible
    BY <2>3 DEF Expressible, Same
  <2>5. SyncShape
    BY <2>3 DEF SyncInv, Same
  <2> QED
    BY <2>1, <2>2, <2>3, <2>4, <2>5 DEF SyncShape, Ended, Same
(* Once synchronized, the module cannot have gone without anybody's doing. *)
<1>5. CASE FailRefresh
  <2>1. Same(gui, gui')
    BY <1>1, <1>5, FailRefreshFacts
  <2>2. kernel.loaded
    BY <2>1 DEF SyncInv, SyncShape, Same
  <2> QED
    BY <1>5, <2>2 DEF FailRefresh
<1>6. CASE SyncClear
  <2>1. /\ Same(gui, gui') /\ kernel.loaded /\ kernel' = [kernel EXCEPT !.rules = {}]
        /\ gui'.pc \in {"status", "adding"}
    BY <1>6, SyncFacts DEF SyncClear, SetRules
  <2>2. kernel'.loaded /\ kernel'.rules = {}
    BY <1>1, <2>1 DEF Kernel
  <2>3. Snapshot.rules' = {}
    BY <2>2 DEF Snapshot
  <2>4. \/ gui.config.rules = {} /\ gui'.pc = "status"
        \/ gui'.pc = "adding" /\ gui'.todo = gui.config.rules
    BY <1>1, <1>6 DEF SyncClear, GuiState
  <2> QED
    BY <2>1, <2>2, <2>3, <2>4 DEF SyncShape, Same
<1>7. CASE SyncAdd
  <2>1. PICK e \in gui.todo :
          /\ SetRules(Added(kernel.rules, e))
          /\ gui' = [gui EXCEPT !.todo = @ \ {e},
                                !.pc = IF gui.todo = {e} THEN "status" ELSE "adding"]
    BY <1>7 DEF SyncAdd
  <2>2. /\ Same(gui, gui') /\ gui.pc = "adding" /\ kernel.loaded
    BY <1>7, SyncFacts DEF SyncAdd, At
  <2>3. /\ gui'.todo = gui.todo \ {e}
        /\ gui'.pc = IF gui.todo = {e} THEN "status" ELSE "adding"
    BY <1>1, <2>1 DEF GuiState
  <2>4. kernel'.loaded /\ kernel'.rules = Added(kernel.rules, e)
    BY <1>1, <2>1, <2>2 DEF SetRules, Kernel
  <2>5. ASSUME Expressible'
        PROVE  kernel'.rules \union gui'.todo = gui'.config.rules
    <3>1. Expressible /\ gui'.config = gui.config
      BY <2>2, <2>5 DEF Expressible, Same
    <3>2. kernel.rules \union gui.todo = gui.config.rules
      BY <2>2, <3>1 DEF SyncInv, SyncShape, Same
    <3>3. Added(kernel.rules, e) = kernel.rules \union {e}
      <4>1. CASE e \in kernel.rules
        BY <4>1 DEF Added
      <4>2. CASE e \notin kernel.rules
        <5>1. IsFiniteSet(kernel.rules) /\ IsFiniteSet(gui.config.rules)
          BY <3>1, FS_Subset DEF Expressible, TypeInv, GuiTypeOK
        <5>2. Cardinality(kernel.rules) < Cardinality(gui.config.rules)
          <6>1. kernel.rules \subseteq gui.config.rules \ {e} /\ e \in gui.config.rules
            BY <3>2, <4>2
          <6>2. /\ IsFiniteSet(gui.config.rules \ {e})
                /\ Cardinality(gui.config.rules \ {e}) = Cardinality(gui.config.rules) - 1
            BY <5>1, <6>1, FS_RemoveElement
          <6>3. Cardinality(kernel.rules) <= Cardinality(gui.config.rules \ {e})
            BY <6>1, <6>2, FS_Subset
          <6>4. Cardinality(kernel.rules) \in Nat /\ Cardinality(gui.config.rules) \in Nat
            BY <5>1, FS_CardinalityType
          <6> QED
            BY <6>2, <6>3, <6>4
        <5>3. Cardinality(gui.config.rules) <= MaxRules /\ e \in Rule
          BY <3>1, <3>2 DEF Expressible
        <5>4. Cardinality(kernel.rules) \in Nat /\ Cardinality(gui.config.rules) \in Nat
          BY <5>1, FS_CardinalityType
        <5>5. Cardinality(kernel.rules) < MaxRules
          BY <5>2, <5>3, <5>4
        <5> QED
          BY <5>3, <5>5 DEF Added
      <4> QED
        BY <4>1, <4>2
    <3> QED
      BY <2>3, <2>4, <3>1, <3>2, <3>3
  <2>6. CASE gui'.pc = "adding"
    BY <2>4, <2>5, <2>6 DEF SyncShape
  <2>7. CASE gui'.pc = "status"
    <3>1. gui'.todo = {}
      BY <2>3, <2>7
    <3>2. Expressible' => Snapshot.rules' = gui'.config.rules
      <4> SUFFICES ASSUME Expressible' PROVE Snapshot.rules' = gui'.config.rules
        OBVIOUS
      <4>1. kernel'.rules = gui'.config.rules
        BY <2>5, <3>1
      <4>2. \A r \in kernel'.rules : Tokens(r) = {r}
        BY <4>1 DEF Expressible
      <4>3. UNION {Tokens(r) : r \in kernel'.rules} = kernel'.rules
        BY <4>2
      <4> QED
        BY <4>1, <4>3 DEF Snapshot
    <3> QED
      BY <2>4, <2>7, <3>2 DEF SyncShape
  <2> QED
    BY <2>3, <2>6, <2>7
<1>8. CASE FindStatus
  <2>1. /\ UNCHANGED kernel /\ Same(gui, gui') /\ gui'.action = gui.action
        /\ \/ gui.pc = "status" /\ gui'.pc = "read"
           \/ gui.pc = "reload" /\ gui'.pc = "reread"
    BY <1>1, <1>8, FindStatusFacts DEF FindStatus
  <2>2. Snapshot.rules' = Snapshot.rules /\ (Expressible' <=> Expressible) /\ SyncShape
    BY <2>1 DEF Snapshot, Expressible, Same, SyncInv
  <2> QED
    BY <2>1, <2>2 DEF SyncShape, Same
<1> QED
  BY <1>2, <1>3, <1>4, <1>5, <1>6, <1>7, <1>8 DEF Refresh

LEMMA NextKeepsRead ==
  ASSUME TypeInv, ReadShape, [Next]_vars
  PROVE  ReadShape'
<1> SUFFICES ASSUME gui'.pc \in {"read", "reread"}, ~meddled'
             PROVE  kernel'.loaded
  BY DEF ReadShape
<1>1. gui \in GuiState /\ kernel \in Kernel
  BY DEF TypeInv, GuiTypeOK, Kernel
<1>2. CASE FindStatus
  BY <1>2 DEF FindStatus
<1>3. CASE Refresh /\ ~FindStatus
  <2>1. gui'.pc \notin {"read", "reread"}
    BY <1>1, <1>3, LoadStatusFacts, ApplyPolicyFacts, SnapshotTyped, ShownFacts,
       FailRefreshFacts, SyncFacts DEF Refresh, Reload, Ended
  <2> QED
    BY <2>1
<1>4. CASE Persist
  BY <1>4, PersistFacts
<1>5. CASE WriteFile
  BY <1>5, WriteFileFacts
<1>6. CASE ChangeMode \/ StartRefresh
  <2>1. gui'.pc = "status"
    BY <1>1, <1>6 DEF ChangeMode, StartRefresh, GuiState
  <2> QED
    BY <2>1
<1>7. ASSUME NEW s \in Stick, NEW m \in Mode, Choose(s, m)
      PROVE  kernel'.loaded
  BY <1>7, ChooseFacts
<1>8. ASSUME NEW kind \in {"add", "remove"}, NEW e \in Entry, Tell(kind, e)
      PROVE  kernel'.loaded
  BY <1>8, TellFacts
<1>9. CASE Launch \/ Quit
  <2>1. gui'.pc \in {"status", "off"}
    BY <1>9 DEF Launch, Quit, Fresh, Off
  <2> QED
    BY <2>1
<1>10. CASE OtherCommand \/ Insmod \/ Rmmod
  BY <1>10 DEF OtherCommand, Insmod, Rmmod
<1>11. ASSUME \/ UNCHANGED vars
              \/ \E s \in Stick : Plug(s) \/ Unplug(s) \/ Block(s)
       PROVE  kernel'.loaded
  <2>1. UNCHANGED <<kernel, gui, meddled>>
    BY <1>11 DEF Plug, Unplug, Block, vars
  <2> QED
    BY <2>1 DEF ReadShape
<1> QED
  BY <1>2, <1>3, <1>4, <1>5, <1>6, <1>7, <1>8, <1>9, <1>10, <1>11 DEF Next, Thread

LEMMA NextKeepsSync ==
  ASSUME TypeInv, ReadShape, SyncInv, [Next]_vars
  PROVE  SyncInv'
<1> SUFFICES ASSUME gui'.attempted, ~meddled'
             PROVE  SyncShape'
  BY DEF SyncInv
<1>1. gui \in GuiState /\ kernel \in Kernel /\ ThreadShape
  BY DEF TypeInv, GuiTypeOK, Kernel
(* A step that leaves the kernel alone and was synchronized before.        *)
<1>2. ASSUME UNCHANGED <<kernel, meddled>>, gui.attempted
      PROVE  SyncShape /\ Snapshot.rules' = Snapshot.rules
  BY <1>2 DEF SyncInv, Snapshot
<1>3. CASE Refresh
  <2>1. ~meddled
    BY <1>3 DEF Refresh, FindStatus, LoadStatus, SyncClear, SyncAdd, ApplyPolicy, Reload,
                 FailRefresh
  <2> QED
    BY <1>3, <2>1, RefreshKeepsSync
<1>4. CASE Persist
  <2>1. /\ UNCHANGED <<kernel, meddled>> /\ gui.attempted /\ gui.pc = "persist"
        /\ gui'.config.rules = gui.seen.rules
        /\ gui'.pc \in {"saving", "idle"}
    BY <1>4, PersistFacts DEF Persist, At
  <2> QED
    BY <1>2, <2>1 DEF SyncShape
<1>5. CASE WriteFile
  <2>1. /\ UNCHANGED <<kernel, meddled>> /\ gui.attempted /\ gui.pc = "saving"
        /\ gui'.config = gui.config /\ gui'.pc \in {"change", "idle"}
    BY <1>5, WriteFileFacts DEF WriteFile, At
  <2> QED
    BY <1>2, <2>1 DEF SyncShape, Expressible
<1>6. CASE ChangeMode \/ StartRefresh
  <2>1. /\ UNCHANGED <<kernel, meddled>> /\ gui.pc \in {"change", "idle"}
        /\ gui'.pc = "status" /\ gui'.attempted = gui.attempted /\ gui'.config = gui.config
    BY <1>1, <1>6 DEF ChangeMode, StartRefresh, At, GuiState
  <2> QED
    BY <1>2, <2>1 DEF SyncShape, Expressible
<1>7. ASSUME NEW s \in Stick, NEW m \in Mode, Choose(s, m)
      PROVE  SyncShape'
  <2>1. /\ UNCHANGED <<kernel, meddled>> /\ gui.attempted /\ gui.pc = "idle"
        /\ gui'.config.rules = gui.config.rules /\ gui'.pc \in {"saving", "idle"}
    BY <1>7, ChooseFacts DEF Choose, At
  <2> QED
    BY <1>2, <2>1 DEF SyncShape, Expressible
<1>8. ASSUME NEW kind \in {"add", "remove"}, NEW e \in Entry, Tell(kind, e)
      PROVE  SyncShape'
  <2>1. /\ gui.attempted /\ ~meddled /\ gui'.config = gui.config
        /\ \/ kernel.loaded /\ gui'.pc = "status" /\ gui'.action \in RuleAction
           \/ ~kernel.loaded
        /\ \E rules : kernel' = [kernel EXCEPT !.rules = rules]
    BY <1>8, TellFacts DEF Tell
  <2>2. kernel.loaded
    BY <2>1 DEF SyncInv, SyncShape
  <2>3. kernel'.loaded
    BY <1>1, <2>1, <2>2 DEF Kernel
  <2> QED
    BY <2>1, <2>2, <2>3 DEF SyncShape
<1>9. CASE Launch \/ Quit
  <2>1. \/ gui' = Off
        \/ \E b, c : gui' = [Fresh EXCEPT !.present = b, !.config = c]
    BY <1>9 DEF Launch, Quit
  <2>2. ~Fresh.attempted /\ ~Off.attempted /\ Off.pc = "off"
    BY DEF Fresh, Off
  <2>3. \A b, c : [Fresh EXCEPT !.present = b, !.config = c].attempted = FALSE
    BY DEF Fresh
  <2> QED
    BY <2>1, <2>2, <2>3
<1>10. CASE OtherCommand \/ Insmod \/ Rmmod
  BY <1>10 DEF OtherCommand, Insmod, Rmmod
<1>11. ASSUME \/ UNCHANGED vars
              \/ \E s \in Stick : Plug(s) \/ Unplug(s) \/ Block(s)
       PROVE  SyncShape'
  <2>1. UNCHANGED <<kernel, gui, meddled>>
    BY <1>11 DEF Plug, Unplug, Block, vars
  <2> QED
    BY <1>2, <2>1 DEF SyncShape, Expressible
<1> QED
  BY <1>3, <1>4, <1>5, <1>6, <1>7, <1>8, <1>9, <1>10, <1>11 DEF Next, Thread

(* Once synchronized, the saved whitelist and the kernel's are the same    *)
(* whenever the GUI rests, through additions, removals, rejected rules,    *)
(* files that cannot be written and restarts, as long as nobody else       *)
(* changes the kernel's or unloads the module and the saved rules are ones *)
(* the kernel can be given back.                                           *)
THEOREM WhitelistsStayInStep == Spec => []InStep
<1>1. Init => TypeInv /\ ReadShape /\ SyncInv
  <2>1. Init => ReadShape /\ SyncInv
    BY DEF Init, Off, Fresh, ReadShape, SyncInv
  <2> QED
    BY <2>1, InitTyped
<1>2. TypeInv /\ ReadShape /\ SyncInv /\ [Next]_vars => (TypeInv /\ ReadShape /\ SyncInv)'
  BY NextKeepsType, NextKeepsRead, NextKeepsSync
<1>3. TypeInv /\ ReadShape /\ SyncInv => InStep
  BY DEF SyncInv, SyncShape, InStep, At
<1> QED
  BY <1>1, <1>2, <1>3, PTL DEF Spec

-----------------------------------------------------------------------------
(* The configuration file.                                                 *)

(* From the report of a success, or from the saving of an access policy    *)
(* on, the file is what the thread holds; nothing is reported while a list *)
(* is still to be saved.                                                   *)
SaveInv ==
  /\ gui.reported \/ gui.pc = "change" => gui.present /\ file = gui.config
  /\ gui.pc \in {"saving", "persist"} \/ gui.action \in RuleAction => ~gui.reported

LEMMA ActionKinds ==
  Nothing \notin RuleAction /\ \A a \in AccessAction : a \notin RuleAction
  BY DEF RuleAction, AccessAction

LEMMA RefreshKeepsSave ==
  ASSUME TypeInv, SaveInv, Refresh
  PROVE  SaveInv'
<1>1. gui \in GuiState
  BY DEF TypeInv
<1>2. /\ gui'.present = gui.present /\ gui'.config = gui.config /\ gui'.reported = gui.reported
      /\ \/ gui'.pc \in {"clear", "apply", "reload", "status", "adding", "read", "reread"}
            /\ gui'.action = gui.action
         \/ Ended(gui, gui')
      /\ UNCHANGED file
  <2>1. CASE LoadStatus
    BY <2>1, LoadStatusFacts DEF LoadStatus
  <2>2. CASE ApplyPolicy
    BY <2>2, ApplyPolicyFacts DEF ApplyPolicy, Same
  <2>3. CASE Reload
    BY <1>1, <2>3, SnapshotTyped, ShownFacts DEF Reload, Same
  <2>4. CASE FailRefresh
    BY <1>1, <2>4, FailRefreshFacts DEF FailRefresh, Same
  <2>5. CASE SyncClear \/ SyncAdd
    BY <2>5, SyncFacts DEF SyncClear, SyncAdd, Same
  <2>6. CASE FindStatus
    BY <1>1, <2>6, FindStatusFacts DEF FindStatus, Same
  <2> QED
    BY <2>1, <2>2, <2>3, <2>4, <2>5, <2>6 DEF Refresh
<1> QED
  BY <1>2, ActionKinds DEF SaveInv, Ended

LEMMA NextKeepsSave ==
  ASSUME "flush" \notin Fault, TypeInv, SaveInv, [Next]_vars
  PROVE  SaveInv'
<1>1. gui \in GuiState /\ ThreadShape
  BY DEF TypeInv
<1>2. CASE Persist
  <2>1. /\ gui.pc = "persist" /\ gui'.reported = gui.reported /\ gui'.pc \in {"saving", "idle"}
    BY <1>2, PersistFacts DEF Persist, At
  <2> QED
    BY <2>1 DEF SaveInv
<1>3. CASE WriteFile
  <2>1. /\ gui.pc = "saving" /\ gui'.config = gui.config
        /\ \/ gui'.pc = "change" /\ gui'.reported = gui.reported
              /\ gui'.present /\ file' = gui.config
           \/ gui'.pc = "idle" /\ gui'.action = Nothing /\ gui'.present /\ file' = gui.config
           \/ gui'.pc = "idle" /\ gui'.action = Nothing /\ gui'.reported = gui.reported
    BY <1>3, WriteFileFacts DEF WriteFile, At
  <2> QED
    BY <2>1, ActionKinds DEF SaveInv
<1>4. CASE ChangeMode
  <2>1. /\ gui.pc = "change" /\ gui.action \in AccessAction /\ UNCHANGED file
        /\ gui' = [gui EXCEPT !.pc = "status", !.reported = TRUE]
    BY <1>1, <1>4 DEF ChangeMode, At, ThreadShape
  <2>2. /\ gui'.pc = "status" /\ gui'.action = gui.action /\ gui'.config = gui.config
        /\ gui'.present = gui.present
    BY <1>1, <2>1 DEF GuiState
  <2> QED
    BY <2>1, <2>2, ActionKinds DEF SaveInv
<1>5. ASSUME NEW s \in Stick, NEW m \in Mode, Choose(s, m)
      PROVE  SaveInv'
  <2>1. ~gui'.reported /\ gui'.pc \in {"saving", "idle"}
    BY <1>5, ChooseFacts
  <2> QED
    BY <2>1 DEF SaveInv
<1>6. ASSUME NEW kind \in {"add", "remove"}, NEW e \in Entry, Tell(kind, e)
      PROVE  SaveInv'
  <2>1. ~gui'.reported /\ gui'.pc \in {"status", "idle"}
    BY <1>6, TellFacts
  <2> QED
    BY <2>1 DEF SaveInv
<1>7. CASE StartRefresh
  <2>1. ~gui'.reported /\ gui'.pc = "status"
    BY <1>1, <1>7 DEF StartRefresh, GuiState
  <2> QED
    BY <2>1 DEF SaveInv
<1>8. CASE Launch
  <2>1. \E b, c : gui' = [Fresh EXCEPT !.present = b, !.config = c]
    BY <1>8 DEF Launch
  <2>2. \A b, c : LET g == [Fresh EXCEPT !.present = b, !.config = c] IN
                    g.reported = FALSE /\ g.pc = "status"
    BY DEF Fresh
  <2> QED
    BY <2>1, <2>2 DEF SaveInv
<1>9. CASE Quit
  <2>1. gui'.reported = FALSE /\ gui'.pc = "off"
    BY <1>9 DEF Quit, Off, Fresh
  <2> QED
    BY <2>1 DEF SaveInv
<1>10. ASSUME \/ UNCHANGED vars \/ OtherCommand \/ Insmod \/ Rmmod
              \/ \E s \in Stick : Plug(s) \/ Unplug(s) \/ Block(s)
       PROVE  SaveInv'
  <2>1. UNCHANGED <<gui, file>>
    BY <1>10 DEF Plug, Unplug, Block, OtherCommand, Insmod, Rmmod, vars
  <2> QED
    BY <2>1 DEF SaveInv
<1> QED
  BY <1>2, <1>3, <1>4, <1>5, <1>6, <1>7, <1>8, <1>9, <1>10, RefreshKeepsSave DEF Next, Thread

(* A reported success is on disk in full, whatever could not be opened or  *)
(* written, was killed or was done by others before; the error of the final flush,  *)
(* which the code does not look at, is the one hypothesis.                 *)
THEOREM ReportsAreSaved ==
  ASSUME "flush" \notin Fault
  PROVE  Spec => []SavedWhenReported
<1>1. Init => TypeInv /\ SaveInv
  <2>1. Init => SaveInv
    <3>1. Off.reported = FALSE /\ Off.pc = "off" /\ Off.action = Nothing
      BY DEF Off, Fresh
    <3> QED
      BY <3>1, ActionKinds DEF Init, SaveInv
  <2> QED
    BY <2>1, InitTyped
<1>2. TypeInv /\ SaveInv /\ [Next]_vars => (TypeInv /\ SaveInv)'
  BY NextKeepsType, NextKeepsSave
<1>3. SaveInv => SavedWhenReported
  BY DEF SaveInv, SavedWhenReported
<1> QED
  BY <1>1, <1>2, <1>3, PTL DEF Spec
=============================================================================
