------------------------------ MODULE UsbGuard ------------------------------
(***************************************************************************)
(* The kernel module bai_2/usb_guard.c together with the parts of the USB  *)
(* core it talks to.  Every critical section of usb_guard_lock is one      *)
(* action; what the code does between two critical sections (the notifier, *)
(* the seeding, the block worker, module exit) is spread over several      *)
(* actions, so that other actors can run in between.                       *)
(***************************************************************************)
EXTENDS Integers, FiniteSets, SequencesExt

CONSTANTS
  Port,         \* USB ports: one (busnum, devpath) each
  Model,        \* the VID:PID pairs
  Serial,       \* the serial numbers a device may report
  None,         \* no serial, no device, no port
  Ident,        \* the identities that may be plugged in
  Storage,      \* the identities with a mass-storage interface
  Rule,         \* the rules the control file may be given
  ParamList,    \* the parsed values of the whitelist= module parameter
  MaxRules,     \* USB_GUARD_MAX_WHITELIST
  MaxConnects,  \* bound: connections counted for an identity in one load
  MaxWorks,     \* bound: equal block works outstanding after a command
  Env           \* what the environment may do, a subset of EnvFault

(* "alloc": kzalloc fails; "io": opening or writing `authorized` fails;    *)
(* "param": root writes /sys/module/usb_guard/parameters/block_untrusted;  *)
(* "reauth": root writes 1 to a device's `authorized`; "seedunplug": a     *)
(* device is unplugged while usb_guard_seed_one_device works on it;        *)
(* "late": the control file is written while rmmod is running.             *)
EnvFault == {"alloc", "io", "param", "reauth", "seedunplug", "late"}

(* A rule and a device identity have the same shape: no serial is None.    *)
Identity == [model : Model, serial : Serial \union {None}]

ASSUME ConstantsAssumption ==
  /\ None \notin Identity /\ None \notin Port /\ None \notin Serial
  /\ Ident \subseteq Identity /\ Storage \subseteq Ident
  /\ Rule \subseteq Identity
  /\ IsFiniteSet(Port)
  /\ MaxRules \in Nat \ {0} /\ MaxConnects \in Nat /\ MaxWorks \in Nat
  /\ ParamList \subseteq Seq(Rule) /\ \A ps \in ParamList : Len(ps) <= MaxRules
  /\ Env \subseteq EnvFault

VARIABLES
  bus,      \* per port: the device, its `authorized`, and its notifier call
  policy,   \* whitelist_rules, whitelist_enabled, block_untrusted
  active,   \* usb_guard_active_devices, per port
  history,  \* usb_guard_history_devices, per identity
  last,     \* last_event and last_device
  queued,   \* block works waiting in the workqueue, per (port, identity)
  checked,  \* block works past the policy check, about to write `authorized`
  wq,       \* usb_guard_block_wq and the workqueue behind it
  proc,     \* the control file exists
  seed,     \* progress of usb_guard_seed_existing_devices
  phase     \* progress of usb_guard_init and usb_guard_exit

work == <<queued, checked, wq>>
lists == <<active, history, last>>
vars == <<bus, policy, active, history, last, queued, checked, wq, proc, seed, phase>>

Job == Port \X Storage

NoEntry == [dev |-> None, trusted |-> FALSE]
NoHistory == [known |-> FALSE, connects |-> 0, instances |-> 0]
NoEvent == [event |-> "none", port |-> None, dev |-> None, trusted |-> FALSE]
Unplugged == [pc |-> "empty", dev |-> None, trusted |-> FALSE, authorized |-> FALSE]
SeedIdle == [pc |-> "next", todo |-> {}, port |-> None, dev |-> None, trusted |-> FALSE]

-----------------------------------------------------------------------------
(* Policy.                                                                 *)

Matches(pol, d) ==
  /\ pol.enabled
  /\ \E i \in DOMAIN pol.rules :
       /\ pol.rules[i].model = d.model
       /\ pol.rules[i].serial \in {None, d.serial}

ShouldBlock(pol, d) == pol.block /\ pol.enabled /\ ~Matches(pol, d)

(* usb_guard_schedule_block_locked for each job of S.  queue_work on a     *)
(* draining workqueue warns and drops the work; between                    *)
(* destroy_workqueue and the store of NULL the pointer names a freed one.  *)
ScheduleBlock(pol, S) ==
  LET jobs == {j \in S : ShouldBlock(pol, j[2])} IN
  /\ UNCHANGED checked
  /\ \/ /\ wq = "up"
        /\ \E lost \in (IF "alloc" \in Env THEN SUBSET jobs ELSE {{}}) :
             queued' = [j \in Job |-> queued[j] + (IF j \in jobs \ lost THEN 1 ELSE 0)]
        /\ UNCHANGED wq
     \/ /\ wq \in {"null", "draining"}
        /\ UNCHANGED <<queued, wq>>
     \/ /\ wq \in {"freed", "misused"}
        /\ wq' = IF jobs = {} THEN wq ELSE "misused"
        /\ UNCHANGED queued

ActiveJobs == {<<p, active[p].dev>> : p \in {q \in Port : active[q] # NoEntry}}

Refreshed(pol, entry) ==
  IF entry.dev = None THEN entry ELSE [entry EXCEPT !.trusted = Matches(pol, entry.dev)]

(* Faulty variant: the flags are refreshed, nothing is scheduled.          *)
RecalculateFlagsOnly(rules) ==
  LET pol == [policy EXCEPT !.rules = rules, !.enabled = Len(rules) > 0] IN
  /\ policy' = pol
  /\ active' = [p \in Port |-> Refreshed(pol, active[p])]
  /\ last' = Refreshed(pol, last)
  /\ UNCHANGED work

Recalculate(rules) ==
  LET pol == [policy EXCEPT !.rules = rules, !.enabled = Len(rules) > 0] IN
  /\ policy' = pol
  /\ active' = [p \in Port |-> Refreshed(pol, active[p])]
  /\ last' = Refreshed(pol, last)
  /\ ScheduleBlock(pol, ActiveJobs)

-----------------------------------------------------------------------------
(* Commands written to /proc/usb_guard/control, each one critical section. *)
(* A rejected command (ENOSPC, EEXIST, ENOENT, EINVAL) changes nothing.    *)

Command ==
  /\ proc
  /\ phase \in {"prepared", "seeding", "live", "unwinding"} \/ "late" \in Env
  /\ \A j \in Job : queued[j] + checked[j] < MaxWorks
  /\ UNCHANGED <<bus, history, proc, seed, phase>>

(* Faulty variant: no search for an equal rule.                            *)
AddRuleUnchecked(r) ==
  /\ Command
  /\ Len(policy.rules) < MaxRules
  /\ Recalculate(Append(policy.rules, r))

AddRule(r) ==
  /\ Command
  /\ Len(policy.rules) < MaxRules
  /\ r \notin ToSet(policy.rules)
  /\ Recalculate(Append(policy.rules, r))

RemoveRule(r) ==
  /\ Command
  /\ \E i \in DOMAIN policy.rules :
       /\ policy.rules[i] = r
       /\ \A k \in 1 .. i - 1 : policy.rules[k] # r
       /\ Recalculate(RemoveAt(policy.rules, i))

ClearRules ==
  /\ Command
  /\ Recalculate(<<>>)

SetBlock(on) ==
  LET pol == [policy EXCEPT !.block = on] IN
  /\ Command
  /\ policy' = pol
  /\ ScheduleBlock(pol, ActiveJobs)
  /\ UNCHANGED <<active, last>>

(* A write to the module parameter stores the value and does nothing else. *)
WriteParam(on) ==
  /\ "param" \in Env
  /\ phase # "unloaded"
  /\ policy' = [policy EXCEPT !.block = on]
  /\ UNCHANGED <<bus, active, history, last, queued, checked, wq, proc, seed, phase>>

-----------------------------------------------------------------------------
(* The lists of active devices and of past connections.                    *)

(* Faulty variant: every upsert counts as a connection.                    *)
UpsertAlwaysCounts(p, d, trusted) ==
  /\ active' = [active EXCEPT ![p] = [dev |-> d, trusted |-> trusted]]
  /\ history' = [history EXCEPT ![d] = [known |-> TRUE,
                                        connects |-> @.connects + 1,
                                        instances |-> @.instances + 1]]

(* A device already in active keeps its connection: no history counter     *)
(* moves.  The flag stored is the one computed by FillInfo, before.        *)
Upsert(p, d, trusted) ==
  LET new == IF active[p] = NoEntry THEN 1 ELSE 0 IN
  /\ active' = [active EXCEPT ![p] = [dev |-> d, trusted |-> trusted]]
  /\ history' = [history EXCEPT ![d] = [known |-> TRUE,
                                        connects |-> @.connects + new,
                                        instances |-> @.instances + new]]

(* Faulty variants: the instance count is not taken down, or is taken      *)
(* down without the test against zero.                                     *)
RemoveEntryKeepsInstance(p) ==
  /\ active' = [active EXCEPT ![p] = NoEntry]
  /\ last' = [event |-> "remove", port |-> p, dev |-> active[p].dev,
              trusted |-> active[p].trusted]
  /\ UNCHANGED history

RemoveEntryUnguarded(p) ==
  /\ active' = [active EXCEPT ![p] = NoEntry]
  /\ history' = [history EXCEPT ![active[p].dev].instances = @ - 1]
  /\ last' = [event |-> "remove", port |-> p, dev |-> active[p].dev,
              trusted |-> active[p].trusted]

RemoveEntry(p) ==
  LET d == active[p].dev IN
  /\ active' = [active EXCEPT ![p] = NoEntry]
  /\ history' = [history EXCEPT ![d].instances = IF @ > 0 THEN @ - 1 ELSE 0]
  /\ last' = [event |-> "remove", port |-> p, dev |-> d, trusted |-> active[p].trusted]

FreeLists ==
  /\ active' = [p \in Port |-> NoEntry]
  /\ history' = [d \in Storage |-> NoHistory]

-----------------------------------------------------------------------------
(* The USB bus and the notifier.  A port's calls are made one at a time,   *)
(* under the device lock; calls for different ports overlap.               *)

Registered == phase \in {"seeding", "live", "unwinding"}
Calling(p) == bus[p].pc \notin {"empty", "present"}

Plug(p, d) ==
  /\ bus[p].pc = "empty"
  /\ d \in Storage => history[d].connects < MaxConnects
  /\ bus' = [bus EXCEPT ![p] = [pc |-> IF Registered THEN "fill" ELSE "present",
                                dev |-> d, trusted |-> FALSE, authorized |-> TRUE]]
  /\ UNCHANGED <<policy, active, history, last, queued, checked, wq, proc, seed, phase>>

Unplug(p) ==
  /\ bus[p].pc = "present"
  /\ seed.port # p \/ "seedunplug" \in Env
  /\ bus' = [bus EXCEPT ![p] = IF Registered THEN [@ EXCEPT !.pc = "remove"] ELSE Unplugged]
  /\ UNCHANGED <<policy, active, history, last, queued, checked, wq, proc, seed, phase>>

Reauthorize(p) ==
  /\ "reauth" \in Env
  /\ bus[p].pc = "present" /\ ~bus[p].authorized
  /\ bus' = [bus EXCEPT ![p].authorized = TRUE]
  /\ UNCHANGED <<policy, active, history, last, queued, checked, wq, proc, seed, phase>>

(* USB_DEVICE_ADD: usb_guard_track_device.                                 *)
TrackFill(p) ==
  LET d == bus[p].dev IN
  /\ bus[p].pc = "fill"
  /\ bus' = IF d \in Storage
            THEN [bus EXCEPT ![p].pc = "upsert", ![p].trusted = Matches(policy, d)]
            ELSE [bus EXCEPT ![p].pc = "present"]
  /\ UNCHANGED <<policy, active, history, last, queued, checked, wq, proc, seed, phase>>

TrackUpsert(p) ==
  LET d == bus[p].dev  t == bus[p].trusted IN
  /\ bus[p].pc = "upsert"
  /\ \/ /\ Upsert(p, d, t)
        /\ last' = [event |-> "add", port |-> p, dev |-> d, trusted |-> t]
        /\ bus' = [bus EXCEPT ![p].pc = "schedule", ![p].trusted = FALSE]
     \/ /\ "alloc" \in Env
        /\ bus' = [bus EXCEPT ![p].pc = "present", ![p].trusted = FALSE]
        /\ UNCHANGED lists
  /\ UNCHANGED <<policy, queued, checked, wq, proc, seed, phase>>

TrackSchedule(p) ==
  /\ bus[p].pc = "schedule"
  /\ ScheduleBlock(policy, {<<p, bus[p].dev>>})
  /\ bus' = [bus EXCEPT ![p].pc = "present"]
  /\ UNCHANGED <<policy, active, history, last, proc, seed, phase>>

(* Faulty variant: removal looks for a mass-storage interface, which a     *)
(* deauthorized device no longer shows.                                    *)
RemoveDeviceIfStorage(p) ==
  /\ bus[p].pc = "remove"
  /\ bus' = [bus EXCEPT ![p] = Unplugged]
  /\ IF active[p] # NoEntry /\ bus[p].authorized THEN RemoveEntry(p) ELSE UNCHANGED lists
  /\ UNCHANGED <<policy, queued, checked, wq, proc, seed, phase>>

(* USB_DEVICE_REMOVE: usb_guard_remove_device.                             *)
RemoveDevice(p) ==
  /\ bus[p].pc = "remove"
  /\ bus' = [bus EXCEPT ![p] = Unplugged]
  /\ \/ active[p] # NoEntry /\ RemoveEntry(p)
     \/ active[p] = NoEntry /\ UNCHANGED lists
  /\ UNCHANGED <<policy, queued, checked, wq, proc, seed, phase>>

-----------------------------------------------------------------------------
(* usb_guard_block_workfn: the check is a critical section, opening and    *)
(* writing `authorized` happen after it.  The open file is bound to the    *)
(* device found at the devpath; the write waits for the device lock, which *)
(* a notifier call holds, and fails once that device is gone.              *)

(* Faulty variant: the work looks at usb_guard_last_device.                *)
CheckWorkOfLast(j) ==
  /\ queued[j] > 0
  /\ queued' = [queued EXCEPT ![j] = @ - 1]
  /\ checked' = [checked EXCEPT ![j] =
                   @ + (IF last.dev # None /\ ShouldBlock(policy, last.dev) THEN 1 ELSE 0)]
  /\ UNCHANGED <<bus, policy, active, history, last, wq, proc, seed, phase>>

CheckWork(j) ==
  /\ queued[j] > 0
  /\ queued' = [queued EXCEPT ![j] = @ - 1]
  /\ checked' = [checked EXCEPT ![j] = @ + (IF ShouldBlock(policy, j[2]) THEN 1 ELSE 0)]
  /\ UNCHANGED <<bus, policy, active, history, last, wq, proc, seed, phase>>

WriteWork(j) ==
  /\ checked[j] > 0
  /\ checked' = [checked EXCEPT ![j] = @ - 1]
  /\ \/ /\ bus[j[1]].pc = "present"
        /\ bus' = [bus EXCEPT ![j[1]].authorized = FALSE]
     \/ /\ bus[j[1]].pc \in {"empty", "remove"} \/ "io" \in Env
        /\ UNCHANGED bus
  /\ UNCHANGED <<policy, active, history, last, queued, wq, proc, seed, phase>>

-----------------------------------------------------------------------------
(* usb_guard_seed_existing_devices: usb_for_each_dev visits every device   *)
(* without its device lock, so notifier calls run in between.              *)

SeedVisit(p) ==
  LET b == bus[p] IN
  /\ phase = "seeding" /\ seed.pc = "next"
  /\ p \in seed.todo
  /\ IF b.pc \notin {"empty", "remove"} /\ b.dev \in Storage /\ b.authorized
     THEN seed' = [pc |-> "upsert", todo |-> seed.todo \ {p}, port |-> p,
                   dev |-> b.dev, trusted |-> Matches(policy, b.dev)]
     ELSE seed' = [seed EXCEPT !.todo = @ \ {p}]
  /\ UNCHANGED <<bus, policy, active, history, last, queued, checked, wq, proc, phase>>

SeedUpsert ==
  /\ phase = "seeding" /\ seed.pc = "upsert"
  /\ \/ /\ Upsert(seed.port, seed.dev, seed.trusted)
        /\ seed' = [seed EXCEPT !.pc = "schedule"]
        /\ UNCHANGED <<last, phase>>
     \/ /\ "alloc" \in Env
        /\ seed' = SeedIdle
        /\ phase' = "unwinding"
        /\ UNCHANGED lists
  /\ UNCHANGED <<bus, policy, queued, checked, wq, proc>>

SeedSchedule ==
  /\ phase = "seeding" /\ seed.pc = "schedule"
  /\ ScheduleBlock(policy, {<<seed.port, seed.dev>>})
  /\ seed' = [SeedIdle EXCEPT !.todo = seed.todo]
  /\ UNCHANGED <<bus, policy, active, history, last, proc, phase>>

SeedDone ==
  /\ phase = "seeding" /\ seed.pc = "next" /\ seed.todo = {}
  /\ phase' = "live"
  /\ UNCHANGED <<bus, policy, active, history, last, queued, checked, wq, proc, seed>>

-----------------------------------------------------------------------------
(* Loading and unloading.                                                  *)

(* usb_guard_init up to the creation of the proc files.  A failure in this *)
(* part undoes what was done and leaves the module unloaded.               *)
Load(rules, block) ==
  /\ phase = "unloaded" /\ wq = "null"
  /\ policy' = [rules |-> rules, enabled |-> Len(rules) > 0, block |-> block]
  /\ last' = NoEvent
  /\ wq' = "up"
  /\ proc' = TRUE
  /\ phase' = "prepared"
  /\ UNCHANGED <<bus, active, history, queued, checked, seed>>

RegisterNotifier ==
  /\ phase = "prepared"
  /\ phase' = "seeding"
  /\ seed' = [SeedIdle EXCEPT !.todo = Port]
  /\ UNCHANGED <<bus, policy, active, history, last, queued, checked, wq, proc>>

(* usb_unregister_notify returns when no notifier call is running.  After  *)
(* a failed seeding the proc files and the lists go before the workqueue,  *)
(* in usb_guard_exit after it.                                             *)
UnwindInit ==
  /\ phase = "unwinding" /\ \A p \in Port : ~Calling(p)
  /\ phase' = "unwound"
  /\ proc' = FALSE
  /\ FreeLists
  /\ UNCHANGED <<bus, policy, last, queued, checked, wq, seed>>

StartExit ==
  /\ phase = "live" /\ \A p \in Port : ~Calling(p)
  /\ phase' = "exiting"
  /\ UNCHANGED <<bus, policy, active, history, last, queued, checked, wq, proc, seed>>

(* Faulty variants: only usb_guard_exit destroys the workqueue; the        *)
(* workqueue is freed without being drained.                               *)
DrainQueueOnExitOnly ==
  /\ phase = "exiting" /\ wq = "up"
  /\ wq' = "draining"
  /\ UNCHANGED <<bus, policy, active, history, last, queued, checked, proc, seed, phase>>

FreeQueueAtOnce ==
  /\ wq = "draining"
  /\ wq' = "freed"
  /\ UNCHANGED <<bus, policy, active, history, last, queued, checked, proc, seed, phase>>

(* usb_guard_destroy_block_wq: destroy_workqueue drains, frees, and then   *)
(* the pointer is set to NULL.                                             *)
DrainQueue ==
  /\ phase \in {"exiting", "unwound"} /\ wq = "up"
  /\ wq' = "draining"
  /\ UNCHANGED <<bus, policy, active, history, last, queued, checked, proc, seed, phase>>

FreeQueue ==
  /\ wq = "draining"
  /\ \A j \in Job : queued[j] = 0 /\ checked[j] = 0
  /\ wq' = "freed"
  /\ UNCHANGED <<bus, policy, active, history, last, queued, checked, proc, seed, phase>>

ForgetQueue ==
  /\ phase \in {"exiting", "unwound"} /\ wq \in {"freed", "misused"}
  /\ wq' = IF wq = "freed" THEN "null" ELSE wq
  /\ phase' = IF phase = "exiting" THEN "destroyed" ELSE "unloaded"
  /\ UNCHANGED <<bus, policy, active, history, last, queued, checked, proc, seed>>

FinishExit ==
  /\ phase = "destroyed"
  /\ phase' = "unloaded"
  /\ proc' = FALSE
  /\ FreeLists
  /\ UNCHANGED <<bus, policy, last, queued, checked, wq, seed>>

-----------------------------------------------------------------------------

Init ==
  /\ bus = [p \in Port |-> Unplugged]
  /\ policy = [rules |-> <<>>, enabled |-> FALSE, block |-> TRUE]
  /\ active = [p \in Port |-> NoEntry]
  /\ history = [d \in Storage |-> NoHistory]
  /\ last = NoEvent
  /\ queued = [j \in Job |-> 0]
  /\ checked = [j \in Job |-> 0]
  /\ wq = "null"
  /\ proc = FALSE
  /\ seed = SeedIdle
  /\ phase = "unloaded"

Notifier(p) == TrackFill(p) \/ TrackUpsert(p) \/ TrackSchedule(p) \/ RemoveDevice(p)
SeedStep == (\E p \in Port : SeedVisit(p)) \/ SeedUpsert \/ SeedSchedule \/ SeedDone
ExitStep == DrainQueue \/ FreeQueue \/ ForgetQueue \/ FinishExit

Next ==
  \/ \E r \in Rule : AddRule(r) \/ RemoveRule(r)
  \/ ClearRules
  \/ \E on \in BOOLEAN : SetBlock(on) \/ WriteParam(on)
  \/ \E p \in Port : Unplug(p) \/ Reauthorize(p) \/ Notifier(p)
  \/ \E p \in Port, d \in Ident : Plug(p, d)
  \/ \E j \in Job : CheckWork(j) \/ WriteWork(j)
  \/ \E ps \in ParamList, b \in BOOLEAN : Load(ps, b)
  \/ RegisterNotifier \/ StartExit \/ UnwindInit
  \/ SeedStep \/ ExitStep

Spec == Init /\ [][Next]_vars

(* The hub thread that makes a notifier call, insmod, rmmod and the        *)
(* workqueue's threads keep running.  A write waiting for the device lock, *)
(* and usb_unregister_notify waiting for the notifier's rw_semaphore, get  *)
(* it in turn, although notifier calls take it again and again.            *)
Fairness ==
  /\ \A p \in Port : WF_vars(Notifier(p))
  /\ \A j \in Job : WF_vars(CheckWork(j)) /\ SF_vars(WriteWork(j))
  /\ WF_vars(RegisterNotifier) /\ WF_vars(SeedStep)
  /\ SF_vars(UnwindInit) /\ WF_vars(ExitStep)

FairSpec == Spec /\ Fairness

-----------------------------------------------------------------------------
(* Properties.                                                             *)

BusPort == [pc : {"empty", "fill", "upsert", "schedule", "present", "remove"},
            dev : Ident \union {None}, trusted : BOOLEAN, authorized : BOOLEAN]
Policy == [rules : Seq(Rule), enabled : BOOLEAN, block : BOOLEAN]
Entry == [dev : Storage \union {None}, trusted : BOOLEAN]
HistoryEntry == [known : BOOLEAN, connects : Nat, instances : Nat]
Event == [event : {"none", "add", "remove"}, port : Port \union {None},
          dev : Storage \union {None}, trusted : BOOLEAN]
SeedState == [pc : {"next", "upsert", "schedule"}, todo : SUBSET Port,
              port : Port \union {None}, dev : Storage \union {None}, trusted : BOOLEAN]

(* Every variable stays in its type: no counter goes below zero, no        *)
(* handler stores a device that has no mass-storage interface.             *)
TypeOK ==
  /\ bus \in [Port -> BusPort]
  /\ policy \in Policy
  /\ active \in [Port -> Entry]
  /\ history \in [Storage -> HistoryEntry]
  /\ last \in Event
  /\ queued \in [Job -> Nat]
  /\ checked \in [Job -> Nat]
  /\ wq \in {"null", "up", "draining", "freed", "misused"}
  /\ proc \in BOOLEAN
  /\ seed \in SeedState
  /\ phase \in {"unloaded", "prepared", "seeding", "live", "unwinding",
                "unwound", "exiting", "destroyed"}

Pending(j) == queued[j] + checked[j] > 0

(* Enforcement: a storage device the policy blocks is never left alone.    *)
(* Once the module is live, such a device, plugged in and authorized, has  *)
(* a block work under way, whatever the order in which plugging, seeding,  *)
(* commands and works came.  (Without faults and outside interference.)    *)
NoUntrustedLeftAlone ==
  phase = "live" =>
    \A p \in Port :
      /\ bus[p].pc = "present" /\ bus[p].dev \in Storage /\ bus[p].authorized
      /\ ShouldBlock(policy, bus[p].dev)
      => Pending(<<p, bus[p].dev>>)

(* While the notifier is registered, an entry names its port's device.     *)
EntriesCurrent ==
  Registered => \A p \in Port : active[p] # NoEntry => active[p].dev = bus[p].dev

(* The active list is the bus: while the notifier is registered, an entry  *)
(* names the device on its port, and once live every storage device that   *)
(* was not deauthorized beforehand and whose ADD call is over has one.     *)
ActiveMirrorsBus ==
  /\ EntriesCurrent
  /\ phase = "live" =>
       \A p \in Port :
         bus[p].pc = "present" /\ bus[p].dev \in Storage /\ bus[p].authorized
           => active[p] # NoEntry

(* History: active_instances counts the active entries of an identity and  *)
(* never exceeds connect_count, so that the guard against a negative count *)
(* in usb_guard_remove_device is never what keeps it right.                *)
HistoryCountsActive ==
  \A d \in Storage :
    /\ history[d].instances = Cardinality({p \in Port : active[p].dev = d})
    /\ history[d].instances <= history[d].connects
    /\ ~history[d].known => history[d].connects = 0

(* Unload: no block work and no notifier call outlives the module's text,  *)
(* no work is left without a workqueue, and nothing stays in the lists.    *)
NothingOutlivesModule ==
  /\ (\E j \in Job : Pending(j)) => wq \in {"up", "draining"}
  /\ ~Registered => \A p \in Port : ~Calling(p)
  /\ phase \in {"unloaded", "prepared"} =>
       \A p \in Port : active[p] = NoEntry

(* The rule table never overflows, and whitelist_enabled says whether it   *)
(* holds a rule; commands never make two equal rules out of none.          *)
RulesWellFormed ==
  /\ Len(policy.rules) <= MaxRules
  /\ policy.enabled <=> policy.rules # <<>>
  /\ (\A ps \in ParamList : IsInjective(ps)) => IsInjective(policy.rules)

(* Unloading is not queued on: no work is put on a destroyed workqueue.    *)
QueueNotMisused == wq # "misused"

(* A device that a rule covers is never deauthorized.                      *)
TrustedNeverBlocked ==
  [][\A p \in Port :
       (bus[p].authorized /\ ~bus'[p].authorized /\ bus'[p].dev # None)
         => ~Matches(policy, bus[p].dev)]_vars

(* A blocked device with a block work is dealt with, though other works    *)
(* are lost and others write `authorized` too: it is deauthorized, or      *)
(* unplugged, or the policy comes to accept it, or the module starts to go *)
(* away.  NoUntrustedLeftAlone says that there is a work.                  *)
UntrustedDealtWith ==
  \A p \in Port, d \in Storage :
    (/\ phase = "live" /\ bus[p].pc = "present" /\ bus[p].dev = d
     /\ ShouldBlock(policy, d) /\ Pending(<<p, d>>))
      ~> (\/ bus[p].dev # d \/ ~bus[p].authorized
          \/ ~ShouldBlock(policy, d) \/ phase # "live")

(* rmmod, and an insmod that fails halfway, come to an end.                *)
UnloadEnds == phase \in {"exiting", "unwinding"} ~> phase = "unloaded"

(* The active list and the history keep the ledger: seeding, repeated ADD  *)
(* calls, commands and failing steps never count a connection twice, move  *)
(* one to another identity or lose one.                                    *)
Ledger == INSTANCE UsbLedger WITH
  Ident <- Storage,
  device <- [p \in Port |-> active[p].dev],
  connects <- [d \in Storage |-> history[d].connects]

KeepsLedger == Ledger!Spec

-----------------------------------------------------------------------------
(* Invariants that the proofs of the properties above rest on.             *)

(* A notifier call past the interface test works on a storage device, and  *)
(* calls are made only while the notifier is registered.                   *)
BusShape ==
  \A p \in Port :
    /\ bus[p].pc \in {"upsert", "schedule"} => bus[p].dev \in Storage
    /\ bus[p].pc = "empty" => bus[p].dev = None
    /\ Calling(p) => Registered

(* Outside a load the lists are empty.                                     *)
ListShape ==
  /\ \A p \in Port : active[p].dev = None => active[p] = NoEntry
  /\ phase \in {"unloaded", "prepared", "unwound"} =>
       /\ \A p \in Port : active[p] = NoEntry
       /\ \A d \in Storage : history[d] = NoHistory

(* The seeding works on a storage device, and only during insmod.          *)
SeedShape ==
  IF seed.pc = "next" THEN seed.port = None
  ELSE seed.port \in Port /\ seed.dev \in Storage /\ phase = "seeding"

(* An unplugging never meets the seeding on its port, so what the seeding  *)
(* read of the device is still so when it stores it.                       *)
SeedCurrent ==
  seed.pc # "next" =>
    bus[seed.port].dev = seed.dev /\ bus[seed.port].pc \notin {"empty", "remove"}

=============================================================================
