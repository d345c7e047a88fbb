-------------------------- MODULE UsbGuardMonitor --------------------------
(***************************************************************************)
(* bai_2/usb_guard_monitor.cpp at work on the kernel module: a process     *)
(* that reads /proc/usb_guard/status, looks every listed device up under   *)
(* /sys, and with --deauthorize-untrusted writes 0 to `authorized` of the  *)
(* ones the status marked untrusted.  It takes no lock of the kernel       *)
(* module's, so everything of UsbGuard may happen between two of its       *)
(* steps.  What it prints, and the keys that change only that, are left    *)
(* out.                                                                    *)
(***************************************************************************)
EXTENDS UsbGuard

VARIABLES
  mon,   \* the monitor: its options, and where its loop is
  kept   \* history: the ports that still hold the device they held when the
         \* status of this pass was loaded, and that it did not list as untrusted

monitored == <<vars, mon, kept>>

(* run_watch and run_tui repeat what run_once does.  "observe": without    *)
(* --deauthorize-untrusted; "user": with it, but not run by root.          *)
Use == {"once", "repeat"}
Right == {"observe", "user", "root"}

Off == [pc |-> "off", use |-> "once", right |-> "observe", todo |-> {}, targets |-> {}]

At(pc) == mon.pc = pc

(* Every exception ends run_once; the loops show it, and wait like after a *)
(* pass that went well.                                                    *)
PassOver ==
  /\ mon' = IF mon.use = "once" THEN Off ELSE [mon EXCEPT !.pc = "wait"]
  /\ kept' = {}

Start(use, right) ==
  /\ At("off")
  /\ mon' = [Off EXCEPT !.pc = "load", !.use = use, !.right = right]
  /\ UNCHANGED <<vars, kept>>

(* Key q, SIGINT or SIGKILL.                                               *)
Stop ==
  /\ ~At("off")
  /\ mon' = Off /\ kept' = {}
  /\ UNCHANGED vars

ListedUntrusted == {p \in Port : active[p] # NoEntry /\ ~active[p].trusted}

(* Faulty variants: geteuid is not asked; `whitelisted` is not looked at;  *)
(* nothing is done while the kernel module blocks by itself.               *)
NeverRefused == FALSE
ToLookUpAll == IF policy.enabled THEN {p \in Port : active[p] # NoEntry} ELSE {}
ToLookUpWithoutKernel == IF policy.enabled /\ ~policy.block THEN ListedUntrusted ELSE {}

(* The option is an error in whitelist mode for anybody but root.          *)
Refused == policy.enabled /\ mon.right = "user"

(* Outside whitelist mode apply_deauthorize_policy writes nothing.         *)
ToLookUp == IF policy.enabled THEN ListedUntrusted ELSE {}

(* load_status: usb_guard_proc_show prints under usb_guard_lock; without   *)
(* the module there is no file to read.                                    *)
LoadStatus ==
  /\ At("load")
  /\ IF ~proc \/ mon.right = "observe" \/ Refused THEN PassOver
     ELSE /\ mon' = [mon EXCEPT !.pc = IF ToLookUp = {} THEN "reload" ELSE "enrich",
                                !.todo = ToLookUp]
          /\ kept' = {p \in Port : bus[p].dev # None} \ ListedUntrusted
  /\ UNCHANGED vars

(* enrich_authorization: `authorized` of the device that has the devpath   *)
(* by now.  If there is none, or it is 0, the port is left alone.          *)
Enrich(p) ==
  /\ At("enrich") /\ p \in mon.todo
  /\ LET targets == mon.targets \union {q \in {p} : bus[q].authorized} IN
       mon' = [mon EXCEPT !.todo = @ \ {p}, !.targets = targets,
                          !.pc = IF mon.todo # {p} THEN "enrich"
                                 ELSE IF targets = {} THEN "reload" ELSE "act"]
  /\ UNCHANGED <<vars, kept>>

(* apply_deauthorize_policy: open and write, again for the device that has *)
(* the devpath by now.  The write waits for the device lock, and a failure *)
(* is seen only at the open.                                               *)
Act(p) ==
  /\ At("act") /\ p \in mon.targets
  /\ \/ /\ bus[p].pc = "present"
        /\ bus' = [bus EXCEPT ![p].authorized = FALSE]
     \/ /\ bus[p].pc \in {"empty", "remove"} \/ "io" \in Env
        /\ UNCHANGED bus
  /\ mon' = [mon EXCEPT !.targets = @ \ {p},
                        !.pc = IF mon.targets = {p} THEN "reload" ELSE "act"]
  /\ UNCHANGED <<policy, active, history, last, queued, checked, wq, proc, seed,
                 phase, kept>>

(* 250 ms later the status is loaded once more, to be shown.               *)
Reload ==
  /\ At("reload")
  /\ PassOver
  /\ UNCHANGED vars

(* The interval is over, or a key was pressed.                             *)
Wake ==
  /\ At("wait")
  /\ mon' = [mon EXCEPT !.pc = "load"]
  /\ UNCHANGED <<vars, kept>>

Run == LoadStatus \/ (\E p \in Port : Enrich(p)) \/ Reload \/ Wake

(* A step of the kernel module, the bus or root.                           *)
KernelStep ==
  /\ Next
  /\ kept' = {p \in kept : bus'[p].dev = bus[p].dev}
  /\ UNCHANGED mon

MonitorInit == Init /\ mon = Off /\ kept = {}

MonitorNext ==
  \/ KernelStep \/ Run \/ Stop
  \/ \E p \in Port : Act(p)
  \/ \E use \in Use, right \in Right : Start(use, right)

(* The monitor's thread runs, and a write that waits for the device lock   *)
(* gets it in turn.  Nobody has to start the monitor or to let it run.     *)
MonitorSpec ==
  /\ MonitorInit /\ [][MonitorNext]_monitored
  /\ Fairness /\ WF_monitored(Run) /\ SF_monitored(\E p \in Port : Act(p))

-----------------------------------------------------------------------------
(* Properties.                                                             *)

(* The monitor's variables stay in their types; it works only on devices   *)
(* that a status listed, and only with the right to.                       *)
MonitorTypeOK ==
  /\ mon \in [pc : {"off", "load", "enrich", "act", "reload", "wait"}, use : Use,
              right : Right, todo : SUBSET Port, targets : SUBSET Port]
  /\ kept \subseteq Port
  /\ mon.todo # {} => At("enrich")
  /\ mon.targets # {} => mon.pc \in {"enrich", "act"}
  /\ mon.pc \in {"enrich", "act"} => mon.right = "root"

(* The monitor works from a status that is out of date by the time it      *)
(* writes, but never by more than one pass: the device it deauthorizes was *)
(* listed as untrusted when the pass began, or was not there yet.          *)
MonitorSparesTheRest ==
  [][mon' # mon => \A p \in kept : bus'[p] = bus[p]]_monitored

(* A monitor that root keeps running deauthorizes what the status shows as *)
(* an untrusted, authorized device, whether or not the kernel module       *)
(* blocks, also when a block work was lost or somebody authorized the      *)
(* device again; unless it is unplugged, the policy changes, or the module *)
(* or the monitor goes away.                                               *)
MonitorEnforces ==
  \A p \in Port :
    (/\ mon.use = "repeat" /\ mon.right = "root" /\ ~At("off")
     /\ proc /\ policy.enabled /\ p \in ListedUntrusted
     /\ bus[p].pc = "present" /\ bus[p].authorized)
      ~> (\/ At("off") \/ ~proc \/ ~policy.enabled
          \/ p \notin ListedUntrusted \/ ~bus[p].authorized)

=============================================================================
