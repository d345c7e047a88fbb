----------------------- MODULE UsbGuardMonitorProofs -----------------------
(***************************************************************************)
(* Proofs about the monitor on the kernel module, for every set of ports,  *)
(* identities and rules, every fault, and every way to run it.             *)
(***************************************************************************)
EXTENDS UsbGuardMonitor, UsbGuardProofs

(* The device the monitor is to look up or to write to is none that it     *)
(* must spare.                                                             *)
Spared == (mon.todo \union mon.targets) \cap kept = {}

MonitorInv == TypeInv /\ MonitorTypeOK /\ Spared

MonitorState ==
  [pc : {"off", "load", "enrich", "act", "reload", "wait"}, use : Use,
   right : Right, todo : SUBSET Port, targets : SUBSET Port]

(* The monitor's own part of the invariant follows from its record.        *)
LEMMA MonitorRecord ==
  ASSUME NEW m \in MonitorState, NEW k \in SUBSET Port,
         mon' = m, kept' = k,
         m.todo # {} => m.pc = "enrich",
         m.targets # {} => m.pc \in {"enrich", "act"},
         m.pc \in {"enrich", "act"} => m.right = "root",
         (m.todo \union m.targets) \cap k = {}
  PROVE  MonitorTypeOK' /\ Spared'
<1>1. mon' \in MonitorState /\ kept' \subseteq Port
  OBVIOUS
<1> QED
  BY <1>1 DEF MonitorTypeOK, MonitorState, Spared, At

(* The end of a pass: nothing is left to do, and nothing to spare.         *)
LEMMA PassOverKeeps ==
  ASSUME MonitorInv, PassOver, mon.todo = {}, mon.targets = {}
  PROVE  MonitorTypeOK' /\ Spared'
<1>1. mon \in MonitorState
  BY DEF MonitorInv, MonitorTypeOK, MonitorState
<1>2. CASE mon' = Off
  <2>1. Off \in MonitorState /\ Off.pc = "off" /\ Off.todo = {} /\ Off.targets = {}
    BY DEF Off, MonitorState, Use, Right
  <2> QED
    BY <1>2, <2>1, MonitorRecord DEF PassOver
<1>3. CASE mon' = [mon EXCEPT !.pc = "wait"]
  <2> DEFINE m == [mon EXCEPT !.pc = "wait"]
  <2>1. m \in MonitorState /\ m.pc = "wait" /\ m.todo = {} /\ m.targets = {}
    BY <1>1 DEF MonitorState
  <2> HIDE DEF m
  <2> QED
    BY <1>3, <2>1, MonitorRecord DEF PassOver, m
<1> QED
  BY <1>2, <1>3 DEF PassOver

(* A step of the kernel module only takes ports off those to spare.        *)
LEMMA KernelStepKeeps ==
  ASSUME MonitorInv, KernelStep
  PROVE  MonitorInv'
<1>1. TypeInv'
  BY NextKeepsType DEF MonitorInv, KernelStep
<1>2. mon' = mon /\ kept' \subseteq kept
  BY DEF KernelStep
<1>3. MonitorTypeOK' /\ Spared'
  BY <1>2 DEF MonitorInv, MonitorTypeOK, Spared, At
<1> QED
  BY <1>1, <1>3 DEF MonitorInv

(* Where the monitor changes nothing, the kernel's types are kept.         *)
LEMMA KernelUntouched ==
  ASSUME TypeInv, UNCHANGED vars
  PROVE  TypeInv'
  BY NextKeepsType

(* Starting and stopping.                                                  *)
LEMMA StartStopKeeps ==
  ASSUME MonitorInv, Stop \/ \E use \in Use, right \in Right : Start(use, right)
  PROVE  MonitorInv'
<1>1. TypeInv'
  BY KernelUntouched DEF MonitorInv, Stop, Start
<1>2. CASE Stop
  <2>1. Off \in MonitorState /\ Off.pc = "off" /\ Off.todo = {} /\ Off.targets = {}
    BY DEF Off, MonitorState, Use, Right
  <2> QED
    BY <1>1, <1>2, <2>1, MonitorRecord DEF Stop, MonitorInv
<1>3. CASE \E use \in Use, right \in Right : Start(use, right)
  <2>1. PICK use \in Use, right \in Right : Start(use, right)
    BY <1>3
  <2> DEFINE m == [Off EXCEPT !.pc = "load", !.use = use, !.right = right]
  <2>2. m \in MonitorState /\ m.pc = "load" /\ m.todo = {} /\ m.targets = {}
    BY DEF Off, MonitorState
  <2>3. mon' = m /\ kept' = kept /\ kept \in SUBSET Port
    BY <2>1 DEF Start, MonitorInv, MonitorTypeOK
  <2> HIDE DEF m
  <2> QED
    BY <1>1, <2>2, <2>3, MonitorRecord DEF MonitorInv
<1> QED
  BY <1>2, <1>3

(* What a status lists as untrusted is not spared, the rest is.            *)
LEMMA LoadStatusKeeps ==
  ASSUME MonitorInv, LoadStatus
  PROVE  MonitorInv'
<1>1. TypeInv' /\ mon.todo = {} /\ mon.targets = {} /\ mon \in MonitorState
  BY KernelUntouched DEF MonitorInv, MonitorTypeOK, MonitorState, LoadStatus, At
<1>2. CASE PassOver
  BY <1>1, <1>2, PassOverKeeps DEF MonitorInv
<1>3. CASE ~(~proc \/ mon.right = "observe" \/ Refused)
  <2> DEFINE pc == IF ToLookUp = {} THEN "reload" ELSE "enrich"
             todo == ToLookUp
             m == [mon EXCEPT !.pc = pc, !.todo = todo]
             k == {p \in Port : bus[p].dev # None} \ ListedUntrusted
  <2>1. mon' = m /\ kept' = k /\ k \in SUBSET Port
    BY <1>3 DEF LoadStatus
  <2>2. /\ todo \in SUBSET Port /\ todo \cap k = {} /\ pc \in {"reload", "enrich"}
        /\ todo # {} => pc = "enrich"
    BY DEF ToLookUp, ListedUntrusted
  <2>3. pc = "enrich" => mon.right = "root"
    <3>1. pc = "enrich" => policy.enabled
      BY DEF ToLookUp
    <3> QED
      BY <1>1, <1>3, <3>1 DEF Refused, MonitorState, Right
  <2> HIDE DEF pc, todo, k
  <2>4. /\ m \in MonitorState /\ m.pc = pc /\ m.todo = todo /\ m.targets = {}
        /\ m.right = mon.right
    BY <1>1, <2>2 DEF MonitorState
  <2> HIDE DEF m
  <2>5. MonitorTypeOK' /\ Spared'
    BY <2>1, <2>2, <2>3, <2>4, MonitorRecord
  <2> QED
    BY <1>1, <2>5 DEF MonitorInv
<1> QED
  BY <1>2, <1>3 DEF LoadStatus

(* A device is looked up: it goes from the ones to look up to the ones to  *)
(* write to, or is left alone.                                             *)
LEMMA EnrichKeeps ==
  ASSUME MonitorInv, NEW p \in Port, Enrich(p)
  PROVE  MonitorInv'
<1>1. TypeInv' /\ mon \in MonitorState /\ mon.pc = "enrich" /\ mon.right = "root"
      /\ (mon.todo \union mon.targets) \cap kept = {} /\ kept \in SUBSET Port /\ p \in mon.todo
  BY KernelUntouched DEF MonitorInv, MonitorTypeOK, MonitorState, Enrich, At, Spared
<1> DEFINE targets == mon.targets \union {q \in {p} : bus[q].authorized}
           todo == mon.todo \ {p}
           pc == IF mon.todo # {p} THEN "enrich"
                 ELSE IF targets = {} THEN "reload" ELSE "act"
           m == [mon EXCEPT !.todo = todo, !.targets = targets, !.pc = pc]
<1>2. mon' = m /\ kept' = kept
  BY DEF Enrich
<1>3. /\ targets \in SUBSET Port /\ todo \in SUBSET Port /\ (todo \union targets) \cap kept = {}
      /\ pc \in {"enrich", "reload", "act"}
      /\ todo # {} => pc = "enrich"
  BY <1>1 DEF MonitorState
<1>4. targets # {} => pc \in {"enrich", "act"}
  OBVIOUS
<1> HIDE DEF targets, todo, pc
<1>5. /\ m \in MonitorState /\ m.pc = pc /\ m.todo = todo /\ m.targets = targets
      /\ m.right = mon.right
  BY <1>1, <1>3 DEF MonitorState
<1> HIDE DEF m
<1>6. MonitorTypeOK' /\ Spared'
  BY <1>1, <1>2, <1>3, <1>4, <1>5, MonitorRecord
<1> QED
  BY <1>1, <1>6 DEF MonitorInv

(* A write changes `authorized` of its port and of no other.               *)
LEMMA ActForm ==
  ASSUME MonitorInv, NEW p \in Port, Act(p)
  PROVE  /\ TypeInv'
         /\ \A q \in Port \ {p} : bus'[q] = bus[q]
         /\ p \in mon.targets
<1> TypeOK /\ BusShape /\ ListShape /\ SeedShape
  BY DEF MonitorInv, TypeInv
<1>1. CASE bus' = bus
  <2>1. UNCHANGED vars
    BY <1>1 DEF Act, vars
  <2> QED
    BY <1>1, <2>1, KernelUntouched DEF MonitorInv, Act
<1>2. CASE bus' = [bus EXCEPT ![p].authorized = FALSE]
  <2>1. /\ bus' \in [Port -> BusPort] /\ \A q \in Port \ {p} : bus'[q] = bus[q]
        /\ bus'[p].pc = bus[p].pc /\ bus'[p].dev = bus[p].dev
    BY <1>2 DEF TypeOK, BusPort
  <2>2. TypeOK'
    BY <2>1 DEF Act, TypeOK
  <2>3. BusShape'
    BY <2>1 DEF Act, BusShape, Calling, Registered
  <2>4. ListShape' /\ SeedShape'
    BY DEF Act, ListShape, SeedShape
  <2> QED
    BY <2>1, <2>2, <2>3, <2>4 DEF Act, TypeInv
<1> QED
  BY <1>1, <1>2 DEF Act

(* A write keeps the invariant.                                            *)
LEMMA ActKeeps ==
  ASSUME MonitorInv, NEW p \in Port, Act(p)
  PROVE  MonitorInv'
<1>1. /\ TypeInv' /\ mon \in MonitorState /\ mon.pc = "act" /\ mon.right = "root"
      /\ mon.todo = {} /\ mon.targets \cap kept = {} /\ kept \in SUBSET Port
  BY ActForm DEF MonitorInv, MonitorTypeOK, MonitorState, Act, At, Spared
<1> DEFINE targets == mon.targets \ {p}
           pc == IF mon.targets = {p} THEN "reload" ELSE "act"
           m == [mon EXCEPT !.targets = targets, !.pc = pc]
<1>2. mon' = m /\ kept' = kept
  BY DEF Act
<1>3. /\ targets \in SUBSET Port /\ targets \cap kept = {}
      /\ pc \in {"reload", "act"}
      /\ targets # {} => pc = "act"
  BY <1>1, ActForm DEF MonitorState
<1> HIDE DEF targets, pc
<1>4. /\ m \in MonitorState /\ m.pc = pc /\ m.todo = {} /\ m.targets = targets
      /\ m.right = mon.right
  BY <1>1, <1>3 DEF MonitorState
<1> HIDE DEF m
<1>5. MonitorTypeOK' /\ Spared'
  BY <1>1, <1>2, <1>3, <1>4, MonitorRecord
<1> QED
  BY <1>1, <1>5 DEF MonitorInv

(* The pass ends, or the next one begins.                                  *)
LEMMA LoopKeeps ==
  ASSUME MonitorInv, Reload \/ Wake
  PROVE  MonitorInv'
<1>1. TypeInv' /\ mon \in MonitorState /\ mon.todo = {} /\ mon.targets = {} /\ kept \in SUBSET Port
  BY KernelUntouched DEF MonitorInv, MonitorTypeOK, MonitorState, Reload, Wake, At
<1>2. CASE Reload
  BY <1>1, <1>2, PassOverKeeps DEF Reload, MonitorInv
<1>3. CASE Wake
  <2> DEFINE m == [mon EXCEPT !.pc = "load"]
  <2>1. m \in MonitorState /\ m.pc = "load" /\ m.todo = {} /\ m.targets = {}
    BY <1>1 DEF MonitorState
  <2>2. mon' = m /\ kept' = kept
    BY <1>3 DEF Wake
  <2> HIDE DEF m
  <2> QED
    BY <1>1, <2>1, <2>2, MonitorRecord DEF MonitorInv
<1> QED
  BY <1>2, <1>3

(* The first state: the monitor is not running.                            *)
LEMMA MonitorInitKept == MonitorInit => MonitorInv
<1>1. MonitorInit => TypeInv
  BY InitTyped DEF MonitorInit
<1>2. MonitorInit => MonitorTypeOK /\ Spared
  BY DEF MonitorInit, MonitorTypeOK, Spared, Off, At, Use, Right
<1> QED
  BY <1>1, <1>2 DEF MonitorInv

(* Every step keeps the invariant.                                         *)
LEMMA MonitorNextKeeps ==
  ASSUME MonitorInv, [MonitorNext]_monitored
  PROVE  MonitorInv'
<1>1. CASE UNCHANGED monitored
  <2>1. UNCHANGED vars /\ mon' = mon /\ kept' = kept
    BY <1>1 DEF monitored
  <2> QED
    BY <2>1, KernelUntouched DEF MonitorInv, MonitorTypeOK, Spared, At
<1>2. CASE MonitorNext
  BY <1>2, KernelStepKeeps, StartStopKeeps, LoadStatusKeeps, EnrichKeeps, ActKeeps, LoopKeeps
  DEF MonitorNext, Run
<1> QED
  BY <1>1, <1>2

-----------------------------------------------------------------------------
(* The theorems.                                                           *)

(* The kernel module, the bus and the monitor stay in their types when     *)
(* they run together.                                                      *)
THEOREM MonitorTypeCorrect == MonitorSpec => [](TypeOK /\ MonitorTypeOK /\ Spared)
<1>1. MonitorInv => TypeOK /\ MonitorTypeOK /\ Spared
  BY DEF MonitorInv, TypeInv
<1>2. MonitorInv /\ [MonitorNext]_monitored => MonitorInv'
  BY MonitorNextKeeps
<1> QED
  BY <1>1, <1>2, MonitorInitKept, PTL DEF MonitorSpec

(* A step of the monitor leaves every port alone that it must spare.       *)
THEOREM MonitorSpares == MonitorSpec => MonitorSparesTheRest
<1> DEFINE Spares == mon' # mon => \A p \in kept : bus'[p] = bus[p]
<1>1. MonitorInv /\ [MonitorNext]_monitored => [Spares]_monitored
  <2> SUFFICES ASSUME MonitorInv, MonitorNext, mon' # mon PROVE \A p \in kept : bus'[p] = bus[p]
    OBVIOUS
  <2>1. kept \subseteq Port /\ mon.targets \cap kept = {}
    BY DEF MonitorInv, MonitorTypeOK, Spared
  <2>2. ASSUME NEW p \in Port, Act(p) PROVE \A q \in kept : bus'[q] = bus[q]
    BY <2>1, <2>2, ActForm
  <2>3. CASE bus' = bus
    BY <2>3
  <2> QED
    BY <2>2, <2>3 DEF MonitorNext, KernelStep, Run, Stop, Start, LoadStatus, Enrich, Reload,
       Wake, vars
<1>2. MonitorInv /\ [MonitorNext]_monitored => MonitorInv'
  BY MonitorNextKeeps
<1> QED
  BY <1>1, <1>2, MonitorInitKept, PTL DEF MonitorSpec, MonitorSparesTheRest

=============================================================================
