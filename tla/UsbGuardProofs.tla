--------------------------- MODULE UsbGuardProofs ---------------------------
(* Theorems about UsbGuard, for every set of ports, identities and rules.  *)
EXTENDS UsbGuard, FiniteSetTheorems, SequenceTheorems, TLAPS

USE ConstantsAssumption

-----------------------------------------------------------------------------
(* What the shared helpers do to the variables.                            *)

(* Scheduling only ever adds to the waiting works, and only while the      *)
(* workqueue is up.                                                        *)
LEMMA ScheduleFacts ==
  ASSUME TypeOK, NEW pol, NEW S, ScheduleBlock(pol, S)
  PROVE  /\ queued' \in [Job -> Nat]
         /\ checked' = checked
         /\ wq' \in {wq, "misused"}
         /\ wq' # wq => wq = "freed"
         /\ queued' # queued => wq = "up"
<1> DEFINE jobs == {j \in S : ShouldBlock(pol, j[2])}
<1>1. CASE /\ wq = "up"
           /\ \E lost \in (IF "alloc" \in Env THEN SUBSET jobs ELSE {{}}) :
                queued' = [j \in Job |-> queued[j] + (IF j \in jobs \ lost THEN 1 ELSE 0)]
           /\ UNCHANGED wq
  <2>1. PICK lost : queued' = [j \in Job |-> queued[j] + (IF j \in jobs \ lost THEN 1 ELSE 0)]
    BY <1>1
  <2>2. queued \in [Job -> Nat]
    BY DEF TypeOK
  <2>3. queued' \in [Job -> Nat]
    BY <2>1, <2>2
  <2> QED
    BY <1>1, <2>3 DEF ScheduleBlock
<1>2. CASE wq \in {"null", "draining"} /\ UNCHANGED <<queued, wq>>
  BY <1>2 DEF ScheduleBlock, TypeOK
<1>3. CASE /\ wq \in {"freed", "misused"}
           /\ wq' = IF jobs = {} THEN wq ELSE "misused"
           /\ UNCHANGED queued
  BY <1>3 DEF ScheduleBlock, TypeOK
<1> QED
  BY <1>1, <1>2, <1>3 DEF ScheduleBlock

(* A recalculation keeps every entry's device and only sets its flag.      *)
LEMMA RecalculateFacts ==
  ASSUME TypeOK, NEW rules \in Seq(Rule), Recalculate(rules)
  PROVE  /\ policy' = [policy EXCEPT !.rules = rules, !.enabled = Len(rules) > 0]
         /\ policy' \in Policy
         /\ active' \in [Port -> Entry]
         /\ \A p \in Port : /\ active'[p].dev = active[p].dev
                            /\ active[p].dev = None => active'[p] = active[p]
         /\ last' \in Event
         /\ queued' \in [Job -> Nat]
         /\ checked' = checked
         /\ wq' \in {wq, "misused"}
         /\ wq' # wq => wq = "freed"
         /\ queued' # queued => wq = "up"
<1> DEFINE pol == [policy EXCEPT !.rules = rules, !.enabled = Len(rules) > 0]
<1>1. (Len(rules) > 0) \in BOOLEAN
  OBVIOUS
<1>2. /\ policy' = pol
      /\ active' = [p \in Port |-> Refreshed(pol, active[p])]
      /\ last' = Refreshed(pol, last)
      /\ ScheduleBlock(pol, ActiveJobs)
  BY DEF Recalculate
<1>3. policy' \in Policy
  <2>1. policy \in Policy
    BY DEF TypeOK
  <2> QED
    BY <1>1, <1>2, <2>1 DEF Policy
<1>4. \A d : Matches(pol, d) \in BOOLEAN
  BY DEF Matches
<1>5. \A p \in Port : /\ active'[p] \in Entry
                      /\ active'[p].dev = active[p].dev
                      /\ active[p].dev = None => active'[p] = active[p]
  <2> TAKE p \in Port
  <2>1. active[p] \in Entry
    BY DEF TypeOK
  <2>2. Matches(pol, active[p].dev) \in BOOLEAN
    BY <1>4
  <2>3. \/ active'[p] = active[p]
        \/ /\ active[p].dev # None
           /\ active'[p] = [active[p] EXCEPT !.trusted = Matches(pol, active[p].dev)]
    BY <1>2 DEF Refreshed
  <2> HIDE DEF pol
  <2> QED
    BY <2>1, <2>2, <2>3 DEF Entry
<1>6. active' \in [Port -> Entry]
  BY <1>2, <1>5
<1>7. last' \in Event
  <2>1. last \in Event
    BY DEF TypeOK
  <2>2. Matches(pol, last.dev) \in BOOLEAN
    BY <1>4
  <2>3. last' = last \/ last' = [last EXCEPT !.trusted = Matches(pol, last.dev)]
    BY <1>2 DEF Refreshed
  <2> HIDE DEF pol
  <2> QED
    BY <2>1, <2>2, <2>3 DEF Event
<1> HIDE DEF pol
<1>8. /\ queued' \in [Job -> Nat]
      /\ checked' = checked
      /\ wq' \in {wq, "misused"}
      /\ wq' # wq => wq = "freed"
      /\ queued' # queued => wq = "up"
  BY <1>2, ScheduleFacts
<1> QED
  BY <1>2, <1>3, <1>5, <1>6, <1>7, <1>8 DEF pol

-----------------------------------------------------------------------------
(* Type correctness.                                                       *)

TypeInv == TypeOK /\ BusShape /\ ListShape /\ SeedShape

(* A rule command keeps types and shape: it changes the policy, the flags, *)
(* last_device's flag and the waiting works.                               *)
LEMMA RecalculateKeepsType ==
  ASSUME TypeInv, NEW rules \in Seq(Rule), Recalculate(rules),
         UNCHANGED <<bus, history, proc, seed, phase>>
  PROVE  TypeInv'
<1> TypeOK /\ BusShape /\ ListShape /\ SeedShape
  BY DEF TypeInv
<1>1. /\ policy' \in Policy
      /\ active' \in [Port -> Entry]
      /\ \A p \in Port : /\ active'[p].dev = active[p].dev
                         /\ active[p].dev = None => active'[p] = active[p]
      /\ last' \in Event
      /\ queued' \in [Job -> Nat]
      /\ checked' = checked
      /\ wq' \in {wq, "misused"}
  BY RecalculateFacts
<1>2. TypeOK'
  BY <1>1 DEF TypeOK
<1>3. NoEntry.dev = None
  BY DEF NoEntry
<1>4. ListShape'
  BY <1>1, <1>3 DEF ListShape
<1>5. BusShape' /\ SeedShape'
  BY DEF BusShape, SeedShape, Calling, Registered
<1> QED
  BY <1>2, <1>4, <1>5 DEF TypeInv

(* Storing a connection keeps the lists in their types.                    *)
LEMMA UpsertFacts ==
  ASSUME TypeOK, NEW p \in Port, NEW d \in Storage, NEW t \in BOOLEAN, Upsert(p, d, t)
  PROVE  /\ active' \in [Port -> Entry]
         /\ active'[p].dev = d
         /\ \A q \in Port \ {p} : active'[q] = active[q]
         /\ history' \in [Storage -> HistoryEntry]
<1> DEFINE new == IF active[p] = NoEntry THEN 1 ELSE 0
           h == [known |-> TRUE, connects |-> history[d].connects + new,
                 instances |-> history[d].instances + new]
           e == [dev |-> d, trusted |-> t]
<1>1. history \in [Storage -> HistoryEntry] /\ active \in [Port -> Entry]
  BY DEF TypeOK
<1>2. history' = [history EXCEPT ![d] = h] /\ active' = [active EXCEPT ![p] = e]
  BY DEF Upsert
<1>3. new \in Nat
  OBVIOUS
<1>4. history[d].connects \in Nat /\ history[d].instances \in Nat
  BY <1>1 DEF HistoryEntry
<1> HIDE DEF new
<1>5. h \in HistoryEntry
  BY <1>3, <1>4 DEF HistoryEntry
<1>6. e \in Entry /\ e.dev = d
  BY DEF Entry
<1> HIDE DEF h, e
<1> QED
  BY <1>1, <1>2, <1>5, <1>6

(* So does ending one.                                                     *)
LEMMA RemoveEntryFacts ==
  ASSUME TypeOK, ListShape, NEW p \in Port, active[p] # NoEntry, RemoveEntry(p)
  PROVE  /\ active[p].dev \in Storage
         /\ active' \in [Port -> Entry]
         /\ active'[p] = NoEntry
         /\ \A q \in Port \ {p} : active'[q] = active[q]
         /\ history' \in [Storage -> HistoryEntry]
         /\ last' \in Event
<1> DEFINE d == active[p].dev
           n == IF history[d].instances > 0 THEN history[d].instances - 1 ELSE 0
<1>1. history \in [Storage -> HistoryEntry] /\ active \in [Port -> Entry]
  BY DEF TypeOK
<1>2. d \in Storage /\ active[p].trusted \in BOOLEAN
  BY <1>1 DEF ListShape, Entry
<1>3. n \in Nat
  BY <1>1, <1>2 DEF HistoryEntry
<1>4. history' = [history EXCEPT ![d].instances = n]
  BY DEF RemoveEntry
<1>5. NoEntry \in Entry
  BY DEF NoEntry, Entry
<1>6. last' \in Event
  BY <1>2 DEF RemoveEntry, Event
<1> HIDE DEF n
<1>7. history' \in [Storage -> HistoryEntry]
  BY <1>1, <1>2, <1>3, <1>4 DEF HistoryEntry
<1>8. active' = [active EXCEPT ![p] = NoEntry]
  BY DEF RemoveEntry
<1> QED
  BY <1>1, <1>2, <1>5, <1>6, <1>7, <1>8

LEMMA FreeListsFacts ==
  ASSUME FreeLists
  PROVE  /\ active' \in [Port -> Entry]
         /\ history' \in [Storage -> HistoryEntry]
         /\ ListShape'
<1>1. NoEntry \in Entry /\ NoHistory \in HistoryEntry
  BY DEF NoEntry, NoHistory, Entry, HistoryEntry
<1>2. /\ active' = [p \in Port |-> NoEntry]
      /\ history' = [d \in Storage |-> NoHistory]
  BY DEF FreeLists
<1> QED
  BY <1>1, <1>2 DEF ListShape

(* A step of one port's device keeps the bus in shape.                     *)
LEMMA BusStep ==
  ASSUME bus \in [Port -> BusPort], BusShape, NEW p \in Port, NEW b \in BusPort,
         b.pc \in {"upsert", "schedule"} => b.dev \in Storage,
         b.pc = "empty" => b.dev = None,
         b.pc \notin {"empty", "present"} => Registered,
         bus' = [bus EXCEPT ![p] = b], phase' = phase
  PROVE  bus' \in [Port -> BusPort] /\ BusShape'
<1>1. bus' \in [Port -> BusPort]
  OBVIOUS
<1>2. /\ bus'[p] = b
      /\ \A q \in Port : q # p => bus'[q] = bus[q]
  OBVIOUS
<1> QED
  BY <1>1, <1>2 DEF BusShape, Calling, Registered

(* The commands of the control file, and the module parameter.             *)
LEMMA CommandsKeepType ==
  ASSUME TypeInv,
         \/ \E r \in Rule : AddRule(r) \/ RemoveRule(r)
         \/ ClearRules
         \/ \E on \in BOOLEAN : SetBlock(on) \/ WriteParam(on)
  PROVE  TypeInv'
<1> TypeOK /\ BusShape /\ ListShape /\ SeedShape
  BY DEF TypeInv
<1>1. policy.rules \in Seq(Rule)
  BY DEF TypeOK, Policy
<1>2. ASSUME NEW r \in Rule, AddRule(r)
      PROVE  TypeInv'
  <2>1. Append(policy.rules, r) \in Seq(Rule)
    BY <1>1
  <2> QED
    BY <1>2, <2>1, RecalculateKeepsType DEF AddRule, Command
<1>3. ASSUME NEW r \in Rule, RemoveRule(r)
      PROVE  TypeInv'
  <2>1. PICK i \in DOMAIN policy.rules : Recalculate(RemoveAt(policy.rules, i))
    BY <1>3 DEF RemoveRule
  <2>2. RemoveAt(policy.rules, i) \in Seq(Rule)
    BY <1>1 DEF RemoveAt
  <2> QED
    BY <1>3, <2>1, <2>2, RecalculateKeepsType DEF RemoveRule, Command
<1>4. CASE ClearRules
  <2>1. <<>> \in Seq(Rule)
    OBVIOUS
  <2> QED
    BY <1>4, <2>1, RecalculateKeepsType DEF ClearRules, Command
<1>5. ASSUME NEW on \in BOOLEAN, SetBlock(on)
      PROVE  TypeInv'
  <2> DEFINE pol == [policy EXCEPT !.block = on]
  <2>1. pol \in Policy
    BY DEF TypeOK, Policy
  <2>2. /\ ScheduleBlock(pol, ActiveJobs) /\ policy' = pol
        /\ UNCHANGED <<bus, active, history, last, proc, seed, phase>>
    BY <1>5 DEF SetBlock, Command
  <2> HIDE DEF pol
  <2>3. /\ queued' \in [Job -> Nat]
        /\ checked' = checked
        /\ wq' \in {wq, "misused"}
    BY <2>2, ScheduleFacts
  <2>4. TypeOK'
    BY <2>1, <2>2, <2>3 DEF TypeOK
  <2>5. BusShape' /\ ListShape' /\ SeedShape'
    BY <2>2 DEF BusShape, ListShape, SeedShape, Calling, Registered
  <2> QED
    BY <2>4, <2>5 DEF TypeInv
<1>6. ASSUME NEW on \in BOOLEAN, WriteParam(on)
      PROVE  TypeInv'
  <2>1. policy' \in Policy
    BY <1>6 DEF WriteParam, TypeOK, Policy
  <2>2. TypeOK'
    BY <1>6, <2>1 DEF WriteParam, TypeOK
  <2>3. BusShape' /\ ListShape' /\ SeedShape'
    BY <1>6 DEF WriteParam, BusShape, ListShape, SeedShape, Calling, Registered
  <2> QED
    BY <2>2, <2>3 DEF TypeInv
<1> QED
  BY <1>2, <1>3, <1>4, <1>5, <1>6

(* Plugging, unplugging, reauthorizing, and a write to `authorized`.       *)
LEMMA BusKeepsType ==
  ASSUME TypeInv, NEW p \in Port,
         \/ \E d \in Ident : Plug(p, d)
         \/ Unplug(p) \/ Reauthorize(p) \/ TrackFill(p)
  PROVE  TypeInv'
<1> TypeOK /\ BusShape /\ ListShape /\ SeedShape
  BY DEF TypeInv
<1>1. bus \in [Port -> BusPort] /\ bus[p] \in BusPort
  BY DEF TypeOK
<1>2. UNCHANGED <<policy, active, history, last, queued, checked, wq, proc, seed, phase>>
  BY DEF Plug, Unplug, Reauthorize, TrackFill
<1>3. bus' \in [Port -> BusPort] /\ BusShape'
  <2>1. ASSUME NEW d \in Ident, Plug(p, d)
        PROVE  bus' \in [Port -> BusPort] /\ BusShape'
    <3> DEFINE b == [pc |-> IF Registered THEN "fill" ELSE "present",
                     dev |-> d, trusted |-> FALSE, authorized |-> TRUE]
    <3>1. /\ b \in BusPort
          /\ b.pc \in {"fill", "present"} /\ (b.pc = "fill" => Registered)
      BY DEF BusPort
    <3>2. bus' = [bus EXCEPT ![p] = b]
      BY <2>1 DEF Plug
    <3> HIDE DEF b
    <3> QED
      BY <1>1, <1>2, <3>1, <3>2, BusStep
  <2>2. CASE Unplug(p)
    <3> DEFINE b == IF Registered THEN [bus[p] EXCEPT !.pc = "remove"] ELSE Unplugged
    <3>1. /\ b \in BusPort
          /\ b.pc \in {"remove", "empty"} /\ (b.pc = "remove" => Registered)
          /\ b.pc = "empty" => b.dev = None
      BY <1>1 DEF BusPort, Unplugged
    <3>2. bus' = [bus EXCEPT ![p] = b]
      BY <2>2 DEF Unplug
    <3> HIDE DEF b
    <3> QED
      BY <1>1, <1>2, <3>1, <3>2, BusStep
  <2>3. CASE Reauthorize(p)
    <3> DEFINE b == [bus[p] EXCEPT !.authorized = TRUE]
    <3>1. b \in BusPort /\ b.pc = "present"
      BY <1>1, <2>3 DEF BusPort, Reauthorize
    <3>2. bus' = [bus EXCEPT ![p] = b]
      BY <1>1, <2>3 DEF Reauthorize
    <3> HIDE DEF b
    <3> QED
      BY <1>1, <1>2, <3>1, <3>2, BusStep
  <2>4. CASE TrackFill(p)
    <3> DEFINE d == bus[p].dev
               b == IF d \in Storage
                    THEN [bus[p] EXCEPT !.pc = "upsert", !.trusted = Matches(policy, d)]
                    ELSE [bus[p] EXCEPT !.pc = "present"]
    <3>1. Matches(policy, d) \in BOOLEAN
      BY DEF Matches
    <3>2. /\ b \in BusPort
          /\ b.pc \in {"upsert", "present"}
          /\ b.pc = "upsert" => b.dev \in Storage
      BY <1>1, <3>1 DEF BusPort
    <3>3. Registered
      BY <2>4 DEF TrackFill, BusShape, Calling
    <3>4. bus' = [bus EXCEPT ![p] = b]
      BY <1>1, <2>4 DEF TrackFill
    <3> HIDE DEF b
    <3> QED
      BY <1>1, <1>2, <3>2, <3>3, <3>4, BusStep
  <2> QED
    BY <2>1, <2>2, <2>3, <2>4
<1>4. TypeOK'
  BY <1>2, <1>3 DEF TypeOK
<1>5. ListShape' /\ SeedShape'
  BY <1>2 DEF ListShape, SeedShape
<1> QED
  BY <1>3, <1>4, <1>5 DEF TypeInv

(* The notifier's critical sections.                                       *)
LEMMA NotifierKeepsType ==
  ASSUME TypeInv, NEW p \in Port, TrackUpsert(p) \/ TrackSchedule(p) \/ RemoveDevice(p)
  PROVE  TypeInv'
<1> TypeOK /\ BusShape /\ ListShape /\ SeedShape
  BY DEF TypeInv
<1>1. bus \in [Port -> BusPort] /\ bus[p] \in BusPort
  BY DEF TypeOK
<1>2. Registered
  BY DEF TrackUpsert, TrackSchedule, RemoveDevice, BusShape, Calling
<1>3. UNCHANGED <<policy, proc, seed, phase>>
  BY DEF TrackUpsert, TrackSchedule, RemoveDevice
<1>4. bus' \in [Port -> BusPort] /\ BusShape'
  <2> DEFINE a == [bus[p] EXCEPT !.pc = "schedule", !.trusted = FALSE]
             b == [bus[p] EXCEPT !.pc = "present", !.trusted = FALSE]
             c == [bus[p] EXCEPT !.pc = "present"]
  <2>1. /\ a \in BusPort /\ b \in BusPort /\ c \in BusPort /\ Unplugged \in BusPort
        /\ a.pc = "schedule" /\ a.dev = bus[p].dev /\ b.pc = "present" /\ c.pc = "present"
        /\ Unplugged.pc = "empty" /\ Unplugged.dev = None
    BY <1>1 DEF BusPort, Unplugged
  <2>2. \/ bus' = [bus EXCEPT ![p] = a] /\ bus[p].dev \in Storage
        \/ bus' = [bus EXCEPT ![p] = b]
        \/ bus' = [bus EXCEPT ![p] = c]
        \/ bus' = [bus EXCEPT ![p] = Unplugged]
    BY <1>1 DEF TrackUpsert, TrackSchedule, RemoveDevice, BusShape
  <2> HIDE DEF a, b, c
  <2> QED
    BY <1>1, <1>2, <1>3, <2>1, <2>2, BusStep
<1>5. SeedShape'
  BY <1>3 DEF SeedShape
<1>6. phase \notin {"unloaded", "prepared", "unwound"}
  BY <1>2 DEF Registered
<1>7. CASE TrackUpsert(p)
  <2> DEFINE d == bus[p].dev  t == bus[p].trusted
             e == [event |-> "add", port |-> p, dev |-> d, trusted |-> t]
  <2>1. d \in Storage /\ t \in BOOLEAN
    BY <1>1, <1>7 DEF TrackUpsert, BusShape, BusPort
  <2>2. UNCHANGED <<queued, checked, wq>>
    BY <1>7 DEF TrackUpsert
  <2>3. CASE Upsert(p, d, t) /\ last' = e
    <3>1. /\ active' \in [Port -> Entry]
          /\ active'[p].dev = d
          /\ \A q \in Port \ {p} : active'[q] = active[q]
          /\ history' \in [Storage -> HistoryEntry]
      BY <2>1, <2>3, UpsertFacts
    <3>2. e \in Event
      BY <2>1 DEF Event
    <3>3. TypeOK'
      BY <1>3, <1>4, <2>2, <2>3, <3>1, <3>2 DEF TypeOK
    <3>4. ListShape'
      BY <1>3, <1>6, <2>1, <3>1 DEF ListShape
    <3> QED
      BY <1>4, <1>5, <3>3, <3>4 DEF TypeInv
  <2>4. CASE UNCHANGED lists
    <3>1. TypeOK'
      BY <1>3, <1>4, <2>2, <2>4 DEF TypeOK, lists
    <3>2. ListShape'
      BY <1>3, <2>4 DEF ListShape, lists
    <3> QED
      BY <1>4, <1>5, <3>1, <3>2 DEF TypeInv
  <2> QED
    BY <1>7, <2>3, <2>4 DEF TrackUpsert
<1>8. CASE TrackSchedule(p)
  <2>1. /\ queued' \in [Job -> Nat]
        /\ checked' = checked
        /\ wq' \in {wq, "misused"}
        /\ UNCHANGED <<active, history, last>>
    BY <1>8, ScheduleFacts DEF TrackSchedule
  <2>2. TypeOK'
    BY <1>3, <1>4, <2>1 DEF TypeOK
  <2>3. ListShape'
    BY <1>3, <2>1 DEF ListShape
  <2> QED
    BY <1>4, <1>5, <2>2, <2>3 DEF TypeInv
<1>9. CASE RemoveDevice(p)
  <2>1. UNCHANGED <<queued, checked, wq>>
    BY <1>9 DEF RemoveDevice
  <2>2. CASE active[p] # NoEntry /\ RemoveEntry(p)
    <3>1. /\ active' \in [Port -> Entry]
          /\ active'[p] = NoEntry
          /\ \A q \in Port \ {p} : active'[q] = active[q]
          /\ history' \in [Storage -> HistoryEntry]
          /\ last' \in Event
      BY <2>2, RemoveEntryFacts
    <3>2. TypeOK'
      BY <1>3, <1>4, <2>1, <3>1 DEF TypeOK
    <3>3. ListShape'
      BY <1>3, <1>6, <3>1 DEF ListShape
    <3> QED
      BY <1>4, <1>5, <3>2, <3>3 DEF TypeInv
  <2>3. CASE UNCHANGED lists
    <3>1. TypeOK'
      BY <1>3, <1>4, <2>1, <2>3 DEF TypeOK, lists
    <3>2. ListShape'
      BY <1>3, <2>3 DEF ListShape, lists
    <3> QED
      BY <1>4, <1>5, <3>1, <3>2 DEF TypeInv
  <2> QED
    BY <1>9, <2>2, <2>3 DEF RemoveDevice
<1> QED
  BY <1>7, <1>8, <1>9

(* The block works.                                                        *)
LEMMA WorksKeepType ==
  ASSUME TypeInv, NEW j \in Job, CheckWork(j) \/ WriteWork(j)
  PROVE  TypeInv'
<1> TypeOK /\ BusShape /\ ListShape /\ SeedShape
  BY DEF TypeInv
<1>1. bus \in [Port -> BusPort] /\ queued \in [Job -> Nat] /\ checked \in [Job -> Nat]
  BY DEF TypeOK
<1>2. UNCHANGED <<policy, active, history, last, wq, proc, seed, phase>>
  BY DEF CheckWork, WriteWork
<1>3. queued' \in [Job -> Nat] /\ checked' \in [Job -> Nat]
  <2>1. CASE CheckWork(j)
    <3>1. (IF ShouldBlock(policy, j[2]) THEN 1 ELSE 0) \in Nat
      OBVIOUS
    <3> QED
      BY <1>1, <2>1, <3>1 DEF CheckWork
  <2>2. CASE WriteWork(j)
    BY <1>1, <2>2 DEF WriteWork
  <2> QED
    BY <2>1, <2>2
<1>4. bus' \in [Port -> BusPort] /\ BusShape'
  <2> DEFINE p == j[1]  b == [bus[p] EXCEPT !.authorized = FALSE]
  <2>1. p \in Port
    BY DEF Job
  <2>2. CASE bus[p].pc = "present" /\ bus' = [bus EXCEPT ![p].authorized = FALSE]
    <3>1. b \in BusPort /\ b.pc = "present"
      BY <1>1, <2>1, <2>2 DEF BusPort
    <3>2. bus' = [bus EXCEPT ![p] = b]
      BY <1>1, <2>1, <2>2
    <3> HIDE DEF b, p
    <3> QED
      BY <1>1, <1>2, <2>1, <3>1, <3>2, BusStep
  <2>3. CASE UNCHANGED bus
    BY <1>1, <1>2, <2>3 DEF BusShape, Calling, Registered
  <2> QED
    BY <2>2, <2>3 DEF CheckWork, WriteWork
<1>5. TypeOK'
  BY <1>2, <1>3, <1>4 DEF TypeOK
<1>6. ListShape' /\ SeedShape'
  BY <1>2 DEF ListShape, SeedShape
<1> QED
  BY <1>4, <1>5, <1>6 DEF TypeInv

(* The seeding.                                                            *)
LEMMA SeedKeepsType ==
  ASSUME TypeInv, SeedStep
  PROVE  TypeInv'
<1> TypeOK /\ BusShape /\ ListShape /\ SeedShape
  BY DEF TypeInv
<1>1. bus \in [Port -> BusPort] /\ seed \in SeedState
  BY DEF TypeOK
<1>2. UNCHANGED <<bus, policy, proc>> /\ phase = "seeding"
  BY DEF SeedStep, SeedVisit, SeedUpsert, SeedSchedule, SeedDone
<1>3. ASSUME NEW p \in Port, SeedVisit(p)
      PROVE  TypeInv'
  <2> DEFINE b == bus[p]
             s == [pc |-> "upsert", todo |-> seed.todo \ {p}, port |-> p,
                   dev |-> b.dev, trusted |-> Matches(policy, b.dev)]
             t == [seed EXCEPT !.todo = @ \ {p}]
  <2>1. Matches(policy, b.dev) \in BOOLEAN
    BY DEF Matches
  <2>2. UNCHANGED <<active, history, last, queued, checked, wq, phase>>
    BY <1>3 DEF SeedVisit
  <2>3. seed' \in SeedState /\ SeedShape'
    <3>1. CASE b.dev \in Storage /\ seed' = s
      BY <1>1, <1>2, <2>1, <2>2, <3>1 DEF SeedState, SeedShape
    <3>2. CASE seed' = t
      BY <1>1, <1>2, <2>2, <3>2 DEF SeedState, SeedShape
    <3> QED
      BY <1>3, <3>1, <3>2 DEF SeedVisit
  <2>4. TypeOK'
    BY <1>2, <2>2, <2>3 DEF TypeOK
  <2>5. BusShape' /\ ListShape'
    BY <1>2, <2>2 DEF BusShape, ListShape, Calling, Registered
  <2> QED
    BY <2>3, <2>4, <2>5 DEF TypeInv
<1>4. SeedIdle \in SeedState /\ SeedIdle.pc = "next" /\ SeedIdle.port = None
  BY DEF SeedIdle, SeedState
<1>5. CASE SeedUpsert
  <2>1. seed.port \in Port /\ seed.dev \in Storage /\ seed.trusted \in BOOLEAN
    BY <1>1, <1>5 DEF SeedUpsert, SeedShape, SeedState
  <2>2. UNCHANGED <<queued, checked, wq>>
    BY <1>5 DEF SeedUpsert
  <2>3. CASE /\ Upsert(seed.port, seed.dev, seed.trusted)
             /\ seed' = [seed EXCEPT !.pc = "schedule"]
             /\ UNCHANGED <<last, phase>>
    <3>1. /\ active' \in [Port -> Entry]
          /\ active'[seed.port].dev = seed.dev
          /\ \A q \in Port \ {seed.port} : active'[q] = active[q]
          /\ history' \in [Storage -> HistoryEntry]
      BY <2>1, <2>3, UpsertFacts
    <3>2. seed' \in SeedState
      BY <1>1, <2>3 DEF SeedState
    <3>3. TypeOK'
      BY <1>2, <2>2, <2>3, <3>1, <3>2 DEF TypeOK
    <3>4. SeedShape'
      BY <1>1, <1>2, <2>1, <2>3 DEF SeedShape, SeedState
    <3>5. BusShape' /\ ListShape'
      BY <1>2, <2>1, <2>3, <3>1 DEF BusShape, ListShape, Calling, Registered
    <3> QED
      BY <3>3, <3>4, <3>5 DEF TypeInv
  <2>4. CASE seed' = SeedIdle /\ phase' = "unwinding" /\ UNCHANGED lists
    <3>1. TypeOK'
      BY <1>2, <1>4, <2>2, <2>4 DEF TypeOK, lists
    <3>2. SeedShape'
      BY <1>4, <2>4 DEF SeedShape
    <3>3. BusShape' /\ ListShape'
      BY <1>2, <2>4 DEF BusShape, ListShape, Calling, Registered, lists
    <3> QED
      BY <3>1, <3>2, <3>3 DEF TypeInv
  <2> QED
    BY <1>5, <2>3, <2>4 DEF SeedUpsert
<1>6. CASE SeedSchedule
  <2>1. /\ queued' \in [Job -> Nat]
        /\ checked' = checked
        /\ wq' \in {wq, "misused"}
        /\ UNCHANGED <<active, history, last, phase>>
        /\ seed' = [SeedIdle EXCEPT !.todo = seed.todo]
    BY <1>6, ScheduleFacts DEF SeedSchedule
  <2>2. seed' \in SeedState /\ seed'.pc = "next" /\ seed'.port = None
    BY <1>1, <1>4, <2>1 DEF SeedState, SeedIdle
  <2>3. TypeOK'
    BY <1>2, <2>1, <2>2 DEF TypeOK
  <2>4. BusShape' /\ ListShape' /\ SeedShape'
    BY <1>2, <2>1, <2>2 DEF BusShape, ListShape, SeedShape, Calling, Registered
  <2> QED
    BY <2>3, <2>4 DEF TypeInv
<1>7. CASE SeedDone
  <2>1. /\ UNCHANGED <<active, history, last, queued, checked, wq, seed>>
        /\ phase' = "live" /\ seed.pc = "next"
    BY <1>7 DEF SeedDone
  <2>2. TypeOK'
    BY <1>2, <2>1 DEF TypeOK
  <2>3. BusShape' /\ ListShape' /\ SeedShape'
    BY <1>2, <2>1 DEF BusShape, ListShape, SeedShape, Calling, Registered
  <2> QED
    BY <2>2, <2>3 DEF TypeInv
<1> QED
  BY <1>3, <1>5, <1>6, <1>7 DEF SeedStep

(* insmod and rmmod.                                                       *)
LEMMA LoadingKeepsType ==
  ASSUME TypeInv,
         \/ \E ps \in ParamList, b \in BOOLEAN : Load(ps, b)
         \/ RegisterNotifier \/ StartExit \/ UnwindInit \/ ExitStep
  PROVE  TypeInv'
<1> TypeOK /\ BusShape /\ ListShape /\ SeedShape
  BY DEF TypeInv
<1>1. SeedShape' /\ UNCHANGED bus /\ seed' \in SeedState
  <2>1. CASE RegisterNotifier
    <3>1. seed' = [SeedIdle EXCEPT !.todo = Port]
      BY <2>1 DEF RegisterNotifier
    <3>2. seed' \in SeedState /\ seed'.pc = "next" /\ seed'.port = None
      BY <3>1 DEF SeedIdle, SeedState
    <3> QED
      BY <2>1, <3>2 DEF RegisterNotifier, SeedShape
  <2>2. CASE ~RegisterNotifier
    <3>1. UNCHANGED <<bus, seed>> /\ (phase = "seeding" => phase' = "seeding")
      BY <2>2 DEF Load, StartExit, UnwindInit, ExitStep, DrainQueue, FreeQueue,
                  ForgetQueue, FinishExit
    <3> QED
      BY <3>1 DEF SeedShape, TypeOK
  <2> QED
    BY <2>1, <2>2
<1>2. ASSUME NEW ps \in ParamList, NEW b \in BOOLEAN, Load(ps, b)
      PROVE  TypeInv'
  <2>1. ps \in Seq(Rule) /\ (Len(ps) > 0) \in BOOLEAN
    OBVIOUS
  <2>2. policy' \in Policy /\ last' \in Event
    BY <1>2, <2>1 DEF Load, Policy, NoEvent, Event
  <2>3. TypeOK'
    BY <1>1, <1>2, <2>2 DEF Load, TypeOK
  <2>4. BusShape' /\ ListShape'
    BY <1>2 DEF Load, BusShape, ListShape, Calling, Registered
  <2> QED
    BY <1>1, <2>3, <2>4 DEF TypeInv
<1>3. CASE RegisterNotifier
  <2>1. TypeOK'
    BY <1>1, <1>3 DEF RegisterNotifier, TypeOK
  <2>2. BusShape' /\ ListShape'
    BY <1>3 DEF RegisterNotifier, BusShape, ListShape, Calling, Registered
  <2> QED
    BY <1>1, <2>1, <2>2 DEF TypeInv
<1>4. CASE StartExit
  <2>1. TypeOK'
    BY <1>1, <1>4 DEF StartExit, TypeOK
  <2>2. BusShape' /\ ListShape'
    BY <1>4 DEF StartExit, BusShape, ListShape, Calling, Registered
  <2> QED
    BY <1>1, <2>1, <2>2 DEF TypeInv
<1>5. CASE UnwindInit \/ FinishExit
  <2>1. FreeLists
    BY <1>5 DEF UnwindInit, FinishExit
  <2>2. TypeOK'
    BY <1>1, <1>5, <2>1, FreeListsFacts DEF UnwindInit, FinishExit, TypeOK
  <2>3. BusShape'
    BY <1>5 DEF UnwindInit, FinishExit, BusShape, Calling, Registered
  <2> QED
    BY <1>1, <2>1, <2>2, <2>3, FreeListsFacts DEF TypeInv
<1>6. CASE DrainQueue \/ FreeQueue \/ ForgetQueue
  <2>1. /\ UNCHANGED <<policy, active, history, last, queued, checked, proc>>
        /\ wq' \in {"draining", "freed", "null", "misused"}
        /\ \/ phase' = phase
           \/ phase = "exiting" /\ phase' = "destroyed"
           \/ phase = "unwound" /\ phase' = "unloaded"
    BY <1>6 DEF DrainQueue, FreeQueue, ForgetQueue
  <2>2. TypeOK'
    BY <1>1, <2>1 DEF TypeOK
  <2>3. BusShape' /\ ListShape'
    BY <1>1, <2>1 DEF BusShape, ListShape, Calling, Registered
  <2> QED
    BY <1>1, <2>2, <2>3 DEF TypeInv
<1> QED
  BY <1>2, <1>3, <1>4, <1>5, <1>6 DEF ExitStep

LEMMA NextKeepsType ==
  ASSUME TypeInv, [Next]_vars
  PROVE  TypeInv'
<1>1. CASE UNCHANGED vars
  <2>1. TypeOK'
    BY <1>1 DEF vars, TypeInv, TypeOK
  <2>2. BusShape' /\ ListShape' /\ SeedShape'
    BY <1>1 DEF vars, TypeInv, BusShape, ListShape, SeedShape, Calling, Registered
  <2> QED
    BY <2>1, <2>2 DEF TypeInv
<1> QED
  BY <1>1, CommandsKeepType, BusKeepsType, NotifierKeepsType, WorksKeepType,
     SeedKeepsType, LoadingKeepsType DEF Next, Notifier

LEMMA InitTyped == Init => TypeInv
<1> SUFFICES ASSUME Init PROVE TypeInv
  OBVIOUS
<1>1. Unplugged \in BusPort /\ Unplugged.pc = "empty" /\ Unplugged.dev = None
  BY DEF Unplugged, BusPort
<1>2. /\ NoEntry \in Entry /\ NoHistory \in HistoryEntry
      /\ NoEvent \in Event /\ SeedIdle \in SeedState
      /\ SeedIdle.pc = "next" /\ SeedIdle.port = None
  BY DEF NoEntry, Entry, NoHistory, HistoryEntry, NoEvent, Event, SeedIdle, SeedState
<1>3. policy \in Policy
  BY DEF Init, Policy
<1>4. TypeOK
  BY <1>1, <1>2, <1>3 DEF Init, TypeOK
<1>5. BusShape /\ ListShape /\ SeedShape
  BY <1>1, <1>2 DEF Init, BusShape, ListShape, SeedShape, Calling
<1> QED
  BY <1>4, <1>5 DEF TypeInv

(* Every variable stays in its type: no count of past connections or of    *)
(* waiting works goes below zero, no handler of usb_guard.c stores a       *)
(* device without a mass-storage interface.  BusShape, ListShape and       *)
(* SeedShape, which the type of the lists rests on, come with it.          *)
THEOREM TypeCorrect == Spec => [](TypeOK /\ BusShape /\ ListShape /\ SeedShape)
<1>1. Init => TypeInv
  BY InitTyped
<1>2. TypeInv /\ [Next]_vars => TypeInv'
  BY NextKeepsType
<1> QED
  BY <1>1, <1>2, PTL DEF Spec, TypeInv

-----------------------------------------------------------------------------
(* Unloading.                                                              *)

(* Works exist only on a workqueue that is up or being drained.            *)
WorksOnQueue ==
  wq \in {"null", "freed", "misused"} => \A j \in Job : queued[j] = 0 /\ checked[j] = 0

LEMMA NextKeepsWorksOnQueue ==
  ASSUME TypeInv, WorksOnQueue, [Next]_vars
  PROVE  WorksOnQueue'
<1> TypeOK
  BY DEF TypeInv
<1>1. queued \in [Job -> Nat] /\ checked \in [Job -> Nat]
  BY DEF TypeOK
<1>2. ASSUME NEW pol, NEW S, ScheduleBlock(pol, S)
      PROVE  WorksOnQueue'
  BY <1>2, ScheduleFacts DEF WorksOnQueue
<1>3. ASSUME NEW rules, Recalculate(rules)
      PROVE  WorksOnQueue'
  BY <1>2, <1>3 DEF Recalculate
<1>4. CASE UNCHANGED <<queued, checked, wq>>
  BY <1>4 DEF WorksOnQueue
<1>5. ASSUME NEW j \in Job, CheckWork(j) \/ WriteWork(j)
      PROVE  WorksOnQueue'
  <2>1. wq \notin {"null", "freed", "misused"} /\ wq' = wq
    BY <1>1, <1>5 DEF CheckWork, WriteWork, WorksOnQueue
  <2> QED
    BY <2>1 DEF WorksOnQueue
<1>6. CASE DrainQueue \/ FreeQueue \/ ForgetQueue
  BY <1>6 DEF DrainQueue, FreeQueue, ForgetQueue, WorksOnQueue
<1>7. ASSUME NEW ps, NEW b, Load(ps, b)
      PROVE  WorksOnQueue'
  BY <1>7 DEF Load, WorksOnQueue
<1>8. ASSUME NEW r \in Rule, AddRule(r) \/ RemoveRule(r)
      PROVE  WorksOnQueue'
  BY <1>3, <1>8 DEF AddRule, RemoveRule
<1>9. ASSUME NEW on, SetBlock(on)
      PROVE  WorksOnQueue'
  BY <1>2, <1>9 DEF SetBlock
<1>10. CASE ClearRules
  BY <1>3, <1>10 DEF ClearRules
<1>11. ASSUME NEW p \in Port, TrackSchedule(p)
       PROVE  WorksOnQueue'
  BY <1>2, <1>11 DEF TrackSchedule
<1>12. CASE SeedSchedule
  BY <1>2, <1>12 DEF SeedSchedule
<1>13. ASSUME NEW p \in Port, Unplug(p) \/ Reauthorize(p) \/ TrackFill(p) \/ TrackUpsert(p)
                              \/ RemoveDevice(p) \/ SeedVisit(p) \/ \E d \in Ident : Plug(p, d)
       PROVE  WorksOnQueue'
  BY <1>4, <1>13 DEF Unplug, Reauthorize, TrackFill, TrackUpsert, RemoveDevice, SeedVisit, Plug
<1>14. CASE SeedUpsert \/ SeedDone \/ RegisterNotifier \/ StartExit \/ UnwindInit \/ FinishExit
  BY <1>4, <1>14 DEF SeedUpsert, SeedDone, RegisterNotifier, StartExit, UnwindInit, FinishExit
<1>15. ASSUME NEW on, WriteParam(on)
       PROVE  WorksOnQueue'
  BY <1>4, <1>15 DEF WriteParam
<1>16. CASE UNCHANGED vars
  BY <1>4, <1>16 DEF vars
<1> QED
  BY <1>5, <1>6, <1>7, <1>8, <1>9, <1>10, <1>11, <1>12, <1>13, <1>14, <1>15, <1>16
     DEF Next, Notifier, SeedStep, ExitStep

(* What rmmod relies on: a block work is never left without its workqueue, *)
(* no notifier call runs once the notifier is gone, and a module that is   *)
(* not loaded keeps no device.  It holds for every environment, whether or *)
(* not commands arrive while rmmod runs.                                   *)
THEOREM UnloadSafe == Spec => []NothingOutlivesModule
<1>1. Init => WorksOnQueue
  BY DEF Init, WorksOnQueue
<1>2. TypeInv /\ WorksOnQueue /\ [Next]_vars => WorksOnQueue'
  BY NextKeepsWorksOnQueue
<1>3. TypeInv /\ WorksOnQueue => NothingOutlivesModule
  <2> SUFFICES ASSUME TypeInv, WorksOnQueue
               PROVE  NothingOutlivesModule
    OBVIOUS
  <2>1. /\ queued \in [Job -> Nat] /\ checked \in [Job -> Nat]
        /\ wq \in {"null", "up", "draining", "freed", "misused"}
    BY DEF TypeInv, TypeOK
  <2>2. (\E j \in Job : Pending(j)) => wq \in {"up", "draining"}
    BY <2>1 DEF WorksOnQueue, Pending
  <2>3. ~Registered => \A p \in Port : ~Calling(p)
    BY DEF TypeInv, BusShape
  <2>4. phase \in {"unloaded", "prepared"} => \A p \in Port : active[p] = NoEntry
    BY DEF TypeInv, ListShape
  <2> QED
    BY <2>2, <2>3, <2>4 DEF NothingOutlivesModule
<1>4. Spec => []TypeInv
  BY TypeCorrect DEF TypeInv
<1> QED
  BY <1>1, <1>2, <1>3, <1>4, PTL DEF Spec

-----------------------------------------------------------------------------
(* The rule table.                                                         *)

(* Appending a value that is not there, and removing one, keep a sequence  *)
(* free of repetitions.                                                    *)
LEMMA AppendKeepsInjective ==
  ASSUME NEW S, NEW s \in Seq(S), NEW e \in S, IsInjective(s), e \notin ToSet(s)
  PROVE  IsInjective(Append(s, e))
<1>1. /\ \A i \in DOMAIN s : s[i] # e
      /\ \A i, k \in DOMAIN s : s[i] = s[k] => i = k
  BY DEF ToSet, IsInjective
<1>2. PICK t \in Seq(S) : t = Append(s, e)
  BY AppendProperties
<1>3. /\ DOMAIN s = 1 .. Len(s) /\ Len(s) \in Nat
      /\ DOMAIN t = 1 .. Len(s) + 1
      /\ t[Len(s) + 1] = e
      /\ \A i \in 1 .. Len(s) : t[i] = s[i]
  BY <1>2, AppendProperties
<1>4. \A i, k \in DOMAIN t : t[i] = t[k] => i = k
  BY <1>1, <1>3
<1> QED
  BY <1>2, <1>4 DEF IsInjective

LEMMA RemoveAtFacts ==
  ASSUME NEW S, NEW s \in Seq(S), NEW i \in DOMAIN s
  PROVE  /\ RemoveAt(s, i) \in Seq(S)
         /\ Len(RemoveAt(s, i)) = Len(s) - 1
         /\ IsInjective(s) => IsInjective(RemoveAt(s, i))
<1> DEFINE a == SubSeq(s, 1, i - 1)  b == SubSeq(s, i + 1, Len(s))  t == RemoveAt(s, i)
<1>1. DOMAIN s = 1 .. Len(s) /\ Len(s) \in Nat /\ i \in 1 .. Len(s)
  OBVIOUS
<1>2. /\ a \in Seq(S) /\ Len(a) = i - 1 /\ \A k \in 1 .. i - 1 : a[k] = s[k]
      /\ b \in Seq(S) /\ Len(b) = Len(s) - i /\ \A k \in 1 .. Len(s) - i : b[k] = s[k + i]
  BY <1>1
<1>3. t = a \o b
  BY DEF RemoveAt
<1> HIDE DEF a, b, t
<1>4. /\ t \in Seq(S) /\ Len(t) = Len(s) - 1
      /\ \A k \in 1 .. i - 1 : t[k] = s[k]
      /\ \A k \in i .. Len(s) - 1 : t[k] = s[k + 1]
  <2>1. /\ t \in Seq(S) /\ Len(t) = Len(a) + Len(b)
        /\ \A k \in 1 .. Len(a) : t[k] = a[k]
        /\ \A k \in Len(a) + 1 .. Len(a) + Len(b) : t[k] = b[k - Len(a)]
    BY <1>2, <1>3, ConcatProperties
  <2>2. \A k \in i .. Len(s) - 1 : k - (i - 1) \in 1 .. Len(s) - i /\ k - (i - 1) + i = k + 1
    BY <1>1
  <2>3. ASSUME NEW k \in i .. Len(s) - 1
        PROVE  t[k] = s[k + 1]
    <3>1. k \in Len(a) + 1 .. Len(a) + Len(b)
      BY <1>1, <1>2
    <3>2. t[k] = b[k - (i - 1)]
      BY <1>2, <2>1, <3>1
    <3> QED
      BY <1>2, <2>2, <3>2
  <2>4. \A k \in 1 .. i - 1 : t[k] = s[k]
    BY <1>1, <1>2, <2>1
  <2> QED
    BY <1>1, <1>2, <2>1, <2>3, <2>4
<1>5. ASSUME IsInjective(s)
      PROVE  IsInjective(t)
  <2>1. \A j, k \in 1 .. Len(s) : s[j] = s[k] => j = k
    BY <1>1, <1>5 DEF IsInjective
  <2>2. DOMAIN t = 1 .. Len(s) - 1
    BY <1>4
  <2> DEFINE from(k) == IF k < i THEN k ELSE k + 1
  <2>3. \A k \in 1 .. Len(s) - 1 : from(k) \in 1 .. Len(s) /\ t[k] = s[from(k)]
    <3> TAKE k \in 1 .. Len(s) - 1
    <3>1. k \in Int /\ i \in Int /\ Len(s) \in Int /\ 1 <= k /\ k <= Len(s) - 1
      BY <1>1
    <3>2. CASE k < i
      <4>1. k \in 1 .. i - 1 /\ k \in 1 .. Len(s)
        BY <3>1, <3>2
      <4> QED
        BY <1>4, <3>2, <4>1
    <3>3. CASE ~(k < i)
      <4>1. k \in i .. Len(s) - 1 /\ k + 1 \in 1 .. Len(s)
        BY <3>1, <3>3
      <4> QED
        BY <1>4, <3>3, <4>1
    <3> QED
      BY <3>2, <3>3
  <2>4. ASSUME NEW j \in 1 .. Len(s) - 1, NEW k \in 1 .. Len(s) - 1, t[j] = t[k]
        PROVE  j = k
    <3>1. from(j) = from(k)
      <4> HIDE DEF from
      <4> QED
        BY <2>1, <2>3, <2>4
    <3> QED
      BY <1>1, <3>1
  <2> QED
    BY <2>2, <2>4 DEF IsInjective
<1> QED
  BY <1>4, <1>5 DEF t

(* What a command does to the rule table, given what its new rules are.    *)
LEMMA RecalculateKeepsRules ==
  ASSUME TypeOK, NEW rules \in Seq(Rule), Recalculate(rules), Len(rules) <= MaxRules,
         (\A ps \in ParamList : IsInjective(ps)) => IsInjective(rules)
  PROVE  RulesWellFormed'
<1>1. policy \in Policy
  BY DEF TypeOK
<1>2. (Len(rules) > 0) \in BOOLEAN
  OBVIOUS
<1>3. policy' = [policy EXCEPT !.rules = rules, !.enabled = Len(rules) > 0]
  BY DEF Recalculate
<1>4. policy'.rules = rules /\ policy'.enabled = (Len(rules) > 0)
  BY <1>1, <1>2, <1>3 DEF Policy
<1>5. Len(rules) > 0 <=> rules # <<>>
  OBVIOUS
<1> QED
  BY <1>4, <1>5 DEF RulesWellFormed

LEMMA NextKeepsRules ==
  ASSUME TypeInv, RulesWellFormed, [Next]_vars
  PROVE  RulesWellFormed'
<1>1. policy \in Policy /\ policy.rules \in Seq(Rule) /\ TypeOK
  BY DEF TypeInv, TypeOK, Policy
<1>2. ASSUME NEW r \in Rule, AddRule(r)
      PROVE  RulesWellFormed'
  <2> DEFINE rules == Append(policy.rules, r)
  <2>1. /\ rules \in Seq(Rule) /\ Len(rules) = Len(policy.rules) + 1
        /\ Len(policy.rules) < MaxRules /\ Len(policy.rules) \in Nat
    BY <1>1, <1>2 DEF AddRule
  <2>2. (\A ps \in ParamList : IsInjective(ps)) => IsInjective(rules)
    BY <1>1, <1>2, AppendKeepsInjective DEF AddRule, RulesWellFormed
  <2>3. Recalculate(rules)
    BY <1>2 DEF AddRule
  <2> HIDE DEF rules
  <2>4. Len(rules) <= MaxRules
    BY <2>1
  <2> QED
    BY <1>1, <2>1, <2>2, <2>3, <2>4, RecalculateKeepsRules
<1>3. ASSUME NEW r \in Rule, RemoveRule(r)
      PROVE  RulesWellFormed'
  <2>1. PICK i \in DOMAIN policy.rules : Recalculate(RemoveAt(policy.rules, i))
    BY <1>3 DEF RemoveRule
  <2> DEFINE rules == RemoveAt(policy.rules, i)
  <2>2. /\ rules \in Seq(Rule) /\ Len(rules) = Len(policy.rules) - 1
        /\ IsInjective(policy.rules) => IsInjective(rules)
    BY <1>1, RemoveAtFacts
  <2>3. (\A ps \in ParamList : IsInjective(ps)) => IsInjective(rules)
    BY <2>2 DEF RulesWellFormed
  <2> HIDE DEF rules
  <2>4. Len(rules) <= MaxRules
    BY <1>1, <2>2 DEF RulesWellFormed
  <2>5. Recalculate(rules)
    BY <2>1 DEF rules
  <2> QED
    BY <1>1, <2>2, <2>3, <2>4, <2>5, RecalculateKeepsRules
<1>4. CASE ClearRules
  <2>1. <<>> \in Seq(Rule) /\ Len(<<>>) <= MaxRules /\ IsInjective(<<>>)
    BY DEF IsInjective
  <2> QED
    BY <1>1, <1>4, <2>1, RecalculateKeepsRules DEF ClearRules
<1>5. ASSUME NEW on \in BOOLEAN, SetBlock(on) \/ WriteParam(on)
      PROVE  RulesWellFormed'
  <2>1. policy' = [policy EXCEPT !.block = on]
    BY <1>5 DEF SetBlock, WriteParam
  <2>2. policy'.rules = policy.rules /\ policy'.enabled = policy.enabled
    BY <1>1, <2>1 DEF Policy
  <2> QED
    BY <2>2 DEF RulesWellFormed
<1>6. ASSUME NEW ps \in ParamList, NEW b \in BOOLEAN, Load(ps, b)
      PROVE  RulesWellFormed'
  <2>1. ps \in Seq(Rule) /\ (Len(ps) > 0) \in BOOLEAN /\ Len(ps) <= MaxRules
    OBVIOUS
  <2>2. policy'.rules = ps /\ policy'.enabled = (Len(ps) > 0)
    BY <1>6 DEF Load
  <2>3. Len(ps) > 0 <=> ps # <<>>
    BY <2>1
  <2> QED
    BY <2>1, <2>2, <2>3 DEF RulesWellFormed
<1>7. CASE UNCHANGED policy
  BY <1>7 DEF RulesWellFormed
<1>8. ASSUME NEW p \in Port, Unplug(p) \/ Reauthorize(p) \/ Notifier(p) \/ SeedVisit(p)
                             \/ \E d \in Ident : Plug(p, d)
      PROVE  UNCHANGED policy
  BY <1>8 DEF Unplug, Reauthorize, Notifier, TrackFill, TrackUpsert, TrackSchedule,
              RemoveDevice, SeedVisit, Plug
<1>9. ASSUME NEW j \in Job, CheckWork(j) \/ WriteWork(j)
      PROVE  UNCHANGED policy
  BY <1>9 DEF CheckWork, WriteWork
<1>10. CASE \/ RegisterNotifier \/ StartExit \/ UnwindInit \/ ExitStep
            \/ SeedUpsert \/ SeedSchedule \/ SeedDone \/ UNCHANGED vars
  BY <1>7, <1>10 DEF RegisterNotifier, StartExit, UnwindInit, ExitStep, DrainQueue, FreeQueue,
               ForgetQueue, FinishExit, SeedUpsert, SeedSchedule, SeedDone, vars
<1> QED
  BY <1>2, <1>3, <1>4, <1>5, <1>6, <1>7, <1>8, <1>9, <1>10 DEF Next, SeedStep

(* The rule table stays within USB_GUARD_MAX_WHITELIST and free of equal   *)
(* rules whatever the commands, unless the module parameter brought them.  *)
THEOREM RulesStayWellFormed == Spec => []RulesWellFormed
<1>1. Init => RulesWellFormed
  <2> SUFFICES ASSUME Init PROVE RulesWellFormed
    OBVIOUS
  <2>1. policy.rules = <<>> /\ policy.enabled = FALSE /\ Len(<<>>) = 0
    BY DEF Init
  <2>2. IsInjective(<<>>)
    BY DEF IsInjective
  <2> QED
    BY <2>1, <2>2 DEF RulesWellFormed
<1>2. TypeInv /\ RulesWellFormed /\ [Next]_vars => RulesWellFormed'
  BY NextKeepsRules
<1>3. Spec => []TypeInv
  BY TypeCorrect DEF TypeInv
<1> QED
  BY <1>1, <1>2, <1>3, PTL DEF Spec

-----------------------------------------------------------------------------
(* The active list and the history, when no device is unplugged while the  *)
(* seeding works on it.                                                    *)

Current == EntriesCurrent /\ SeedCurrent

(* A step of one port's device that keeps the device, and one that brings  *)
(* or takes it, keep the entries current.                                  *)
LEMMA NextKeepsCurrent ==
  ASSUME "seedunplug" \notin Env, TypeInv, Current, [Next]_vars
  PROVE  Current'
<1> EntriesCurrent /\ SeedCurrent /\ TypeOK /\ BusShape /\ ListShape /\ SeedShape
  BY DEF TypeInv, Current
<1>1. bus \in [Port -> BusPort] /\ active \in [Port -> Entry] /\ seed \in SeedState
  BY DEF TypeOK
<1>2. NoEntry.dev = None /\ Unplugged.dev = None /\ Unplugged.pc = "empty"
  BY DEF NoEntry, Unplugged
<1>3. CASE /\ UNCHANGED <<bus, seed, phase>>
           /\ \A p \in Port : /\ active'[p].dev = active[p].dev
                              /\ active[p].dev = None => active'[p] = active[p]
  <2>1. EntriesCurrent'
    BY <1>2, <1>3 DEF EntriesCurrent, Registered, ListShape
  <2>2. SeedCurrent'
    BY <1>3 DEF SeedCurrent
  <2> QED
    BY <2>1, <2>2 DEF Current
<1>4. CASE UNCHANGED <<bus, seed, active, phase>>
  BY <1>3, <1>4
<1>5. ASSUME NEW rules \in Seq(Rule), Recalculate(rules), Command
      PROVE  Current'
  BY <1>3, <1>5, RecalculateFacts DEF Command
<1>6. policy.rules \in Seq(Rule)
  BY DEF TypeOK, Policy
<1>7. ASSUME NEW r \in Rule, AddRule(r) \/ RemoveRule(r)
      PROVE  Current'
  <2>1. Append(policy.rules, r) \in Seq(Rule)
    BY <1>6
  <2>2. \A i \in DOMAIN policy.rules : RemoveAt(policy.rules, i) \in Seq(Rule)
    BY <1>6, RemoveAtFacts
  <2> QED
    BY <1>5, <1>7, <2>1, <2>2 DEF AddRule, RemoveRule
<1>8. CASE ClearRules
  <2>1. <<>> \in Seq(Rule)
    OBVIOUS
  <2> QED
    BY <1>5, <1>8, <2>1 DEF ClearRules
<1>9. ASSUME NEW on, SetBlock(on) \/ WriteParam(on)
      PROVE  Current'
  BY <1>4, <1>9 DEF SetBlock, WriteParam, Command
<1>10. ASSUME NEW j \in Job, CheckWork(j)
       PROVE  Current'
  BY <1>4, <1>10 DEF CheckWork
(* The device of a port stays, its notifier call or its flag changes.      *)
<1>11. ASSUME NEW p \in Port, NEW b \in BusPort, bus' = [bus EXCEPT ![p] = b],
              b.dev = bus[p].dev, b.pc \notin {"empty", "remove"} \/ seed.port # p,
              UNCHANGED <<seed, active, phase>>
       PROVE  Current'
  <2>1. \A q \in Port : bus'[q].dev = bus[q].dev
    BY <1>1, <1>11
  <2>2. EntriesCurrent'
    BY <1>11, <2>1 DEF EntriesCurrent, Registered
  <2>3. \A q \in Port : bus'[q].pc \notin {"empty", "remove"}
                          \/ bus'[q].pc = bus[q].pc \/ q # seed.port
    BY <1>1, <1>11
  <2>4. seed.pc # "next" => seed.port \in Port
    BY DEF SeedShape
  <2>5. SeedCurrent'
    BY <1>11, <2>1, <2>3, <2>4 DEF SeedCurrent
  <2> QED
    BY <2>2, <2>5 DEF Current
<1>12. ASSUME NEW j \in Job, WriteWork(j)
       PROVE  Current'
  <2> DEFINE p == j[1]  b == [bus[p] EXCEPT !.authorized = FALSE]
  <2>1. p \in Port
    BY DEF Job
  <2>2. CASE bus[p].pc = "present" /\ bus' = [bus EXCEPT ![p].authorized = FALSE]
    <3>1. /\ b \in BusPort /\ b.pc = "present" /\ b.dev = bus[p].dev
          /\ bus' = [bus EXCEPT ![p] = b]
      BY <1>1, <2>1, <2>2 DEF BusPort
    <3> HIDE DEF b, p
    <3> QED
      BY <1>11, <1>12, <2>1, <3>1 DEF WriteWork
  <2>3. CASE UNCHANGED bus
    BY <1>4, <1>12, <2>3 DEF WriteWork
  <2> QED
    BY <1>12, <2>2, <2>3 DEF WriteWork
<1>13. ASSUME NEW p \in Port, NEW d \in Ident, Plug(p, d)
       PROVE  Current'
  <2>1. /\ UNCHANGED <<seed, active, phase>>
        /\ \A q \in Port \ {p} : bus'[q] = bus[q]
        /\ bus[p].pc = "empty" /\ bus[p].dev = None
    BY <1>1, <1>13 DEF Plug, BusShape
  <2>2. Registered => active[p] = NoEntry
    BY <2>1 DEF EntriesCurrent, ListShape
  <2>3. EntriesCurrent'
    BY <2>1, <2>2 DEF EntriesCurrent, Registered
  <2>4. seed.pc # "next" => seed.port \in Port \ {p}
    BY <2>1 DEF SeedShape, SeedCurrent
  <2>5. SeedCurrent'
    BY <2>1, <2>4 DEF SeedCurrent
  <2> QED
    BY <2>3, <2>5 DEF Current
<1>14. ASSUME NEW p \in Port, Unplug(p)
       PROVE  Current'
  <2>1. UNCHANGED <<seed, active, phase>> /\ seed.port # p
    BY <1>14 DEF Unplug
  <2>2. CASE Registered
    <3> DEFINE b == [bus[p] EXCEPT !.pc = "remove"]
    <3>1. /\ b \in BusPort /\ b.dev = bus[p].dev
          /\ bus' = [bus EXCEPT ![p] = b]
      BY <1>1, <1>14, <2>2 DEF Unplug, BusPort
    <3> HIDE DEF b
    <3> QED
      BY <1>11, <2>1, <3>1
  <2>3. CASE ~Registered
    <3>1. seed.pc = "next"
      BY <2>3 DEF SeedShape, Registered
    <3> QED
      BY <2>1, <2>3, <3>1 DEF Current, EntriesCurrent, SeedCurrent, Registered
  <2> QED
    BY <2>2, <2>3
<1>15. ASSUME NEW p \in Port, Reauthorize(p) \/ TrackFill(p) \/ TrackSchedule(p)
       PROVE  Current'
  <2> DEFINE a == [bus[p] EXCEPT !.authorized = TRUE]
             b == [bus[p] EXCEPT !.pc = "upsert", !.trusted = Matches(policy, bus[p].dev)]
             c == [bus[p] EXCEPT !.pc = "present"]
  <2>1. Matches(policy, bus[p].dev) \in BOOLEAN
    BY DEF Matches
  <2>2. /\ a \in BusPort /\ b \in BusPort /\ c \in BusPort
        /\ a.pc = bus[p].pc /\ b.pc = "upsert" /\ c.pc = "present"
        /\ a.dev = bus[p].dev /\ b.dev = bus[p].dev /\ c.dev = bus[p].dev
    BY <1>1, <2>1 DEF BusPort
  <2>3. /\ UNCHANGED <<seed, active, phase>>
        /\ \/ bus' = [bus EXCEPT ![p] = a] /\ bus[p].pc = "present"
           \/ bus' = [bus EXCEPT ![p] = b]
           \/ bus' = [bus EXCEPT ![p] = c]
    BY <1>1, <1>15 DEF Reauthorize, TrackFill, TrackSchedule
  <2> HIDE DEF a, b, c
  <2> QED
    BY <1>11, <2>2, <2>3
<1>16. ASSUME NEW p \in Port, TrackUpsert(p)
       PROVE  Current'
  <2> DEFINE d == bus[p].dev
             a == [bus[p] EXCEPT !.pc = "schedule", !.trusted = FALSE]
             b == [bus[p] EXCEPT !.pc = "present", !.trusted = FALSE]
  <2>1. /\ a \in BusPort /\ b \in BusPort /\ a.pc = "schedule" /\ b.pc = "present"
        /\ a.dev = d /\ b.dev = d
    BY <1>1 DEF BusPort
  <2>2. CASE UNCHANGED lists /\ bus' = [bus EXCEPT ![p].pc = "present", ![p].trusted = FALSE]
    <3>1. bus' = [bus EXCEPT ![p] = b]
      BY <1>1, <2>2
    <3> HIDE DEF b
    <3> QED
      BY <1>11, <1>16, <2>1, <2>2, <3>1 DEF TrackUpsert, lists
  <2>3. CASE Upsert(p, d, bus[p].trusted)
             /\ bus' = [bus EXCEPT ![p].pc = "schedule", ![p].trusted = FALSE]
    <3>1. bus' = [bus EXCEPT ![p] = a] /\ UNCHANGED <<seed, phase>>
      BY <1>1, <1>16, <2>3 DEF TrackUpsert
    <3>2. active'[p].dev = d /\ \A q \in Port \ {p} : active'[q] = active[q]
      BY <1>1, <2>3 DEF Upsert
    <3> HIDE DEF a
    <3>3. /\ \A q \in Port : bus'[q].dev = bus[q].dev
          /\ \A q \in Port : bus'[q].pc \notin {"empty", "remove"} \/ bus'[q].pc = bus[q].pc
      BY <1>1, <2>1, <3>1
    <3>4. EntriesCurrent'
      BY <3>1, <3>2, <3>3 DEF EntriesCurrent, Registered
    <3>5. SeedCurrent'
      BY <3>1, <3>3 DEF SeedCurrent, SeedShape
    <3> QED
      BY <3>4, <3>5 DEF Current
  <2> QED
    BY <1>16, <2>2, <2>3 DEF TrackUpsert
<1>17. ASSUME NEW p \in Port, RemoveDevice(p)
       PROVE  Current'
  <2>1. /\ bus' = [bus EXCEPT ![p] = Unplugged] /\ bus[p].pc = "remove"
        /\ UNCHANGED <<seed, phase>>
        /\ active'[p] = NoEntry /\ \A q \in Port \ {p} : active'[q] = active[q]
    BY <1>1, <1>17 DEF RemoveDevice, RemoveEntry, lists
  <2>2. EntriesCurrent'
    BY <1>1, <2>1 DEF EntriesCurrent, Registered
  <2>3. seed.pc # "next" => seed.port \in Port \ {p}
    BY <2>1 DEF SeedShape, SeedCurrent
  <2>4. SeedCurrent'
    BY <1>1, <2>1, <2>3 DEF SeedCurrent
  <2> QED
    BY <2>2, <2>4 DEF Current
<1>18. ASSUME NEW p \in Port, SeedVisit(p)
       PROVE  Current'
  <2>1. UNCHANGED <<bus, active, phase>>
    BY <1>18 DEF SeedVisit
  <2>2. EntriesCurrent'
    BY <2>1 DEF EntriesCurrent, Registered
  <2>3. \/ /\ bus[p].pc \notin {"empty", "remove"}
           /\ seed' = [pc |-> "upsert", todo |-> seed.todo \ {p}, port |-> p,
                       dev |-> bus[p].dev, trusted |-> Matches(policy, bus[p].dev)]
        \/ seed.pc = "next" /\ seed' = [seed EXCEPT !.todo = @ \ {p}]
    BY <1>18 DEF SeedVisit
  <2>4. SeedCurrent'
    BY <1>1, <2>1, <2>3 DEF SeedCurrent, SeedState
  <2> QED
    BY <2>2, <2>4 DEF Current
<1>19. SeedIdle.pc = "next"
  BY DEF SeedIdle
<1>20. CASE SeedUpsert
  <2>1. UNCHANGED bus /\ seed.port \in Port /\ bus[seed.port].dev = seed.dev
    BY <1>20 DEF SeedUpsert, SeedShape, SeedCurrent
  <2>2. CASE /\ Upsert(seed.port, seed.dev, seed.trusted)
             /\ seed' = [seed EXCEPT !.pc = "schedule"] /\ UNCHANGED phase
    <3>1. active'[seed.port].dev = seed.dev
          /\ \A q \in Port \ {seed.port} : active'[q] = active[q]
      BY <1>1, <2>1, <2>2 DEF Upsert
    <3>2. EntriesCurrent'
      BY <2>1, <2>2, <3>1 DEF EntriesCurrent, Registered
    <3>3. seed'.port = seed.port /\ seed'.dev = seed.dev
      BY <1>1, <2>2 DEF SeedState
    <3>4. SeedCurrent'
      BY <1>20, <2>1, <3>3 DEF SeedCurrent, SeedUpsert
    <3> QED
      BY <3>2, <3>4 DEF Current
  <2>3. CASE seed' = SeedIdle /\ phase' = "unwinding" /\ UNCHANGED lists
    BY <1>19, <1>20, <2>1, <2>3 DEF SeedUpsert, Current, EntriesCurrent, SeedCurrent, Registered, lists
  <2> QED
    BY <1>20, <2>2, <2>3 DEF SeedUpsert
<1>21. CASE SeedSchedule
  <2>1. seed' = [SeedIdle EXCEPT !.todo = seed.todo]
    BY <1>21 DEF SeedSchedule
  <2>2. seed'.pc = "next"
    BY <2>1 DEF SeedIdle
  <2> QED
    BY <1>21, <2>2 DEF SeedSchedule, Current, EntriesCurrent, SeedCurrent, Registered
<1>22. CASE SeedDone \/ StartExit \/ UnwindInit \/ FinishExit
  <2>1. UNCHANGED <<bus, seed>> /\ seed.pc = "next"
    BY <1>22 DEF SeedDone, StartExit, UnwindInit, FinishExit, SeedShape
  <2>2. SeedCurrent'
    BY <2>1 DEF SeedCurrent
  <2>3. CASE SeedDone
    BY <2>1, <2>2, <2>3 DEF SeedDone, Current, EntriesCurrent, Registered
  <2>4. CASE StartExit \/ UnwindInit \/ FinishExit
    BY <2>2, <2>4 DEF StartExit, UnwindInit, FinishExit, Current, EntriesCurrent, Registered
  <2> QED
    BY <1>22, <2>3, <2>4
<1>23. CASE RegisterNotifier
  <2>1. seed' = [SeedIdle EXCEPT !.todo = Port]
    BY <1>23 DEF RegisterNotifier
  <2>2. seed'.pc = "next"
    BY <2>1 DEF SeedIdle
  <2>3. \A p \in Port : active'[p] = NoEntry
    BY <1>23 DEF RegisterNotifier, ListShape
  <2> QED
    BY <2>2, <2>3 DEF Current, EntriesCurrent, SeedCurrent
<1>24. CASE \/ \E ps \in ParamList, b \in BOOLEAN : Load(ps, b)
            \/ DrainQueue \/ FreeQueue \/ ForgetQueue
  <2>1. /\ UNCHANGED <<bus, seed, active>>
        /\ phase' # phase => phase' \in {"prepared", "destroyed", "unloaded"}
    BY <1>24 DEF Load, DrainQueue, FreeQueue, ForgetQueue
  <2> QED
    BY <2>1 DEF Current, EntriesCurrent, SeedCurrent, Registered
<1>25. CASE UNCHANGED vars
  BY <1>4, <1>25 DEF vars
<1> QED
  BY <1>7, <1>8, <1>9, <1>10, <1>12, <1>13, <1>14, <1>15, <1>16, <1>17, <1>18, <1>20, <1>21,
     <1>22, <1>23, <1>24, <1>25 DEF Next, Notifier, SeedStep, ExitStep

(* What any step does to the two lists.                                    *)
LEMMA ListEffects ==
  ASSUME TypeInv, Current, [Next]_vars
  PROVE  \/ /\ \A p \in Port : active'[p].dev = active[p].dev
            /\ history' = history
         \/ \E p \in Port, d \in Storage, t \in BOOLEAN :
              /\ Upsert(p, d, t)
              /\ active[p] = NoEntry \/ active[p].dev = d
         \/ \E p \in Port : active[p] # NoEntry /\ RemoveEntry(p)
         \/ FreeLists
<1> DEFINE Quiet == (\A p \in Port : active'[p].dev = active[p].dev) /\ history' = history
           Stores == \E p \in Port, d \in Storage, t \in BOOLEAN :
                       /\ Upsert(p, d, t)
                       /\ active[p] = NoEntry \/ active[p].dev = d
           Ends == \E p \in Port : active[p] # NoEntry /\ RemoveEntry(p)
<1> SUFFICES Quiet \/ Stores \/ Ends \/ FreeLists
  OBVIOUS
<1> EntriesCurrent /\ SeedCurrent /\ TypeOK /\ BusShape /\ ListShape /\ SeedShape
  BY DEF TypeInv, Current
<1>1. CASE UNCHANGED <<active, history>>
  BY <1>1
<1>2. ASSUME NEW rules \in Seq(Rule), Recalculate(rules), Command
      PROVE  Quiet
  BY <1>2, RecalculateFacts DEF Command
<1>3. policy.rules \in Seq(Rule)
  BY DEF TypeOK, Policy
<1>4. ASSUME NEW r \in Rule, AddRule(r) \/ RemoveRule(r)
      PROVE  Quiet
  <2>1. Append(policy.rules, r) \in Seq(Rule)
    BY <1>3
  <2>2. \A i \in DOMAIN policy.rules : RemoveAt(policy.rules, i) \in Seq(Rule)
    BY <1>3, RemoveAtFacts
  <2> HIDE DEF Quiet
  <2> QED
    BY <1>2, <1>4, <2>1, <2>2 DEF AddRule, RemoveRule
<1>5. CASE ClearRules
  <2>1. <<>> \in Seq(Rule)
    OBVIOUS
  <2> HIDE DEF Quiet
  <2> QED
    BY <1>2, <1>5, <2>1 DEF ClearRules
<1>6. ASSUME NEW on, SetBlock(on) \/ WriteParam(on)
      PROVE  UNCHANGED <<active, history>>
  BY <1>6 DEF SetBlock, WriteParam, Command
<1>7. ASSUME NEW p \in Port, Unplug(p) \/ Reauthorize(p) \/ TrackFill(p) \/ TrackSchedule(p)
                             \/ SeedVisit(p) \/ \E d \in Ident : Plug(p, d)
      PROVE  UNCHANGED <<active, history>>
  BY <1>7 DEF Unplug, Reauthorize, TrackFill, TrackSchedule, SeedVisit, Plug
<1>8. ASSUME NEW j \in Job, CheckWork(j) \/ WriteWork(j)
      PROVE  UNCHANGED <<active, history>>
  BY <1>8 DEF CheckWork, WriteWork
<1>9. ASSUME NEW p \in Port, TrackUpsert(p)
      PROVE  Quiet \/ Stores
  <2> DEFINE d == bus[p].dev  t == bus[p].trusted
  <2>1. d \in Storage /\ t \in BOOLEAN /\ Registered
    BY <1>9 DEF TrackUpsert, BusShape, Calling, TypeOK, BusPort
  <2>2. active[p] = NoEntry \/ active[p].dev = d
    BY <2>1 DEF EntriesCurrent
  <2>3. CASE Upsert(p, d, t)
    BY <2>1, <2>2, <2>3
  <2>4. CASE UNCHANGED lists
    BY <1>1, <2>4 DEF lists
  <2> QED
    BY <1>9, <2>3, <2>4 DEF TrackUpsert
<1>10. ASSUME NEW p \in Port, RemoveDevice(p)
       PROVE  Quiet \/ Ends
  BY <1>10 DEF RemoveDevice, lists
<1>11. CASE SeedUpsert
  <2>1. seed.port \in Port /\ seed.dev \in Storage /\ seed.trusted \in BOOLEAN /\ Registered
    BY <1>11 DEF SeedUpsert, SeedShape, TypeOK, SeedState, Registered
  <2>2. active[seed.port] = NoEntry \/ active[seed.port].dev = seed.dev
    BY <1>11, <2>1 DEF EntriesCurrent, SeedCurrent, SeedUpsert
  <2>3. CASE Upsert(seed.port, seed.dev, seed.trusted)
    BY <2>1, <2>2, <2>3
  <2>4. CASE UNCHANGED lists
    BY <1>1, <2>4 DEF lists
  <2> QED
    BY <1>11, <2>3, <2>4 DEF SeedUpsert
<1>12. CASE \/ SeedSchedule \/ SeedDone \/ RegisterNotifier \/ StartExit
            \/ DrainQueue \/ FreeQueue \/ ForgetQueue \/ UNCHANGED vars
            \/ \E ps \in ParamList, b \in BOOLEAN : Load(ps, b)
  BY <1>1, <1>12 DEF SeedSchedule, SeedDone, RegisterNotifier, StartExit, DrainQueue,
                     FreeQueue, ForgetQueue, vars, Load
<1>13. CASE UnwindInit \/ FinishExit
  BY <1>13 DEF UnwindInit, FinishExit
<1> HIDE DEF Quiet, Stores, Ends
<1>14. UNCHANGED <<active, history>> => Quiet
  BY DEF Quiet
<1> QED
  BY <1>4, <1>5, <1>6, <1>7, <1>8, <1>9, <1>10, <1>11, <1>12, <1>13, <1>14
     DEF Next, Notifier, SeedStep, ExitStep

LEMMA InitCurrent == Init => TypeInv /\ Current
<1> SUFFICES ASSUME Init PROVE TypeInv /\ Current
  OBVIOUS
<1>1. Current
  BY DEF Init, Current, EntriesCurrent, SeedCurrent, Registered, SeedIdle
<1>2. TypeInv
  BY InitTyped
<1> QED
  BY <1>1, <1>2

(* The kernel module keeps the ledger: every step is a connection counted  *)
(* once, a disconnection, a forgetting, or nothing at all to the reader of *)
(* the status file.  The one hypothesis is the case the code loses: a      *)
(* device unplugged between its visit and its upsert by the seeding.       *)
THEOREM LedgerKept ==
  ASSUME "seedunplug" \notin Env
  PROVE  Spec => KeepsLedger
<1> DEFINE device == [p \in Port |-> active[p].dev]
           connects == [d \in Storage |-> history[d].connects]
<1>1. Init => Ledger!Init
  BY DEF Init, Ledger!Init, NoEntry, NoHistory
<1>2. TypeInv /\ Current /\ [Next]_vars => [Ledger!Next]_<<device, connects>>
  <2> SUFFICES ASSUME TypeInv, Current, [Next]_vars
               PROVE  [Ledger!Next]_<<device, connects>>
    OBVIOUS
  <2>1. /\ active \in [Port -> Entry] /\ history \in [Storage -> HistoryEntry]
        /\ \A p \in Port : active[p].dev = None <=> active[p] = NoEntry
        /\ None \notin Storage
    BY DEF TypeInv, TypeOK, ListShape, NoEntry
  <2>2. CASE (\A p \in Port : active'[p].dev = active[p].dev) /\ history' = history
    BY <2>2
  <2>3. ASSUME NEW p \in Port, NEW d \in Storage, NEW t \in BOOLEAN, Upsert(p, d, t),
               active[p] = NoEntry \/ active[p].dev = d
        PROVE  [Ledger!Next]_<<device, connects>>
    <3>1. device' = [device EXCEPT ![p] = d]
      BY <2>1, <2>3 DEF Upsert
    <3>2. CASE active[p] = NoEntry
      <4>1. connects' = [connects EXCEPT ![d] = @ + 1]
        BY <2>1, <2>3, <3>2 DEF Upsert, HistoryEntry
      <4>2. Ledger!Connect(p, d)
        BY <2>1, <3>1, <3>2, <4>1 DEF Ledger!Connect
      <4> QED
        BY <4>2 DEF Ledger!Next
    <3>3. CASE active[p] # NoEntry
      <4>1. connects' = connects
        BY <2>1, <2>3, <3>3 DEF Upsert, HistoryEntry
      <4>2. device' = device
        BY <2>3, <3>1, <3>3
      <4> QED
        BY <4>1, <4>2
    <3> QED
      BY <3>2, <3>3
  <2>4. ASSUME NEW p \in Port, active[p] # NoEntry, RemoveEntry(p)
        PROVE  [Ledger!Next]_<<device, connects>>
    <3>1. device' = [device EXCEPT ![p] = None]
      BY <2>1, <2>4 DEF RemoveEntry, NoEntry
    <3>2. connects' = connects
      BY <2>1, <2>4 DEF RemoveEntry, HistoryEntry
    <3>3. Ledger!Disconnect(p)
      BY <2>1, <2>4, <3>1, <3>2 DEF Ledger!Disconnect
    <3> QED
      BY <3>3 DEF Ledger!Next
  <2>5. CASE FreeLists
    BY <2>5 DEF FreeLists, NoEntry, NoHistory, Ledger!Next, Ledger!Forget
  <2> QED
    BY <2>2, <2>3, <2>4, <2>5, ListEffects
<1>3. TypeInv /\ Current /\ [Next]_vars => (TypeInv /\ Current)'
  BY NextKeepsType, NextKeepsCurrent
<1> QED
  BY <1>1, <1>2, <1>3, InitCurrent, PTL DEF Spec, KeepsLedger, Ledger!Spec

(* Counting the entries of an identity.                                    *)
LEMMA StoreCounts ==
  ASSUME TypeInv, HistoryCountsActive, NEW p \in Port, NEW d \in Storage, NEW t \in BOOLEAN,
         Upsert(p, d, t), active[p] = NoEntry \/ active[p].dev = d
  PROVE  HistoryCountsActive'
<1>1. /\ active \in [Port -> Entry] /\ history \in [Storage -> HistoryEntry]
      /\ None \notin Storage /\ NoEntry.dev = None
      /\ active[p].dev = None => active[p] = NoEntry
  BY DEF TypeInv, TypeOK, ListShape, NoEntry
<1>2. \A q \in Port : active'[q].dev = IF q = p THEN d ELSE active[q].dev
  BY <1>1 DEF Upsert
<1> SUFFICES ASSUME NEW c \in Storage
             PROVE  /\ history'[c].instances = Cardinality({q \in Port : active'[q].dev = c})
                    /\ history'[c].instances <= history'[c].connects
                    /\ ~history'[c].known => history'[c].connects = 0
  BY DEF HistoryCountsActive
<1> DEFINE S == {q \in Port : active[q].dev = c}
           T == {q \in Port : active'[q].dev = c}
<1>3. /\ history[c].instances = Cardinality(S) /\ history[c].instances <= history[c].connects
      /\ ~history[c].known => history[c].connects = 0
      /\ history[c].instances \in Nat /\ history[c].connects \in Nat
  BY <1>1 DEF HistoryCountsActive, HistoryEntry
<1>4. IsFiniteSet(S)
  BY FS_Subset
<1>5. CASE c # d \/ active[p].dev = d
  <2>1. T = S
    BY <1>1, <1>2, <1>5
  <2>2. CASE c # d
    <3>1. history'[c] = history[c]
      BY <1>1, <2>2 DEF Upsert
    <3> HIDE DEF S, T
    <3> QED
      BY <1>3, <2>1, <3>1 DEF T
  <2>3. CASE c = d /\ active[p].dev = d
    <3>1. active[p] # NoEntry
      BY <1>1, <2>3
    <3>2. history'[c] = [known |-> TRUE, connects |-> history[c].connects + 0,
                         instances |-> history[c].instances + 0]
      BY <1>1, <2>3, <3>1 DEF Upsert
    <3>3. /\ history'[c].instances = history[c].instances
          /\ history'[c].connects = history[c].connects
          /\ history'[c].known
      BY <1>3, <3>2
    <3> HIDE DEF S, T
    <3>4. Cardinality(T) = Cardinality(S)
      BY <2>1
    <3> QED
      BY <1>3, <3>3, <3>4 DEF T
  <2> QED
    BY <1>5, <2>2, <2>3
<1>6. CASE c = d /\ active[p] = NoEntry
  <2>1. T = S \union {p} /\ p \notin S
    BY <1>1, <1>2, <1>6
  <2>2. /\ history'[c].instances = history[c].instances + 1
        /\ history'[c].connects = history[c].connects + 1
        /\ history'[c].known
    BY <1>1, <1>6 DEF Upsert
  <2> HIDE DEF S, T
  <2>3. Cardinality(T) = Cardinality(S) + 1
    BY <1>4, <2>1, FS_AddElement
  <2> QED
    BY <1>3, <2>2, <2>3 DEF T
<1> QED
  BY <1>5, <1>6

LEMMA RemoveCounts ==
  ASSUME TypeInv, HistoryCountsActive, NEW p \in Port, active[p] # NoEntry, RemoveEntry(p)
  PROVE  HistoryCountsActive'
<1> DEFINE d == active[p].dev
<1>1. /\ active \in [Port -> Entry] /\ history \in [Storage -> HistoryEntry]
      /\ None \notin Storage /\ NoEntry.dev = None /\ d \in Storage
  BY RemoveEntryFacts DEF TypeInv, TypeOK, NoEntry
<1>2. \A q \in Port : active'[q].dev = IF q = p THEN None ELSE active[q].dev
  BY <1>1 DEF RemoveEntry
<1> SUFFICES ASSUME NEW c \in Storage
             PROVE  /\ history'[c].instances = Cardinality({q \in Port : active'[q].dev = c})
                    /\ history'[c].instances <= history'[c].connects
                    /\ ~history'[c].known => history'[c].connects = 0
  BY DEF HistoryCountsActive
<1> DEFINE S == {q \in Port : active[q].dev = c}
           T == {q \in Port : active'[q].dev = c}
<1>3. /\ history[c].instances = Cardinality(S) /\ history[c].instances <= history[c].connects
      /\ ~history[c].known => history[c].connects = 0
      /\ history[c].instances \in Nat /\ history[c].connects \in Nat
  BY <1>1 DEF HistoryCountsActive, HistoryEntry
<1>4. IsFiniteSet(S)
  BY FS_Subset
<1>5. /\ history'[c].connects = history[c].connects
      /\ history'[c].known = history[c].known
  BY <1>1 DEF RemoveEntry, HistoryEntry
<1>6. CASE c # d
  <2>1. T = S
    BY <1>1, <1>2, <1>6
  <2>2. history'[c].instances = history[c].instances
    BY <1>1, <1>6 DEF RemoveEntry, HistoryEntry
  <2> HIDE DEF S, T
  <2>3. Cardinality(T) = Cardinality(S)
    BY <2>1
  <2> QED
    BY <1>3, <1>5, <2>2, <2>3 DEF T
<1>7. CASE c = d
  <2>1. T = S \ {p} /\ p \in S
    BY <1>1, <1>2, <1>7
  <2>2. history'[c].instances = IF history[c].instances > 0 THEN history[c].instances - 1 ELSE 0
    BY <1>1, <1>7 DEF RemoveEntry, HistoryEntry
  <2> HIDE DEF S, T
  <2>3. Cardinality(T) = Cardinality(S) - 1 /\ Cardinality(T) \in Nat
    BY <1>4, <2>1, FS_RemoveElement, FS_CardinalityType
  <2>4. history'[c].instances = Cardinality(T)
    BY <1>3, <2>2, <2>3
  <2> QED
    BY <1>3, <1>5, <2>3, <2>4 DEF T
<1> QED
  BY <1>6, <1>7

(* An identity without entries counts none.                                *)
LEMMA NoneCounted ==
  ASSUME \A p \in Port : active[p] = NoEntry, \A d \in Storage : history[d] = NoHistory
  PROVE  HistoryCountsActive
<1> SUFFICES ASSUME NEW c \in Storage
             PROVE  /\ history[c].instances = Cardinality({q \in Port : active[q].dev = c})
                    /\ history[c].instances <= history[c].connects
                    /\ ~history[c].known => history[c].connects = 0
  BY DEF HistoryCountsActive
<1>1. {q \in Port : active[q].dev = c} = {}
  BY DEF NoEntry
<1>2. Cardinality({q \in Port : active[q].dev = c}) = 0
  BY <1>1, FS_EmptySet
<1> QED
  BY <1>2 DEF NoHistory

(* active_instances is the number of active entries of an identity, so the *)
(* guard of usb_guard_remove_device against a negative count is never what *)
(* keeps it right; the hypothesis is the one of LedgerKept.                *)
THEOREM HistoryCounts ==
  ASSUME "seedunplug" \notin Env
  PROVE  Spec => []HistoryCountsActive
<1>1. Init => HistoryCountsActive
  BY NoneCounted DEF Init
<1>2. TypeInv /\ Current /\ HistoryCountsActive /\ [Next]_vars => HistoryCountsActive'
  <2> SUFFICES ASSUME TypeInv, Current, HistoryCountsActive, [Next]_vars
               PROVE  HistoryCountsActive'
    OBVIOUS
  <2>1. CASE (\A p \in Port : active'[p].dev = active[p].dev) /\ history' = history
    <3>1. ASSUME NEW d \in Storage
          PROVE  {p \in Port : active'[p].dev = d} = {p \in Port : active[p].dev = d}
      BY <2>1
    <3>2. ASSUME NEW d \in Storage
          PROVE  Cardinality({p \in Port : active'[p].dev = d})
                   = Cardinality({p \in Port : active[p].dev = d})
      BY <3>1
    <3> QED
      BY <2>1, <3>2 DEF HistoryCountsActive
  <2>2. CASE FreeLists
    <3>1. (\A p \in Port : active'[p] = NoEntry) /\ \A d \in Storage : history'[d] = NoHistory
      BY <2>2 DEF FreeLists
    <3>2. \A d \in Storage : {q \in Port : active'[q].dev = d} = {}
      BY <3>1 DEF NoEntry
    <3>3. \A d \in Storage : Cardinality({q \in Port : active'[q].dev = d}) = 0
      BY <3>2, FS_EmptySet
    <3> QED
      BY <3>1, <3>3 DEF HistoryCountsActive, NoHistory
  <2> QED
    BY <2>1, <2>2, ListEffects, StoreCounts, RemoveCounts
<1>3. TypeInv /\ Current /\ [Next]_vars => (TypeInv /\ Current)'
  BY NextKeepsType, NextKeepsCurrent
<1> QED
  BY <1>1, <1>2, <1>3, InitCurrent, PTL DEF Spec

-----------------------------------------------------------------------------
(* Enforcement.                                                            *)

Guarding == phase \in {"seeding", "live"}

(* A storage device whose ADD call has tracked it, or that was there       *)
(* before the notifier was.                                                *)
Watched(p) ==
  bus[p].pc \in {"schedule", "present"} /\ bus[p].dev \in Storage /\ bus[p].authorized

(* The seeding has still to store it.                                      *)
ToStore(p) == phase = "seeding" /\ (p \in seed.todo \/ (seed.pc = "upsert" /\ seed.port = p))

Tracked == Guarding => \A p \in Port : Watched(p) => active[p] # NoEntry \/ ToStore(p)

(* No entry stands for a storage device.                                   *)
LEMMA NoneIsNoStorage == NoEntry.dev = None /\ None \notin Storage
<1>1. NoEntry.dev = None
  BY DEF NoEntry
<1>2. None \notin Storage
  OBVIOUS
<1> QED
  BY <1>1, <1>2

(* A port that is watched afterwards was watched before, and is still      *)
(* either listed or to be listed.                                          *)
LEMMA TrackedStep ==
  ASSUME Tracked, Guarding' => Guarding,
         Guarding' => \A p \in Port :
           Watched(p)' =>
             \/ active'[p] # NoEntry \/ ToStore(p)'
             \/ /\ Watched(p)
                /\ ToStore(p) => ToStore(p)'
                /\ active[p] # NoEntry => active'[p] # NoEntry
  PROVE  Tracked'
  BY DEF Tracked

(* ActiveMirrorsBus with the seeding in progress: an allocation that fails *)
(* loses the device, and so does root's write to the `authorized` of one   *)
(* that the seeding left out.                                              *)
LEMMA NextKeepsTracked ==
  ASSUME {"alloc", "reauth", "seedunplug"} \cap Env = {}, TypeInv, Current, Tracked, [Next]_vars
  PROVE  Tracked'
<1> EntriesCurrent /\ SeedCurrent /\ TypeOK /\ BusShape /\ ListShape /\ SeedShape
  BY DEF TypeInv, Current
<1>0. "alloc" \notin Env /\ "reauth" \notin Env
  OBVIOUS
<1> NoEntry.dev = None /\ None \notin Storage
  BY NoneIsNoStorage
<1>1. bus \in [Port -> BusPort] /\ active \in [Port -> Entry] /\ seed \in SeedState
  BY DEF TypeOK
<1>2. CASE /\ UNCHANGED <<bus, seed, phase>>
           /\ \A p \in Port : active'[p].dev = active[p].dev
  <2>1. \A p \in Port : active[p] # NoEntry => active'[p] # NoEntry
    BY <1>2 DEF ListShape
  <2> QED
    BY <1>2, <2>1, TrackedStep DEF Guarding, Watched, ToStore
<1>3. CASE UNCHANGED <<bus, seed, active, phase>>
  BY <1>3, <1>2
<1>4. ASSUME NEW rules \in Seq(Rule), Recalculate(rules), Command
      PROVE  Tracked'
  BY <1>2, <1>4, RecalculateFacts DEF Command
<1>5. policy.rules \in Seq(Rule)
  BY DEF TypeOK, Policy
<1>6. ASSUME NEW r \in Rule, AddRule(r) \/ RemoveRule(r)
      PROVE  Tracked'
  <2>1. Append(policy.rules, r) \in Seq(Rule)
    BY <1>5
  <2>2. \A i \in DOMAIN policy.rules : RemoveAt(policy.rules, i) \in Seq(Rule)
    BY <1>5, RemoveAtFacts
  <2> QED
    BY <1>4, <1>6, <2>1, <2>2 DEF AddRule, RemoveRule
<1>7. CASE ClearRules
  <2>1. <<>> \in Seq(Rule)
    OBVIOUS
  <2> QED
    BY <1>4, <1>7, <2>1 DEF ClearRules
<1>8. ASSUME NEW on, SetBlock(on) \/ WriteParam(on)
      PROVE  Tracked'
  BY <1>3, <1>8 DEF SetBlock, WriteParam, Command
<1>9. ASSUME NEW j \in Job, CheckWork(j)
      PROVE  Tracked'
  BY <1>3, <1>9 DEF CheckWork
(* A port's device changes: it is not watched, or was before.              *)
<1>10. ASSUME NEW p \in Port, NEW b, bus' = [bus EXCEPT ![p] = b],
              Guarding => \/ b.pc \notin {"schedule", "present"} \/ b.dev \notin Storage
                          \/ ~b.authorized
                          \/ Watched(p),
              UNCHANGED <<seed, active, phase>>
       PROVE  Tracked'
  <2>1. \A q \in Port : bus'[q] = IF q = p THEN b ELSE bus[q]
    BY <1>1, <1>10
  <2> QED
    BY <1>10, <2>1, TrackedStep DEF Guarding, Watched, ToStore
<1>11. ASSUME NEW j \in Job, WriteWork(j)
       PROVE  Tracked'
  <2> DEFINE p == j[1]  b == [bus[p] EXCEPT !.authorized = FALSE]
  <2>1. p \in Port
    BY DEF Job
  <2>2. CASE bus' = [bus EXCEPT ![p].authorized = FALSE]
    <3>1. ~b.authorized /\ bus' = [bus EXCEPT ![p] = b]
      BY <1>1, <2>1, <2>2 DEF BusPort
    <3> HIDE DEF b, p
    <3> QED
      BY <1>10, <1>11, <2>1, <3>1 DEF WriteWork
  <2>3. CASE UNCHANGED bus
    BY <1>3, <1>11, <2>3 DEF WriteWork
  <2> QED
    BY <1>11, <2>2, <2>3 DEF WriteWork
<1>12. ASSUME NEW p \in Port, NEW d \in Ident, Plug(p, d)
       PROVE  Tracked'
  <2> DEFINE b == [pc |-> IF Registered THEN "fill" ELSE "present",
                   dev |-> d, trusted |-> FALSE, authorized |-> TRUE]
  <2>1. bus' = [bus EXCEPT ![p] = b] /\ (Guarding => b.pc = "fill")
    BY <1>12 DEF Plug, Registered, Guarding
  <2> HIDE DEF b
  <2> QED
    BY <1>10, <1>12, <2>1 DEF Plug
<1>13. ASSUME NEW p \in Port, Unplug(p)
       PROVE  Tracked'
  <2> DEFINE b == IF Registered THEN [bus[p] EXCEPT !.pc = "remove"] ELSE Unplugged
  <2>1. bus' = [bus EXCEPT ![p] = b]
    BY <1>1, <1>13 DEF Unplug
  <2>2. b.pc \in {"remove", "empty"}
    BY <1>1 DEF BusPort, Unplugged
  <2> HIDE DEF b
  <2> QED
    BY <1>10, <1>13, <2>1, <2>2 DEF Unplug
<1>14. ASSUME NEW p \in Port, TrackFill(p)
       PROVE  Tracked'
  <2> DEFINE b == [bus[p] EXCEPT !.pc = "upsert", !.trusted = Matches(policy, bus[p].dev)]
             c == [bus[p] EXCEPT !.pc = "present"]
  <2>1. /\ b.pc = "upsert" /\ c.dev = bus[p].dev
        /\ \/ bus' = [bus EXCEPT ![p] = b]
           \/ bus' = [bus EXCEPT ![p] = c] /\ bus[p].dev \notin Storage
    BY <1>1, <1>14 DEF TrackFill, BusPort
  <2> HIDE DEF b, c
  <2> QED
    BY <1>10, <1>14, <2>1 DEF TrackFill
<1>15. ASSUME NEW p \in Port, TrackSchedule(p)
       PROVE  Tracked'
  <2> DEFINE b == [bus[p] EXCEPT !.pc = "present"]
  <2>1. /\ b.dev = bus[p].dev /\ b.authorized = bus[p].authorized
        /\ bus[p].pc = "schedule" /\ bus' = [bus EXCEPT ![p] = b]
    BY <1>1, <1>15 DEF TrackSchedule, BusPort
  <2> HIDE DEF b
  <2> QED
    BY <1>10, <1>15, <2>1 DEF TrackSchedule, Watched
<1>16. ASSUME NEW p \in Port, TrackUpsert(p)
       PROVE  Tracked'
  <2>1. /\ bus[p].dev \in Storage /\ Upsert(p, bus[p].dev, bus[p].trusted)
        /\ UNCHANGED <<seed, phase>> /\ \A q \in Port \ {p} : bus'[q] = bus[q]
    BY <1>0, <1>1, <1>16 DEF TrackUpsert, BusShape
  <2>2. active'[p].dev = bus[p].dev /\ \A q \in Port \ {p} : active'[q] = active[q]
    BY <1>1, <2>1 DEF Upsert
  <2>3. active'[p] # NoEntry
    BY <2>1, <2>2
  <2> QED
    BY <2>1, <2>2, <2>3, TrackedStep DEF Guarding, Watched, ToStore
<1>17. ASSUME NEW p \in Port, RemoveDevice(p)
       PROVE  Tracked'
  <2>1. /\ bus'[p].pc = "empty" /\ \A q \in Port \ {p} : bus'[q] = bus[q]
        /\ UNCHANGED <<seed, phase>>
        /\ \A q \in Port \ {p} : active'[q] = active[q]
    BY <1>1, <1>17 DEF RemoveDevice, RemoveEntry, lists, Unplugged
  <2> QED
    BY <2>1, TrackedStep DEF Guarding, Watched, ToStore
<1>18. ASSUME NEW p \in Port, SeedVisit(p)
       PROVE  Tracked'
  <2>1. UNCHANGED <<bus, active, phase>> /\ phase = "seeding" /\ seed.pc = "next"
    BY <1>18 DEF SeedVisit
  <2>2. CASE seed' = [pc |-> "upsert", todo |-> seed.todo \ {p}, port |-> p,
                      dev |-> bus[p].dev, trusted |-> Matches(policy, bus[p].dev)]
    <3>1. seed'.pc = "upsert" /\ seed'.todo = seed.todo \ {p} /\ seed'.port = p
      BY <2>2
    <3> QED
      BY <2>1, <3>1, TrackedStep DEF Guarding, Watched, ToStore
  <2>3. CASE ~Watched(p) /\ seed' = [seed EXCEPT !.todo = @ \ {p}]
    <3>1. seed'.todo = seed.todo \ {p}
      BY <1>1, <2>3 DEF SeedState
    <3> QED
      BY <2>1, <2>3, <3>1, TrackedStep DEF Guarding, Watched, ToStore
  <2> QED
    BY <1>18, <2>2, <2>3 DEF SeedVisit, Watched
<1>19. CASE SeedUpsert
  <2>1. /\ Upsert(seed.port, seed.dev, seed.trusted) /\ seed' = [seed EXCEPT !.pc = "schedule"]
        /\ UNCHANGED <<bus, phase>> /\ seed.port \in Port /\ seed.dev \in Storage
    BY <1>0, <1>19 DEF SeedUpsert, SeedShape
  <2>2. /\ active'[seed.port].dev = seed.dev
        /\ \A q \in Port \ {seed.port} : active'[q] = active[q]
        /\ seed'.todo = seed.todo
    BY <1>1, <2>1 DEF Upsert, SeedState
  <2>3. active'[seed.port] # NoEntry
    BY <2>1, <2>2
  <2> QED
    BY <2>1, <2>2, <2>3, TrackedStep DEF Guarding, Watched, ToStore
<1>20. CASE SeedSchedule
  <2>1. seed.pc = "schedule" /\ seed'.todo = seed.todo /\ UNCHANGED <<bus, active, phase>>
    BY <1>20 DEF SeedSchedule, SeedIdle
  <2> QED
    BY <2>1, TrackedStep DEF Guarding, Watched, ToStore
<1>21. CASE SeedDone
  <2>1. /\ seed.pc = "next" /\ seed.todo = {} /\ UNCHANGED <<bus, active>>
        /\ phase = "seeding"
    BY <1>21 DEF SeedDone
  <2> QED
    BY <2>1, TrackedStep DEF Guarding, Watched, ToStore
<1>22. CASE RegisterNotifier
  <2>1. seed'.todo = Port /\ phase' = "seeding"
    BY <1>22 DEF RegisterNotifier, SeedIdle
  <2> QED
    BY <2>1 DEF Tracked, ToStore
<1>23. CASE \/ \E ps \in ParamList, b \in BOOLEAN : Load(ps, b)
            \/ StartExit \/ UnwindInit \/ ForgetQueue \/ FinishExit
  <2>1. ~Guarding'
    BY <1>23 DEF Load, StartExit, UnwindInit, ForgetQueue, FinishExit, Guarding
  <2> QED
    BY <2>1 DEF Tracked
<1>24. CASE DrainQueue \/ FreeQueue \/ UNCHANGED vars
  BY <1>3, <1>24 DEF DrainQueue, FreeQueue, vars
<1>25. ~\E p \in Port : Reauthorize(p)
  BY <1>0 DEF Reauthorize
<1> QED
  BY <1>6, <1>7, <1>8, <1>9, <1>11, <1>12, <1>13, <1>14, <1>15, <1>16, <1>17, <1>18, <1>19,
     <1>20, <1>21, <1>22, <1>23, <1>24, <1>25 DEF Next, Notifier, SeedStep, ExitStep

(* The status file shows the bus: every entry names the device on its      *)
(* port, and every device that was let in is listed.                       *)
THEOREM ActiveIsBus ==
  ASSUME {"alloc", "reauth", "seedunplug"} \cap Env = {}
  PROVE  Spec => []ActiveMirrorsBus
<1>1. Init => Tracked
  BY DEF Init, Tracked, Guarding
<1>2. TypeInv /\ Current /\ Tracked => ActiveMirrorsBus
  BY DEF Current, Tracked, ActiveMirrorsBus, Guarding, Watched, ToStore
<1>3. TypeInv /\ Current /\ Tracked /\ [Next]_vars => (TypeInv /\ Current /\ Tracked)'
  BY NextKeepsType, NextKeepsCurrent, NextKeepsTracked
<1> QED
  BY <1>1, <1>2, <1>3, InitCurrent, PTL DEF Spec

-----------------------------------------------------------------------------
(* Between insmod and rmmod the workqueue takes works.                     *)
QueueUp == phase \in {"prepared", "seeding", "live", "unwinding"} => wq = "up"

LEMMA NextKeepsQueueUp ==
  ASSUME TypeInv, QueueUp, [Next]_vars
  PROVE  QueueUp'
<1> TypeOK
  BY DEF TypeInv
<1>1. CASE UNCHANGED phase /\ (wq' # wq => wq = "freed")
  BY <1>1 DEF QueueUp
<1>2. policy.rules \in Seq(Rule)
  BY DEF TypeOK, Policy
<1>3. ASSUME NEW rules \in Seq(Rule), Recalculate(rules), Command
      PROVE  QueueUp'
  BY <1>1, <1>3, RecalculateFacts DEF Command
<1>4. ASSUME NEW r \in Rule, AddRule(r) \/ RemoveRule(r)
      PROVE  QueueUp'
  <2>1. Append(policy.rules, r) \in Seq(Rule)
    BY <1>2
  <2>2. \A i \in DOMAIN policy.rules : RemoveAt(policy.rules, i) \in Seq(Rule)
    BY <1>2, RemoveAtFacts
  <2> QED
    BY <1>3, <1>4, <2>1, <2>2 DEF AddRule, RemoveRule
<1>5. CASE ClearRules
  <2>1. <<>> \in Seq(Rule)
    OBVIOUS
  <2> QED
    BY <1>3, <1>5, <2>1 DEF ClearRules
<1>6. ASSUME NEW on \in BOOLEAN, SetBlock(on) \/ WriteParam(on)
      PROVE  QueueUp'
  BY <1>1, <1>6, ScheduleFacts DEF SetBlock, WriteParam, Command
<1>7. ASSUME NEW p \in Port, TrackSchedule(p) \/ SeedSchedule
      PROVE  QueueUp'
  BY <1>1, <1>7, ScheduleFacts DEF TrackSchedule, SeedSchedule
<1>8. ASSUME NEW p \in Port,
             \/ Unplug(p) \/ Reauthorize(p) \/ TrackFill(p) \/ TrackUpsert(p)
             \/ RemoveDevice(p) \/ SeedVisit(p) \/ \E d \in Ident : Plug(p, d)
      PROVE  QueueUp'
  BY <1>1, <1>8 DEF Unplug, Reauthorize, TrackFill, TrackUpsert, RemoveDevice, SeedVisit, Plug
<1>9. ASSUME NEW j \in Job, CheckWork(j) \/ WriteWork(j)
      PROVE  QueueUp'
  BY <1>1, <1>9 DEF CheckWork, WriteWork
<1>10. CASE \/ \E ps \in ParamList, b \in BOOLEAN : Load(ps, b)
            \/ RegisterNotifier \/ StartExit \/ UnwindInit \/ ExitStep
  BY <1>10 DEF Load, RegisterNotifier, StartExit, UnwindInit, ExitStep, DrainQueue, FreeQueue,
               ForgetQueue, FinishExit, QueueUp
<1>11. CASE SeedUpsert \/ SeedDone
  BY <1>11 DEF SeedUpsert, SeedDone, QueueUp
<1>12. CASE SeedSchedule
  BY <1>1, <1>12, ScheduleFacts DEF SeedSchedule
<1>13. CASE UNCHANGED vars
  BY <1>1, <1>13 DEF vars
<1> QED
  BY <1>4, <1>5, <1>6, <1>7, <1>8, <1>9, <1>10, <1>11, <1>12, <1>13 DEF Next, Notifier, SeedStep

(* With memory to be had and the workqueue up, every work that the policy  *)
(* asks for is there after the call, and none has gone.                    *)
LEMMA ScheduleReaches ==
  ASSUME "alloc" \notin Env, TypeOK, wq = "up", NEW pol, NEW S, ScheduleBlock(pol, S)
  PROVE  /\ checked' = checked
         /\ \A j \in Job : /\ queued'[j] \in Nat
                           /\ queued[j] > 0 => queued'[j] > 0
                           /\ j \in S /\ ShouldBlock(pol, j[2]) => queued'[j] > 0
<1> DEFINE jobs == {j \in S : ShouldBlock(pol, j[2])}
<1>1. queued \in [Job -> Nat]
  BY DEF TypeOK
<1>2. queued' = [j \in Job |-> queued[j] + (IF j \in jobs THEN 1 ELSE 0)]
  BY DEF ScheduleBlock
<1>3. ASSUME NEW j \in Job
      PROVE  /\ queued'[j] \in Nat
             /\ queued[j] > 0 => queued'[j] > 0
             /\ j \in jobs => queued'[j] > 0
  <2> HIDE DEF jobs
  <2>1. queued[j] \in Nat /\ queued'[j] = queued[j] + (IF j \in jobs THEN 1 ELSE 0)
    BY <1>1, <1>2
  <2> QED
    BY <2>1
<1>4. checked' = checked
  BY DEF ScheduleBlock
<1> QED
  BY <1>3, <1>4

(* A device that the policy blocks and nobody has blocked yet; a work on   *)
(* its way to it; the seeding on its way to it.                            *)
Blocked(p) ==
  /\ bus[p].pc = "present" /\ bus[p].dev \in Storage /\ bus[p].authorized
  /\ ShouldBlock(policy, bus[p].dev)

Held(p) == Pending(<<p, bus[p].dev>>)

ToSeed(p) == phase = "seeding" /\ (p \in seed.todo \/ seed.port = p)

Enforced == Guarding => \A p \in Port : Blocked(p) => Held(p) \/ ToSeed(p)

(* A port that is blocked afterwards is held or to be seeded, or was       *)
(* blocked before and lost neither.                                        *)
LEMMA EnforcedStep ==
  ASSUME Enforced, Guarding' => Guarding,
         Guarding' => \A p \in Port :
           Blocked(p)' =>
             \/ Held(p)' \/ ToSeed(p)'
             \/ /\ Blocked(p)
                /\ Held(p) => Held(p)'
                /\ ToSeed(p) => ToSeed(p)'
  PROVE  Enforced'
  BY DEF Enforced

(* NoUntrustedLeftAlone with the seeding in progress.  A command looks at  *)
(* the entries only, so it is Tracked that makes it reach every device.    *)
LEMMA NextKeepsEnforced ==
  ASSUME {"alloc", "io", "reauth", "param", "seedunplug"} \cap Env = {},
         TypeInv, Current, Tracked, QueueUp, Enforced, [Next]_vars
  PROVE  Enforced'
<1> EntriesCurrent /\ SeedCurrent /\ TypeOK /\ BusShape /\ ListShape /\ SeedShape
  BY DEF TypeInv, Current
<1>0. "alloc" \notin Env /\ "io" \notin Env /\ "reauth" \notin Env /\ "param" \notin Env
  OBVIOUS
<1>1. /\ bus \in [Port -> BusPort] /\ seed \in SeedState
      /\ queued \in [Job -> Nat] /\ checked \in [Job -> Nat]
  BY DEF TypeOK
<1>2. CASE UNCHANGED <<bus, policy, queued, checked, seed, phase>>
  BY <1>2 DEF Enforced, Guarding, Blocked, Held, Pending, ToSeed
(* A command gives every listed device that the new policy blocks a work.  *)
<1>3. ASSUME NEW pol, policy' = pol, ScheduleBlock(pol, ActiveJobs), Command
      PROVE  Enforced'
  <2> SUFFICES ASSUME NEW p \in Port, Guarding', Blocked(p)'
               PROVE  Held(p)' \/ ToSeed(p)'
    BY DEF Enforced
  <2>1. Guarding /\ UNCHANGED <<bus, seed, phase>> /\ wq = "up"
    BY <1>3 DEF Command, Guarding, QueueUp
  <2>2. CASE active[p] # NoEntry
    <3>1. active[p].dev = bus[p].dev
      BY <2>1, <2>2 DEF EntriesCurrent, Registered, Guarding
    <3> DEFINE j == <<p, bus[p].dev>>
    <3>2. j \in ActiveJobs
      BY <2>2, <3>1 DEF ActiveJobs
    <3>3. j \in Job /\ j[2] = bus[p].dev /\ ShouldBlock(pol, bus[p].dev)
      BY <1>3, <2>1 DEF Blocked, Job
    <3> HIDE DEF j
    <3>4. queued'[j] \in Nat /\ queued'[j] > 0 /\ checked'[j] = checked[j]
      BY <1>0, <1>3, <2>1, <3>2, <3>3, ScheduleReaches
    <3>5. checked[j] \in Nat
      BY <1>1, <3>3
    <3> QED
      BY <2>1, <3>4, <3>5 DEF j, Held, Pending
  <2>3. CASE active[p] = NoEntry
    <3>1. ToStore(p)
      BY <2>1, <2>3 DEF Tracked, Watched, Blocked
    <3> QED
      BY <2>1, <3>1 DEF ToStore, ToSeed
  <2> QED
    BY <2>2, <2>3
<1>4. ASSUME NEW r \in Rule, AddRule(r) \/ RemoveRule(r)
      PROVE  Enforced'
  BY <1>3, <1>4 DEF AddRule, RemoveRule, Recalculate
<1>5. CASE ClearRules
  BY <1>3, <1>5 DEF ClearRules, Recalculate
<1>6. ASSUME NEW on, SetBlock(on)
      PROVE  Enforced'
  BY <1>3, <1>6 DEF SetBlock
(* A port's device changes, and is not blocked after it.                   *)
<1>7. ASSUME NEW p \in Port, NEW b, bus' = [bus EXCEPT ![p] = b],
             Guarding => \/ b.pc # "present" \/ b.dev \notin Storage \/ ~b.authorized,
             UNCHANGED <<policy, queued, checked, seed, phase>>
      PROVE  Enforced'
  <2>1. \A q \in Port : bus'[q] = IF q = p THEN b ELSE bus[q]
    BY <1>1, <1>7
  <2> QED
    BY <1>7, <2>1, EnforcedStep DEF Guarding, Blocked, Held, Pending, ToSeed
<1>8. ASSUME NEW p \in Port, NEW d \in Ident, Plug(p, d)
      PROVE  Enforced'
  <2> DEFINE b == [pc |-> IF Registered THEN "fill" ELSE "present",
                   dev |-> d, trusted |-> FALSE, authorized |-> TRUE]
  <2>1. bus' = [bus EXCEPT ![p] = b] /\ (Guarding => b.pc = "fill")
    BY <1>8 DEF Plug, Registered, Guarding
  <2> HIDE DEF b
  <2> QED
    BY <1>7, <1>8, <2>1 DEF Plug
<1>9. ASSUME NEW p \in Port, Unplug(p)
      PROVE  Enforced'
  <2> DEFINE b == IF Registered THEN [bus[p] EXCEPT !.pc = "remove"] ELSE Unplugged
  <2>1. bus' = [bus EXCEPT ![p] = b]
    BY <1>1, <1>9 DEF Unplug
  <2>2. b.pc \in {"remove", "empty"}
    BY <1>1 DEF BusPort, Unplugged
  <2> HIDE DEF b
  <2> QED
    BY <1>7, <1>9, <2>1, <2>2 DEF Unplug
<1>10. ASSUME NEW p \in Port, TrackFill(p)
       PROVE  Enforced'
  <2> DEFINE b == [bus[p] EXCEPT !.pc = "upsert", !.trusted = Matches(policy, bus[p].dev)]
             c == [bus[p] EXCEPT !.pc = "present"]
  <2>1. /\ b.pc = "upsert" /\ c.dev = bus[p].dev
        /\ \/ bus' = [bus EXCEPT ![p] = b]
           \/ bus' = [bus EXCEPT ![p] = c] /\ bus[p].dev \notin Storage
    BY <1>1, <1>10 DEF TrackFill, BusPort
  <2> HIDE DEF b, c
  <2> QED
    BY <1>7, <1>10, <2>1 DEF TrackFill
<1>11. ASSUME NEW p \in Port, TrackUpsert(p)
       PROVE  Enforced'
  <2> DEFINE b == [bus[p] EXCEPT !.pc = "schedule", !.trusted = FALSE]
  <2>1. b.pc = "schedule" /\ bus' = [bus EXCEPT ![p] = b]
    BY <1>0, <1>1, <1>11 DEF TrackUpsert, BusPort
  <2> HIDE DEF b
  <2> QED
    BY <1>7, <1>11, <2>1 DEF TrackUpsert
<1>12. ASSUME NEW p \in Port, RemoveDevice(p)
       PROVE  Enforced'
  <2>1. Unplugged.pc = "empty"
    BY DEF Unplugged
  <2> QED
    BY <1>7, <1>12, <2>1 DEF RemoveDevice
(* A work is queued for a port's device, and nothing else happens to it    *)
(* that could set it free.                                                 *)
<1>13. ASSUME NEW p \in Port, NEW d, ScheduleBlock(policy, {<<p, d>>}), wq = "up",
              bus'[p].dev = d, \A q \in Port \ {p} : bus'[q] = bus[q],
              UNCHANGED <<policy, phase>>, \A q \in Port \ {p} : ToSeed(q) => ToSeed(q)'
       PROVE  Enforced'
  <2>1. ASSUME Blocked(p)'
        PROVE  Held(p)'
    <3> DEFINE j == <<p, d>>
    <3>1. j \in Job /\ j[2] = d /\ ShouldBlock(policy, d) /\ j \in {<<p, d>>}
      BY <1>13, <2>1 DEF Blocked, Job
    <3> HIDE DEF j
    <3>2. queued'[j] \in Nat /\ queued'[j] > 0 /\ checked'[j] = checked[j]
      BY <1>0, <1>13, <3>1, ScheduleReaches
    <3>3. checked[j] \in Nat
      BY <1>1, <3>1
    <3> QED
      BY <1>13, <3>2, <3>3 DEF j, Held, Pending
  <2>2. ASSUME NEW q \in Port \ {p}, Blocked(q)'
        PROVE  Blocked(q) /\ (Held(q) => Held(q)')
    <3> DEFINE j == <<q, bus[q].dev>>
    <3>1. bus'[q] = bus[q] /\ Blocked(q) /\ j \in Job
      BY <1>13, <2>2 DEF Blocked, Job
    <3> HIDE DEF j
    <3>2. queued'[j] \in Nat /\ (queued[j] > 0 => queued'[j] > 0) /\ checked'[j] = checked[j]
      BY <1>0, <1>13, <3>1, ScheduleReaches
    <3>3. checked[j] \in Nat /\ queued[j] \in Nat
      BY <1>1, <3>1
    <3>4. queued[j] + checked[j] > 0 => queued'[j] + checked'[j] > 0
      BY <3>2, <3>3
    <3> QED
      BY <3>1, <3>4 DEF j, Held, Pending
  <2> QED
    BY <1>13, <2>1, <2>2, EnforcedStep DEF Guarding
<1>14. ASSUME NEW p \in Port, TrackSchedule(p)
       PROVE  Enforced'
  <2>1. /\ bus'[p].dev = bus[p].dev /\ \A q \in Port \ {p} : bus'[q] = bus[q]
        /\ ScheduleBlock(policy, {<<p, bus[p].dev>>}) /\ UNCHANGED <<policy, phase, seed>>
    BY <1>1, <1>14 DEF TrackSchedule, BusPort
  <2>2. wq = "up"
    BY <1>14 DEF TrackSchedule, BusShape, Calling, Registered, QueueUp
  <2> QED
    BY <1>13, <2>1, <2>2 DEF ToSeed
<1>15. CASE SeedSchedule
  <2>1. /\ seed.port \in Port /\ bus[seed.port].dev = seed.dev /\ wq = "up"
        /\ ScheduleBlock(policy, {<<seed.port, seed.dev>>})
        /\ UNCHANGED <<bus, policy, phase>> /\ seed'.todo = seed.todo
    BY <1>15 DEF SeedSchedule, SeedShape, SeedCurrent, QueueUp, SeedIdle
  <2> QED
    BY <1>13, <2>1 DEF ToSeed
<1>16. ASSUME NEW j \in Job, CheckWork(j)
       PROVE  Enforced'
  <2> SUFFICES ASSUME NEW p \in Port, Blocked(p)
               PROVE  Held(p) => Held(p)'
    BY <1>16, EnforcedStep DEF CheckWork, Guarding, Blocked, ToSeed
  <2> DEFINE i == <<p, bus[p].dev>>
  <2>1. i \in Job /\ i[2] = bus[p].dev /\ ShouldBlock(policy, bus[p].dev) /\ UNCHANGED bus
    BY <1>16 DEF Blocked, Job, CheckWork
  <2> HIDE DEF i
  <2>2. /\ queued'[i] = IF i = j THEN queued[i] - 1 ELSE queued[i]
        /\ checked'[i] = IF i = j THEN checked[i] + 1 ELSE checked[i]
    BY <1>1, <1>16, <2>1 DEF CheckWork
  <2>3. queued[i] \in Nat /\ checked[i] \in Nat
    BY <1>1, <2>1
  <2>4. queued[i] + checked[i] > 0 => queued'[i] + checked'[i] > 0
    BY <2>2, <2>3
  <2> QED
    BY <2>1, <2>4 DEF i, Held, Pending
<1>17. ASSUME NEW j \in Job, WriteWork(j)
       PROVE  Enforced'
  <2> DEFINE p == j[1]  b == [bus[p] EXCEPT !.authorized = FALSE]
  <2>1. /\ p \in Port /\ UNCHANGED <<policy, queued, seed, phase>>
        /\ \A i \in Job \ {j} : checked'[i] = checked[i]
    BY <1>1, <1>17 DEF Job, WriteWork
  <2>2. \/ bus'[p].authorized = FALSE
        \/ bus'[p].pc \in {"empty", "remove"}
    BY <1>0, <1>1, <1>17, <2>1 DEF WriteWork, BusPort
  <2>3. \A q \in Port \ {p} : bus'[q] = bus[q]
    BY <1>1, <1>17, <2>1 DEF WriteWork
  <2>4. ASSUME NEW q \in Port \ {p}, bus[q].dev \in Storage
        PROVE  <<q, bus[q].dev>> \in Job \ {j}
    BY <2>4 DEF Job
  <2> HIDE DEF p, b
  <2> QED
    BY <2>1, <2>2, <2>3, <2>4, EnforcedStep DEF Guarding, Blocked, Held, Pending, ToSeed
<1>18. ASSUME NEW p \in Port, SeedVisit(p)
       PROVE  Enforced'
  <2>1. /\ UNCHANGED <<bus, policy, queued, checked, phase>> /\ phase = "seeding"
        /\ seed.pc = "next" /\ seed.port = None
    BY <1>18 DEF SeedVisit, SeedShape
  <2>2. CASE seed' = [pc |-> "upsert", todo |-> seed.todo \ {p}, port |-> p,
                      dev |-> bus[p].dev, trusted |-> Matches(policy, bus[p].dev)]
    <3>1. seed'.todo = seed.todo \ {p} /\ seed'.port = p
      BY <2>2
    <3> QED
      BY <2>1, <3>1, EnforcedStep DEF Guarding, Blocked, Held, Pending, ToSeed
  <2>3. CASE ~Blocked(p) /\ seed' = [seed EXCEPT !.todo = @ \ {p}]
    <3>1. seed'.todo = seed.todo \ {p}
      BY <1>1, <2>3 DEF SeedState
    <3> QED
      BY <2>1, <2>3, <3>1, EnforcedStep DEF Guarding, Blocked, Held, Pending, ToSeed
  <2> QED
    BY <1>18, <2>2, <2>3 DEF SeedVisit, Blocked
<1>19. CASE SeedUpsert
  <2>1. /\ seed' = [seed EXCEPT !.pc = "schedule"]
        /\ UNCHANGED <<bus, policy, queued, checked, phase>>
    BY <1>0, <1>19 DEF SeedUpsert
  <2>2. seed'.todo = seed.todo /\ seed'.port = seed.port
    BY <1>1, <2>1 DEF SeedState
  <2> QED
    BY <2>1, <2>2, EnforcedStep DEF Guarding, Blocked, Held, Pending, ToSeed
(* Once every port has been visited, works hold all that is blocked.       *)
<1>20. CASE SeedDone
  <2>1. /\ seed.todo = {} /\ seed.port = None /\ Guarding
        /\ UNCHANGED <<bus, policy, queued, checked>>
    BY <1>20 DEF SeedDone, SeedShape, Guarding
  <2>2. \A p \in Port : ~ToSeed(p)
    BY <2>1 DEF ToSeed
  <2> QED
    BY <2>1, <2>2 DEF Enforced, Blocked, Held, Pending
<1>21. CASE RegisterNotifier
  <2>1. seed'.todo = Port /\ phase' = "seeding"
    BY <1>21 DEF RegisterNotifier, SeedIdle
  <2> QED
    BY <2>1 DEF Enforced, ToSeed
<1>22. CASE \/ \E ps \in ParamList, b \in BOOLEAN : Load(ps, b)
            \/ StartExit \/ UnwindInit \/ ForgetQueue \/ FinishExit
  <2>1. ~Guarding'
    BY <1>22 DEF Load, StartExit, UnwindInit, ForgetQueue, FinishExit, Guarding
  <2> QED
    BY <2>1 DEF Enforced
<1>23. CASE DrainQueue \/ FreeQueue \/ UNCHANGED vars
  BY <1>2, <1>23 DEF DrainQueue, FreeQueue, vars
<1>24. ~\E p \in Port : Reauthorize(p)
  BY <1>0 DEF Reauthorize
<1>25. ~\E on \in BOOLEAN : WriteParam(on)
  BY <1>0 DEF WriteParam
<1> QED
  BY <1>4, <1>5, <1>6, <1>8, <1>9, <1>10, <1>11, <1>12, <1>14, <1>15, <1>16, <1>17, <1>18,
     <1>19, <1>20, <1>21, <1>22, <1>23, <1>24, <1>25 DEF Next, Notifier, SeedStep, ExitStep

(* Enforcement: no storage device that the policy blocks is left alone,    *)
(* however plugging, seeding, commands and works interleave.  The code     *)
(* cannot promise it when memory or the write to `authorized` fails, when  *)
(* root writes the parameter or `authorized` behind its back, or when the  *)
(* seeding stores a device that is gone; those are the hypotheses.         *)
THEOREM BlockingReachesAll ==
  ASSUME {"alloc", "io", "reauth", "param", "seedunplug"} \cap Env = {}
  PROVE  Spec => []NoUntrustedLeftAlone
<1> DEFINE Inv == TypeInv /\ Current /\ Tracked /\ QueueUp /\ Enforced
<1>1. Init => Inv
  <2>1. Init => Tracked /\ QueueUp /\ Enforced
    BY DEF Init, Tracked, QueueUp, Enforced, Guarding
  <2> QED
    BY <2>1, InitCurrent
<1>2. Inv => NoUntrustedLeftAlone
  BY DEF Enforced, NoUntrustedLeftAlone, Guarding, Blocked, Held, ToSeed
<1>3. Inv /\ [Next]_vars => Inv'
  <2>1. {"alloc", "reauth", "seedunplug"} \cap Env = {} /\ "seedunplug" \notin Env
    OBVIOUS
  <2> QED
    BY <2>1, NextKeepsType, NextKeepsCurrent, NextKeepsTracked, NextKeepsQueueUp,
       NextKeepsEnforced
<1> QED
  BY <1>1, <1>2, <1>3, PTL DEF Spec

-----------------------------------------------------------------------------
(* Whoever schedules a work does so between insmod and rmmod, unless a     *)
(* command comes late.                                                     *)

LEMMA NextKeepsQueueNotMisused ==
  ASSUME "late" \notin Env, TypeInv, QueueUp, QueueNotMisused, [Next]_vars
  PROVE  QueueNotMisused'
<1>1. ASSUME wq = "up", NEW pol, NEW S, ScheduleBlock(pol, S)
      PROVE  QueueNotMisused'
  BY <1>1 DEF ScheduleBlock, QueueNotMisused
<1>2. ASSUME Command, NEW pol, NEW S, ScheduleBlock(pol, S)
      PROVE  QueueNotMisused'
  BY <1>1, <1>2 DEF Command, QueueUp
<1>3. ASSUME Command, NEW rules, Recalculate(rules)
      PROVE  QueueNotMisused'
  BY <1>2, <1>3 DEF Recalculate
<1>4. ASSUME NEW r \in Rule, AddRule(r) \/ RemoveRule(r)
      PROVE  QueueNotMisused'
  BY <1>3, <1>4 DEF AddRule, RemoveRule
<1>5. CASE ClearRules
  BY <1>3, <1>5 DEF ClearRules
<1>6. ASSUME NEW on \in BOOLEAN, SetBlock(on)
      PROVE  QueueNotMisused'
  BY <1>2, <1>6 DEF SetBlock
<1>7. ASSUME NEW p \in Port, TrackSchedule(p)
      PROVE  QueueNotMisused'
  <2>1. Calling(p)
    BY <1>7 DEF TrackSchedule, Calling
  <2>2. wq = "up"
    BY <2>1 DEF TypeInv, BusShape, Registered, QueueUp
  <2> QED
    BY <1>1, <1>7, <2>2 DEF TrackSchedule
<1>8. CASE SeedSchedule
  BY <1>1, <1>8 DEF SeedSchedule, QueueUp
<1>9. CASE UNCHANGED wq
  BY <1>9 DEF QueueNotMisused
<1>10. ASSUME NEW p \in Port,
             \/ Unplug(p) \/ Reauthorize(p) \/ TrackFill(p) \/ TrackUpsert(p)
             \/ RemoveDevice(p) \/ SeedVisit(p) \/ \E d \in Ident : Plug(p, d)
      PROVE  QueueNotMisused'
  BY <1>9, <1>10 DEF Unplug, Reauthorize, TrackFill, TrackUpsert, RemoveDevice, SeedVisit, Plug
<1>11. ASSUME NEW j \in Job, CheckWork(j) \/ WriteWork(j)
      PROVE  QueueNotMisused'
  BY <1>9, <1>11 DEF CheckWork, WriteWork
<1>12. CASE \/ \E ps \in ParamList, b \in BOOLEAN : Load(ps, b)
            \/ RegisterNotifier \/ StartExit \/ UnwindInit \/ ExitStep
  BY <1>12 DEF Load, RegisterNotifier, StartExit, UnwindInit, ExitStep, DrainQueue, FreeQueue,
               ForgetQueue, FinishExit, QueueNotMisused
<1>13. CASE SeedUpsert \/ SeedDone
  BY <1>9, <1>13 DEF SeedUpsert, SeedDone
<1>14. CASE \E on \in BOOLEAN : WriteParam(on)
  BY <1>9, <1>14 DEF WriteParam
<1>15. CASE UNCHANGED vars
  BY <1>9, <1>15 DEF vars
<1> QED
  BY <1>4, <1>5, <1>6, <1>7, <1>8, <1>10, <1>11, <1>12, <1>13, <1>14, <1>15
     DEF Next, Notifier, SeedStep

(* No work is put on a destroyed workqueue by the notifier, the seeding or *)
(* any command, as long as none is written while rmmod runs: the commands  *)
(* that usb_guard_exit still lets through are the only ones to do so.      *)
THEOREM QueueUsedInTime ==
  ASSUME "late" \notin Env
  PROVE  Spec => []QueueNotMisused
<1> DEFINE Inv == TypeInv /\ QueueUp /\ QueueNotMisused
<1>1. Init => Inv
  BY InitCurrent DEF Init, QueueUp, QueueNotMisused
<1>2. Inv /\ [Next]_vars => Inv'
  BY NextKeepsType, NextKeepsQueueUp, NextKeepsQueueNotMisused
<1> QED
  BY <1>1, <1>2, PTL DEF Spec

=============================================================================
