------------------------- MODULE UsbGuardViewProofs -------------------------
(* Theorems about UsbGuardView, for every set of ports, sticks and disks.  *)
EXTENDS UsbGuardView, FiniteSetTheorems, SequenceTheorems, TLAPS

USE ViewAssumption

-----------------------------------------------------------------------------
(* The kernel's list.                                                      *)

LEMMA AppendFacts ==
  ASSUME NEW S, NEW s \in Seq(S), NEW e \in S, IsInjective(s), e \notin ToSet(s)
  PROVE  /\ Append(s, e) \in Seq(S) /\ IsInjective(Append(s, e))
         /\ ToSet(Append(s, e)) = ToSet(s) \union {e}
<1>1. /\ \A i \in DOMAIN s : s[i] # e
      /\ \A i, k \in DOMAIN s : s[i] = s[k] => i = k
  BY DEF ToSet, IsInjective
<1>2. PICK t \in Seq(S) : t = Append(s, e)
  BY AppendProperties
<1>3. /\ DOMAIN s = 1 .. Len(s) /\ Len(s) \in Nat
      /\ DOMAIN t = 1 .. Len(s) + 1
      /\ t[Len(s) + 1] = e
      /\ \A i \in 1 .. Len(s) : t[i] = s[i]
  BY <1>2, AppendProperties
<1>4. \A i, k \in DOMAIN t : t[i] = t[k] => i = k
  BY <1>1, <1>3
<1>5. DOMAIN t = DOMAIN s \union {Len(s) + 1}
  BY <1>3
<1>6. ToSet(t) = ToSet(s) \union {e}
  BY <1>3, <1>5 DEF ToSet
<1> QED
  BY <1>2, <1>4, <1>6 DEF IsInjective

LEMMA RemoveAtFacts ==
  ASSUME NEW S, NEW s \in Seq(S), IsInjective(s), NEW i \in DOMAIN s
  PROVE  /\ RemoveAt(s, i) \in Seq(S) /\ IsInjective(RemoveAt(s, i))
         /\ ToSet(RemoveAt(s, i)) = ToSet(s) \ {s[i]}
<1> DEFINE a == SubSeq(s, 1, i - 1)  b == SubSeq(s, i + 1, Len(s))  t == RemoveAt(s, i)
<1>1. DOMAIN s = 1 .. Len(s) /\ Len(s) \in Nat /\ i \in 1 .. Len(s)
  OBVIOUS
<1>2. /\ a \in Seq(S) /\ Len(a) = i - 1 /\ \A k \in 1 .. i - 1 : a[k] = s[k]
      /\ b \in Seq(S) /\ Len(b) = Len(s) - i /\ \A k \in 1 .. Len(s) - i : b[k] = s[k + i]
  BY <1>1
<1>3. t = a \o b
  BY DEF RemoveAt
<1> HIDE DEF a, b, t
<1>4. /\ t \in Seq(S) /\ Len(t) = Len(a) + Len(b)
      /\ \A k \in 1 .. Len(a) : t[k] = a[k]
      /\ \A k \in Len(a) + 1 .. Len(a) + Len(b) : t[k] = b[k - Len(a)]
  <2>1. a \in Seq(S) /\ b \in Seq(S)
    BY <1>2
  <2> QED
    BY <1>3, <2>1, ConcatProperties
<1> DEFINE from(k) == IF k < i THEN k ELSE k + 1
<1>5. DOMAIN t = 1 .. Len(s) - 1
  BY <1>1, <1>2, <1>4
<1>6. ASSUME NEW k \in 1 .. Len(s) - 1
      PROVE  from(k) \in 1 .. Len(s) /\ from(k) # i /\ t[k] = s[from(k)]
  <2>1. k \in Int /\ i \in Int /\ Len(s) \in Int /\ 1 <= k /\ k <= Len(s) - 1
    BY <1>1
  <2>2. CASE k < i
    <3>1. k \in 1 .. i - 1 /\ k \in 1 .. Len(a)
      BY <1>2, <2>1, <2>2
    <3> QED
      BY <1>1, <1>2, <1>4, <2>2, <3>1
  <2>3. CASE ~(k < i)
    <3>1. /\ k \in Len(a) + 1 .. Len(a) + Len(b) /\ k - Len(a) \in 1 .. Len(s) - i
          /\ k - Len(a) + i = k + 1
      BY <1>1, <1>2, <2>1, <2>3
    <3>2. t[k] = b[k - Len(a)] /\ b[k - Len(a)] = s[k - Len(a) + i]
      BY <1>2, <1>4, <3>1
    <3>3. from(k) = k + 1
      BY <2>3
    <3>4. t[k] = s[k + 1]
      BY <3>1, <3>2
    <3>5. k + 1 \in 1 .. Len(s) /\ k + 1 # i
      BY <2>1, <2>3
    <3> QED
      BY <3>3, <3>4, <3>5
  <2> QED
    BY <2>2, <2>3
<1>7. ASSUME NEW j \in 1 .. Len(s), j # i
      PROVE  \E k \in 1 .. Len(s) - 1 : from(k) = j
  <2>1. CASE j < i
    <3>1. j \in 1 .. Len(s) - 1 /\ from(j) = j
      BY <1>1, <2>1
    <3> QED
      BY <3>1
  <2>2. CASE ~(j < i)
    <3>1. j - 1 \in 1 .. Len(s) - 1 /\ from(j - 1) = j
      BY <1>1, <1>7, <2>2
    <3> QED
      BY <3>1
  <2> QED
    BY <2>1, <2>2
<1>8. \A j, k \in 1 .. Len(s) : s[j] = s[k] => j = k
  BY <1>1 DEF IsInjective
<1>9. ASSUME NEW j \in 1 .. Len(s) - 1, NEW k \in 1 .. Len(s) - 1, t[j] = t[k]
      PROVE  j = k
  <2>1. from(j) = from(k)
    <3> HIDE DEF from
    <3> QED
      BY <1>6, <1>8, <1>9
  <2> QED
    BY <1>1, <2>1
<1> HIDE DEF from
<1>10. ToSet(t) = ToSet(s) \ {s[i]}
  <2>1. \A k \in DOMAIN t : t[k] \in ToSet(s) /\ t[k] # s[i]
    BY <1>1, <1>5, <1>6, <1>8 DEF ToSet
  <2>2. \A j \in DOMAIN s : s[j] # s[i] => \E k \in DOMAIN t : t[k] = s[j]
    BY <1>1, <1>5, <1>6, <1>7
  <2> QED
    BY <2>1, <2>2 DEF ToSet
<1> QED
  BY <1>4, <1>5, <1>9, <1>10 DEF t, IsInjective

(* A list of all the elements of a set, each once.                         *)
LEMMA ListingFacts ==
  ASSUME NEW S, IsFiniteSet(S), NEW s \in SetToSeqs(S)
  PROVE  s \in Seq(S) /\ IsInjective(s) /\ ToSet(s) = S
<1> DEFINE D == 1 .. Cardinality(S)
<1>1. Cardinality(S) \in Nat
  BY FS_CardinalityType
<1>2. s \in [D -> S] /\ \A i, j \in D : i # j => s[i] # s[j]
  BY DEF SetToSeqs
<1>3. s \in Seq(S) /\ IsInjective(s)
  BY <1>1, <1>2 DEF IsInjective
<1>4. s \in Injection(D, S)
  BY <1>2 DEF Injection, IsInjective
<1>5. IsFiniteSet(D) /\ Cardinality(D) = Cardinality(S)
  BY <1>1, FS_Interval
<1>6. s \in Surjection(D, S)
  BY <1>4, <1>5, FS_Injection
<1>7. ToSet(s) = S
  BY <1>2, <1>6 DEF Surjection, ToSet
<1> QED
  BY <1>3, <1>7

-----------------------------------------------------------------------------
(* The invariant: what the world, the window and the thread are like.      *)

Saved == [Key -> Mode \union {None}]

(* No two disks share a name.                                              *)
DisksDiffer ==
  \A p, q \in Plugged : p # q /\ port[p].disk # None => port[p].disk # port[q].disk

ListRight == list # None => list \in Seq(Port) /\ IsInjective(list) /\ ToSet(list) = Plugged

WorldInv == port \in [Port -> Device \union {None}] /\ DisksDiffer /\ ListRight

ViewState == [status : Seq(ActiveDevice), filled : BOOLEAN, sel : Nat, buttons : BOOLEAN,
              first : BOOLEAN, prev : SUBSET (Port \X Key)]

(* The row, the buttons and the log agree with the status that is shown.   *)
ViewInv ==
  /\ view \in ViewState
  /\ view.sel \in 0 .. Rows(view)
  /\ ButtonsRight
  /\ ~view.first => said = Keys(view.status) /\ view.prev = Keys(view.status)

WorkState == [pc : {"off", "idle", "list", "read", "enrich", "apply", "act"},
              status : Seq(ActiveDevice), i : Nat, todo : SUBSET Nat, again : BOOLEAN]

(* The disks whose access mode is to be set are ones of the status in use, *)
(* and for each a mode was chosen.                                         *)
WorkInv ==
  /\ work \in WorkState
  /\ work.pc \in {"apply", "act"} =>
       \A i \in work.todo : i \in DOMAIN work.status /\ Desired(work.status[i]) \in Mode
  /\ saved \in Saved

WindowInv == WorldInv /\ ViewInv /\ WorkInv

(* The parts that a step leaves alone.                                     *)
LEMMA WorldKept ==
  ASSUME WorldInv, UNCHANGED <<port, list>>
  PROVE  WorldInv'
  BY DEF WorldInv, DisksDiffer, ListRight, Plugged

LEMMA ViewKept ==
  ASSUME ViewInv, UNCHANGED <<view, said>>
  PROVE  ViewInv'
  BY DEF ViewInv, ButtonsRight, Usable, Selected, Rows, Keys, RowKey

LEMMA WorkKept ==
  ASSUME WorkInv, UNCHANGED <<work, saved>>
  PROVE  WorkInv'
  BY DEF WorkInv, Desired

LEMMA WorkRests ==
  ASSUME saved' \in Saved, work' \in WorkState, work'.pc \notin {"apply", "act"}
  PROVE  WorkInv'
  BY DEF WorkInv

-----------------------------------------------------------------------------
(* Sticks come and go.                                                     *)

LEMMA PluggedIsFinite == IsFiniteSet(Plugged)
<1>1. Plugged \subseteq Port
  BY DEF Plugged
<1> QED
  BY <1>1, FS_Subset

(* A port's stick changes, and keeps its disk or loses it.                 *)
LEMMA PortStep ==
  ASSUME WorldInv, NEW p \in Port, NEW d \in Device \union {None},
         port' = [port EXCEPT ![p] = d],
         d # None => \/ d.disk = None
                     \/ \A q \in Plugged \ {p} : port[q].disk # d.disk
  PROVE  /\ port' \in [Port -> Device \union {None}] /\ DisksDiffer'
         /\ Plugged' = IF d = None THEN Plugged \ {p} ELSE Plugged \union {p}
<1>1. /\ port' \in [Port -> Device \union {None}] /\ port'[p] = d
      /\ \A q \in Port : q # p => port'[q] = port[q]
  BY DEF WorldInv
<1>2. Plugged' = {q \in Port : port'[q] # None}
  BY DEF Plugged
<1>3. Plugged' = IF d = None THEN Plugged \ {p} ELSE Plugged \union {p}
  BY <1>1, <1>2 DEF Plugged
<1>4. DisksDiffer'
  <2> SUFFICES ASSUME NEW q \in Plugged', NEW r \in Plugged', q # r, port'[q].disk # None
               PROVE  port'[q].disk # port'[r].disk
    BY DEF DisksDiffer
  <2>1. CASE q # p /\ r # p
    <3>1. q \in Plugged /\ r \in Plugged /\ port'[q] = port[q] /\ port'[r] = port[r]
      BY <1>1, <1>2, <2>1 DEF Plugged
    <3> QED
      BY <3>1 DEF WorldInv, DisksDiffer
  <2>2. CASE q = p
    <3>1. r \in Plugged \ {p} /\ port'[r] = port[r] /\ port'[q] = d /\ d # None
      BY <1>1, <1>2, <2>2 DEF Plugged
    <3> QED
      BY <3>1
  <2>3. CASE r = p
    <3>1. q \in Plugged \ {p} /\ port'[q] = port[q] /\ port'[r] = d /\ d # None
      BY <1>1, <1>2, <2>3 DEF Plugged
    <3> QED
      BY <3>1
  <2> QED
    BY <2>1, <2>2, <2>3
<1> QED
  BY <1>1, <1>3, <1>4

LEMMA WorldKeepsWorld ==
  ASSUME WorldInv, World
  PROVE  WorldInv'
<1>1. /\ port \in [Port -> Device \union {None}] /\ DisksDiffer /\ ListRight
      /\ \A p \in Plugged : p \in Port /\ port[p] \in Device
  BY DEF WorldInv, Plugged
<1>2. CASE Rmmod
  <2>1. UNCHANGED port /\ list' = None
    BY <1>2 DEF Rmmod
  <2> QED
    BY <1>1, <2>1 DEF WorldInv, DisksDiffer, ListRight, Plugged
<1>3. CASE Insmod
  <2>1. UNCHANGED port /\ list' \in SetToSeqs(Plugged)
    BY <1>3 DEF Insmod
  <2>2. list' \in Seq(Plugged) /\ IsInjective(list') /\ ToSet(list') = Plugged
    BY <2>1, PluggedIsFinite, ListingFacts
  <2>3. list' \in Seq(Port) /\ Plugged' = Plugged
    BY <1>1, <2>1, <2>2 DEF Plugged
  <2> QED
    BY <1>1, <2>1, <2>2, <2>3 DEF WorldInv, DisksDiffer, ListRight
<1>4. ASSUME NEW p \in Port, NEW s \in Stick, Plug(p, s)
      PROVE  WorldInv'
  <2> DEFINE d == [stick |-> s, authorized |-> TRUE, disk |-> None, mode |-> "rw"]
  <2>1. /\ port' = [port EXCEPT ![p] = d] /\ p \notin Plugged
        /\ list' = IF list = None THEN None ELSE Append(list, p)
    BY <1>4 DEF Plug, Plugged
  <2>2. d \in Device /\ d.disk = None
    BY DEF Device, Mode
  <2> HIDE DEF d
  <2>3. /\ port' \in [Port -> Device \union {None}] /\ DisksDiffer'
        /\ Plugged' = Plugged \union {p}
    BY <2>1, <2>2, PortStep
  <2>4. ListRight'
    BY <1>1, <2>1, <2>3, AppendFacts DEF ListRight
  <2> QED
    BY <2>3, <2>4 DEF WorldInv
<1>5. ASSUME NEW p \in Port, Unplug(p)
      PROVE  WorldInv'
  <2>1. port' = [port EXCEPT ![p] = None]
    BY <1>5 DEF Unplug
  <2>2. /\ port' \in [Port -> Device \union {None}] /\ DisksDiffer'
        /\ Plugged' = Plugged \ {p}
    BY <2>1, PortStep
  <2>3. ListRight'
    <3>1. CASE list = None /\ UNCHANGED list
      BY <3>1 DEF ListRight
    <3>2. ASSUME list # None, NEW i \in DOMAIN list, list[i] = p, list' = RemoveAt(list, i)
          PROVE  ListRight'
      BY <1>1, <2>2, <3>2, RemoveAtFacts DEF ListRight
    <3> QED
      BY <1>5, <3>1, <3>2 DEF Unplug
  <2> QED
    BY <2>2, <2>3 DEF WorldInv
<1>6. ASSUME NEW p \in Port, DiskUp(p)
      PROVE  WorldInv'
  <2>1. PICK n \in FreeDisks : port' = [port EXCEPT ![p].disk = n, ![p].mode = "rw"]
    BY <1>6 DEF DiskUp
  <2> DEFINE d == [port[p] EXCEPT !.disk = n, !.mode = "rw"]
  <2>2. port[p] \in Device /\ n \in Disk /\ \A q \in Plugged : port[q].disk # n
    BY <1>1, <1>6, <2>1 DEF DiskUp, FreeDisks
  <2>3. d \in Device /\ d.disk = n /\ port' = [port EXCEPT ![p] = d]
    BY <1>1, <2>1, <2>2 DEF Device, Mode
  <2> HIDE DEF d
  <2>4. /\ port' \in [Port -> Device \union {None}] /\ DisksDiffer'
        /\ Plugged' = Plugged \union {p}
    BY <2>2, <2>3, PortStep
  <2>5. Plugged' = Plugged /\ UNCHANGED list
    BY <1>6, <2>4 DEF DiskUp
  <2> QED
    BY <1>1, <2>4, <2>5 DEF WorldInv, ListRight
<1>7. ASSUME NEW p \in Port, Block(p)
      PROVE  WorldInv'
  <2> DEFINE d == [port[p] EXCEPT !.authorized = FALSE, !.disk = None, !.mode = "rw"]
  <2>1. p \in Plugged /\ port[p] \in Device
    BY <1>1, <1>7 DEF Block
  <2>2. d \in Device /\ d.disk = None /\ port' = [port EXCEPT ![p] = d]
    BY <1>1, <1>7, <2>1 DEF Block, Device, Mode
  <2> HIDE DEF d
  <2>3. /\ port' \in [Port -> Device \union {None}] /\ DisksDiffer'
        /\ Plugged' = Plugged \union {p}
    BY <2>2, PortStep
  <2>4. Plugged' = Plugged /\ UNCHANGED list
    BY <1>7, <2>1, <2>3 DEF Block
  <2> QED
    BY <1>1, <2>3, <2>4 DEF WorldInv, ListRight
<1> QED
  BY <1>2, <1>3, <1>4, <1>5, <1>6, <1>7 DEF World

(* Setting an access mode changes no stick and no disk.                    *)
LEMMA SetDiskFacts ==
  ASSUME WorldInv, NEW disk, NEW mode \in Mode, NEW obeyed \in BOOLEAN,
         SetDisk(disk, mode, obeyed), UNCHANGED list
  PROVE  /\ WorldInv' /\ Plugged' = Plugged
         /\ \A p \in Plugged : port[p].disk # disk \/ ~obeyed => port'[p] = port[p]
         /\ \A p \in Plugged : port[p].disk = disk /\ obeyed => port'[p].mode = mode
<1>1. /\ port \in [Port -> Device \union {None}] /\ DisksDiffer /\ ListRight
      /\ port' = [p \in Port |-> IF port[p] # None /\ port[p].disk = disk /\ obeyed
                                 THEN [port[p] EXCEPT !.mode = mode] ELSE port[p]]
  BY DEF WorldInv, SetDisk
<1>2. ASSUME NEW p \in Port
      PROVE  /\ port'[p] \in Device \union {None}
             /\ port'[p] = None <=> port[p] = None
             /\ port[p] # None => port'[p].disk = port[p].disk
             /\ port[p] # None /\ (port[p].disk # disk \/ ~obeyed) => port'[p] = port[p]
             /\ port[p] # None /\ port[p].disk = disk /\ obeyed => port'[p].mode = mode
  <2>1. port[p] \in Device \union {None}
    BY <1>1
  <2>2. CASE port[p] # None /\ port[p].disk = disk /\ obeyed
    <3>1. port[p] \in Device /\ port'[p] = [port[p] EXCEPT !.mode = mode]
      BY <1>1, <2>1, <2>2
    <3>2. /\ [port[p] EXCEPT !.mode = mode] \in Device
          /\ [port[p] EXCEPT !.mode = mode].disk = port[p].disk
          /\ [port[p] EXCEPT !.mode = mode].mode = mode
      BY <3>1 DEF Device
    <3> QED
      BY <2>2, <3>1, <3>2
  <2>3. CASE ~(port[p] # None /\ port[p].disk = disk /\ obeyed)
    BY <1>1, <2>1, <2>3
  <2> QED
    BY <2>2, <2>3
<1>3. port' \in [Port -> Device \union {None}]
  BY <1>1, <1>2
<1>4. Plugged' = Plugged
  BY <1>2 DEF Plugged
<1>5. DisksDiffer'
  BY <1>1, <1>2, <1>4 DEF DisksDiffer, Plugged
<1> QED
  BY <1>1, <1>2, <1>3, <1>4, <1>5 DEF WorldInv, ListRight, Plugged

-----------------------------------------------------------------------------
(* The window.                                                             *)

(* An access mode does not matter to what is displayed.                    *)
LEMMA DisplayedFacts ==
  ASSUME NEW status \in Seq(ActiveDevice)
  PROVE  /\ Displayed(status) \in Seq(ActiveDevice) /\ Len(Displayed(status)) = Len(status)
         /\ \A k \in DOMAIN status : /\ RowKey(Displayed(status)[k]) = RowKey(status[k])
                                     /\ Usable(Displayed(status)[k]) <=> Usable(status[k])
         /\ Keys(Displayed(status)) = Keys(status)
<1> DEFINE shown == Displayed(status)
<1>1. ASSUME NEW k \in DOMAIN status
      PROVE  /\ shown[k] \in ActiveDevice
             /\ RowKey(shown[k]) = RowKey(status[k])
             /\ Usable(shown[k]) <=> Usable(status[k])
  <2>1. status[k] \in ActiveDevice /\ shown[k] = [status[k] EXCEPT !.mode = "rw"]
    BY DEF Displayed
  <2>2. /\ [status[k] EXCEPT !.mode = "rw"] \in ActiveDevice
        /\ [status[k] EXCEPT !.mode = "rw"].port = status[k].port
        /\ [status[k] EXCEPT !.mode = "rw"].key = status[k].key
        /\ [status[k] EXCEPT !.mode = "rw"].authorized = status[k].authorized
        /\ [status[k] EXCEPT !.mode = "rw"].disk = status[k].disk
    BY <2>1 DEF ActiveDevice, Mode
  <2> HIDE DEF shown
  <2>3. /\ shown[k] \in ActiveDevice /\ shown[k] # None /\ status[k] # None
        /\ shown[k].port = status[k].port /\ shown[k].key = status[k].key
        /\ shown[k].authorized = status[k].authorized /\ shown[k].disk = status[k].disk
    BY <2>1, <2>2
  <2> QED
    BY <2>3 DEF RowKey, Usable
<1>2. DOMAIN shown = DOMAIN status /\ DOMAIN status = 1 .. Len(status) /\ Len(status) \in Nat
  BY DEF Displayed
<1>3. shown \in [1 .. Len(status) -> ActiveDevice]
  BY <1>1, <1>2 DEF Displayed
<1> HIDE DEF shown
<1>4. shown \in Seq(ActiveDevice) /\ Len(shown) = Len(status)
  BY <1>2, <1>3
<1>5. Keys(shown) = Keys(status)
  BY <1>1, <1>2 DEF Keys, ToSet
<1> QED
  BY <1>1, <1>4, <1>5 DEF shown

(* The row that is selected after a refresh: one of the same device, if    *)
(* there is one, and else the first.                                       *)
LEMMA RestoredRowFacts ==
  ASSUME NEW status \in Seq(ActiveDevice)
  PROVE  /\ RestoredRow(status) \in 0 .. Len(status)
         /\ RestoredRow(status) # 0 => RestoredRow(status) \in DOMAIN status
         /\ SelectedKey(view) \in Keys(status) =>
              RestoredRow(status) # 0 /\ RowKey(status[RestoredRow(status)]) = SelectedKey(view)
<1> DEFINE same == {i \in DOMAIN status : RowKey(status[i]) = SelectedKey(view)}
<1>1. DOMAIN status = 1 .. Len(status) /\ Len(status) \in Nat /\ (status # <<>> => Len(status) > 0)
  BY EmptySeq
<1>2. SelectedKey(view) \in Keys(status) => same # {} /\ status # <<>>
  BY <1>1 DEF Keys, ToSet
<1>3. CASE status = <<>>
  BY <1>1, <1>2, <1>3 DEF RestoredRow
<1>4. CASE status # <<>> /\ same # {}
  <2>1. RestoredRow(status) \in same
    BY <1>4 DEF RestoredRow
  <2> QED
    BY <1>1, <2>1
<1>5. CASE status # <<>> /\ same = {}
  <2>1. RestoredRow(status) = 1
    BY <1>5 DEF RestoredRow
  <2> QED
    BY <1>1, <1>2, <1>5, <2>1
<1> QED
  BY <1>3, <1>4, <1>5

LEMMA KeysType ==
  ASSUME NEW status \in Seq(ActiveDevice)
  PROVE  Keys(status) \in SUBSET (Port \X Key)
<1>1. \A e \in ActiveDevice : RowKey(e) \in Port \X Key
  BY DEF ActiveDevice, RowKey
<1>2. \A e \in ToSet(status) : e \in ActiveDevice
  BY DEF ToSet
<1> QED
  BY <1>1, <1>2 DEF Keys

(* A refresh that gets through.                                            *)
LEMMA ShowFacts ==
  ASSUME ViewInv, NEW status \in Seq(ActiveDevice), Show(status)
  PROVE  /\ ViewInv' /\ work' = Idle
         /\ SelectedKey(view) \in Keys(view'.status) => SelectedKey(view') = SelectedKey(view)
<1> DEFINE sel == RestoredRow(status)
           shown == Displayed(status)
           buttons == sel # 0 /\ Usable(status[sel])
<1>1. /\ view' = [status |-> shown, filled |-> TRUE, sel |-> sel, buttons |-> buttons,
                  first |-> FALSE, prev |-> Keys(status)]
      /\ LogChanges(status) /\ work' = Idle
  BY DEF Show, Labels
<1>2. /\ shown \in Seq(ActiveDevice) /\ Len(shown) = Len(status)
      /\ \A k \in DOMAIN status : /\ RowKey(shown[k]) = RowKey(status[k])
                                  /\ Usable(shown[k]) <=> Usable(status[k])
      /\ Keys(shown) = Keys(status)
  BY DisplayedFacts
<1>3. /\ sel \in 0 .. Len(status) /\ (sel # 0 => sel \in DOMAIN status)
      /\ SelectedKey(view) \in Keys(status) =>
           sel # 0 /\ RowKey(status[sel]) = SelectedKey(view)
  BY RestoredRowFacts
<1>4. buttons \in BOOLEAN
  BY DEF Usable
<1>5. Keys(status) \in SUBSET (Port \X Key)
  BY KeysType
<1>6. buttons <=> Usable(IF sel = 0 THEN None ELSE shown[sel])
  BY <1>2, <1>3 DEF Usable
<1>7. said' = Keys(status)
  <2>1. CASE view.first
    BY <1>1, <2>1 DEF LogChanges
  <2>2. CASE ~view.first
    <3>1. said = view.prev
      BY <2>2 DEF ViewInv
    <3>2. said' = (said \union (Keys(status) \ view.prev)) \ (view.prev \ Keys(status))
      BY <1>1, <2>2 DEF LogChanges
    <3> QED
      BY <3>1, <3>2
  <2> QED
    BY <2>1, <2>2
<1>8. SelectedKey(view) \in Keys(status) =>
        (IF sel = 0 THEN None ELSE RowKey(shown[sel])) = SelectedKey(view)
  BY <1>2, <1>3
<1>9. sel \in Nat /\ Len(shown) \in Nat
  BY <1>2, <1>3
<1> HIDE DEF sel, shown, buttons
<1>10. /\ view' \in ViewState /\ view'.status = shown /\ view'.filled /\ view'.sel = sel
       /\ view'.buttons = buttons /\ ~view'.first /\ view'.prev = Keys(status)
  BY <1>1, <1>2, <1>4, <1>5, <1>9 DEF ViewState
<1>11. view'.sel \in 0 .. Rows(view')
  BY <1>2, <1>3, <1>10 DEF Rows
<1>12. ButtonsRight'
  BY <1>6, <1>10 DEF ButtonsRight, Selected
<1>13. said' = Keys(view'.status) /\ view'.prev = Keys(view'.status)
  BY <1>2, <1>7, <1>10
<1>14. ViewInv'
  BY <1>10, <1>11, <1>12, <1>13 DEF ViewInv, Rows, Keys, RowKey
<1>15. SelectedKey(view') = IF sel = 0 THEN None ELSE RowKey(shown[sel])
  BY <1>10 DEF SelectedKey
<1> QED
  BY <1>1, <1>2, <1>8, <1>10, <1>14, <1>15

(* A refresh that fails.                                                   *)
LEMMA NoRowsFacts ==
  ASSUME ViewInv, view' = NoRows(view), UNCHANGED said
  PROVE  ViewInv' /\ ~view'.filled
<1> DEFINE v == [view EXCEPT !.filled = FALSE, !.sel = 0]
<1>1. /\ v \in ViewState /\ v.sel = 0 /\ ~v.filled
      /\ v.status = view.status /\ v.first = view.first /\ v.prev = view.prev
  BY DEF ViewInv, ViewState
<1>2. view' = [v EXCEPT !.buttons = Usable(Selected(v))]
  BY DEF NoRows, WithButtons
<1>3. Usable(Selected(v)) = FALSE
  BY <1>1 DEF Usable, Selected
<1> HIDE DEF v
<1>4. /\ view' \in ViewState /\ view'.sel = 0 /\ ~view'.filled /\ ~view'.buttons
      /\ view'.status = view.status /\ view'.first = view.first /\ view'.prev = view.prev
  BY <1>1, <1>2, <1>3 DEF ViewState
<1>5. ButtonsRight'
  BY <1>4 DEF ButtonsRight, Usable, Selected
<1>6. view'.sel \in 0 .. Rows(view')
  BY <1>4 DEF Rows
<1> QED
  BY <1>4, <1>5, <1>6 DEF ViewInv, Rows, Keys, RowKey

(* A click on a row, or on the selected one to unselect it.                *)
LEMMA SelectKeepsView ==
  ASSUME ViewInv, NEW i \in 0 .. Rows(view), Select(i)
  PROVE  ViewInv'
<1> DEFINE v == [view EXCEPT !.sel = i]
           buttons == Usable(Selected(v))
<1>1. view.status \in Seq(ActiveDevice) /\ Rows(view) \in Nat
  BY DEF ViewInv, ViewState, Rows
<1>2. /\ v \in ViewState /\ v.sel = i /\ v.filled = view.filled
      /\ v.status = view.status /\ v.first = view.first /\ v.prev = view.prev
  BY <1>1 DEF ViewInv, ViewState
<1>3. buttons \in BOOLEAN
  BY DEF Usable
<1>4. view' = [v EXCEPT !.buttons = buttons] /\ UNCHANGED said
  BY DEF Select, WithButtons
<1>5. buttons <=> Usable(IF i = 0 THEN None ELSE view.status[i])
  BY <1>2 DEF Selected
<1> HIDE DEF v, buttons
<1>6. /\ view' \in ViewState /\ view'.sel = i /\ view'.filled = view.filled
      /\ view'.buttons = buttons
      /\ view'.status = view.status /\ view'.first = view.first /\ view'.prev = view.prev
  BY <1>2, <1>3, <1>4 DEF ViewState
<1>7. ButtonsRight'
  BY <1>5, <1>6 DEF ButtonsRight, Selected
<1>8. view'.sel \in 0 .. Rows(view')
  BY <1>6 DEF Rows
<1> QED
  BY <1>4, <1>6, <1>7, <1>8 DEF ViewInv, Rows, Keys, RowKey

-----------------------------------------------------------------------------
(* The thread.                                                             *)

(* No refresh moves the selection off a device that is still listed.       *)
SelectionStep ==
  view'.filled /\ SelectedKey(view) \in Keys(view'.status) =>
    SelectedKey(view') = SelectedKey(view)

LEMMA SameView ==
  ASSUME UNCHANGED view
  PROVE  SelectionStep
  BY DEF SelectionStep, SelectedKey

LEMMA EnrichedType ==
  ASSUME WorldInv, NEW e \in ActiveDevice
  PROVE  Enriched(e) \in ActiveDevice
<1>1. CASE port[e.port] = None
  BY <1>1 DEF Enriched
<1>2. CASE port[e.port] # None
  <2>1. port[e.port] \in Device
    BY <1>2 DEF WorldInv, ActiveDevice
  <2>2. port[e.port].authorized \in BOOLEAN /\ port[e.port].mode \in Mode
        /\ port[e.port].disk \in Disk \union {None}
    BY <2>1 DEF Device
  <2> DEFINE a == port[e.port].authorized  m == port[e.port].mode  d == port[e.port].disk
  <2>3. Enriched(e) = [e EXCEPT !.authorized = a, !.disk = d, !.mode = m]
    BY <1>2 DEF Enriched
  <2> HIDE DEF a, m, d
  <2>4. a \in BOOLEAN /\ m \in Mode /\ d \in Disk \union {None}
    BY <2>2 DEF a, m, d
  <2> QED
    BY <2>3, <2>4 DEF ActiveDevice
<1> QED
  BY <1>1, <1>2

LEMMA FindListKeepsWindow ==
  ASSUME WindowInv, FindList
  PROVE  WindowInv' /\ SelectionStep
<1>1. WorldInv /\ ViewInv /\ WorkInv
  BY DEF WindowInv
<1>2. WorldInv'
  BY <1>1, WorldKept DEF FindList, FailRefresh, world
<1>3. work \in WorkState /\ saved' \in Saved
  BY <1>1 DEF WorkInv, FindList, FailRefresh
<1>4. CASE list = None
  <2>1. view' = NoRows(view) /\ UNCHANGED said /\ work' = Idle
    BY <1>4 DEF FindList, FailRefresh
  <2>2. ViewInv' /\ ~view'.filled
    BY <1>1, <2>1, NoRowsFacts
  <2>3. work' \in WorkState /\ work'.pc = "idle"
    BY <2>1, EmptySeq DEF Idle, WorkState
  <2>4. WorkInv'
    BY <1>3, <2>3, WorkRests
  <2> QED
    BY <1>2, <2>2, <2>4 DEF WindowInv, SelectionStep
<1>5. CASE list # None
  <2>1. UNCHANGED <<view, said>> /\ work' = [work EXCEPT !.pc = "read"]
    BY <1>5 DEF FindList
  <2>2. work' \in WorkState /\ work'.pc = "read"
    BY <1>3, <2>1 DEF WorkState
  <2>3. WorkInv'
    BY <1>3, <2>2, WorkRests
  <2> QED
    BY <1>1, <1>2, <2>1, <2>3, ViewKept, SameView DEF WindowInv
<1> QED
  BY <1>4, <1>5

LEMMA ReadListKeepsWindow ==
  ASSUME WindowInv, ReadList
  PROVE  WindowInv' /\ SelectionStep
<1>1. WorldInv /\ ViewInv /\ WorkInv
  BY DEF WindowInv
<1>2. WorldInv'
  BY <1>1, WorldKept DEF ReadList, world
<1>3. work \in WorkState /\ saved' \in Saved
  BY <1>1 DEF WorkInv, ReadList
<1> DEFINE s == IF list = None THEN <<>> ELSE [k \in DOMAIN list |-> Entry(list[k])]
<1>4. s \in Seq(ActiveDevice)
  <2>1. CASE list = None
    BY <2>1, EmptySeq
  <2>2. CASE list # None
    <3>1. list \in Seq(Port) /\ ToSet(list) = Plugged
      BY <1>1, <2>2 DEF WorldInv, ListRight
    <3>2. \A p \in Plugged : p \in Port /\ port[p] \in Device
      BY <1>1 DEF WorldInv, Plugged
    <3>3. \A p \in Plugged : Entry(p) \in ActiveDevice
      BY <3>2 DEF Entry, ActiveDevice, Device, Mode
    <3>4. \A k \in DOMAIN list : list[k] \in Plugged
      BY <3>1 DEF ToSet
    <3>5. DOMAIN list = 1 .. Len(list) /\ Len(list) \in Nat
      BY <3>1
    <3>6. [k \in DOMAIN list |-> Entry(list[k])] \in Seq(ActiveDevice)
      BY <3>3, <3>4, <3>5
    <3> QED
      BY <2>2, <3>6
  <2> QED
    BY <2>1, <2>2
<1>5. work' = [work EXCEPT !.pc = "enrich", !.i = 1, !.status = s] /\ UNCHANGED <<view, said>>
  BY DEF ReadList
<1> HIDE DEF s
<1>6. work' \in WorkState /\ work'.pc = "enrich"
  BY <1>3, <1>4, <1>5 DEF WorkState
<1>7. WorkInv'
  BY <1>3, <1>6, WorkRests
<1> QED
  BY <1>1, <1>2, <1>5, <1>7, ViewKept, SameView DEF WindowInv

(* The status is complete: it is shown, or the policies come first.        *)
LEMMA LoadedKeepsWindow ==
  ASSUME WindowInv, NEW status \in Seq(ActiveDevice), Loaded(status), UNCHANGED saved
  PROVE  ViewInv' /\ WorkInv' /\ SelectionStep
<1>1. ViewInv /\ work \in WorkState /\ saved \in Saved /\ saved' \in Saved
  BY DEF WindowInv, WorkInv
<1>2. CASE work.again \/ Due(status) = {}
  <2>1. ViewInv' /\ work' = Idle /\ SelectionStep
    BY <1>1, <1>2, ShowFacts DEF Loaded, SelectionStep
  <2>2. work' \in WorkState /\ work'.pc = "idle"
    BY <2>1, EmptySeq DEF Idle, WorkState
  <2> QED
    BY <1>1, <2>1, <2>2, WorkRests
<1>3. CASE ~(work.again \/ Due(status) = {})
  <2> DEFINE due == Due(status)
  <2>1. work' = [work EXCEPT !.pc = "apply", !.status = status, !.todo = due]
        /\ UNCHANGED <<view, said>>
    BY <1>3 DEF Loaded
  <2>2. /\ due \in SUBSET Nat
        /\ \A i \in due : i \in DOMAIN status /\ Desired(status[i]) \in Mode
    <3>1. ASSUME NEW i \in due
          PROVE  i \in DOMAIN status /\ i \in Nat /\ Desired(status[i]) \in Mode
      <4>1. i \in DOMAIN status /\ Desired(status[i]) # None
        BY DEF Due
      <4>2. DOMAIN status \subseteq Nat /\ status[i] \in ActiveDevice
        BY <4>1
      <4>3. status[i].key \in Key
        BY <4>2 DEF ActiveDevice
      <4> QED
        BY <1>1, <4>1, <4>2, <4>3 DEF Desired, Saved
    <3> QED
      BY <3>1
  <2> HIDE DEF due
  <2>3. work' \in WorkState /\ work'.pc = "apply" /\ work'.status = status /\ work'.todo = due
    BY <1>1, <2>1, <2>2 DEF WorkState
  <2>4. WorkInv'
    BY <1>1, <2>2, <2>3 DEF WorkInv, Desired
  <2> QED
    BY <1>1, <2>1, <2>4, ViewKept, SameView
<1> QED
  BY <1>2, <1>3

LEMMA EnrichKeepsWindow ==
  ASSUME WindowInv, Enrich
  PROVE  WindowInv' /\ SelectionStep
<1>1. /\ WorldInv /\ ViewInv /\ work \in WorkState
      /\ saved \in Saved /\ UNCHANGED saved /\ work.pc = "enrich"
  BY DEF WindowInv, WorkInv, Enrich, At
<1>2. WorldInv'
  BY <1>1, WorldKept DEF Enrich, world
<1>3. work.status \in Seq(ActiveDevice) /\ work.i \in Nat
  BY <1>1 DEF WorkState
<1>4. \A k \in DOMAIN work.status :
        work.status[k] \in ActiveDevice /\ Enriched(work.status[k]) \in ActiveDevice
  <2> SUFFICES ASSUME NEW k \in DOMAIN work.status
               PROVE  work.status[k] \in ActiveDevice /\ Enriched(work.status[k]) \in ActiveDevice
    OBVIOUS
  <2>1. work.status[k] \in ActiveDevice
    BY <1>3
  <2> QED
    BY <1>1, <2>1, EnrichedType
<1>5. DOMAIN work.status = 1 .. Len(work.status) /\ Len(work.status) \in Nat
  BY <1>3
<1>6. CASE work.i < Len(work.status)
  <2> DEFINE s == [work.status EXCEPT ![work.i] = Enriched(work.status[work.i])]
             n == work.i + 1
  <2>1. work' = [work EXCEPT !.i = n, !.status = s] /\ UNCHANGED <<view, said>>
    BY <1>1, <1>6 DEF Enrich, WorkState
  <2>2. s \in Seq(ActiveDevice) /\ n \in Nat
    <3>1. work.status \in [1 .. Len(work.status) -> ActiveDevice]
      BY <1>4, <1>5, <1>3
    <3>2. s \in [1 .. Len(work.status) -> ActiveDevice]
      BY <1>4, <1>5, <3>1
    <3> HIDE DEF s
    <3>3. s \in Seq(ActiveDevice)
      BY <1>5, <3>2
    <3> QED
      BY <1>3, <3>3
  <2> HIDE DEF s, n
  <2>3. work' \in WorkState /\ work'.pc = "enrich"
    BY <1>1, <2>1, <2>2 DEF WorkState
  <2>4. WorkInv'
    BY <1>1, <2>3, WorkRests
  <2> QED
    BY <1>1, <1>2, <2>1, <2>4, ViewKept, SameView DEF WindowInv
<1>7. CASE ~(work.i < Len(work.status))
  <2> DEFINE s == [k \in DOMAIN work.status |->
                     IF k = work.i THEN Enriched(work.status[k]) ELSE work.status[k]]
  <2>1. Loaded(s)
    BY <1>7 DEF Enrich
  <2>2. s \in Seq(ActiveDevice)
    BY <1>4, <1>5
  <2> HIDE DEF s
  <2> QED
    BY <1>1, <1>2, <2>1, <2>2, LoadedKeepsWindow DEF WindowInv
<1> QED
  BY <1>6, <1>7

LEMMA ApplyPolicyKeepsWindow ==
  ASSUME WindowInv, ApplyPolicy
  PROVE  WindowInv' /\ SelectionStep
<1>1. /\ WorldInv /\ ViewInv /\ WorkInv /\ work \in WorkState
      /\ saved \in Saved /\ UNCHANGED <<saved, list>> /\ work.pc = "apply"
  BY DEF WindowInv, WorkInv, ApplyPolicy, At
<1>2. PICK i \in work.todo, obeyed \in BOOLEAN, remounted \in BOOLEAN :
        LET e == work.status[i]
            again == work.again \/ obeyed \/ remounted IN
        /\ SetDisk(e.disk, Desired(e), obeyed)
        /\ IF work.todo = {i} THEN AfterPolicies(again)
           ELSE /\ work' = [work EXCEPT !.todo = @ \ {i}, !.again = again]
                /\ UNCHANGED <<view, said>>
  BY DEF ApplyPolicy
<1> DEFINE e == work.status[i]
           again == work.again \/ obeyed \/ remounted
           rest == work.todo \ {i}
<1>3. Desired(e) \in Mode
  BY <1>1 DEF WorkInv
<1>4. WorldInv'
  BY <1>1, <1>2, <1>3, SetDiskFacts
<1>5. again \in BOOLEAN
  BY <1>1 DEF WorkState
<1>6. CASE work.todo # {i}
  <2>1. work' = [work EXCEPT !.todo = rest, !.again = again] /\ UNCHANGED <<view, said>>
    BY <1>2, <1>6
  <2>2. rest \in SUBSET Nat
    BY <1>1 DEF WorkState
  <2>3. \A k \in rest : k \in work.todo
    OBVIOUS
  <2> HIDE DEF e, again, rest
  <2>4. /\ work' \in WorkState /\ work'.pc = "apply"
        /\ work'.status = work.status /\ work'.todo = rest
    BY <1>1, <1>5, <2>1, <2>2 DEF WorkState
  <2>5. WorkInv'
    BY <1>1, <2>3, <2>4 DEF WorkInv, Desired
  <2> QED
    BY <1>1, <1>4, <2>1, <2>5, ViewKept, SameView DEF WindowInv
<1>7. CASE work.todo = {i}
  <2>1. AfterPolicies(again)
    BY <1>2, <1>7
  <2> HIDE DEF e, again, rest
  <2>2. CASE again
    <3>1. work' = [Idle EXCEPT !.pc = "list", !.again = TRUE] /\ UNCHANGED <<view, said>>
      BY <2>1, <2>2 DEF AfterPolicies
    <3>2. work' \in WorkState /\ work'.pc = "list"
      BY <3>1, EmptySeq DEF Idle, WorkState
    <3>3. WorkInv'
      BY <1>1, <3>2, WorkRests
    <3> QED
      BY <1>1, <1>4, <3>1, <3>3, ViewKept, SameView DEF WindowInv
  <2>3. CASE ~again
    <3>1. Show(work.status) /\ work.status \in Seq(ActiveDevice)
      BY <1>1, <2>1, <2>3 DEF AfterPolicies, WorkState
    <3>2. ViewInv' /\ work' = Idle /\ SelectionStep
      BY <1>1, <3>1, ShowFacts DEF SelectionStep
    <3>3. work' \in WorkState /\ work'.pc = "idle"
      BY <3>2, EmptySeq DEF Idle, WorkState
    <3>4. WorkInv'
      BY <1>1, <3>3, WorkRests
    <3> QED
      BY <1>4, <3>2, <3>4 DEF WindowInv
  <2> QED
    BY <2>2, <2>3
<1> QED
  BY <1>6, <1>7

LEMMA ActKeepsWindow ==
  ASSUME WindowInv, Act
  PROVE  WindowInv' /\ SelectionStep
<1>1. /\ WorldInv /\ ViewInv /\ WorkInv /\ work.pc = "act"
      /\ saved \in Saved /\ UNCHANGED <<view, said, saved, list>>
      /\ work' = [Idle EXCEPT !.pc = "list"]
  BY DEF WindowInv, WorkInv, Act, At
<1>2. PICK i \in work.todo, obeyed \in BOOLEAN :
        SetDisk(work.status[i].disk, Desired(work.status[i]), obeyed)
  BY DEF Act
<1>3. Desired(work.status[i]) \in Mode
  BY <1>1 DEF WorkInv
<1>4. WorldInv'
  BY <1>1, <1>2, <1>3, SetDiskFacts
<1>5. work' \in WorkState /\ work'.pc = "list"
  BY <1>1, EmptySeq DEF Idle, WorkState
<1>6. WorkInv'
  BY <1>1, <1>5, WorkRests
<1> QED
  BY <1>1, <1>4, <1>6, ViewKept, SameView DEF WindowInv

-----------------------------------------------------------------------------
(* The user, the timer, and the whole.                                     *)

LEMMA ChooseKeepsWindow ==
  ASSUME WindowInv, NEW mode \in Mode, Choose(mode)
  PROVE  WindowInv' /\ SelectionStep
<1>1. /\ WorldInv /\ ViewInv /\ view \in ViewState /\ view.sel \in 0 .. Rows(view)
      /\ work \in WorkState /\ saved \in Saved /\ UNCHANGED <<port, list, view, said>>
      /\ saved' = [saved EXCEPT ![Selected(view).key] = mode] /\ Selected(view) # None
      /\ work.pc = "idle"
  BY DEF WindowInv, WorkInv, ViewInv, Choose, At, world
<1> DEFINE s == view.status  row == view.sel  key == s[row].key
<1>2. s \in Seq(ActiveDevice) /\ row \in Nat /\ Selected(view) = s[row] /\ row # 0
  BY <1>1 DEF ViewState, Selected
<1>3. row \in 1 .. Len(s) /\ row \in DOMAIN s
  BY <1>1, <1>2 DEF Rows
<1>4. key \in Key
  <2>1. s[row] \in ActiveDevice
    BY <1>2, <1>3
  <2> QED
    BY <2>1 DEF ActiveDevice
<1>5. saved' \in Saved /\ saved'[key] = mode
  BY <1>1, <1>2, <1>4 DEF Saved
<1>6. \/ work' = [work EXCEPT !.pc = "act", !.status = s, !.todo = {row}]
      \/ work' = work
  BY DEF Choose
<1> HIDE DEF s, row
<1>7. ASSUME work' = [work EXCEPT !.pc = "act", !.status = s, !.todo = {row}]
      PROVE  WorkInv'
  <2> DEFINE todo == {row}
  <2>1. todo \in SUBSET Nat /\ work' = [work EXCEPT !.pc = "act", !.status = s, !.todo = todo]
    BY <1>2, <1>7
  <2>2. s \in Seq(ActiveDevice) /\ work \in WorkState
    BY <1>1, <1>2
  <2> HIDE DEF todo
  <2>3. work' \in WorkState /\ work'.status = s /\ work'.todo = todo
    BY <2>1, <2>2 DEF WorkState
  <2>4. work' \in WorkState /\ work'.status = s /\ work'.todo = {row}
    BY <2>3 DEF todo
  <2> QED
    BY <1>3, <1>5, <2>4 DEF WorkInv, Desired
<1>8. ASSUME work' = work
      PROVE  WorkInv'
  BY <1>1, <1>5, <1>8, WorkRests
<1>9. WorldInv' /\ ViewInv' /\ SelectionStep
  BY <1>1, WorldKept, ViewKept, SameView
<1> QED
  BY <1>6, <1>7, <1>8, <1>9 DEF WindowInv

LEMMA NextKeepsWindow ==
  ASSUME WindowInv, [Next]_vars
  PROVE  WindowInv' /\ (work'.pc # work.pc => SelectionStep)
<1>1. WorldInv /\ ViewInv /\ WorkInv /\ work \in WorkState /\ saved \in Saved
  BY DEF WindowInv, WorkInv
<1>2. CASE Thread
  BY <1>2, FindListKeepsWindow, ReadListKeepsWindow, EnrichKeepsWindow,
     ApplyPolicyKeepsWindow, ActKeepsWindow DEF Thread, LoadList
<1>3. CASE OnTimer \/ OnRefreshButton
  BY <1>3, FindListKeepsWindow DEF OnTimer, OnRefreshButton
<1>4. CASE Launch
  <2>1. UNCHANGED <<port, list, view, said>> /\ saved' \in Policies
        /\ work' = [Idle EXCEPT !.pc = "list"]
    BY <1>4 DEF Launch, world
  <2>2. work' \in WorkState /\ work'.pc = "list"
    BY <2>1, EmptySeq DEF Idle, WorkState
  <2>3. WorkInv'
    BY <2>1, <2>2, WorkRests DEF Saved
  <2> QED
    BY <1>1, <2>1, <2>3, WorldKept, ViewKept, SameView DEF WindowInv
<1>5. CASE World
  <2>1. UNCHANGED <<view, said, saved, work>>
    BY <1>5 DEF World, Rmmod, Insmod, Unplug, DiskUp, Block, Plug
  <2> QED
    BY <1>1, <1>5, <2>1, WorldKeepsWorld, ViewKept, WorkKept DEF WindowInv
<1>6. ASSUME NEW m \in Mode, Choose(m)
      PROVE  WindowInv' /\ (work'.pc # work.pc => SelectionStep)
  BY <1>6, ChooseKeepsWindow
<1>7. ASSUME NEW i \in 0 .. Rows(view), Select(i)
      PROVE  WindowInv' /\ work'.pc = work.pc
  <2>1. UNCHANGED <<port, list, saved, work>>
    BY <1>7 DEF Select, world
  <2> QED
    BY <1>1, <1>7, <2>1, WorldKept, SelectKeepsView, WorkKept DEF WindowInv
<1>8. ASSUME NEW on \in BOOLEAN, SetTimer(on)
      PROVE  WindowInv' /\ work'.pc = work.pc
  <2>1. UNCHANGED <<port, list, view, said, saved, work>>
    BY <1>8 DEF SetTimer, world
  <2> QED
    BY <1>1, <2>1, WorldKept, ViewKept, WorkKept DEF WindowInv
<1>9. CASE UNCHANGED vars
  <2>1. UNCHANGED <<port, list, view, said, saved, work>>
    BY <1>9 DEF vars
  <2> QED
    BY <1>1, <2>1, WorldKept, ViewKept, WorkKept DEF WindowInv
<1> QED
  BY <1>2, <1>3, <1>4, <1>5, <1>6, <1>7, <1>8, <1>9 DEF Next

LEMMA InitHasWindow ==
  ASSUME Init
  PROVE  WindowInv
<1>1. /\ port = [p \in Port |-> None] /\ list = <<>> /\ view = Blank
      /\ saved = [k \in Key |-> None] /\ work = [Idle EXCEPT !.pc = "off"]
  BY DEF Init
<1>2. Plugged = {}
  BY <1>1 DEF Plugged
<1>3. WorldInv
  BY <1>1, <1>2, EmptySeq DEF WorldInv, DisksDiffer, ListRight, IsInjective, ToSet
<1>4. ViewInv
  BY <1>1, EmptySeq DEF ViewInv, Blank, ViewState, Rows, ButtonsRight, Usable, Selected
<1>5. WorkInv
  BY <1>1, EmptySeq DEF WorkInv, WorkState, Idle, Saved
<1> QED
  BY <1>3, <1>4, <1>5 DEF WindowInv

(* The world, the window and the thread are always as described above.     *)
THEOREM WindowInvariant == ViewSpec => []WindowInv
<1> USE InitHasWindow, NextKeepsWindow
<1>1. Init => WindowInv
  OBVIOUS
<1>2. WindowInv /\ [Next]_vars => WindowInv'
  OBVIOUS
<1> QED
  BY <1>1, <1>2, PTL DEF ViewSpec

(* Every variable of the window stays in its type, the kernel's list is    *)
(* what is plugged in, and the selected row of populate_active_store is    *)
(* one that exists, however sticks, refreshes and clicks interleave.       *)
THEOREM ViewTypeCorrect == ViewSpec => []ViewTypeOK
<1>1. WindowInv => ViewTypeOK
  BY DEF WindowInv, WorldInv, ListRight, ViewInv, WorkInv, WorkState, Saved, Device,
         Plugged, ViewTypeOK
<1> QED
  BY <1>1, WindowInvariant, PTL

(* update_access_action_buttons leaves the access buttons usable exactly   *)
(* while the selected row shows an authorized device with a disk.          *)
THEOREM ButtonsAreRight == ViewSpec => []ButtonsRight
<1>1. WindowInv => ButtonsRight
  BY DEF WindowInv, ViewInv
<1> QED
  BY <1>1, WindowInvariant, PTL

(* The lines of log_device_changes add up to the devices of the status     *)
(* that refresh_status_view showed last.                                   *)
THEOREM LogsFollow == ViewSpec => []LogFollows
<1>1. WindowInv => LogFollows
  BY DEF WindowInv, ViewInv, LogFollows
<1> QED
  BY <1>1, WindowInvariant, PTL

(* No refresh moves the selection off a device that is still listed at its *)
(* port: restore_active_selection finds its row again.                     *)
THEOREM SelectionIsKept == ViewSpec => SelectionKept
<1>1. WindowInv /\ [Next]_vars =>
        [work'.pc # work.pc /\ SelectedKey(view) # None
           /\ view'.filled /\ SelectedKey(view) \in Keys(view'.status)
         => SelectedKey(view') = SelectedKey(view)]_vars
  BY NextKeepsWindow DEF SelectionStep
<1> QED
  BY <1>1, WindowInvariant, PTL DEF ViewSpec, SelectionKept

-----------------------------------------------------------------------------
(* Access modes.                                                           *)

(* The disk of the stick at port p is shown as it is, and no other entry   *)
(* of the status in use names it by mistake.                               *)
About(p) == {e \in ToSet(work.status) : e.disk = port[p].disk}
Told(p) == About(p) # {} /\ (\A e \in About(p) : True(e)) /\ port[p].disk # None

LEMMA WriteFacts ==
  ASSUME WindowInv, NEW p \in Plugged, Told(p), NEW i \in work.todo,
         work.pc \in {"apply", "act"},
         NEW obeyed \in BOOLEAN,
         SetDisk(work.status[i].disk, Desired(work.status[i]), obeyed), UNCHANGED <<list, saved>>,
         port'[p].mode # port[p].mode
  PROVE  port'[p].mode = saved[KeyOf(port[p].stick)]
<1> DEFINE e == work.status[i]
<1>1. /\ WorldInv /\ DisksDiffer /\ i \in DOMAIN work.status /\ Desired(e) \in Mode
      /\ e \in ToSet(work.status)
  BY DEF WindowInv, WorldInv, WorkInv, ToSet
<1>2. e \in ActiveDevice
  BY <1>1 DEF WindowInv, WorkInv, WorkState
<1> HIDE DEF e
<1>3. port[p].disk = e.disk /\ port'[p].mode = Desired(e)
  BY <1>1, SetDiskFacts DEF e
<1>4. e \in About(p)
  BY <1>1, <1>3 DEF About
<1>5. True(e) /\ port[p].disk # None
  BY <1>4 DEF Told
<1>6. e.port \in Plugged /\ port[e.port].disk = port[p].disk /\ e.key = KeyOf(port[e.port].stick)
  BY <1>2, <1>3, <1>5 DEF True, Plugged, ActiveDevice
<1>7. e.port = p
  BY <1>1, <1>5, <1>6 DEF DisksDiffer
<1> QED
  BY <1>3, <1>6, <1>7 DEF Desired

LEMMA NextWritesAsChosen ==
  ASSUME WindowInv, [Next]_vars, NEW p \in Plugged, Told(p), work.pc \in {"apply", "act"},
         port'[p] # None, port'[p].disk = port[p].disk, port'[p].mode # port[p].mode
  PROVE  port'[p].mode = saved[KeyOf(port[p].stick)]
<1>1. port \in [Port -> Device \union {None}] /\ p \in Port /\ port[p] \in Device
  BY DEF WindowInv, WorldInv, Plugged
<1>2. port[p].disk # None /\ port' # port
  BY DEF Told
<1>3. CASE ApplyPolicy
  <2>1. /\ UNCHANGED <<list, saved>>
        /\ \E i \in work.todo, obeyed \in BOOLEAN :
             SetDisk(work.status[i].disk, Desired(work.status[i]), obeyed)
    BY <1>3 DEF ApplyPolicy
  <2> QED
    BY <2>1, WriteFacts
<1>4. CASE Act
  <2>1. /\ UNCHANGED <<list, saved>>
        /\ \E i \in work.todo, obeyed \in BOOLEAN :
             SetDisk(work.status[i].disk, Desired(work.status[i]), obeyed)
    BY <1>4 DEF Act
  <2> QED
    BY <2>1, WriteFacts
<1>5. CASE World
  <2>1. ASSUME NEW q \in Port, NEW s \in Stick, Plug(q, s)
        PROVE  FALSE
    <3>1. q # p /\ \A r \in Port : r # q => port'[r] = port[r]
      BY <1>1, <2>1 DEF Plug, Plugged
    <3> QED
      BY <1>1, <3>1
  <2>2. ASSUME NEW q \in Port, Unplug(q)
        PROVE  FALSE
    BY <1>1, <2>2 DEF Unplug
  <2>3. ASSUME NEW q \in Port, DiskUp(q)
        PROVE  FALSE
    <3>1. q # p /\ \A r \in Port : r # q => port'[r] = port[r]
      BY <1>1, <1>2, <2>3 DEF DiskUp, Plugged
    <3> QED
      BY <1>1, <3>1
  <2>4. ASSUME NEW q \in Port, Block(q)
        PROVE  FALSE
    <3> DEFINE d == [port[q] EXCEPT !.authorized = FALSE, !.disk = None, !.mode = "rw"]
    <3>1. port[q] \in Device /\ port' = [port EXCEPT ![q] = d]
      BY <1>1, <2>4 DEF Block, Plugged
    <3>2. d.disk = None
      BY <3>1 DEF Device
    <3> HIDE DEF d
    <3>3. CASE q = p
      BY <1>1, <1>2, <3>1, <3>2, <3>3
    <3>4. CASE q # p
      BY <1>1, <3>1, <3>4
    <3> QED
      BY <3>3, <3>4
  <2> QED
    BY <1>2, <1>5, <2>1, <2>2, <2>3, <2>4 DEF World, Rmmod, Insmod
<1>6. Thread => ApplyPolicy \/ Act
  BY DEF Thread, LoadList, ReadList, Enrich, At
<1>7. ~(OnTimer \/ OnRefreshButton \/ Launch)
  BY DEF OnTimer, OnRefreshButton, Launch, At
<1>8. /\ \A m \in Mode : ~Choose(m)
      /\ \A i \in 0 .. Rows(view) : ~Select(i)
      /\ \A on \in BOOLEAN : ~SetTimer(on)
  BY DEF Choose, Select, SetTimer, At
<1> QED
  BY <1>2, <1>3, <1>4, <1>5, <1>6, <1>7, <1>8 DEF Next, vars

(* set_block_node_access gives a disk that the status in use describes     *)
(* truly only the mode saved for the key of its own stick, though sticks   *)
(* are replaced and names given again between the reading and the writing. *)
THEOREM WritesAreChosen == ViewSpec => WrittenAsChosen
<1>1. WindowInv /\ [Next]_vars =>
        [\A p \in Plugged :
           At("act") \/ At("apply") =>
             LET about == {e \in ToSet(work.status) : e.disk = port[p].disk} IN
               about # {} /\ (\A e \in about : True(e)) /\ port[p].disk # None
                 /\ port'[p] # None /\ port'[p].disk = port[p].disk
                 /\ port'[p].mode # port[p].mode
               => port'[p].mode = saved[KeyOf(port[p].stick)]]_vars
  BY NextWritesAsChosen DEF Told, About, At
<1> QED
  BY <1>1, WindowInvariant, PTL DEF ViewSpec, WrittenAsChosen
=============================================================================
