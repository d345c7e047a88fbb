----------------------------- MODULE UsbLedger ------------------------------
(***************************************************************************)
(* What the active list and the history of bai_2/usb_guard.c promise a     *)
(* reader of /proc/usb_guard/status, without handlers, seeding or locks:   *)
(* a connection is counted once, when it appears, and lasts until its      *)
(* device leaves; unloading the module forgets everything.                 *)
(***************************************************************************)
EXTENDS Naturals

CONSTANTS Port, Ident, None

VARIABLES
  device,    \* the identity connected at a port, or None
  connects   \* connect_count of an identity

Connect(p, d) ==
  /\ device[p] = None
  /\ device' = [device EXCEPT ![p] = d]
  /\ connects' = [connects EXCEPT ![d] = @ + 1]

Disconnect(p) ==
  /\ device[p] # None
  /\ device' = [device EXCEPT ![p] = None]
  /\ UNCHANGED connects

Forget ==
  /\ device' = [p \in Port |-> None]
  /\ connects' = [d \in Ident |-> 0]

Init ==
  /\ device = [p \in Port |-> None]
  /\ connects = [d \in Ident |-> 0]

Next ==
  \/ \E p \in Port : Disconnect(p) \/ \E d \in Ident : Connect(p, d)
  \/ Forget

Spec == Init /\ [][Next]_<<device, connects>>
=============================================================================
