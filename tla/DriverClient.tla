---------------------------- MODULE DriverClient ----------------------------
(***************************************************************************)
(* bai_1/app/driver_client.c on top of the driver: each system call that   *)
(* secure_aes_process_buffer makes is an action.  A client opens the       *)
(* device for every request, so a client stands for its file as well; the  *)
(* other files belong to programs that follow no protocol.                 *)
(***************************************************************************)
EXTENDS SecureAes

CONSTANTS
  Client,    \* calls of secure_aes_process_buffer that may run at once
  Request,   \* what they are called with: [config : Config, input : Seq(Byte)]
  LongKey,   \* keys of more than 32 bytes
  NoAnswer, Error

ASSUME ClientAssumption ==
  /\ Client \subseteq File /\ LongKey \subseteq Key \ LegalKey
  /\ \A r \in Request : r.config \in Config /\ r.input \in Seq(Byte)
  /\ NoAnswer \notin Request

VARIABLE call  \* per client: where it is, its request, what it will return

vars == <<driver, call>>

(* Success at this step: on to pc.                                         *)
Proceed(c, pc) == call' = [call EXCEPT ![c].pc = pc]

(* Any error after open: on to the `out` label.                            *)
GiveUp(c) == call' = [call EXCEPT ![c].pc = "out", ![c].answer = Error]

Ask(c, r) ==
  /\ call[c].pc = "idle"
  /\ call' = [call EXCEPT ![c] = [pc |-> "open", request |-> r, answer |-> NoAnswer]]
  /\ UNCHANGED driver

(* A key that is too long is refused before the device is opened.          *)
OpenDevice(c) ==
  LET long == call[c].request.config.key \in LongKey IN
  /\ call[c].pc = "open"
  /\ \/ ~long /\ Open(c) /\ Proceed(c, "configure")
     \/ /\ long \/ ~DeviceThere \/ "alloc" \in Fault
        /\ call' = [call EXCEPT ![c].pc = "idle", ![c].answer = Error]
        /\ UNCHANGED driver

Configure(c) ==
  /\ call[c].pc = "configure"
  /\ \/ SetConfig(c, call[c].request.config) /\ Proceed(c, "send")
     \/ call[c].request.config.key \notin LegalKey /\ GiveUp(c) /\ UNCHANGED driver

(* Faulty variant: the result of write_all is ignored.                     *)
SendUnchecked(c) ==
  LET input == call[c].request.input IN
  /\ call[c].pc = "send"
  /\ Proceed(c, "process")
  /\ \/ Write(c, input)
     \/ /\ input = <<>> \/ ~CanWrite(session[c], input) \/ "alloc" \in Fault
        /\ UNCHANGED driver

(* write_all: the driver takes all of a write or nothing.                  *)
Send(c) ==
  LET input == call[c].request.input IN
  /\ call[c].pc = "send"
  /\ \/ Write(c, input) /\ Proceed(c, "process")
     \/ input = <<>> /\ Proceed(c, "process") /\ UNCHANGED driver
     \/ /\ input # <<>>
        /\ ~CanWrite(session[c], input) \/ "alloc" \in Fault
        /\ GiveUp(c)
        /\ UNCHANGED driver

RunProcess(c) ==
  /\ call[c].pc = "process"
  /\ \/ ProcessSucceeds(c) /\ Proceed(c, "status")
     \/ ProcessFails(c) /\ GiveUp(c)
     \/ ~CanProcess(session[c]) /\ GiveUp(c) /\ UNCHANGED driver

AskStatus(c) ==
  /\ call[c].pc = "status"
  /\ IF session[c].processed THEN Proceed(c, "receive") ELSE GiveUp(c)
  /\ UNCHANGED driver

(* read_all asks for output_len bytes; the driver hands out what is left.  *)
Receive(c) ==
  LET s == session[c] IN
  /\ call[c].pc = "receive"
  /\ \/ /\ Read(c, Len(s.output))
        /\ call' = [call EXCEPT ![c].pc = "out", ![c].answer =
                      SubSeq(s.output, s.offset + 1, Len(s.output))]
     \/ /\ s.output = <<>>
        /\ call' = [call EXCEPT ![c].pc = "out", ![c].answer = <<>>]
        /\ UNCHANGED driver
     \/ /\ s.output # <<>> /\ "alloc" \in Fault
        /\ GiveUp(c)
        /\ UNCHANGED driver

(* Faulty variant: an error returns without closing the file.              *)
ReturnLeavesOpen(c) ==
  /\ call[c].pc = "out"
  /\ IF call[c].answer = Error THEN UNCHANGED driver ELSE Release(c)
  /\ Proceed(c, "idle")

(* RESET and close, whatever happened; then the call returns.              *)
Return(c) ==
  /\ call[c].pc = "out"
  /\ Release(c)
  /\ Proceed(c, "idle")

-----------------------------------------------------------------------------

Init ==
  /\ DriverInit
  /\ call = [c \in Client |-> [pc |-> "idle", request |-> NoAnswer, answer |-> NoAnswer]]

Call(c) ==
  \/ OpenDevice(c) \/ Configure(c) \/ Send(c) \/ RunProcess(c)
  \/ AskStatus(c) \/ Receive(c) \/ Return(c)

Next ==
  \/ \E c \in Client : Call(c) \/ \E r \in Request : Ask(c, r)
  \/ (\E f \in File \ Client : AnyOperation(f)) /\ UNCHANGED call
  \/ ModuleStep /\ UNCHANGED call

Spec == Init /\ [][Next]_vars

-----------------------------------------------------------------------------
(* Properties.                                                             *)

(* A file is open exactly while its call is between open and close: no     *)
(* path out of the call leaks the descriptor, which would pin the module.  *)
FilesClosed ==
  \A c \in Client : session[c].open <=> call[c].pc \notin {"idle", "open"}

(* The right answer, by the definition of PKCS #7 and not by the code: the *)
(* text of whole blocks is the input, or the output, and n bytes n.        *)
Right(r, a) ==
  LET c == r.config IN
  /\ c.key \in LegalKey /\ Len(r.input) <= MaxBuffer
  /\ \E n \in 1 .. BlockSize :
       LET tail == [i \in 1 .. n |-> n] IN
         IF c.mode = "encrypt"
         THEN /\ (Len(r.input) + n) % BlockSize = 0
              /\ a = CbcEncrypt(c.key, c.iv, r.input \o tail)
         ELSE /\ Len(r.input) % BlockSize = 0
              /\ CbcDecrypt(c.key, c.iv, r.input) = a \o tail

(* Each call answers its own request and rightly, whatever the length of   *)
(* its input, or reports an error, whatever other users of the device,     *)
(* failures and module unloading do in between.                            *)
Service == INSTANCE CryptoService WITH
  pending <- [c \in Client |-> IF call[c].pc = "idle" THEN NoAnswer ELSE call[c].request],
  answer <- [c \in Client |-> IF call[c].pc = "idle" THEN call[c].answer ELSE NoAnswer]

KeepsService == Service!Spec

=============================================================================
