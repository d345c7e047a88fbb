----------------------------- MODULE SecureAes -----------------------------
(***************************************************************************)
(* The character device of bai_1/driver/secure_aes_driver.c with           *)
(* aes_core.c.  Every file operation runs under the mutex of its session,  *)
(* so each is one action; threads that share an open file may call them in *)
(* any order.  The cipher is the kernel's "cbc(aes)", a parameter here.    *)
(***************************************************************************)
EXTENDS Pkcs7, FiniteSets

CONSTANTS
  File,               \* open files of /dev/secure_aes
  Key, Iv,            \* what SET_CONFIG may be given
  LegalKey,           \* the keys of 16, 24 or 32 bytes
  Data,               \* the byte strings a write may be given
  MaxBuffer,          \* SECURE_AES_MAX_BUFFER_SIZE
  Fault,              \* "alloc": an allocation or a cipher call fails
  CbcEncrypt(_, _, _), CbcDecrypt(_, _, _), \* of a key, an iv and whole blocks
  NoConfig

Config == [mode : {"encrypt", "decrypt"}, key : Key, iv : Iv]

ASSUME DriverAssumption ==
  /\ LegalKey \subseteq Key /\ Data \subseteq Seq(Byte)
  /\ MaxBuffer \in Nat \ {0}
  /\ Fault \subseteq {"alloc"} /\ NoConfig \notin Config

VARIABLES
  session,  \* per file: its struct secure_aes_session
  module,   \* progress of secure_aes_init and secure_aes_exit
  held      \* what init has registered and not yet given back

driver == <<session, module, held>>

Emptied(open, config) == [open |-> open, config |-> config, input |-> <<>>,
                          output |-> <<>>, processed |-> FALSE, offset |-> 0]
Fresh == Emptied(TRUE, NoConfig)
Closed == Emptied(FALSE, NoConfig)  \* no session: freed

IsOpen(f) == session[f].open

-----------------------------------------------------------------------------
(* aes_cbc_process_buffer.                                                 *)

Processable(config, input) ==
  config.mode = "encrypt" \/
    /\ input # <<>> /\ Len(input) % BlockSize = 0
    /\ Padded(CbcDecrypt(config.key, config.iv, input))

Processed(config, input) ==
  IF config.mode = "encrypt" THEN CbcEncrypt(config.key, config.iv, Pad(input))
  ELSE Unpad(CbcDecrypt(config.key, config.iv, input))

-----------------------------------------------------------------------------
(* The file operations.                                                    *)

ClearOutput(s) == [s EXCEPT !.output = <<>>, !.processed = FALSE, !.offset = 0]

(* The device node exists once device_create has returned, and an open     *)
(* file keeps the module in.                                               *)
DeviceThere == "device" \in held /\ module = "live"

Open(f) ==
  /\ DeviceThere /\ ~IsOpen(f)
  /\ session' = [session EXCEPT ![f] = Fresh]
  /\ UNCHANGED <<module, held>>

Release(f) ==
  /\ IsOpen(f)
  /\ session' = [session EXCEPT ![f] = Closed]
  /\ UNCHANGED <<module, held>>

SetConfig(f, c) ==
  /\ IsOpen(f) /\ c.key \in LegalKey
  /\ session' = [session EXCEPT ![f] = Emptied(TRUE, c)]
  /\ UNCHANGED <<module, held>>

(* Faulty variant: only the size of this write is limited.                 *)
CanWriteOnce(s, data) == s.config # NoConfig /\ Len(data) <= MaxBuffer

CanWrite(s, data) == s.config # NoConfig /\ Len(s.input) + Len(data) <= MaxBuffer

(* Faulty variant: an old result stays readable behind new input.          *)
WriteKeepsOutput(f, data) ==
  /\ IsOpen(f) /\ data # <<>> /\ CanWrite(session[f], data)
  /\ session' = [session EXCEPT ![f].input = @ \o data]
  /\ UNCHANGED <<module, held>>

Write(f, data) ==
  LET s == session[f] IN
  /\ IsOpen(f) /\ data # <<>> /\ CanWrite(s, data)
  /\ session' = [session EXCEPT ![f] = ClearOutput([s EXCEPT !.input = s.input \o data])]
  /\ UNCHANGED <<module, held>>

CanProcess(s) ==
  /\ s.config # NoConfig
  /\ ~(s.config.mode = "decrypt" /\ s.input = <<>>)

(* PROCESS gives up what an earlier one left before it starts.             *)
ProcessSucceeds(f) ==
  LET s == session[f] IN
  /\ IsOpen(f) /\ CanProcess(s) /\ Processable(s.config, s.input)
  /\ session' = [session EXCEPT ![f] =
       [s EXCEPT !.output = Processed(s.config, s.input),
                 !.processed = TRUE, !.offset = 0]]
  /\ UNCHANGED <<module, held>>

ProcessFails(f) ==
  LET s == session[f] IN
  /\ IsOpen(f) /\ CanProcess(s)
  /\ ~Processable(s.config, s.input) \/ "alloc" \in Fault
  /\ session' = [session EXCEPT ![f] = ClearOutput(s)]
  /\ UNCHANGED <<module, held>>

Available(s) == IF s.processed THEN Len(s.output) - s.offset ELSE 0
Copied(s, n) == IF n < Available(s) THEN n ELSE Available(s)

(* Faulty variant: the offset moves by what was asked for.                 *)
ReadCountsRequest(f, n) ==
  /\ IsOpen(f) /\ Available(session[f]) > 0
  /\ session' = [session EXCEPT ![f].offset = @ + n]
  /\ UNCHANGED <<module, held>>

(* A read of n > 0 bytes; with nothing left it returns 0 and changes       *)
(* nothing.                                                                *)
Read(f, n) ==
  /\ IsOpen(f) /\ Available(session[f]) > 0
  /\ session' = [session EXCEPT ![f].offset = @ + Copied(session[f], n)]
  /\ UNCHANGED <<module, held>>

Reset(f) ==
  /\ IsOpen(f)
  /\ session' = [session EXCEPT ![f] = Fresh]
  /\ UNCHANGED <<module, held>>

-----------------------------------------------------------------------------
(* secure_aes_init takes the resources in this order and, like             *)
(* secure_aes_exit, gives them back in the reverse one.                    *)

Resource == {"chrdev", "cdev", "class", "device"}
Before(r) == CASE r = "chrdev" -> {} [] r = "cdev" -> {"chrdev"}
               [] r = "class" -> {"chrdev", "cdev"}
               [] r = "device" -> {"chrdev", "cdev", "class"}

InitTakes(r) ==
  /\ module = "loading" /\ r \notin held /\ Before(r) \subseteq held
  /\ \/ /\ held' = held \union {r}
        /\ module' = IF r = "device" THEN "live" ELSE module
     \/ /\ module' = "unloading"
        /\ UNCHANGED held
  /\ UNCHANGED session

(* Faulty variant: a class whose device was not created is left behind.    *)
GivesBackWithDevice(r) ==
  /\ module = "unloading" /\ r \in held /\ \A q \in held : r \notin Before(q)
  /\ held' = held \ (IF r = "class" THEN {"cdev"} ELSE {r})
  /\ UNCHANGED <<session, module>>

GivesBack(r) ==
  /\ module = "unloading" /\ r \in held /\ \A q \in held : r \notin Before(q)
  /\ held' = held \ {r}
  /\ UNCHANGED <<session, module>>

Insmod ==
  /\ module = "unloaded"
  /\ module' = "loading"
  /\ UNCHANGED <<session, held>>

Rmmod ==
  /\ module = "live" /\ \A f \in File : ~IsOpen(f)
  /\ module' = "unloading"
  /\ UNCHANGED <<session, held>>

Unloaded ==
  /\ module = "unloading" /\ held = {}
  /\ module' = "unloaded"
  /\ UNCHANGED <<session, held>>

-----------------------------------------------------------------------------

DriverInit ==
  /\ session = [f \in File |-> Closed]
  /\ module = "unloaded"
  /\ held = {}

ModuleStep ==
  \/ Insmod \/ Rmmod \/ Unloaded
  \/ \E r \in Resource : InitTakes(r) \/ GivesBack(r)

(* A user of f that follows no protocol.                                   *)
AnyOperation(f) ==
  \/ Open(f) \/ Release(f) \/ Reset(f) \/ ProcessSucceeds(f) \/ ProcessFails(f)
  \/ \E c \in Config : SetConfig(f, c)
  \/ \E data \in Data : Write(f, data)
  \/ \E n \in 1 .. MaxBuffer : Read(f, n)

-----------------------------------------------------------------------------
(* Properties.                                                             *)

Position == 0 .. MaxBuffer + BlockSize
Session == [open : BOOLEAN, config : Config \union {NoConfig}, input : Seq(Byte),
            output : Seq(Byte), processed : BOOLEAN, offset : Position]

(* Every variable stays in its type; the read position stays within the    *)
(* largest result.                                                         *)
DriverTypeOK ==
  /\ session \in [File -> Session]
  /\ module \in {"unloaded", "loading", "live", "unloading"}
  /\ held \subseteq Resource

(* What can be read is always the result of the input and the parameters   *)
(* the session holds now, however the operations were ordered; before a    *)
(* successful PROCESS there is nothing to read.                            *)
OutputCurrent ==
  \A f \in File :
    LET s == session[f] IN
      IF s.processed
      THEN /\ s.config # NoConfig /\ Processable(s.config, s.input)
           /\ s.output = Processed(s.config, s.input)
      ELSE s.output = <<>>

(* However it is filled, a session never holds more than the limit, takes  *)
(* input only for a configuration, its read position stays inside the      *)
(* result, and a released file leaves nothing of it.                       *)
BuffersBounded ==
  \A f \in File :
    LET s == session[f] IN
      /\ Len(s.input) <= MaxBuffer
      /\ s.input # <<>> => s.config # NoConfig
      /\ s.offset \in 0 .. Len(s.output)
      /\ ~s.open => s = Closed

(* An open file finds the driver whole, and each resource rests on the     *)
(* ones taken before it.                                                   *)
DriverWhole ==
  /\ (\E f \in File : IsOpen(f)) => module = "live"
  /\ module = "live" => held = Resource
  /\ \A r \in held : Before(r) \subseteq held
  /\ module = "unloaded" => held = {}

=============================================================================
