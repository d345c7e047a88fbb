------------------------- MODULE DriverClientProofs -------------------------
(***************************************************************************)
(* Proofs about the device and its client, for every set of files, keys,   *)
(* requests and every block size: the properties that MCDriverClient       *)
(* checks, and that the client implements CryptoService.                   *)
(***************************************************************************)
EXTENDS DriverClient, Pkcs7Proofs

(* What is assumed of the kernel's "cbc(aes)": under a key that it takes,  *)
(* of whole blocks it makes whole blocks of the same length.               *)
CipherKeepsLength ==
  \A k \in LegalKey, iv \in Iv, s \in Seq(Byte) :
    Len(s) % BlockSize = 0 =>
      /\ CbcEncrypt(k, iv, s) \in Seq(Byte) /\ Len(CbcEncrypt(k, iv, s)) = Len(s)
      /\ CbcDecrypt(k, iv, s) \in Seq(Byte) /\ Len(CbcDecrypt(k, iv, s)) = Len(s)

-----------------------------------------------------------------------------
(* The device.                                                             *)

(* A session by itself: its type, a key that the cipher takes,             *)
(* OutputCurrent and BuffersBounded.                                       *)
SessionOK(s) ==
  /\ s \in Session
  /\ IF s.processed
     THEN /\ s.config # NoConfig /\ Processable(s.config, s.input)
          /\ s.output = Processed(s.config, s.input)
     ELSE s.output = <<>>
  /\ Len(s.input) <= MaxBuffer
  /\ s.input # <<>> => s.config # NoConfig
  /\ s.config # NoConfig => s.config.key \in LegalKey
  /\ s.offset \in 0 .. Len(s.output)
  /\ ~s.open => s = Closed

DriverInv ==
  /\ session \in [File -> Session]
  /\ \A f \in File : SessionOK(session[f])
  /\ module \in {"unloaded", "loading", "live", "unloading"}
  /\ held \subseteq Resource
  /\ DriverWhole

(* DriverInv gives the device's four invariants.                           *)
LEMMA DriverInvMeans ==
  DriverInv => DriverTypeOK /\ OutputCurrent /\ BuffersBounded /\ DriverWhole
  BY DEF DriverInv, DriverTypeOK, OutputCurrent, BuffersBounded, SessionOK

(* What PROCESS makes of an input within the limit is within one block of  *)
(* the limit.                                                              *)
LEMMA ProcessedBounded ==
  ASSUME CipherKeepsLength, NEW config \in Config, NEW input \in Seq(Byte),
         config.key \in LegalKey, Len(input) <= MaxBuffer, Processable(config, input)
  PROVE  /\ Processed(config, input) \in Seq(Byte)
         /\ Len(Processed(config, input)) <= MaxBuffer + BlockSize
<1> DEFINE plain == CbcDecrypt(config.key, config.iv, input)
<1>1. /\ BlockSize \in Nat /\ MaxBuffer \in Nat /\ Len(input) \in Nat
      /\ config.key \in LegalKey /\ config.iv \in Iv
  BY BlockAssumption, DriverAssumption DEF Config
<1>2. CASE config.mode = "encrypt"
  <2>1. /\ Pad(input) \in Seq(Byte)
        /\ Len(Pad(input)) = Len(input) + PadLength(Len(input))
    BY PadShape
  <2>2. PadLength(Len(input)) \in 1 .. BlockSize /\ Len(Pad(input)) % BlockSize = 0
    BY <1>1, <2>1, PadLengthRange
  <2>3. Processed(config, input) = CbcEncrypt(config.key, config.iv, Pad(input))
    BY <1>2 DEF Processed
  <2>4. /\ CbcEncrypt(config.key, config.iv, Pad(input)) \in Seq(Byte)
        /\ Len(CbcEncrypt(config.key, config.iv, Pad(input))) = Len(Pad(input))
    BY <1>1, <2>1, <2>2 DEF CipherKeepsLength
  <2> QED
    BY <1>1, <2>1, <2>2, <2>3, <2>4
<1>3. CASE config.mode # "encrypt"
  <2>1. Len(input) % BlockSize = 0 /\ Padded(plain)
    BY <1>3 DEF Processable
  <2>2. plain \in Seq(Byte) /\ Len(plain) = Len(input)
    BY <1>1, <2>1 DEF CipherKeepsLength
  <2>3. Processed(config, input) = Unpad(plain)
    BY <1>3 DEF Processed
  <2> HIDE DEF plain
  <2>4. Unpad(plain) \in Seq(Byte)
    BY <2>1, <2>2, PadUndoesUnpad
  <2>5. Len(Unpad(plain)) <= Len(plain)
    <3>1. plain[Len(plain)] \in 1 .. BlockSize /\ plain[Len(plain)] <= Len(plain)
      BY <2>1 DEF Padded
    <3> QED
      BY <1>1, <2>2, <3>1 DEF Unpad
  <2> QED
    BY <1>1, <2>2, <2>3, <2>4, <2>5
<1> QED
  BY <1>2, <1>3

(* A file operation that leaves a good session keeps the invariant.        *)
LEMMA SessionStep ==
  ASSUME DriverInv, NEW f \in File, NEW s, SessionOK(s), s.open => module = "live",
         session' = [session EXCEPT ![f] = s], UNCHANGED <<module, held>>
  PROVE  DriverInv'
<1>1. s \in Session
  BY DEF SessionOK
<1>2. session' \in [File -> Session]
  BY <1>1 DEF DriverInv
<1>3. \A g \in File : session'[g] = IF g = f THEN s ELSE session[g]
  BY DEF DriverInv
<1>4. \A g \in File : SessionOK(session'[g])
  BY <1>3 DEF DriverInv
<1>5. DriverWhole'
  BY <1>3 DEF DriverInv, DriverWhole, IsOpen
<1>6. (\A g \in File : SessionOK(session[g]))'
  BY <1>4 DEF SessionOK, Session, Processable, Processed, Closed, Emptied
<1> QED
  BY <1>2, <1>5, <1>6 DEF DriverInv

(* The empty string, and where reading starts.                             *)
LEMMA Zeros == <<>> \in Seq(Byte) /\ Len(<<>>) = 0 /\ MaxBuffer \in Nat /\ 0 \in Position
  BY BlockAssumption, DriverAssumption DEF Position

(* The sessions that open, SET_CONFIG, RESET and release leave behind.     *)
LEMMA EmptiedOK ==
  ASSUME NEW config \in Config \union {NoConfig},
         config # NoConfig => config.key \in LegalKey
  PROVE  /\ SessionOK(Emptied(TRUE, config)) /\ Emptied(TRUE, config).open
         /\ SessionOK(Closed) /\ ~Closed.open
<1>1. Emptied(TRUE, config) \in Session
  BY Zeros DEF Session, Emptied
<1>2. Closed \in Session
  BY Zeros DEF Session, Closed, Emptied
<1>3. SessionOK(Emptied(TRUE, config)) /\ Emptied(TRUE, config).open
  BY <1>1, Zeros DEF SessionOK, Emptied
<1>4. SessionOK(Closed) /\ ~Closed.open
  BY <1>2, Zeros DEF SessionOK, Closed, Emptied
<1> QED
  BY <1>3, <1>4

(* New input within the limit, and an old result given up.                 *)
LEMMA ClearedOK ==
  ASSUME NEW s \in Session, s.open, NEW input \in Seq(Byte),
         Len(input) <= MaxBuffer, s.config # NoConfig \/ input = <<>>,
         s.config # NoConfig => s.config.key \in LegalKey
  PROVE  LET t == ClearOutput([s EXCEPT !.input = input])
         IN  SessionOK(t) /\ t.open
<1> DEFINE t == ClearOutput([s EXCEPT !.input = input])
<1>1. t \in Session
  BY Zeros DEF Session, ClearOutput
<1>2. /\ t.open = s.open /\ t.config = s.config /\ t.input = input
      /\ t.output = <<>> /\ ~t.processed /\ t.offset = 0
  BY DEF Session, ClearOutput
<1> HIDE DEF t
<1>3. SessionOK(t) /\ t.open
  BY <1>1, <1>2, Zeros DEF SessionOK
<1> QED
  BY <1>3 DEF t

(* Any file operation but the ones of the next lemmas.                     *)
LEMMA SimpleKeeps ==
  ASSUME DriverInv, NEW f \in File,
         Open(f) \/ Release(f) \/ Reset(f) \/ \E c \in Config : SetConfig(f, c)
  PROVE  DriverInv'
<1>1. SessionOK(Fresh) /\ SessionOK(Closed) /\ ~Closed.open
  BY EmptiedOK DEF Fresh
<1>2. CASE Open(f)
  BY <1>1, <1>2, SessionStep DEF Open, DeviceThere
<1>3. CASE Release(f)
  BY <1>1, <1>3, SessionStep DEF Release
<1>4. CASE Reset(f)
  <2>1. module = "live"
    BY <1>4 DEF Reset, DriverInv, DriverWhole
  <2> QED
    BY <1>1, <1>4, <2>1, SessionStep DEF Reset
<1>5. CASE \E c \in Config : SetConfig(f, c)
  <2>1. PICK c \in Config : SetConfig(f, c)
    BY <1>5
  <2>2. module = "live"
    BY <2>1 DEF SetConfig, DriverInv, DriverWhole
  <2>3. SessionOK(Emptied(TRUE, c))
    BY <2>1, EmptiedOK DEF SetConfig
  <2> QED
    BY <2>1, <2>2, <2>3, SessionStep DEF SetConfig
<1> QED
  BY <1>2, <1>3, <1>4, <1>5

(* Each file operation keeps the invariant.                                *)
LEMMA WriteKeeps ==
  ASSUME DriverInv, NEW f \in File, NEW data \in Seq(Byte), Write(f, data)
  PROVE  DriverInv'
<1> DEFINE s == session[f]
<1>1. s.open /\ CanWrite(s, data) /\ UNCHANGED <<module, held>>
      /\ session' = [session EXCEPT ![f] = ClearOutput([s EXCEPT !.input = s.input \o data])]
  BY DEF Write, IsOpen
<1>2. /\ module = "live" /\ s \in Session /\ s.input \in Seq(Byte)
      /\ s.config # NoConfig => s.config.key \in LegalKey
  BY <1>1 DEF DriverInv, DriverWhole, IsOpen, SessionOK, Session
<1>3. s.input \o data \in Seq(Byte) /\ Len(s.input \o data) <= MaxBuffer
  BY <1>1, <1>2 DEF CanWrite
<1>4. SessionOK(ClearOutput([s EXCEPT !.input = s.input \o data]))
  BY <1>1, <1>2, <1>3, ClearedOK DEF CanWrite
<1> QED
  BY <1>1, <1>2, <1>4, SessionStep

(* PROCESS, whether it succeeds or fails.                                  *)
LEMMA ProcessKeeps ==
  ASSUME CipherKeepsLength, DriverInv, NEW f \in File, ProcessSucceeds(f) \/ ProcessFails(f)
  PROVE  DriverInv'
<1> DEFINE s == session[f]
           out == Processed(s.config, s.input)
           t == [s EXCEPT !.output = out, !.processed = TRUE, !.offset = 0]
<1>1. s.open /\ CanProcess(s) /\ UNCHANGED <<module, held>>
  BY DEF ProcessSucceeds, ProcessFails, IsOpen
<1>2. SessionOK(s) /\ module = "live" /\ s \in Session
  BY <1>1 DEF DriverInv, DriverWhole, IsOpen, SessionOK
<1>3. /\ s.config \in Config /\ s.config # NoConfig /\ s.config.key \in LegalKey
      /\ s.input \in Seq(Byte) /\ Len(s.input) <= MaxBuffer
  BY <1>1, <1>2 DEF CanProcess, SessionOK, Session
<1>4. CASE ProcessSucceeds(f)
  <2>1. session' = [session EXCEPT ![f] = t] /\ Processable(s.config, s.input)
    BY <1>4 DEF ProcessSucceeds
  <2>2. out \in Seq(Byte) /\ Len(out) \in Nat
    BY <1>3, <2>1, ProcessedBounded
  <2>3. /\ t \in Session /\ t.open = s.open /\ t.config = s.config /\ t.input = s.input
        /\ t.output = out /\ t.processed /\ t.offset = 0
    <3> HIDE DEF s, out
    <3> QED
      BY <1>2, <2>2, Zeros DEF Session
  <2>4. SessionOK(t) /\ t.open
    <3> HIDE DEF t
    <3> QED
      BY <1>1, <1>3, <2>1, <2>2, <2>3 DEF SessionOK
  <2> HIDE DEF t
  <2> QED
    BY <1>1, <1>2, <2>1, <2>4, SessionStep
<1>5. CASE ProcessFails(f)
  <2>1. session' = [session EXCEPT ![f] = ClearOutput(s)]
    BY <1>5 DEF ProcessFails
  <2>2. s = [s EXCEPT !.input = s.input]
    BY <1>2 DEF Session
  <2>3. SessionOK(ClearOutput(s))
    BY <1>1, <1>2, <1>3, <2>2, ClearedOK
  <2> QED
    BY <1>1, <1>2, <2>1, <2>3, SessionStep
<1> QED
  BY <1>4, <1>5

(* A read moves the position within the result.                            *)
LEMMA ReadKeeps ==
  ASSUME CipherKeepsLength, DriverInv, NEW f \in File, NEW n \in Nat, Read(f, n)
  PROVE  DriverInv'
<1> DEFINE s == session[f]
           o == s.offset + Copied(s, n)
           t == [s EXCEPT !.offset = o]
<1>1. s.open /\ Available(s) > 0 /\ session' = [session EXCEPT ![f] = t]
      /\ UNCHANGED <<module, held>>
  BY DEF Read, IsOpen, DriverInv
<1>2. SessionOK(s) /\ module = "live" /\ s \in Session
  BY <1>1 DEF DriverInv, DriverWhole, IsOpen, SessionOK
<1>3. s.processed /\ Len(s.output) \in Nat /\ s.offset \in 0 .. Len(s.output)
      /\ s.offset < Len(s.output)
  BY <1>1, <1>2 DEF SessionOK, Session, Available
<1>4. o \in 0 .. Len(s.output)
  BY <1>3 DEF Copied, Available
<1>5. Len(s.output) <= MaxBuffer + BlockSize
  <2>1. /\ s.config \in Config /\ s.config.key \in LegalKey
        /\ s.input \in Seq(Byte) /\ Len(s.input) <= MaxBuffer
    BY <1>2, <1>3 DEF SessionOK, Session
  <2> QED
    BY <1>2, <1>3, <2>1, ProcessedBounded DEF SessionOK
<1>6. o \in Position
  BY <1>3, <1>4, <1>5, BlockAssumption, DriverAssumption DEF Position
<1>7. /\ t \in Session /\ t.open = s.open /\ t.config = s.config /\ t.input = s.input
      /\ t.output = s.output /\ t.processed = s.processed /\ t.offset = o
  <2> HIDE DEF s, o
  <2> QED
    BY <1>2, <1>6 DEF Session
<1>8. SessionOK(t)
  <2> HIDE DEF t, o, s
  <2> QED
    BY <1>1, <1>2, <1>4, <1>7 DEF SessionOK
<1> HIDE DEF t
<1> QED
  BY <1>1, <1>2, <1>8, SessionStep

(* Loading and unloading.                                                  *)
LEMMA ModuleKeeps ==
  ASSUME DriverInv, ModuleStep
  PROVE  DriverInv'
<1>1. session' = session
  BY DEF ModuleStep, Insmod, Rmmod, Unloaded, InitTakes, GivesBack
<1>2. /\ module' \in {"unloaded", "loading", "live", "unloading"} /\ held' \subseteq Resource
      /\ DriverWhole'
  <2> USE DEF DriverInv, DriverWhole, IsOpen
  <2>1. CASE Insmod
    BY <2>1 DEF Insmod
  <2>2. CASE Rmmod
    BY <2>2 DEF Rmmod
  <2>3. CASE Unloaded
    BY <2>3 DEF Unloaded
  <2>4. CASE \E r \in Resource : InitTakes(r)
    BY <2>4 DEF InitTakes, Resource, Before
  <2>5. CASE \E r \in Resource : GivesBack(r)
    BY <2>5 DEF GivesBack, Resource, Before
  <2> QED
    BY <2>1, <2>2, <2>3, <2>4, <2>5 DEF ModuleStep
<1>3. session' \in [File -> Session]
  BY <1>1 DEF DriverInv
<1>4. (\A f \in File : SessionOK(session[f]))'
  BY <1>1 DEF DriverInv, SessionOK, Session, Processable, Processed, Closed, Emptied
<1> QED
  BY <1>2, <1>3, <1>4 DEF DriverInv

(* A step of the client that makes no system call.                         *)
LEMMA DriverUntouched ==
  ASSUME DriverInv, UNCHANGED driver
  PROVE  DriverInv' /\ session' = session
  BY DEF driver, DriverInv, DriverWhole, IsOpen, SessionOK, Session,
         Processable, Processed, Closed, Emptied

-----------------------------------------------------------------------------
(* The client.                                                             *)

CallState == [pc : {"idle", "open", "configure", "send", "process", "status", "receive", "out"},
              request : Request \union {NoAnswer},
              answer : Seq(Byte) \union {NoAnswer, Error}]

(* What the driver answers to a request, by its own padding.               *)
Computable(r) ==
  /\ r.config.key \in LegalKey
  /\ Len(r.input) <= MaxBuffer
  /\ Processable(r.config, r.input)
Result(r) == Processed(r.config, r.input)

(* A call k and the session s of its file: what has been done so far is    *)
(* done to the request of this call, and to no other.                      *)
CallOK(k, s) ==
  /\ s.open <=> k.pc \notin {"idle", "open"}
  /\ k.pc # "idle" => k.request \in Request
  /\ k.pc \in {"send", "process", "status", "receive"} =>
       s.config = k.request.config /\ s.config.key \in LegalKey
  /\ k.pc = "send" => s.input = <<>>
  /\ k.pc \in {"process", "status", "receive"} => s.input = k.request.input
  /\ k.pc \in {"status", "receive"} => s.processed /\ s.offset = 0
  /\ k.pc = "out" =>
       \/ k.answer = Error
       \/ Computable(k.request) /\ k.answer = Result(k.request)

ClientInv ==
  /\ DriverInv
  /\ call \in [Client -> CallState]
  /\ \A c \in Client : CallOK(call[c], session[c])

(* A step of one call.                                                     *)
LEMMA CallStep ==
  ASSUME ClientInv, DriverInv', NEW c \in Client,
         call' \in [Client -> CallState], CallOK(call'[c], session'[c]),
         \A d \in Client \ {c} : call'[d] = call[d] /\ session'[d] = session[d]
  PROVE  ClientInv'
<1>1. \A d \in Client : CallOK(call'[d], session'[d])
  BY DEF ClientInv
<1>2. (\A d \in Client : CallOK(call[d], session[d]))'
  BY <1>1 DEF CallOK, Computable, Result, Processable, Processed
<1> QED
  BY <1>2 DEF ClientInv

(* What follows from a call's step of these forms.                         *)
LEMMA ProceedForm ==
  ASSUME ClientInv, NEW c \in Client,
         NEW pc \in {"idle", "open", "configure", "send", "process", "status", "receive", "out"},
         Proceed(c, pc)
  PROVE  /\ call' \in [Client -> CallState]
         /\ call'[c].pc = pc /\ call'[c].request = call[c].request
         /\ call'[c].answer = call[c].answer
         /\ \A d \in Client \ {c} : call'[d] = call[d]
  BY DEF Proceed, ClientInv, CallState

(* The same for the steps that end in an error.                            *)
LEMMA GiveUpForm ==
  ASSUME ClientInv, NEW c \in Client, GiveUp(c)
  PROVE  /\ call' \in [Client -> CallState]
         /\ call'[c].pc = "out" /\ call'[c].request = call[c].request
         /\ call'[c].answer = Error
         /\ \A d \in Client \ {c} : call'[d] = call[d]
  BY DEF GiveUp, ClientInv, CallState

(* What the invariant says of the call of c.                               *)
LEMMA CallFacts ==
  ASSUME ClientInv, NEW c \in Client
  PROVE  /\ DriverInv /\ c \in File /\ call[c] \in CallState
         /\ SessionOK(session[c]) /\ session[c] \in Session
         /\ CallOK(call[c], session[c])
         /\ call[c].pc # "idle" =>
              /\ call[c].request \in Request /\ call[c].request # NoAnswer
              /\ call[c].request.config \in Config /\ call[c].request.input \in Seq(Byte)
  BY ClientAssumption DEF ClientInv, DriverInv, CallOK

(* Each step of a call keeps the invariant.                                *)
LEMMA AskKeeps ==
  ASSUME ClientInv, NEW c \in Client, NEW r \in Request, Ask(c, r)
  PROVE  ClientInv'
<1>1. DriverInv' /\ session' = session
  BY DriverUntouched DEF Ask, ClientInv
<1>2. /\ call' \in [Client -> CallState] /\ call'[c].pc = "open" /\ call'[c].request = r
      /\ \A d \in Client \ {c} : call'[d] = call[d]
  BY DEF Ask, ClientInv, CallState
<1>3. CallOK(call'[c], session'[c])
  BY <1>1, <1>2, CallFacts DEF Ask, CallOK
<1> QED
  BY <1>1, <1>2, <1>3, CallStep

(* open: a fresh session, or no call any more.                             *)
LEMMA OpenDeviceKeeps ==
  ASSUME ClientInv, NEW c \in Client, OpenDevice(c)
  PROVE  ClientInv'
<1>1. CASE Open(c) /\ Proceed(c, "configure")
  <2>1. DriverInv'
    BY <1>1, CallFacts, SimpleKeeps
  <2>2. session'[c] = Fresh /\ Fresh.open /\ \A d \in Client \ {c} : session'[d] = session[d]
    BY <1>1, CallFacts, ClientAssumption DEF Open, DriverInv, Fresh, Emptied
  <2>3. CallOK(call'[c], session'[c])
    BY <1>1, <2>2, CallFacts, ProceedForm DEF OpenDevice, CallOK
  <2> QED
    BY <1>1, <2>1, <2>2, <2>3, ProceedForm, CallStep
<1>2. CASE /\ call' = [call EXCEPT ![c].pc = "idle", ![c].answer = Error]
           /\ UNCHANGED driver
  <2>1. DriverInv' /\ session' = session
    BY <1>2, DriverUntouched DEF ClientInv
  <2>2. /\ call' \in [Client -> CallState] /\ call'[c].pc = "idle"
        /\ \A d \in Client \ {c} : call'[d] = call[d]
    BY <1>2 DEF ClientInv, CallState
  <2>3. CallOK(call'[c], session'[c])
    BY <2>1, <2>2, CallFacts DEF OpenDevice, CallOK
  <2> QED
    BY <2>1, <2>2, <2>3, CallStep
<1> QED
  BY <1>1, <1>2 DEF OpenDevice

(* SET_CONFIG: the session takes the request's configuration.              *)
LEMMA ConfigureKeeps ==
  ASSUME ClientInv, NEW c \in Client, Configure(c)
  PROVE  ClientInv'
<1> DEFINE config == call[c].request.config
<1>0. call[c].pc = "configure" /\ config \in Config
  BY CallFacts DEF Configure
<1>1. CASE SetConfig(c, config) /\ Proceed(c, "send")
  <2>1. DriverInv'
    BY <1>0, <1>1, CallFacts, SimpleKeeps
  <2>2. /\ session'[c] = Emptied(TRUE, config) /\ config.key \in LegalKey
        /\ \A d \in Client \ {c} : session'[d] = session[d]
    BY <1>1, CallFacts, ClientAssumption DEF SetConfig, DriverInv
  <2>3. /\ session'[c].open /\ session'[c].config = config /\ session'[c].input = <<>>
    BY <2>2 DEF Emptied
  <2>4. CallOK(call'[c], session'[c])
    BY <1>0, <1>1, <2>2, <2>3, CallFacts, ProceedForm DEF CallOK
  <2> QED
    BY <1>1, <2>1, <2>2, <2>4, ProceedForm, CallStep
<1>2. CASE GiveUp(c) /\ UNCHANGED driver
  <2>1. CallOK(call'[c], session'[c])
    BY <1>0, <1>2, CallFacts, GiveUpForm, DriverUntouched DEF CallOK
  <2> QED
    BY <1>2, <2>1, GiveUpForm, DriverUntouched, CallStep DEF ClientInv
<1> QED
  BY <1>1, <1>2 DEF Configure

(* write_all: the session holds the request's input.                       *)
LEMMA SendKeeps ==
  ASSUME ClientInv, NEW c \in Client, Send(c)
  PROVE  ClientInv'
<1> DEFINE input == call[c].request.input
           s == session[c]
<1>0. /\ call[c].pc = "send" /\ input \in Seq(Byte)
      /\ s.open /\ s.config = call[c].request.config /\ s.config.key \in LegalKey /\ s.input = <<>>
  BY CallFacts DEF Send, CallOK
<1>1. CASE Write(c, input) /\ Proceed(c, "process")
  <2>1. DriverInv'
    BY <1>0, <1>1, CallFacts, WriteKeeps
  <2>2. /\ session'[c] = ClearOutput([s EXCEPT !.input = s.input \o input])
        /\ \A d \in Client \ {c} : session'[d] = session[d]
    BY <1>1, CallFacts, ClientAssumption DEF Write, DriverInv
  <2>3. session'[c].open /\ session'[c].config = s.config /\ session'[c].input = input
    <3>1. s.input \o input = input
      BY <1>0
    <3> HIDE DEF input
    <3> QED
      BY <1>0, <2>2, <3>1, CallFacts DEF ClearOutput, Session
  <2>4. CallOK(call'[c], session'[c])
    BY <1>0, <1>1, <2>3, CallFacts, ProceedForm DEF CallOK
  <2> QED
    BY <1>1, <2>1, <2>2, <2>4, ProceedForm, CallStep
<1>2. CASE input = <<>> /\ Proceed(c, "process") /\ UNCHANGED driver
  <2>1. CallOK(call'[c], session'[c])
    BY <1>0, <1>2, CallFacts, ProceedForm, DriverUntouched DEF CallOK
  <2> QED
    BY <1>2, <2>1, ProceedForm, DriverUntouched, CallStep DEF ClientInv
<1>3. CASE GiveUp(c) /\ UNCHANGED driver
  <2>1. CallOK(call'[c], session'[c])
    BY <1>0, <1>3, CallFacts, GiveUpForm, DriverUntouched DEF CallOK
  <2> QED
    BY <1>3, <2>1, GiveUpForm, DriverUntouched, CallStep DEF ClientInv
<1> QED
  BY <1>1, <1>2, <1>3 DEF Send

(* PROCESS: the session's result is the one of this request.               *)
LEMMA RunProcessKeeps ==
  ASSUME CipherKeepsLength, ClientInv, NEW c \in Client, RunProcess(c)
  PROVE  ClientInv'
<1> DEFINE s == session[c]
<1>0. /\ call[c].pc = "process" /\ s.open
      /\ s.config = call[c].request.config /\ s.config.key \in LegalKey
      /\ s.input = call[c].request.input
  BY CallFacts DEF RunProcess, CallOK
<1>1. CASE ProcessSucceeds(c) /\ Proceed(c, "status")
  <2>1. DriverInv'
    BY <1>1, CallFacts, ProcessKeeps
  <2>2. /\ session'[c] = [s EXCEPT !.output = Processed(s.config, s.input),
                                   !.processed = TRUE, !.offset = 0]
        /\ \A d \in Client \ {c} : session'[d] = session[d]
    BY <1>1, CallFacts, ClientAssumption DEF ProcessSucceeds, DriverInv
  <2>3. /\ session'[c].open = s.open /\ session'[c].config = s.config
        /\ session'[c].input = s.input /\ session'[c].processed /\ session'[c].offset = 0
    BY <2>2, CallFacts DEF Session
  <2>4. CallOK(call'[c], session'[c])
    BY <1>0, <1>1, <2>3, CallFacts, ProceedForm DEF CallOK
  <2> QED
    BY <1>1, <2>1, <2>2, <2>4, ProceedForm, CallStep
<1>2. CASE ProcessFails(c) /\ GiveUp(c)
  <2>1. DriverInv'
    BY <1>2, CallFacts, ProcessKeeps
  <2>2. /\ session'[c] = ClearOutput(s)
        /\ \A d \in Client \ {c} : session'[d] = session[d]
    BY <1>2, CallFacts, ClientAssumption DEF ProcessFails, DriverInv
  <2>3. session'[c].open = s.open
    BY <2>2, CallFacts DEF ClearOutput, Session
  <2>4. CallOK(call'[c], session'[c])
    BY <1>0, <1>2, <2>3, CallFacts, GiveUpForm DEF CallOK
  <2> QED
    BY <1>2, <2>1, <2>2, <2>4, GiveUpForm, CallStep
<1>3. CASE GiveUp(c) /\ UNCHANGED driver
  <2>1. CallOK(call'[c], session'[c])
    BY <1>0, <1>3, CallFacts, GiveUpForm, DriverUntouched DEF CallOK
  <2> QED
    BY <1>3, <2>1, GiveUpForm, DriverUntouched, CallStep DEF ClientInv
<1> QED
  BY <1>1, <1>2, <1>3 DEF RunProcess

(* GET_STATUS changes nothing in the session.                              *)
LEMMA AskStatusKeeps ==
  ASSUME ClientInv, NEW c \in Client, AskStatus(c)
  PROVE  ClientInv'
<1>1. call[c].pc = "status" /\ UNCHANGED driver
  BY DEF AskStatus
<1>2. CASE Proceed(c, "receive")
  <2>1. CallOK(call'[c], session'[c])
    BY <1>1, <1>2, CallFacts, ProceedForm, DriverUntouched DEF CallOK
  <2> QED
    BY <1>1, <1>2, <2>1, ProceedForm, DriverUntouched, CallStep DEF ClientInv
<1>3. CASE GiveUp(c)
  <2>1. CallOK(call'[c], session'[c])
    BY <1>1, <1>3, CallFacts, GiveUpForm, DriverUntouched DEF CallOK
  <2> QED
    BY <1>1, <1>3, <2>1, GiveUpForm, DriverUntouched, CallStep DEF ClientInv
<1> QED
  BY <1>2, <1>3 DEF AskStatus

(* What read_all hands over is the whole result, from its first byte.      *)
LEMMA ReceiveKeeps ==
  ASSUME CipherKeepsLength, ClientInv, NEW c \in Client, Receive(c)
  PROVE  ClientInv'
<1> DEFINE s == session[c]
           r == call[c].request
<1>0. /\ call[c].pc = "receive" /\ s.open /\ r \in Request
      /\ s.config = r.config /\ s.config.key \in LegalKey /\ s.input = r.input
      /\ s.processed /\ s.offset = 0
  BY CallFacts DEF Receive, CallOK
<1>1. Computable(r) /\ s.output = Result(r) /\ s.output \in Seq(Byte)
  BY <1>0, CallFacts DEF SessionOK, Session, Computable, Result
<1>2. CASE /\ Read(c, Len(s.output))
           /\ call' = [call EXCEPT ![c].pc = "out", ![c].answer =
                         SubSeq(s.output, s.offset + 1, Len(s.output))]
  <2>1. DriverInv'
    BY <1>1, <1>2, CallFacts, ReadKeeps
  <2>2. /\ session'[c].open
        /\ \A d \in Client \ {c} : session'[d] = session[d]
    BY <1>0, <1>2, CallFacts, ClientAssumption DEF Read, DriverInv, Session
  <2>3. SubSeq(s.output, s.offset + 1, Len(s.output)) = s.output
    BY <1>0, <1>1
  <2>4. /\ call' \in [Client -> CallState] /\ call'[c].pc = "out" /\ call'[c].request = r
        /\ call'[c].answer = s.output /\ \A d \in Client \ {c} : call'[d] = call[d]
    <3> DEFINE out == s.output
    <3>1. call' = [call EXCEPT ![c].pc = "out", ![c].answer = out] /\ out \in Seq(Byte)
      BY <1>1, <1>2, <2>3
    <3> HIDE DEF out
    <3>2. call' \in [Client -> CallState] /\ call'[c].pc = "out" /\ call'[c].request = r
          /\ call'[c].answer = out /\ \A d \in Client \ {c} : call'[d] = call[d]
      BY <3>1 DEF ClientInv, CallState
    <3> QED
      BY <3>2 DEF out
  <2>5. CallOK(call'[c], session'[c])
    BY <1>0, <1>1, <2>2, <2>4 DEF CallOK
  <2> QED
    BY <2>1, <2>2, <2>4, <2>5, CallStep
<1>3. CASE /\ s.output = <<>>
           /\ call' = [call EXCEPT ![c].pc = "out", ![c].answer = <<>>]
           /\ UNCHANGED driver
  <2>1. /\ call' \in [Client -> CallState] /\ call'[c].pc = "out" /\ call'[c].request = r
        /\ call'[c].answer = <<>> /\ \A d \in Client \ {c} : call'[d] = call[d]
    BY <1>3, Zeros DEF ClientInv, CallState
  <2>2. CallOK(call'[c], session'[c])
    BY <1>0, <1>1, <1>3, <2>1, CallFacts, DriverUntouched DEF CallOK
  <2> QED
    BY <1>3, <2>1, <2>2, DriverUntouched, CallStep DEF ClientInv
<1>4. CASE GiveUp(c) /\ UNCHANGED driver
  <2>1. CallOK(call'[c], session'[c])
    BY <1>0, <1>4, CallFacts, GiveUpForm, DriverUntouched DEF CallOK
  <2> QED
    BY <1>4, <2>1, GiveUpForm, DriverUntouched, CallStep DEF ClientInv
<1> QED
  BY <1>2, <1>3, <1>4 DEF Receive

(* Whatever happened, the file is closed on the way out.                   *)
LEMMA ReturnKeeps ==
  ASSUME ClientInv, NEW c \in Client, Return(c)
  PROVE  ClientInv'
<1>1. call[c].pc = "out" /\ Release(c) /\ Proceed(c, "idle")
  BY DEF Return
<1>2. DriverInv'
  BY <1>1, CallFacts, SimpleKeeps
<1>3. ~session'[c].open /\ \A d \in Client \ {c} : session'[d] = session[d]
  BY <1>1, CallFacts, ClientAssumption DEF Release, DriverInv, Closed, Emptied
<1>4. CallOK(call'[c], session'[c])
  BY <1>1, <1>3, CallFacts, ProceedForm DEF CallOK
<1> QED
  BY <1>1, <1>2, <1>3, <1>4, ProceedForm, CallStep

(* Other programs and the module: no session of a client changes.          *)
LEMMA OthersKeep ==
  ASSUME CipherKeepsLength, ClientInv, UNCHANGED call,
         (\E f \in File \ Client : AnyOperation(f)) \/ ModuleStep
  PROVE  ClientInv'
<1>1. DriverInv' /\ \A c \in Client : session'[c] = session[c]
  <2>1. CASE ModuleStep
    <3>1. session' = session
      BY <2>1 DEF ModuleStep, Insmod, Rmmod, Unloaded, InitTakes, GivesBack
    <3> QED
      BY <2>1, <3>1, ModuleKeeps DEF ClientInv
  <2>2. CASE \E f \in File \ Client : AnyOperation(f)
    <3>1. PICK f \in File \ Client : AnyOperation(f)
      BY <2>2
    <3>2. \A c \in Client : session'[c] = session[c]
      BY <3>1, ClientAssumption
      DEF AnyOperation, Open, Release, Reset, ProcessSucceeds, ProcessFails, SetConfig, Write,
          Read, ClientInv, DriverInv
    <3>3. MaxBuffer \in Nat /\ Data \subseteq Seq(Byte)
      BY DriverAssumption
    <3>4. DriverInv'
      BY <3>1, <3>3, SimpleKeeps, ProcessKeeps, WriteKeeps, ReadKeeps DEF AnyOperation, ClientInv
    <3> QED
      BY <3>2, <3>4
  <2> QED
    BY <2>1, <2>2
<1>2. (\A c \in Client : CallOK(call[c], session[c]))'
  BY <1>1 DEF ClientInv, CallOK, Computable, Result, Processable, Processed
<1> QED
  BY <1>1, <1>2 DEF ClientInv

(* The first state: no session, no call.                                   *)
LEMMA InitKept == Init => ClientInv
<1> SUFFICES ASSUME Init PROVE ClientInv
  OBVIOUS
<1>1. SessionOK(Closed) /\ Closed \in Session /\ ~Closed.open
  BY EmptiedOK DEF SessionOK
<1>2. DriverInv
  BY <1>1 DEF Init, DriverInit, DriverInv, DriverWhole, IsOpen
<1>3. call \in [Client -> CallState]
  BY DEF Init, CallState
<1>4. \A c \in Client : CallOK(call[c], session[c])
  BY <1>1, ClientAssumption DEF Init, DriverInit, CallOK
<1> QED
  BY <1>2, <1>3, <1>4 DEF ClientInv

(* Every step keeps the invariant.                                         *)
LEMMA NextKeeps ==
  ASSUME CipherKeepsLength, ClientInv, [Next]_vars
  PROVE  ClientInv'
<1>1. ASSUME NEW c \in Client, Call(c) PROVE ClientInv'
  BY <1>1, OpenDeviceKeeps, ConfigureKeeps, SendKeeps, RunProcessKeeps, AskStatusKeeps,
     ReceiveKeeps, ReturnKeeps DEF Call
<1>2. ASSUME NEW c \in Client, NEW r \in Request, Ask(c, r) PROVE ClientInv'
  BY <1>2, AskKeeps
<1>3. CASE UNCHANGED vars
  <2>1. DriverInv' /\ session' = session /\ call' = call
    BY <1>3, DriverUntouched DEF vars, ClientInv
  <2> QED
    BY <2>1 DEF ClientInv, CallOK, CallState, Computable, Result, Processable, Processed
<1> QED
  BY <1>1, <1>2, <1>3, OthersKeep DEF Next

-----------------------------------------------------------------------------
(* The client implements CryptoService.                                    *)

pendingOf == [c \in Client |-> IF call[c].pc = "idle" THEN NoAnswer ELSE call[c].request]
answerOf == [c \in Client |-> IF call[c].pc = "idle" THEN call[c].answer ELSE NoAnswer]

(* What the caller sees is a function of the calls alone, client by client. *)
LEMMA SeenFromCall ==
  ASSUME NEW c \in Client, \A d \in Client \ {c} : call'[d] = call[d]
  PROVE  /\ pendingOf' = [pendingOf EXCEPT ![c] =
                            IF call'[c].pc = "idle" THEN NoAnswer ELSE call'[c].request]
         /\ answerOf' = [answerOf EXCEPT ![c] =
                            IF call'[c].pc = "idle" THEN call'[c].answer ELSE NoAnswer]
  BY DEF pendingOf, answerOf

(* A step inside a call, and one of anything else, shows its caller        *)
(* nothing.                                                                *)
LEMMA InsideUnseen ==
  ASSUME ClientInv, NEW c \in Client, call[c].pc # "idle", call'[c].pc # "idle",
         call'[c].request = call[c].request,
         \A d \in Client \ {c} : call'[d] = call[d]
  PROVE  UNCHANGED <<pendingOf, answerOf>>
  BY DEF pendingOf, answerOf

(* What the driver answers is right: its padding is PKCS #7.               *)
LEMMA ResultIsRight ==
  ASSUME CipherKeepsLength, NEW r \in Request, Computable(r)
  PROVE  Right(r, Result(r))
<1> DEFINE c == r.config
           s == r.input
           plain == CbcDecrypt(c.key, c.iv, s)
<1>1. /\ c \in Config /\ s \in Seq(Byte) /\ c.key \in LegalKey /\ c.iv \in Iv
      /\ Len(s) \in Nat /\ Len(s) <= MaxBuffer /\ Processable(c, s) /\ Result(r) = Processed(c, s)
  BY ClientAssumption DEF Computable, Result, Config
<1>2. CASE c.mode = "encrypt"
  <2> DEFINE n == PadLength(Len(s))
  <2>1. n \in 1 .. BlockSize /\ (Len(s) + n) % BlockSize = 0
    BY <1>1, PadLengthRange
  <2>2. Processed(c, s) = CbcEncrypt(c.key, c.iv, s \o [i \in 1 .. n |-> n])
    BY <1>2 DEF Processed, Pad
  <2> HIDE DEF n
  <2> QED
    BY <1>1, <1>2, <2>1, <2>2 DEF Right
<1>3. CASE c.mode # "encrypt"
  <2>1. Len(s) % BlockSize = 0 /\ Padded(plain) /\ Processed(c, s) = Unpad(plain)
    BY <1>1, <1>3 DEF Processable, Processed
  <2>2. plain \in Seq(Byte)
    BY <1>1, <2>1 DEF CipherKeepsLength
  <2> DEFINE n == PadLength(Len(Unpad(plain)))
  <2>3. Unpad(plain) \in Seq(Byte) /\ Pad(Unpad(plain)) = plain
    BY <2>1, <2>2, PadUndoesUnpad
  <2>4. n \in 1 .. BlockSize
    BY <2>3, PadLengthRange
  <2>5. plain = Unpad(plain) \o [i \in 1 .. n |-> n]
    BY <2>3 DEF Pad
  <2> HIDE DEF n
  <2> QED
    BY <1>1, <1>3, <2>1, <2>4, <2>5 DEF Right
<1> QED
  BY <1>2, <1>3

(* A call's step shows its caller nothing, or is one of the service.       *)
LEMMA CallServes ==
  ASSUME CipherKeepsLength, ClientInv, NEW c \in Client, Call(c)
  PROVE  Service!Fail(c) \/ Service!Serve(c) \/ UNCHANGED <<pendingOf, answerOf>>
<1>1. call[c].pc # "idle" /\ pendingOf[c] = call[c].request /\ pendingOf[c] # NoAnswer
  BY CallFacts DEF Call, OpenDevice, Configure, Send, RunProcess, AskStatus, Receive, Return,
     pendingOf
<1>2. ASSUME NEW pc \in {"configure", "send", "process", "status", "receive"}, Proceed(c, pc)
      PROVE  UNCHANGED <<pendingOf, answerOf>>
  BY <1>1, <1>2, ProceedForm, InsideUnseen
<1>3. ASSUME GiveUp(c) PROVE UNCHANGED <<pendingOf, answerOf>>
  BY <1>1, <1>3, GiveUpForm, InsideUnseen
<1>4. CASE OpenDevice(c) /\ ~Proceed(c, "configure")
  <2>1. call' = [call EXCEPT ![c].pc = "idle", ![c].answer = Error]
    BY <1>4 DEF OpenDevice
  <2>2. /\ call'[c].pc = "idle" /\ call'[c].answer = Error
        /\ \A d \in Client \ {c} : call'[d] = call[d]
    BY <2>1 DEF ClientInv, CallState
  <2>3. Service!Fail(c)
    BY <1>1, <2>2, SeenFromCall DEF Service!Fail, pendingOf, answerOf
  <2> QED
    BY <2>3
<1>5. CASE Receive(c) /\ ~GiveUp(c)
  <2>1. PICK out : call' = [call EXCEPT ![c].pc = "out", ![c].answer = out]
    BY <1>5 DEF Receive
  <2>2. /\ call'[c].pc = "out" /\ call'[c].request = call[c].request
        /\ \A d \in Client \ {c} : call'[d] = call[d]
    BY <2>1 DEF ClientInv, CallState
  <2> QED
    BY <1>1, <2>2, InsideUnseen
<1>6. CASE Return(c)
  <2>1. /\ call'[c].pc = "idle" /\ call'[c].answer = call[c].answer
        /\ \A d \in Client \ {c} : call'[d] = call[d]
    BY <1>6, ProceedForm DEF Return
  <2>2. \/ call[c].answer = Error
        \/ Right(call[c].request, call[c].answer)
    BY <1>1, <1>6, CallFacts, ResultIsRight DEF Return, CallOK
  <2>3. Service!Fail(c) \/ Service!Serve(c)
    BY <1>1, <2>1, <2>2, SeenFromCall DEF Service!Fail, Service!Serve, pendingOf, answerOf
  <2> QED
    BY <2>3
<1>7. CASE \/ OpenDevice(c) /\ Proceed(c, "configure")
           \/ Receive(c) /\ GiveUp(c)
           \/ Configure(c) \/ Send(c) \/ RunProcess(c) \/ AskStatus(c)
  BY <1>2, <1>3, <1>7 DEF Configure, Send, RunProcess, AskStatus
<1> QED
  BY <1>4, <1>5, <1>6, <1>7 DEF Call

(* Asking is asking.                                                       *)
LEMMA AskServes ==
  ASSUME ClientInv, NEW c \in Client, NEW r \in Request, Ask(c, r)
  PROVE  Service!Ask(c, r)
<1>1. /\ call[c].pc = "idle" /\ call'[c].pc = "open" /\ call'[c].request = r
      /\ \A d \in Client \ {c} : call'[d] = call[d]
  BY DEF Ask, ClientInv, CallState
<1> QED
  BY <1>1, SeenFromCall DEF Service!Ask, pendingOf, answerOf

(* Every step of the client is a step of the service or shows nothing.     *)
LEMMA ServiceStep ==
  ASSUME CipherKeepsLength, ClientInv, [Next]_vars
  PROVE  [Service!Next]_<<pendingOf, answerOf>>
<1>1. CASE \E c \in Client : Call(c)
  BY <1>1, CallServes DEF Service!Next
<1>2. CASE \E c \in Client : \E r \in Request : Ask(c, r)
  BY <1>2, AskServes DEF Service!Next
<1>3. CASE UNCHANGED call
  BY <1>3 DEF pendingOf, answerOf
<1> QED
  BY <1>1, <1>2, <1>3 DEF Next, vars

-----------------------------------------------------------------------------
(* The theorems.                                                           *)

(* The invariant of device and clients.                                    *)
THEOREM ClientInvariant == CipherKeepsLength /\ Spec => []ClientInv
<1> SUFFICES ASSUME CipherKeepsLength PROVE Spec => []ClientInv
  OBVIOUS
<1>1. ClientInv /\ [Next]_vars => ClientInv'
  BY NextKeeps
<1> QED
  BY <1>1, InitKept, PTL DEF Spec

(* The device's four invariants, for every use of it that other programs,  *)
(* threads that share a file, and clients may make.                        *)
THEOREM DeviceSound ==
  CipherKeepsLength /\ Spec => [](DriverTypeOK /\ OutputCurrent /\ BuffersBounded /\ DriverWhole)
<1>1. ClientInv => DriverTypeOK /\ OutputCurrent /\ BuffersBounded /\ DriverWhole
  BY DriverInvMeans DEF ClientInv
<1> QED
  BY <1>1, ClientInvariant, PTL

(* No call of the client leaves its file open, or uses one that is not.    *)
THEOREM NoFileLeaks == CipherKeepsLength /\ Spec => []FilesClosed
<1>1. ClientInv => FilesClosed
  BY DEF ClientInv, CallOK, FilesClosed
<1> QED
  BY <1>1, ClientInvariant, PTL

(* KeepsService: each call answers its own request, with what the cipher   *)
(* makes of it, or reports an error.                                       *)
THEOREM ClientKeepsService == CipherKeepsLength /\ Spec => KeepsService
<1> SUFFICES ASSUME CipherKeepsLength PROVE Spec => KeepsService
  OBVIOUS
<1>1. Init => Service!Init
  BY DEF Init, Service!Init
<1>2. ClientInv /\ [Next]_vars => [Service!Next]_<<pendingOf, answerOf>>
  BY ServiceStep
<1> QED
  BY <1>1, <1>2, ClientInvariant, PTL DEF Spec, KeepsService, Service!Spec, pendingOf, answerOf

(* Decrypting undoes encrypting: where the cipher undoes itself, the       *)
(* driver accepts what it encrypted and gives the first input back, of any *)
(* length, the empty one included.                                         *)
THEOREM DecryptUndoesEncrypt ==
  ASSUME CipherKeepsLength, NEW key \in LegalKey, NEW iv \in Iv, NEW input \in Seq(Byte),
         NEW encrypt \in Config, encrypt.mode = "encrypt", encrypt.key = key, encrypt.iv = iv,
         NEW decrypt \in Config, decrypt.mode = "decrypt", decrypt.key = key, decrypt.iv = iv,
         \A s \in Seq(Byte) :
           Len(s) % BlockSize = 0 => CbcDecrypt(key, iv, CbcEncrypt(key, iv, s)) = s
  PROVE  /\ Processable(encrypt, input)
         /\ Processable(decrypt, Processed(encrypt, input))
         /\ Processed(decrypt, Processed(encrypt, input)) = input
<1> DEFINE padded == Pad(input)
           cipher == CbcEncrypt(key, iv, padded)
<1>1. padded \in Seq(Byte) /\ Len(padded) = Len(input) + PadLength(Len(input))
  BY PadShape
<1>2. PadLength(Len(input)) \in 1 .. BlockSize /\ Len(padded) % BlockSize = 0
  BY <1>1, PadLengthRange
<1>3. cipher \in Seq(Byte) /\ Len(cipher) = Len(padded) /\ CbcDecrypt(key, iv, cipher) = padded
  BY <1>1, <1>2 DEF CipherKeepsLength
<1>4. Padded(padded) /\ Unpad(padded) = input
  BY UnpadUndoesPad
<1>5. cipher # <<>>
  <2>1. Len(padded) > 0
    BY <1>1, <1>2
  <2> HIDE DEF cipher, padded
  <2> QED
    BY <1>3, <2>1
<1>6. Processed(encrypt, input) = cipher
  BY DEF Processed
<1> QED
  BY <1>2, <1>3, <1>4, <1>5, <1>6 DEF Processable, Processed

=============================================================================
