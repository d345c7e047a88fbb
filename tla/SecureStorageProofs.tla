------------------------ MODULE SecureStorageProofs ------------------------
(***************************************************************************)
(* Proofs about the secure storage, for any number of processes and files, *)
(* with failures and kills: its safety properties, from one invariant that *)
(* speaks of each process by itself.                                       *)
(***************************************************************************)
EXTENDS SecureStorage, TLAPS

Answers == Data \union {Garbage, Error, Done, Failed} \union SUBSET Valid

CallState ==
  {Idle}
    \union [pc : SimplePc, req : Request]
    \union [pc : {"read"}, req : Request, size : Nat]
    \union [pc : {"readdir", "entry"}, req : Request, todo : SUBSET Valid,
            listed : SUBSET (Valid \ Hidden), at : Valid \union {None}]
    \union [pc : {"done"}, req : Request, answer : Answers]

Underway(o) == o.pc \notin {"idle", "done"}

(* What a call o with temporary files t knows of the files, where s is     *)
(* what each of them was since the call began, and st what it is now.      *)
SaveOK(o, t, s) ==
  /\ o.pc \in {"check", "encrypt", "open", "write", "rename"} =>
       o.req.kind \in {"create", "update"} /\ o.req.name \in Valid
  /\ o.pc \in {"encrypt", "open", "write", "rename"} /\ o.req.kind = "create" =>
       None \in s[o.req.name]
  /\ o.pc = "rename" => t[o.req.name] = Content(o.req)
  /\ \A n \in Valid :
       t[n] \notin {None, Left} => o.pc \in {"write", "rename"} /\ o.req.name = n

ReadOK(o, s) ==
  /\ o.pc \in {"stat", "read"} => o.req.kind = "read" /\ o.req.name \in Valid
  /\ o.pc = "read" => \E file \in s[o.req.name] : file # None /\ o.size \in Sizes(file)

DeleteOK(o) == o.pc = "unlink" => o.req.kind = "delete" /\ o.req.name \in Valid

(* An entry that was passed by was missing at some moment, one that was    *)
(* found was there at some moment.                                         *)
ListOK(o, s) ==
  o.pc \in {"readdir", "entry"} =>
    /\ o.req.kind = "list"
    /\ \A n \in (Valid \ Hidden) \ (o.todo \union o.listed) :
         None \in s[n] \/ (o.pc = "entry" /\ n = o.at)
    /\ \A n \in o.listed : s[n] # {None}
    /\ o.pc = "entry" => o.at \in Valid \ Hidden /\ s[o.at] # {None}

(* What o answers is a content of file, or of a cut of it.                 *)
Gives(file, versions, o) ==
  IF o.answer = Garbage THEN file.key # o.req.key
  ELSE /\ file.key = o.req.key
       /\ \/ o.answer = file.data
          \/ \E other \in versions : o.answer \in CutsOf(file, other)

(* The answers: ReadSound, ReadComplete, ListSound and SuccessIsReal of    *)
(* one call.  A list is complete only if no error of readdir goes unseen.  *)
AnswerOK(o, s) ==
  o.pc = "done" =>
    LET n == o.req.name IN
    /\ o.req.kind = "read" /\ o.answer \notin {Error, Failed} =>
         \E file \in s[n] \ {None, Alien} : Gives(file, s[n] \ {None}, o)
    /\ o.req.kind = "read" /\ o.answer = Error /\ o.req.key \in LegalKey /\ n \in Valid =>
         ~\E file \in File :
            s[n] = {file} /\ file.key = o.req.key /\ Blocks[file.data] <= MaxBlocks
    /\ "readdir" \notin Fault /\ o.req.kind = "list" /\ o.answer # Failed =>
         IF o.answer = Error THEN \E m \in Valid : None \in s[m] /\ s[m] # {None}
         ELSE /\ \A m \in Valid \ Hidden : None \notin s[m] => m \in o.answer
              /\ \A m \in o.answer : s[m] # {None}
    /\ o.req.kind \in {"create", "update"} /\ o.answer = Done => Content(o.req) \in s[n]
    /\ o.req.kind = "delete" /\ o.answer = Done => None \in s[n]

(* A call that is under way has seen what the files it concerns are now.   *)
UpToDate(o, s, st) ==
  Underway(o) => \A n \in Valid : Concerns(o.req, n) => st[n] \in s[n]

ProcOK(o, t, s, st) ==
  /\ o \in CallState
  /\ t \in [Valid -> File \union {None, Partial, Left}]
  /\ s \in [Valid -> SUBSET Stored]
  /\ UpToDate(o, s, st)
  /\ SaveOK(o, t, s)
  /\ ReadOK(o, s)
  /\ DeleteOK(o)
  /\ ListOK(o, s)
  /\ AnswerOK(o, s)

StorageInv ==
  /\ store \in [Valid -> Stored]
  /\ temp \in [Proc -> [Valid -> File \union {None, Partial, Left}]]
  /\ seen \in [Proc -> [Valid -> SUBSET Stored]]
  /\ op \in [Proc -> CallState]
  /\ \A p \in Proc : ProcOK(op[p], temp[p], seen[p], store)

-----------------------------------------------------------------------------
(* Requests and calls by their kind.                                       *)

(* The fields of a request follow from its kind.                           *)
LEMMA RequestShape ==
  ASSUME NEW req \in Request
  PROVE  /\ req.kind \in {"create", "update", "read", "delete", "list"}
         /\ req.kind \in {"create", "update"} => Content(req) \in File
         /\ req.kind # "list" => req.name \in Name
  BY StorageAssumption DEF Requests, Content, File

(* The fields of a call follow from where it is.                           *)
LEMMA CallShape ==
  ASSUME NEW o \in CallState
  PROVE  /\ o.pc = "idle" => o = Idle
         /\ o.pc # "idle" => o.req \in Request
         /\ o.pc \in SimplePc => o \in [pc : SimplePc, req : Request]
         /\ o.pc = "read" => o \in [pc : {"read"}, req : Request, size : Nat]
         /\ o.pc \in {"readdir", "entry"} =>
              o \in [pc : {"readdir", "entry"}, req : Request, todo : SUBSET Valid,
                     listed : SUBSET (Valid \ Hidden), at : Valid \union {None}]
         /\ o.pc = "done" => o \in [pc : {"done"}, req : Request, answer : Answers]
         /\ o.pc \in SimplePc \union {"idle", "read", "readdir", "entry", "done"}
  BY DEF CallState, Idle, SimplePc

(* A call that has seen more files is as good as before, unless it has     *)
(* answered.                                                               *)
LEMMA SeenGrows ==
  ASSUME NEW o, NEW t, NEW s, NEW st, NEW n \in Valid, NEW file \in Stored,
         ProcOK(o, t, s, st), NEW s2, NEW st2,
         st \in [Valid -> Stored],
         st2 = [st EXCEPT ![n] = file],
         s2 = IF Underway(o) /\ Concerns(o.req, n)
              THEN [s EXCEPT ![n] = s[n] \union {file}] ELSE s
  PROVE  ProcOK(o, t, s2, st2)
<1>1. /\ s2 \in [Valid -> SUBSET Stored]
      /\ \A m \in Valid : s[m] \subseteq s2[m]
      /\ \A m \in Valid : s2[m] # s[m] => m = n /\ Concerns(o.req, n) /\ file \in s2[n]
      /\ ~Underway(o) => s2 = s
      /\ Underway(o) /\ Concerns(o.req, n) => file \in s2[n]
  BY DEF ProcOK
<1>2. UpToDate(o, s2, st2)
  BY <1>1 DEF ProcOK, UpToDate
<1>3. SaveOK(o, t, s2) /\ ReadOK(o, s2)
  BY <1>1 DEF ProcOK, SaveOK, ReadOK
<1>4. ListOK(o, s2)
  <2> SUFFICES ASSUME o.pc \in {"readdir", "entry"} PROVE ListOK(o, s2)
    BY DEF ListOK
  <2>1. \A m \in Valid : s[m] # {None} /\ s[m] # {} => s2[m] # {None}
    BY <1>1
  <2>2. \A m \in Valid : s[m] # {}
    BY DEF ProcOK, UpToDate, ListOK, Concerns, Underway
  <2>3. o.listed \subseteq Valid
    BY CallShape DEF ProcOK
  <2> QED
    BY <1>1, <2>1, <2>2, <2>3 DEF ProcOK, ListOK
<1>5. AnswerOK(o, s2)
  BY <1>1 DEF ProcOK, AnswerOK, Underway
<1> QED
  BY <1>1, <1>2, <1>3, <1>4, <1>5 DEF ProcOK

-----------------------------------------------------------------------------
(* Steps of one process p.                                                 *)

(* A step of p that changes no file.                                       *)
LEMMA QuietStep ==
  ASSUME StorageInv, NEW p \in Proc, NEW o, NEW t, NEW s,
         op' = [op EXCEPT ![p] = o], temp' = [temp EXCEPT ![p] = t],
         seen' = [seen EXCEPT ![p] = s], UNCHANGED store, ProcOK(o, t, s, store)
  PROVE  StorageInv'
<1>1. \A q \in Proc :
        /\ op'[q] = (IF q = p THEN o ELSE op[q])
        /\ temp'[q] = (IF q = p THEN t ELSE temp[q])
        /\ seen'[q] = (IF q = p THEN s ELSE seen[q])
  BY DEF StorageInv
<1>2. \A q \in Proc : ProcOK(op'[q], temp'[q], seen'[q], store')
  BY <1>1 DEF StorageInv
<1>3. (\A q \in Proc : ProcOK(op[q], temp[q], seen[q], store))'
  BY <1>2
<1>4. /\ o \in CallState /\ t \in [Valid -> File \union {None, Partial, Left}]
      /\ s \in [Valid -> SUBSET Stored]
  BY DEF ProcOK
<1> QED
  BY <1>3, <1>4 DEF StorageInv

(* A step of p that changes the file n: the others have seen it.           *)
LEMMA ChangeStep ==
  ASSUME StorageInv, NEW p \in Proc, NEW n \in Valid, NEW file \in Stored, NEW o, NEW t,
         Change(n, file), op' = [op EXCEPT ![p] = o], temp' = [temp EXCEPT ![p] = t],
         ProcOK(o, t, seen'[p], store')
  PROVE  StorageInv'
<1>1. \A q \in Proc \ {p} : op'[q] = op[q] /\ temp'[q] = temp[q]
  BY DEF StorageInv
<1>2. /\ op'[p] = o /\ temp'[p] = t /\ store' = [store EXCEPT ![n] = file]
      /\ store \in [Valid -> Stored]
  BY DEF StorageInv, Change
<1>3. \A q \in Proc : ProcOK(op[q], temp[q], seen'[q], store')
  <2> TAKE q \in Proc
  <2>1. ProcOK(op[q], temp[q], seen[q], store)
    BY DEF StorageInv
  <2>2. seen'[q] = IF Underway(op[q]) /\ Concerns(op[q].req, n)
                   THEN [seen[q] EXCEPT ![n] = seen[q][n] \union {file}] ELSE seen[q]
    BY DEF Change, Underway
  <2> QED
    BY <1>2, <2>1, <2>2, SeenGrows
<1>4. \A q \in Proc : ProcOK(op'[q], temp'[q], seen'[q], store')
  BY <1>1, <1>2, <1>3
<1>5. (\A q \in Proc : ProcOK(op[q], temp[q], seen[q], store))'
  BY <1>4
<1>6. /\ o \in CallState /\ t \in [Valid -> File \union {None, Partial, Left}]
      /\ seen' = [q \in Proc |-> seen'[q]] /\ \A q \in Proc : seen'[q] \in [Valid -> SUBSET Stored]
  BY <1>4, <1>2 DEF ProcOK, Change
<1>7. store' \in [Valid -> Stored]
  BY <1>2
<1> QED
  BY <1>5, <1>6, <1>7 DEF StorageInv

(* What the invariant says of p; what is not mentioned stays.              *)
LEMMA ProcFacts ==
  ASSUME StorageInv, NEW p \in Proc
  PROVE  /\ ProcOK(op[p], temp[p], seen[p], store) /\ op[p] \in CallState
         /\ store \in [Valid -> Stored]
         /\ temp = [temp EXCEPT ![p] = temp[p]] /\ seen = [seen EXCEPT ![p] = seen[p]]
         /\ temp[p] \in [Valid -> File \union {None, Partial, Left}]
         /\ seen[p] \in [Valid -> SUBSET Stored]
  BY DEF StorageInv

(* The call answers.                                                       *)
LEMMA AnswerForm ==
  ASSUME NEW o \in CallState, NEW t, NEW s, NEW st, o.pc # "idle", NEW a \in Answers,
         t \in [Valid -> File \union {None, Partial, Left}], s \in [Valid -> SUBSET Stored],
         \A n \in Valid : t[n] \in {None, Left},
         AnswerOK([pc |-> "done", req |-> o.req, answer |-> a], s)
  PROVE  ProcOK([pc |-> "done", req |-> o.req, answer |-> a], t, s, st)
<1> DEFINE o2 == [pc |-> "done", req |-> o.req, answer |-> a]
<1>1. o2 \in CallState /\ o2.pc = "done"
  BY CallShape DEF CallState
<1> HIDE DEF o2
<1>2. ProcOK(o2, t, s, st)
  BY <1>1 DEF ProcOK, UpToDate, Underway, SaveOK, ReadOK, DeleteOK, ListOK, o2
<1> QED
  BY <1>2 DEF o2

(* A call that is not in the middle of a save leaves no temporary file.    *)
LEMMA NoTemp ==
  ASSUME NEW o, NEW t, NEW s, NEW st, ProcOK(o, t, s, st), o.pc \notin {"write", "rename"}
  PROVE  \A n \in Valid : t[n] \in {None, Left}
  BY DEF ProcOK, SaveOK

(* The step of a call that answers without having changed anything.        *)
LEMMA AnswerStep ==
  ASSUME StorageInv, NEW p \in Proc, op[p].pc \notin {"idle", "write", "rename"},
         NEW a \in Answers, Answer(p, a), UNCHANGED <<store, temp, seen>>,
         AnswerOK([pc |-> "done", req |-> op[p].req, answer |-> a], seen[p])
  PROVE  StorageInv'
<1>1. ProcOK([pc |-> "done", req |-> op[p].req, answer |-> a], temp[p], seen[p], store)
  BY ProcFacts, NoTemp, AnswerForm
<1>2. op' = [op EXCEPT ![p] = [pc |-> "done", req |-> op[p].req, answer |-> a]]
  BY DEF Answer
<1> HIDE DEF Answer
<1> QED
  BY <1>1, <1>2, ProcFacts, QuietStep

-----------------------------------------------------------------------------
(* Each action keeps the invariant.                                        *)

(* A call that begins has seen what the files are now.                     *)
LEMMA BeginKeeps ==
  ASSUME StorageInv, NEW p \in Proc, NEW req \in Request, Begin(p, req)
  PROVE  StorageInv'
<1> DEFINE s == [n \in Valid |-> IF Concerns(req, n) THEN {store[n]} ELSE {}]
           t == temp[p]
           list == [pc |-> "readdir", req |-> req, todo |-> Valid, listed |-> {}, at |-> None]
           refused == [pc |-> "done", req |-> req, answer |-> Error]
           first == [pc |-> FirstStep(req), req |-> req]
<1>1. /\ store \in [Valid -> Stored] /\ t \in [Valid -> File \union {None, Partial, Left}]
      /\ \A n \in Valid : t[n] \in {None, Left}
      /\ temp' = [temp EXCEPT ![p] = t] /\ store' = store
  BY ProcFacts, NoTemp DEF Begin, Doing
<1>2. s \in [Valid -> SUBSET Stored] /\ \A n \in Valid : Concerns(req, n) => store[n] \in s[n]
  BY <1>1
<1>3. seen' = [seen EXCEPT ![p] = s]
  BY DEF Begin
<1> HIDE DEF t
<1>4. CASE req.kind = "list"
  <2>1. list \in CallState
    BY DEF CallState
  <2>2. UpToDate(list, s, store)
    BY <1>2 DEF UpToDate
  <2>3. SaveOK(list, t, s) /\ ReadOK(list, s) /\ DeleteOK(list) /\ AnswerOK(list, s)
    BY <1>1 DEF SaveOK, ReadOK, DeleteOK, AnswerOK
  <2>4. ListOK(list, s)
    BY <1>4 DEF ListOK
  <2>5. ProcOK(list, t, s, store)
    BY <1>1, <1>2, <2>1, <2>2, <2>3, <2>4 DEF ProcOK
  <2>6. op' = [op EXCEPT ![p] = list]
    BY <1>4 DEF Begin
  <2> HIDE DEF list, s
  <2> QED
    BY <1>1, <1>3, <2>5, <2>6, QuietStep
<1>5. CASE req.kind # "list" /\ req.name \notin Valid
  <2>1. refused \in CallState
    BY DEF CallState, Answers
  <2>2. UpToDate(refused, s, store) /\ SaveOK(refused, t, s) /\ ReadOK(refused, s)
        /\ DeleteOK(refused) /\ ListOK(refused, s)
    BY <1>1 DEF UpToDate, Underway, SaveOK, ReadOK, DeleteOK, ListOK
  <2>3. AnswerOK(refused, s)
    BY <1>5, StorageAssumption DEF AnswerOK
  <2>4. ProcOK(refused, t, s, store)
    BY <1>1, <1>2, <2>1, <2>2, <2>3 DEF ProcOK
  <2>5. op' = [op EXCEPT ![p] = refused]
    BY <1>5 DEF Begin
  <2> HIDE DEF refused, s
  <2> QED
    BY <1>1, <1>3, <2>4, <2>5, QuietStep
<1>6. CASE req.kind # "list" /\ req.name \in Valid
  <2>1. /\ FirstStep(req) \in {"check", "encrypt", "stat", "unlink"}
        /\ FirstStep(req) = "check" => req.kind = "create"
        /\ FirstStep(req) = "encrypt" => req.kind = "update"
        /\ FirstStep(req) = "stat" => req.kind = "read"
        /\ FirstStep(req) = "unlink" => req.kind = "delete"
    BY <1>6, RequestShape DEF FirstStep
  <2>2. first \in CallState
    BY <2>1 DEF CallState, SimplePc
  <2>3. UpToDate(first, s, store)
    BY <1>2 DEF UpToDate
  <2>4. SaveOK(first, t, s) /\ ReadOK(first, s) /\ DeleteOK(first) /\ ListOK(first, s)
        /\ AnswerOK(first, s)
    BY <1>1, <1>6, <2>1 DEF SaveOK, ReadOK, DeleteOK, ListOK, AnswerOK
  <2>5. ProcOK(first, t, s, store)
    BY <1>1, <1>2, <2>2, <2>3, <2>4 DEF ProcOK
  <2>6. op' = [op EXCEPT ![p] = first]
    BY <1>6 DEF Begin
  <2> HIDE DEF first, s
  <2> QED
    BY <1>1, <1>3, <2>5, <2>6, QuietStep
<1> QED
  BY <1>4, <1>5, <1>6

(* Outside a call nothing is promised but that no temporary file is being  *)
(* written.                                                                *)
LEMMA IdleOK ==
  ASSUME NEW t \in [Valid -> File \union {None, Partial, Left}], NEW st,
         \A n \in Valid : t[n] \in {None, Left}
  PROVE  ProcOK(Idle, t, [n \in Valid |-> {}], st)
<1>1. Idle \in CallState /\ Idle.pc = "idle"
  BY DEF CallState, Idle
<1> QED
  BY <1>1 DEF ProcOK, UpToDate, Underway, SaveOK, ReadOK, DeleteOK, ListOK, AnswerOK

(* The caller has its answer.                                              *)
LEMMA FinishKeeps ==
  ASSUME StorageInv, NEW p \in Proc, Finish(p)
  PROVE  StorageInv'
<1>1. ProcOK(Idle, temp[p], [n \in Valid |-> {}], store)
  BY ProcFacts, NoTemp, IdleOK DEF Finish, Doing
<1> QED
  BY <1>1, ProcFacts, QuietStep DEF Finish

(* A killed process leaves whatever temporary file it had.                 *)
LEMMA CrashKeeps ==
  ASSUME StorageInv, NEW p \in Proc, Crash(p)
  PROVE  StorageInv'
<1> DEFINE t == [n \in Valid |-> IF temp[p][n] = None THEN None ELSE Left]
<1>1. ProcOK(Idle, t, [n \in Valid |-> {}], store)
  BY IdleOK
<1>2. temp' = [temp EXCEPT ![p] = t]
  BY DEF Crash
<1> HIDE DEF t
<1> QED
  BY <1>1, <1>2, QuietStep DEF Crash

(* From one step of a call to the next, with nothing but pc changed.       *)
LEMMA CheckKeeps ==
  ASSUME StorageInv, NEW p \in Proc, CheckAbsent(p)
  PROVE  StorageInv'
<1> DEFINE o == op[p]
           o2 == [o EXCEPT !.pc = "encrypt"]
<1>1. o.pc = "check" /\ ProcOK(o, temp[p], seen[p], store) /\ o \in CallState
  BY ProcFacts DEF CheckAbsent, Doing
<1>2. o \in [pc : SimplePc, req : Request] /\ o.req.kind \in {"create", "update"}
      /\ o.req.name \in Valid
  BY <1>1, CallShape DEF SimplePc, ProcOK, SaveOK
<1>3. CASE store[o.req.name] = None
  <2>1. o2.pc = "encrypt" /\ o2.req = o.req /\ o2 \in CallState
    BY <1>2 DEF CallState, SimplePc
  <2>2. None \in seen[p][o.req.name]
    BY <1>1, <1>2, <1>3 DEF ProcOK, UpToDate, Underway, Concerns
  <2>3. op' = [op EXCEPT ![p] = o2] /\ UNCHANGED <<store, temp, seen>>
    BY <1>3 DEF CheckAbsent, Goto
  <2> HIDE DEF o2
  <2>4. ProcOK(o2, temp[p], seen[p], store)
    BY <1>1, <1>2, <2>1, <2>2
    DEF ProcOK, UpToDate, Underway, SaveOK, ReadOK, DeleteOK, ListOK, AnswerOK
  <2> QED
    BY <2>3, <2>4, ProcFacts, QuietStep
<1>4. CASE store[o.req.name] # None
  <2>1. Answer(p, Error) /\ UNCHANGED <<store, temp, seen>>
    BY <1>4 DEF CheckAbsent
  <2>2. AnswerOK([pc |-> "done", req |-> o.req, answer |-> Error], seen[p])
    BY <1>2, StorageAssumption DEF AnswerOK
  <2> QED
    BY <1>1, <2>1, <2>2, AnswerStep DEF Answers
<1> QED
  BY <1>3, <1>4

(* The driver refuses, fails, or gives the ciphertext.                     *)
LEMMA EncryptKeeps ==
  ASSUME StorageInv, NEW p \in Proc, Encrypt(p)
  PROVE  StorageInv'
<1> DEFINE o == op[p]
           o2 == [o EXCEPT !.pc = "open"]
<1>1. /\ o.pc = "encrypt" /\ ProcOK(o, temp[p], seen[p], store) /\ o \in CallState
      /\ UNCHANGED <<store, temp, seen>>
  BY ProcFacts DEF Encrypt, Doing
<1>2. o \in [pc : SimplePc, req : Request] /\ o.req.kind \in {"create", "update"}
      /\ o.req.name \in Valid
  BY <1>1, CallShape DEF SimplePc, ProcOK, SaveOK
<1>3. CASE Goto(p, "open")
  <2>1. o2.pc = "open" /\ o2.req = o.req /\ o2 \in CallState
    BY <1>2 DEF CallState, SimplePc
  <2>2. op' = [op EXCEPT ![p] = o2]
    BY <1>3 DEF Goto
  <2> HIDE DEF o2
  <2>3. ProcOK(o2, temp[p], seen[p], store)
    BY <1>1, <1>2, <2>1
    DEF ProcOK, UpToDate, Underway, SaveOK, ReadOK, DeleteOK, ListOK, AnswerOK
  <2> QED
    BY <1>1, <2>2, <2>3, ProcFacts, QuietStep
<1>4. CASE \E a \in {Error, Failed} : Answer(p, a)
  <2>1. PICK a \in {Error, Failed} : Answer(p, a)
    BY <1>4
  <2>2. AnswerOK([pc |-> "done", req |-> o.req, answer |-> a], seen[p])
    BY <1>2, StorageAssumption DEF AnswerOK
  <2> QED
    BY <1>1, <2>1, <2>2, AnswerStep DEF Answers
<1> QED
  BY <1>3, <1>4 DEF Encrypt

(* A save that failed gives an error and has removed the temporary file.   *)
LEMMA SaveFails ==
  ASSUME StorageInv, NEW p \in Proc, op[p].pc \in {"open", "write", "rename"},
         temp' = [temp EXCEPT ![p][op[p].req.name] = None],
         Answer(p, Failed), UNCHANGED <<store, seen>>
  PROVE  StorageInv'
<1> DEFINE o == op[p]
           t == [temp[p] EXCEPT ![o.req.name] = None]
           o2 == [pc |-> "done", req |-> o.req, answer |-> Failed]
<1>1. o \in CallState /\ o.req.kind \in {"create", "update"} /\ o.req.name \in Valid
  BY ProcFacts DEF ProcOK, SaveOK
<1>2. t \in [Valid -> File \union {None, Partial, Left}] /\ \A n \in Valid : t[n] \in {None, Left}
  BY <1>1, ProcFacts DEF ProcOK, SaveOK
<1>3. temp' = [temp EXCEPT ![p] = t] /\ op' = [op EXCEPT ![p] = o2]
  BY DEF StorageInv, Answer
<1>4. AnswerOK(o2, seen[p])
  BY <1>1, StorageAssumption DEF AnswerOK
<1> HIDE DEF t
<1>5. ProcOK(o2, t, seen[p], store)
  BY <1>1, <1>2, <1>4, ProcFacts, AnswerForm DEF Answers
<1> HIDE DEF o2
<1> QED
  BY <1>3, <1>5, ProcFacts, QuietStep

(* The temporary file is empty, or could not be made.                      *)
LEMMA OpenTempKeeps ==
  ASSUME StorageInv, NEW p \in Proc, OpenTemp(p)
  PROVE  StorageInv'
<1> DEFINE o == op[p]
           n == o.req.name
           t == [temp[p] EXCEPT ![n] = Partial]
           o2 == [o EXCEPT !.pc = "write"]
<1>1. o.pc = "open" /\ ProcOK(o, temp[p], seen[p], store) /\ o \in CallState
  BY ProcFacts DEF OpenTemp, Doing
<1>2. o \in [pc : SimplePc, req : Request] /\ o.req.kind \in {"create", "update"} /\ n \in Valid
  BY <1>1, CallShape DEF SimplePc, ProcOK, SaveOK
<1>3. CASE temp' = [temp EXCEPT ![p][n] = Partial] /\ Goto(p, "write")
  <2>1. o2.pc = "write" /\ o2.req = o.req /\ o2 \in CallState
    BY <1>2 DEF CallState, SimplePc
  <2>2. op' = [op EXCEPT ![p] = o2] /\ temp' = [temp EXCEPT ![p] = t] /\ UNCHANGED <<store, seen>>
    BY <1>3 DEF Goto, StorageInv, OpenTemp
  <2>3. /\ t \in [Valid -> File \union {None, Partial, Left}]
        /\ \A m \in Valid \ {n} : t[m] \in {None, Left}
    BY <1>1, <1>2 DEF ProcOK, SaveOK
  <2> HIDE DEF o2, t
  <2>4. ProcOK(o2, t, seen[p], store)
    BY <1>1, <1>2, <2>1, <2>3
    DEF ProcOK, UpToDate, Underway, SaveOK, ReadOK, DeleteOK, ListOK, AnswerOK
  <2> QED
    BY <2>2, <2>4, ProcFacts, QuietStep
<1>4. CASE temp' = [temp EXCEPT ![p][n] = None] /\ Answer(p, Failed)
  BY <1>1, <1>4, SaveFails DEF OpenTemp
<1> QED
  BY <1>3, <1>4 DEF OpenTemp

(* The temporary file has its whole content, or is gone.                   *)
LEMMA WriteTempKeeps ==
  ASSUME StorageInv, NEW p \in Proc, WriteTemp(p)
  PROVE  StorageInv'
<1> DEFINE o == op[p]
           n == o.req.name
           content == Content(o.req)
           t == [temp[p] EXCEPT ![n] = content]
           o2 == [o EXCEPT !.pc = "rename"]
<1>1. o.pc = "write" /\ ProcOK(o, temp[p], seen[p], store) /\ o \in CallState
  BY ProcFacts DEF WriteTemp, Doing
<1>2. o \in [pc : SimplePc, req : Request] /\ o.req.kind \in {"create", "update"} /\ n \in Valid
  BY <1>1, CallShape DEF SimplePc, ProcOK, SaveOK
<1>3. CASE temp' = [temp EXCEPT ![p][n] = content] /\ Goto(p, "rename")
  <2>1. o2.pc = "rename" /\ o2.req = o.req /\ o2 \in CallState
    BY <1>2 DEF CallState, SimplePc
  <2>2. content \in File /\ content = Content(o2.req)
    BY <1>2, <2>1, RequestShape
  <2> HIDE DEF content
  <2>3. op' = [op EXCEPT ![p] = o2] /\ temp' = [temp EXCEPT ![p] = t] /\ UNCHANGED <<store, seen>>
    BY <1>3 DEF Goto, StorageInv, WriteTemp
  <2>4. /\ t \in [Valid -> File \union {None, Partial, Left}] /\ t[n] = content
        /\ \A m \in Valid \ {n} : t[m] \in {None, Left}
    BY <1>1, <1>2, <2>2 DEF ProcOK, SaveOK
  <2> HIDE DEF o2, t
  <2>5. ProcOK(o2, t, seen[p], store)
    BY <1>1, <1>2, <2>1, <2>2, <2>4
    DEF ProcOK, UpToDate, Underway, SaveOK, ReadOK, DeleteOK, ListOK, AnswerOK
  <2> QED
    BY <2>3, <2>5, ProcFacts, QuietStep
<1>4. CASE temp' = [temp EXCEPT ![p][n] = None] /\ Answer(p, Failed)
  BY <1>1, <1>4, SaveFails DEF WriteTemp
<1> QED
  BY <1>3, <1>4 DEF WriteTemp

(* The step of a call that changes the file n and is done.                 *)
LEMMA DoneStep ==
  ASSUME StorageInv, NEW p \in Proc, NEW n \in Valid, NEW file \in Stored, NEW t,
         Change(n, file), Answer(p, Done), temp' = [temp EXCEPT ![p] = t],
         t \in [Valid -> File \union {None, Partial, Left}],
         \A m \in Valid : t[m] \in {None, Left},
         op[p].pc \in SimplePc, op[p].req.name = n, op[p].req.kind \notin {"read", "list"},
         op[p].req.kind \in {"create", "update"} => file = Content(op[p].req),
         op[p].req.kind = "delete" => file = None
  PROVE  StorageInv'
<1> DEFINE o == op[p]
           o2 == [pc |-> "done", req |-> o.req, answer |-> Done]
<1>1. /\ ProcOK(o, temp[p], seen[p], store) /\ o \in CallState
      /\ o.pc \notin {"idle", "done"} /\ Concerns(o.req, n)
      /\ store \in [Valid -> Stored] /\ store' = [store EXCEPT ![n] = file]
      /\ seen[p] \in [Valid -> SUBSET Stored]
  BY ProcFacts DEF SimplePc, Concerns, Change
<1>2. seen'[p] = [seen[p] EXCEPT ![n] = seen[p][n] \union {file}]
  BY <1>1 DEF Change
<1>3. seen'[p] \in [Valid -> SUBSET Stored] /\ file \in seen'[p][n]
  BY <1>1, <1>2
<1>4. AnswerOK(o2, seen'[p])
  BY <1>3, StorageAssumption DEF AnswerOK
<1>5. ProcOK(o2, t, seen'[p], store')
  BY <1>1, <1>3, <1>4, AnswerForm DEF Answers
<1>6. op' = [op EXCEPT ![p] = o2]
  BY DEF Answer
<1> HIDE DEF o2
<1> QED
  BY <1>5, <1>6, ChangeStep

(* rename puts the whole file in place, or fails.                          *)
LEMMA RenameKeeps ==
  ASSUME StorageInv, NEW p \in Proc, Rename(p)
  PROVE  StorageInv'
<1> DEFINE o == op[p]
           n == o.req.name
           t == [temp[p] EXCEPT ![n] = None]
<1>1. o.pc = "rename" /\ ProcOK(o, temp[p], seen[p], store) /\ o \in CallState
  BY ProcFacts DEF Rename, Doing
<1>2. /\ o \in [pc : SimplePc, req : Request] /\ o.req.kind \in {"create", "update"}
      /\ n \in Valid /\ temp[p][n] = Content(o.req)
  BY <1>1, CallShape DEF SimplePc, ProcOK, SaveOK
<1>3. temp[p][n] \in Stored
  BY <1>2, RequestShape DEF Stored
<1>4. temp' = [temp EXCEPT ![p] = t] /\ temp' = [temp EXCEPT ![p][n] = None]
  BY DEF Rename, StorageInv
<1>5. /\ t \in [Valid -> File \union {None, Partial, Left}]
      /\ \A m \in Valid : t[m] \in {None, Left}
  BY <1>1, <1>2 DEF ProcOK, SaveOK
<1>6. CASE Change(n, temp[p][n]) /\ Answer(p, Done)
  <2> HIDE DEF t
  <2> QED
    BY <1>2, <1>3, <1>4, <1>5, <1>6, DoneStep
<1>7. CASE Answer(p, Failed) /\ UNCHANGED <<store, seen>>
  BY <1>1, <1>4, <1>7, SaveFails
<1> QED
  BY <1>6, <1>7 DEF Rename

(* A call that fails promises nothing.                                     *)
LEMMA FailedOK ==
  ASSUME NEW req, NEW s
  PROVE  AnswerOK([pc |-> "done", req |-> req, answer |-> Failed], s)
  BY StorageAssumption DEF AnswerOK

(* The file goes, or was not there.                                        *)
LEMMA UnlinkKeeps ==
  ASSUME StorageInv, NEW p \in Proc, Unlink(p)
  PROVE  StorageInv'
<1> DEFINE o == op[p]
           n == o.req.name
<1>1. /\ o.pc = "unlink" /\ ProcOK(o, temp[p], seen[p], store) /\ o \in CallState
      /\ temp' = temp
  BY ProcFacts DEF Unlink, Doing
<1>2. o.req.kind = "delete" /\ n \in Valid /\ None \in Stored /\ o.pc \in SimplePc
  BY <1>1 DEF ProcOK, DeleteOK, Stored, SimplePc
<1>3. CASE Answer(p, Error) /\ UNCHANGED <<store, seen>>
  <2>1. AnswerOK([pc |-> "done", req |-> o.req, answer |-> Error], seen[p])
    BY <1>2, StorageAssumption DEF AnswerOK
  <2> QED
    BY <1>1, <1>3, <2>1, AnswerStep DEF Answers
<1>4. CASE Change(n, None) /\ Answer(p, Done)
  <2>1. \A m \in Valid : temp[p][m] \in {None, Left}
    BY <1>1, NoTemp
  <2> QED
    BY <1>1, <1>2, <1>4, <2>1, ProcFacts, DoneStep
<1>5. CASE Answer(p, Failed) /\ UNCHANGED <<store, seen>>
  BY <1>1, <1>5, FailedOK, AnswerStep DEF Answers
<1> QED
  BY <1>3, <1>4, <1>5 DEF Unlink

(* stat gives the size of the file as it is at that moment.                *)
LEMMA StatKeeps ==
  ASSUME StorageInv, NEW p \in Proc, Stat(p)
  PROVE  StorageInv'
<1> DEFINE o == op[p]
           n == o.req.name
           file == store[n]
<1>1. /\ o.pc = "stat" /\ ProcOK(o, temp[p], seen[p], store) /\ o \in CallState
      /\ UNCHANGED <<store, temp, seen>>
  BY ProcFacts DEF Stat, Doing
<1>2. /\ o.req \in Request /\ o.req.kind = "read" /\ n \in Valid /\ file \in Stored
      /\ file \in seen[p][n]
  BY <1>1, CallShape, ProcFacts DEF ProcOK, ReadOK, UpToDate, Underway, Concerns
<1>3. CASE (o.req.key \notin LegalKey \/ file = None) /\ Answer(p, Error)
  <2>1. AnswerOK([pc |-> "done", req |-> o.req, answer |-> Error], seen[p])
    BY <1>2, <1>3, StorageAssumption DEF AnswerOK
  <2> QED
    BY <1>1, <1>3, <2>1, AnswerStep DEF Answers
<1>4. CASE Answer(p, Failed)
  BY <1>1, <1>4, FailedOK, AnswerStep DEF Answers
<1>5. ASSUME file # None, NEW size \in Sizes(file),
             op' = [op EXCEPT ![p] = [pc |-> "read", req |-> o.req, size |-> size]]
      PROVE  StorageInv'
  <2> DEFINE o2 == [pc |-> "read", req |-> o.req, size |-> size]
  <2>1. size \in Nat
    BY <1>2, <1>5, StorageAssumption DEF Sizes, Stored, File
  <2>2. op' = [op EXCEPT ![p] = o2]
    BY <1>5
  <2>3. o2 \in CallState /\ o2.pc = "read" /\ o2.req = o.req /\ o2.size = size
    BY <1>2, <2>1 DEF CallState
  <2> HIDE DEF o2
  <2>4. ProcOK(o2, temp[p], seen[p], store)
    BY <1>1, <1>2, <1>5, <2>3
    DEF ProcOK, UpToDate, Underway, SaveOK, ReadOK, DeleteOK, ListOK, AnswerOK
  <2> QED
    BY <1>1, <2>2, <2>4, ProcFacts, QuietStep
<1> QED
  BY <1>3, <1>4, <1>5 DEF Stat

(* What reading and decrypting may give, if it does not fail: the text     *)
(* before the cut, if there was one, or nonsense.                          *)
LEMMA DecryptedMeans ==
  ASSUME NEW file \in Stored, NEW key, NEW size \in Nat,
         NEW a \in Decrypted(file, key, size), a \notin {Error, Failed}
  PROVE  /\ file \in File /\ size \in 1 .. Blocks[file.data]
         /\ \/ a = Garbage /\ key # file.key
            \/ a \in Data /\ a = Text(file.data, size) /\ key = file.key
<1>1. file \notin {None, Alien} /\ Decryptable(size) /\ ~(size > Blocks[file.data])
  BY DEF Decrypted
<1>2. file \in File /\ file.data \in Data /\ Blocks[file.data] \in Nat
  BY <1>1, StorageAssumption DEF Stored, File
<1>3. size \in 1 .. Blocks[file.data]
  BY <1>1, <1>2 DEF Decryptable
<1>4. a \in (IF key # file.key THEN {Error, Garbage}
             ELSE IF Text(file.data, size) = None THEN {Error}
             ELSE {Text(file.data, size)})
  BY <1>1 DEF Decrypted
<1>5. CASE key # file.key
  BY <1>2, <1>3, <1>4, <1>5
<1>6. CASE key = file.key
  <2>1. a = Text(file.data, size) /\ a # None
    BY <1>4, <1>6
  <2>2. CASE size = Blocks[file.data]
    BY <1>2, <1>3, <1>6, <2>1, <2>2 DEF Text
  <2>3. CASE size # Blocks[file.data]
    <3>1. size \in 1 .. Blocks[file.data] - 1 /\ a = Cut[file.data][size]
      BY <1>2, <1>3, <2>1, <2>3 DEF Text
    <3>2. a \in Data
      BY <1>2, <2>1, <3>1, StorageAssumption
    <3> QED
      BY <1>2, <1>3, <1>6, <2>1, <3>2
  <2> QED
    BY <2>2, <2>3
<1> QED
  BY <1>5, <1>6

(* What a read may give is right for the version that it opened, or for a  *)
(* cut of it at the size of the one that stat saw.                         *)
LEMMA DecryptedGives ==
  ASSUME NEW file \in Stored, NEW versions, NEW other \in versions, NEW req,
         NEW size \in Nat, size \in Sizes(other),
         NEW a \in Decrypted(file, req.key, size), a \notin {Error, Failed}
  PROVE  Gives(file, versions, [pc |-> "done", req |-> req, answer |-> a])
<1> SUFFICES ASSUME NEW o, o.req = req, o.answer = a
             PROVE  Gives(file, versions, o)
  OBVIOUS
<1>1. /\ file \in File /\ size \in 1 .. Blocks[file.data]
      /\ \/ a = Garbage /\ req.key # file.key
         \/ a \in Data /\ a = Text(file.data, size) /\ req.key = file.key
  BY DecryptedMeans
<1>2. file.data \in Data /\ Blocks[file.data] \in Nat /\ Garbage \notin Data /\ None \notin Data
  BY <1>1, StorageAssumption DEF File
<1>3. CASE a = Garbage /\ req.key # file.key
  BY <1>3 DEF Gives
<1>4. CASE a \in Data /\ a = Text(file.data, size) /\ req.key = file.key
  <2>1. CASE size = Blocks[file.data]
    BY <1>2, <1>4, <2>1 DEF Gives, Text
  <2>2. CASE size # Blocks[file.data]
    <3>1. size \in 1 .. Blocks[file.data] - 1 /\ a = Cut[file.data][size]
      BY <1>1, <1>2, <1>4, <2>2 DEF Text
    <3>2. a \in CutsOf(file, other)
      BY <1>2, <1>4, <3>1 DEF CutsOf
    <3> QED
      BY <1>2, <1>4, <3>2 DEF Gives
  <2> QED
    BY <2>1, <2>2
<1> QED
  BY <1>1, <1>3, <1>4

(* If the file is the one that stat saw, there is no error.                *)
LEMMA DecryptedWhole ==
  ASSUME NEW f \in File, Blocks[f.data] <= MaxBlocks
  PROVE  Error \notin Decrypted(f, f.key, Blocks[f.data])
<1>1. f \notin {None, Alien} /\ f.data \in Data /\ Blocks[f.data] \in Nat \ {0}
  BY StorageAssumption DEF File
<1>2. Decryptable(Blocks[f.data])
  BY <1>1, StorageAssumption DEF Decryptable
<1>3. f.data # None /\ f.data # Error /\ Error # Failed
  BY <1>1, StorageAssumption
<1> QED
  BY <1>1, <1>2, <1>3 DEF Decrypted, Text

(* The step of a read.                                                     *)
LEMMA ReadKeeps ==
  ASSUME StorageInv, NEW p \in Proc, Read(p)
  PROVE  StorageInv'
<1> DEFINE o == op[p]
           n == o.req.name
           file == store[n]
           s == seen[p]
<1>1. /\ o.pc = "read" /\ ProcOK(o, temp[p], s, store) /\ o \in CallState
      /\ UNCHANGED <<store, temp, seen>>
  BY ProcFacts DEF Read, Doing
<1>2. /\ o.req \in Request /\ o.req.kind = "read" /\ n \in Valid /\ file \in Stored
      /\ file \in s[n] /\ o.size \in Nat
  BY <1>1, CallShape, ProcFacts DEF ProcOK, ReadOK, UpToDate, Underway, Concerns
<1>3. PICK other \in s[n] : other # None /\ o.size \in Sizes(other)
  BY <1>1 DEF ProcOK, ReadOK
<1>4. CASE Answer(p, Failed)
  BY <1>1, <1>4, FailedOK, AnswerStep DEF Answers
<1>5. ASSUME NEW a \in Decrypted(file, o.req.key, o.size), Answer(p, a)
      PROVE  StorageInv'
  <2> DEFINE done == [pc |-> "done", req |-> o.req, answer |-> a]
  <2>1. a \notin {Error, Failed} => file \in File /\ a \in Data \union {Garbage}
    BY <1>2, DecryptedMeans
  <2>2. a \notin {Error, Failed} => file \in s[n] \ {None, Alien}
    BY <1>2, <2>1, StorageAssumption
  <2>3. a \notin {Error, Failed} => Gives(file, s[n] \ {None}, done)
    BY <1>2, <1>3, DecryptedGives
  <2>4. ASSUME a = Error, NEW f \in File, s[n] = {f}, f.key = o.req.key,
               Blocks[f.data] <= MaxBlocks
        PROVE  FALSE
    <3>1. file = f /\ other = f /\ f # Alien
      BY <1>2, <2>4, StorageAssumption
    <3>2. o.size = Blocks[f.data]
      BY <1>3, <3>1 DEF Sizes
    <3> QED
      BY <1>5, <2>4, <3>1, <3>2, DecryptedWhole
  <2>5. done.pc = "done" /\ done.req = o.req /\ done.answer = a
    OBVIOUS
  <2> HIDE DEF done, file
  <2>6. AnswerOK(done, s)
    BY <1>2, <2>2, <2>3, <2>4, <2>5 DEF AnswerOK
  <2> QED
    BY <1>1, <1>5, <2>1, <2>6, AnswerStep DEF Answers, done
<1> QED
  BY <1>4, <1>5 DEF Read

(* The call that lists: what is left, and what was passed by.              *)
LEMMA ListFacts ==
  ASSUME StorageInv, NEW p \in Proc, op[p].pc \in {"readdir", "entry"}
  PROVE  /\ op[p] \in [pc : {"readdir", "entry"}, req : Request, todo : SUBSET Valid,
                       listed : SUBSET (Valid \ Hidden), at : Valid \union {None}]
         /\ op[p].req.kind = "list" /\ ListOK(op[p], seen[p])
         /\ \A n \in Valid : store[n] \in seen[p][n]
  BY ProcFacts, CallShape DEF ProcOK, ListOK, UpToDate, Underway, Concerns

(* The step of a list that goes on.                                        *)
LEMMA ListStep ==
  ASSUME StorageInv, NEW p \in Proc, op[p].pc \in {"readdir", "entry"},
         NEW o, op' = [op EXCEPT ![p] = o], UNCHANGED <<store, temp, seen>>,
         o \in [pc : {"readdir", "entry"}, req : Request, todo : SUBSET Valid,
                listed : SUBSET (Valid \ Hidden), at : Valid \union {None}],
         o.req = op[p].req, ListOK(o, seen[p])
  PROVE  StorageInv'
<1>1. o \in CallState /\ o.pc \in {"readdir", "entry"}
  BY DEF CallState
<1>2. ProcOK(o, temp[p], seen[p], store)
  BY <1>1, ProcFacts, NoTemp, ListFacts
  DEF ProcOK, UpToDate, Underway, SaveOK, ReadOK, DeleteOK, AnswerOK
<1> QED
  BY <1>2, ProcFacts, QuietStep

(* readdir reaches an entry, or passes by where none is.                   *)
LEMMA ReadDirKeeps ==
  ASSUME StorageInv, NEW p \in Proc, ReadDir(p)
  PROVE  StorageInv'
<1> DEFINE o == op[p]
<1>1. o.pc = "readdir" /\ UNCHANGED <<store, temp, seen>>
  BY DEF ReadDir, Doing
<1>2. PICK n \in o.todo :
        op' = [op EXCEPT ![p].todo = @ \ {n},
                         ![p].at = IF store[n] = None \/ n \in Hidden THEN None ELSE n,
                         ![p].pc = IF store[n] = None \/ n \in Hidden
                                   THEN "readdir" ELSE "entry"]
  BY DEF ReadDir
<1> DEFINE at == IF store[n] = None \/ n \in Hidden THEN None ELSE n
           pc == IF store[n] = None \/ n \in Hidden THEN "readdir" ELSE "entry"
           o2 == [o EXCEPT !.todo = o.todo \ {n}, !.at = at, !.pc = pc]
<1>3. op' = [op EXCEPT ![p] = o2]
  BY <1>2 DEF StorageInv
<1>4. at \in Valid \union {None} /\ pc \in {"readdir", "entry"} /\ n \in Valid
  BY <1>1, <1>2, ListFacts
<1>5. /\ pc = "entry" => at = n /\ n \notin Hidden /\ store[n] # None
      /\ pc = "readdir" => n \in Hidden \/ store[n] = None
  OBVIOUS
<1> HIDE DEF at, pc
<1>6. /\ o2.pc = pc /\ o2.at = at /\ o2.todo = o.todo \ {n} /\ o2.listed = o.listed
      /\ o2.req = o.req
      /\ o2 \in [pc : {"readdir", "entry"}, req : Request, todo : SUBSET Valid,
                 listed : SUBSET (Valid \ Hidden), at : Valid \union {None}]
  BY <1>1, <1>4, ListFacts
<1> HIDE DEF o2
<1>7. ListOK(o2, seen[p])
  BY <1>1, <1>4, <1>5, <1>6, ListFacts DEF ListOK
<1> QED
  BY <1>1, <1>3, <1>6, <1>7, ListStep

(* An entry that is still there is listed; one that is not ends the list.  *)
LEMMA StatEntryKeeps ==
  ASSUME StorageInv, NEW p \in Proc, StatEntry(p)
  PROVE  StorageInv'
<1> DEFINE o == op[p]
           o2 == [o EXCEPT !.listed = o.listed \union {o.at}, !.at = None, !.pc = "readdir"]
<1>1. o.pc = "entry" /\ UNCHANGED <<store, temp, seen>>
  BY DEF StatEntry, Doing
<1>2. /\ o \in [pc : {"readdir", "entry"}, req : Request, todo : SUBSET Valid,
                listed : SUBSET (Valid \ Hidden), at : Valid \union {None}]
      /\ o.req.kind = "list" /\ ListOK(o, seen[p])
      /\ o.at \in Valid \ Hidden /\ seen[p][o.at] # {None} /\ store[o.at] \in seen[p][o.at]
  BY <1>1, ListFacts DEF ListOK
<1>3. CASE store[o.at] = None
  <2>1. Answer(p, Error)
    BY <1>3 DEF StatEntry
  <2>2. AnswerOK([pc |-> "done", req |-> o.req, answer |-> Error], seen[p])
    BY <1>2, <1>3 DEF AnswerOK
  <2> QED
    BY <1>1, <2>1, <2>2, AnswerStep DEF Answers
<1>4. CASE store[o.at] # None
  <2>1. op' = [op EXCEPT ![p] = o2]
    BY <1>4 DEF StatEntry, StorageInv
  <2>2. /\ o2.pc = "readdir" /\ o2.todo = o.todo /\ o2.listed = o.listed \union {o.at}
        /\ o2.req = o.req
        /\ o2 \in [pc : {"readdir", "entry"}, req : Request, todo : SUBSET Valid,
                   listed : SUBSET (Valid \ Hidden), at : Valid \union {None}]
    BY <1>2
  <2> HIDE DEF o2
  <2>3. ListOK(o2, seen[p])
    BY <1>1, <1>2, <2>2 DEF ListOK
  <2> QED
    BY <1>1, <2>1, <2>2, <2>3, ListStep
<1> QED
  BY <1>3, <1>4

(* A list that fails.                                                      *)
LEMMA ListFailsKeeps ==
  ASSUME StorageInv, NEW p \in Proc, ListFails(p)
  PROVE  StorageInv'
  BY FailedOK, AnswerStep DEF ListFails, Answers

(* The directory has been gone through.                                    *)
LEMMA EndListKeeps ==
  ASSUME StorageInv, NEW p \in Proc, EndList(p)
  PROVE  StorageInv'
<1> DEFINE o == op[p]
<1>1. /\ o.pc = "readdir" /\ (o.todo = {} \/ "readdir" \in Fault)
      /\ UNCHANGED <<store, temp, seen>> /\ Answer(p, o.listed)
  BY DEF EndList, Doing
<1>2. /\ o \in [pc : {"readdir", "entry"}, req : Request, todo : SUBSET Valid,
                listed : SUBSET (Valid \ Hidden), at : Valid \union {None}]
      /\ o.req.kind = "list" /\ ListOK(o, seen[p])
  BY <1>1, ListFacts
<1>3. AnswerOK([pc |-> "done", req |-> o.req, answer |-> o.listed], seen[p])
  BY <1>1, <1>2, StorageAssumption DEF ListOK, AnswerOK
<1> QED
  BY <1>1, <1>2, <1>3, AnswerStep DEF Answers

(* The first state: no call, no temporary file.                            *)
LEMMA InitKept == Init => StorageInv
<1> SUFFICES ASSUME Init PROVE StorageInv
  OBVIOUS
<1>1. [n \in Valid |-> None] \in [Valid -> File \union {None, Partial, Left}]
  OBVIOUS
<1>2. ProcOK(Idle, [n \in Valid |-> None], [n \in Valid |-> {}], store)
  BY <1>1, IdleOK
<1>3. Idle \in CallState
  BY DEF CallState
<1> QED
  BY <1>1, <1>2, <1>3 DEF Init, StorageInv, Stored

(* Every step keeps the invariant.                                         *)
LEMMA NextKeeps ==
  ASSUME StorageInv, [Next]_vars
  PROVE  StorageInv'
<1>1. ASSUME NEW p \in Proc, Step(p) PROVE StorageInv'
  BY <1>1, CheckKeeps, EncryptKeeps, OpenTempKeeps, WriteTempKeeps, RenameKeeps, StatKeeps,
     ReadKeeps, UnlinkKeeps, ReadDirKeeps, StatEntryKeeps, ListFailsKeeps,
     EndListKeeps DEF Step
<1>2. ASSUME NEW p \in Proc, NEW req \in Request, Begin(p, req) PROVE StorageInv'
  BY <1>2, BeginKeeps
<1>3. CASE UNCHANGED vars
  BY <1>3 DEF vars, StorageInv
<1> QED
  BY <1>1, <1>2, <1>3, FinishKeeps, CrashKeeps DEF Next

-----------------------------------------------------------------------------
(* The theorems.                                                           *)

(* The invariant of all processes.                                         *)
THEOREM StorageInvariant == Spec => []StorageInv
<1>1. StorageInv /\ [Next]_vars => StorageInv'
  BY NextKeeps
<1> QED
  BY <1>1, InitKept, PTL DEF Spec

(* No file of the storage is ever a partly written one.                    *)
THEOREM StorageTypeCorrect == Spec => []StorageTypeOK
<1>1. StorageInv => StorageTypeOK
  BY DEF StorageInv, CallState, Answers, StorageTypeOK
<1> QED
  BY <1>1, StorageInvariant, PTL

(* A read returns one version, whole or cut at the size of another one     *)
(* that the call saw; a wrong key gets nonsense.                           *)
THEOREM ReadsAreSound == Spec => []ReadSound
<1>1. StorageInv => ReadSound
  BY DEF StorageInv, ProcOK, AnswerOK, Gives, ReadSound, Finished, Doing
<1> QED
  BY <1>1, StorageInvariant, PTL

(* What was saved can be read, by whoever has the key.                     *)
THEOREM ReadsAreComplete == Spec => []ReadComplete
<1>1. StorageInv => ReadComplete
  BY DEF StorageInv, ProcOK, AnswerOK, ReadComplete, Finished, Doing
<1> QED
  BY <1>1, StorageInvariant, PTL

(* A list misses nothing and invents nothing, unless an error of readdir   *)
(* ends it, which the code takes for the end of the directory.             *)
THEOREM ListsAreSound ==
  ASSUME "readdir" \notin Fault
  PROVE  Spec => []ListSound
<1>1. StorageInv => ListSound
  BY DEF StorageInv, ProcOK, AnswerOK, ListSound, Finished, Doing
<1> QED
  BY <1>1, StorageInvariant, PTL

(* What is reported as saved or deleted has been.                          *)
THEOREM SuccessesAreReal == Spec => []SuccessIsReal
<1>1. StorageInv => SuccessIsReal
  BY DEF StorageInv, ProcOK, AnswerOK, SuccessIsReal, Finished, Doing
<1> QED
  BY <1>1, StorageInvariant, PTL

(* Only a kill leaves a temporary file.                                    *)
THEOREM NoLitterLeft == Spec => []NoLitter
<1>1. StorageInv => NoLitter
  BY DEF StorageInv, ProcOK, SaveOK, NoLitter
<1> QED
  BY <1>1, StorageInvariant, PTL

(* Files change only as a call under way was asked to change them.         *)
THEOREM FilesChangeAsAsked == Spec => ChangesAreAsked
<1> DEFINE Asked ==
      \A n \in Valid :
        store'[n] # store[n] =>
          \E p \in Proc :
            /\ op[p].pc \in {"rename", "unlink"} /\ op[p].req.name = n
            /\ store'[n] = IF op[p].pc = "unlink" THEN None ELSE Content(op[p].req)
<1>1. StorageInv /\ [Next]_vars => [Asked]_vars
  <2> SUFFICES ASSUME StorageInv, Next PROVE Asked
    OBVIOUS
  <2>1. ASSUME NEW p \in Proc, Rename(p), NEW n \in Valid, store'[n] # store[n]
        PROVE  /\ op[p].pc = "rename" /\ op[p].req.name = n /\ store'[n] = Content(op[p].req)
    BY <2>1, ProcFacts DEF Rename, Doing, Change, ProcOK, SaveOK
  <2>2. ASSUME NEW p \in Proc, Unlink(p), NEW n \in Valid, store'[n] # store[n]
        PROVE  /\ op[p].pc = "unlink" /\ op[p].req.name = n /\ store'[n] = None
    BY <2>2, ProcFacts DEF Unlink, Doing, Change
  <2>3. PICK p \in Proc :
          Step(p) \/ Finish(p) \/ Crash(p) \/ \E req \in Request : Begin(p, req)
    BY DEF Next
  <2>4. CASE Rename(p)
    BY <2>1, <2>4
  <2>5. CASE Unlink(p)
    BY <2>2, <2>5
  <2>6. CASE ~Rename(p) /\ ~Unlink(p)
    BY <2>3, <2>6 DEF Step, CheckAbsent, Encrypt, OpenTemp, WriteTemp, Stat, Read, ReadDir,
       StatEntry, ListFails, EndList, Finish, Crash, Begin
  <2> QED
    BY <2>4, <2>5, <2>6
<1> QED
  BY <1>1, StorageInvariant, PTL DEF Spec, ChangesAreAsked

(* A create replaces a file only if it had seen none.                      *)
THEOREM CreatesLookFirst == Spec => CreateLooksFirst
<1> DEFINE Looked ==
      \A p \in Proc :
        op[p].pc = "rename" /\ op[p].req.kind = "create" /\ op'[p].pc = "done" /\ store' # store
          => None \in seen[p][op[p].req.name]
<1>1. StorageInv /\ [Next]_vars => [Looked]_vars
  BY DEF StorageInv, ProcOK, SaveOK
<1> QED
  BY <1>1, StorageInvariant, PTL DEF Spec, CreateLooksFirst

=============================================================================
