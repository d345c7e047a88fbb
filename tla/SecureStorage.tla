--------------------------- MODULE SecureStorage ---------------------------
(***************************************************************************)
(* The secure storage of bai_1/app/secure_file_service.c and file_io.c,    *)
(* and the commands of main.c that call it.  Any number of processes use   *)
(* the directory at once and nothing locks it: every system call that      *)
(* looks at or changes the directory is an action.  The driver is the      *)
(* service of CryptoService: it gives an error or the right result, which  *)
(* for a ciphertext that was cut may be a text as well.                    *)
(***************************************************************************)
EXTENDS Integers

CONSTANTS
  Proc,        \* processes using the storage
  Name,        \* file names a user may give
  Valid,       \* the names secure_storage_validate_name accepts
  Hidden,      \* the names that begin with a dot
  Key,         \* keys a user may give
  LegalKey,    \* hex strings of 16, 24 or 32 bytes
  Data,        \* plaintexts
  Blocks,      \* per plaintext: the blocks of its ciphertext
  Accepted,    \* plaintexts of at most SECURE_AES_MAX_BUFFER bytes
  MaxBlocks,   \* SECURE_AES_MAX_BUFFER in blocks
  Cut,         \* per plaintext and k: what the first k blocks of its ciphertext
               \* decrypt to under its key, or None if that has no good padding
  Request,     \* what a process may be asked to do, a subset of Requests
  Fault,       \* "driver", "disk", "crash", "readdir": what may fail
  None,        \* no file
  Partial,     \* a temporary file that is being written
  Left,        \* a temporary file whose process was killed
  Alien,       \* a file in the storage that this program did not write
  Garbage,     \* what a wrong key decrypts to if the padding is good by accident
  Error, Done, \* answers without content
  Failed       \* the answer that the driver, the disk or the memory failed

File == [key : Key, data : Data]

Requests ==
  [kind : {"create", "update"}, name : Name, key : Key, data : Data]
    \union [kind : {"read"}, name : Name, key : Key]
    \union [kind : {"delete"}, name : Name]
    \union [kind : {"list"}]

ASSUME StorageAssumption ==
  /\ Hidden \subseteq Valid /\ Valid \subseteq Name /\ LegalKey \subseteq Key
  /\ Blocks \in [Data -> Nat \ {0}]
  /\ Accepted \subseteq Data /\ MaxBlocks \in Nat
  /\ \A d \in Accepted : Blocks[d] <= MaxBlocks + 1
  /\ Request \subseteq Requests
  /\ \A d \in Data : \A k \in 1 .. Blocks[d] - 1 :
       Cut[d][k] # None => Cut[d][k] \in Data /\ Blocks[Cut[d][k]] = k
  /\ Fault \subseteq {"driver", "disk", "crash", "readdir"}
  /\ {None, Partial, Left, Alien} \cap File = {}
  /\ None \notin {Partial, Left, Alien} \union Data /\ Partial # Left
  /\ {Garbage, Error, Done, Failed} \cap Data = {}
  /\ Error \notin {Done, Failed} /\ Done # Failed
  /\ \A S \in SUBSET Valid : Error # S  \* a list is no error

VARIABLES
  store,  \* per valid name: the file <name>.saes
  temp,   \* per process and name: <name>.saes.tmp.<pid>
  op,     \* per process: the call it is in
  seen    \* history: what each file was since the process's call began

vars == <<store, temp, op, seen>>

Idle == [pc |-> "idle"]

(* A call of the service, once begun, ends at "done" with its answer.      *)
Doing(p, pc) == op[p].pc = pc
Goto(p, pc) == op' = [op EXCEPT ![p].pc = pc]
Answer(p, a) == op' = [op EXCEPT ![p] = [pc |-> "done", req |-> @.req, answer |-> a]]

Concerns(req, n) == IF req.kind = "list" THEN TRUE ELSE req.name = n

(* A change of a file is seen by every call under way that concerns it.    *)
Change(n, file) ==
  /\ store' = [store EXCEPT ![n] = file]
  /\ seen' = [p \in Proc |->
       IF op[p].pc \notin {"idle", "done"} /\ Concerns(op[p].req, n)
       THEN [seen[p] EXCEPT ![n] = @ \union {file}] ELSE seen[p]]

-----------------------------------------------------------------------------
(* The name is checked first; an update does not look for the file.        *)
FirstStep(req) ==
  CASE req.kind = "create" -> "check"  [] req.kind = "update" -> "encrypt"
    [] req.kind = "read" -> "stat"     [] req.kind = "delete" -> "unlink"

Begin(p, req) ==
  /\ Doing(p, "idle")
  /\ seen' = [seen EXCEPT ![p] = [n \in Valid |->
       IF Concerns(req, n) THEN {store[n]} ELSE {}]]
  /\ op' = [op EXCEPT ![p] =
       IF req.kind = "list"
       THEN [pc |-> "readdir", req |-> req, todo |-> Valid, listed |-> {}, at |-> None]
       ELSE IF req.name \notin Valid THEN [pc |-> "done", req |-> req, answer |-> Error]
       ELSE [pc |-> FirstStep(req), req |-> req]]
  /\ UNCHANGED <<store, temp>>

(* The caller takes the answer.                                            *)
Finish(p) ==
  /\ Doing(p, "done")
  /\ op' = [op EXCEPT ![p] = Idle]
  /\ seen' = [seen EXCEPT ![p] = [n \in Valid |-> {}]]
  /\ UNCHANGED <<store, temp>>

-----------------------------------------------------------------------------
(* secure_storage_save_file.                                               *)

(* Faulty variant: it is not looked whether the file is there.             *)
CheckNothing(p) ==
  /\ Doing(p, "check")
  /\ Goto(p, "encrypt")
  /\ UNCHANGED <<store, temp, seen>>

CheckAbsent(p) ==
  /\ Doing(p, "check")
  /\ IF store[op[p].req.name] = None THEN Goto(p, "encrypt") ELSE Answer(p, Error)
  /\ UNCHANGED <<store, temp, seen>>

(* The driver takes plaintexts up to its limit, padding not counted.       *)
Encryptable(req) == req.key \in LegalKey /\ req.data \in Accepted

Encrypt(p) ==
  /\ Doing(p, "encrypt")
  /\ \/ Encryptable(op[p].req) /\ Goto(p, "open")
     \/ ~Encryptable(op[p].req) /\ Answer(p, Error)
     \/ "driver" \in Fault /\ Answer(p, Failed)
  /\ UNCHANGED <<store, temp, seen>>

Content(req) == [key |-> req.key, data |-> req.data]

(* Faulty variant: the file itself is opened for writing.                  *)
OpenInPlace(p) ==
  /\ Doing(p, "open")
  /\ Change(op[p].req.name, Partial)
  /\ Goto(p, "write")
  /\ UNCHANGED temp

(* write_entire_file: fopen with "wb" empties what it finds.               *)
OpenTemp(p) ==
  LET n == op[p].req.name IN
  /\ Doing(p, "open")
  /\ \/ /\ temp' = [temp EXCEPT ![p][n] = Partial]
        /\ Goto(p, "write")
     \/ /\ "disk" \in Fault
        /\ temp' = [temp EXCEPT ![p][n] = None]
        /\ Answer(p, Failed)
  /\ UNCHANGED <<store, seen>>

(* Faulty variant: a short write counts as a write.                        *)
WriteTempUnchecked(p) ==
  LET n == op[p].req.name IN
  /\ Doing(p, "write")
  /\ Goto(p, "rename")
  /\ \/ temp' = [temp EXCEPT ![p][n] = Content(op[p].req)]
     \/ "disk" \in Fault /\ UNCHANGED temp
  /\ UNCHANGED <<store, seen>>

WriteTemp(p) ==
  LET n == op[p].req.name IN
  /\ Doing(p, "write")
  /\ \/ /\ temp' = [temp EXCEPT ![p][n] = Content(op[p].req)]
        /\ Goto(p, "rename")
     \/ /\ "disk" \in Fault
        /\ temp' = [temp EXCEPT ![p][n] = None]
        /\ Answer(p, Failed)
  /\ UNCHANGED <<store, seen>>

(* Faulty variants: the temporary file is left when rename fails; the      *)
(* answer does not depend on rename.                                       *)
RenameLeavesTemp(p) ==
  LET n == op[p].req.name IN
  /\ Doing(p, "rename")
  /\ \/ /\ Change(n, temp[p][n])
        /\ temp' = [temp EXCEPT ![p][n] = None]
        /\ Answer(p, Done)
     \/ "disk" \in Fault /\ Answer(p, Failed) /\ UNCHANGED <<store, temp, seen>>

RenameUnchecked(p) ==
  LET n == op[p].req.name IN
  /\ Doing(p, "rename")
  /\ temp' = [temp EXCEPT ![p][n] = None]
  /\ Answer(p, Done)
  /\ \/ Change(n, temp[p][n])
     \/ "disk" \in Fault /\ UNCHANGED <<store, seen>>

Rename(p) ==
  LET n == op[p].req.name IN
  /\ Doing(p, "rename")
  /\ temp' = [temp EXCEPT ![p][n] = None]
  /\ \/ Change(n, temp[p][n]) /\ Answer(p, Done)
     \/ "disk" \in Fault /\ Answer(p, Failed) /\ UNCHANGED <<store, seen>>

-----------------------------------------------------------------------------
(* secure_storage_read_file: read_entire_file asks for the size with stat, *)
(* opens the name afterwards, and reads that many bytes.  An open file is  *)
(* never written to, so what follows fopen is one action.                  *)

(* The sizes that a file may have; a foreign one may have any, and all      *)
(* that are too large are alike.                                           *)
Sizes(file) == IF file = Alien THEN 0 .. MaxBlocks + 1 ELSE {Blocks[file.data]}

Stat(p) ==
  LET req == op[p].req
      file == store[req.name] IN
  /\ Doing(p, "stat")
  /\ \/ (req.key \notin LegalKey \/ file = None) /\ Answer(p, Error)
     \/ "disk" \in Fault /\ req.key \in LegalKey /\ Answer(p, Failed)
     \/ /\ req.key \in LegalKey /\ file # None
        /\ \E size \in Sizes(file) :
             op' = [op EXCEPT ![p] = [pc |-> "read", req |-> req, size |-> size]]
  /\ UNCHANGED <<store, temp, seen>>

(* Faulty variant: the limit itself is too long.                           *)
DecryptableBelow(size) == size \in 1 .. MaxBlocks - 1

(* The ciphertext of the longest plaintext is longer than the limit.       *)
Decryptable(size) == size \in 1 .. MaxBlocks

(* The text in the first size blocks, under the right key.                 *)
Text(data, size) == IF size = Blocks[data] THEN data ELSE Cut[data][size]

(* Faulty variant: the padding is not checked.                             *)
DecryptedUnchecked(file, key, size) ==
  IF file \in {None, Alien} \/ ~Decryptable(size) \/ size > Blocks[file.data] THEN {Error}
  ELSE IF key # file.key \/ Text(file.data, size) = None THEN {Garbage}
  ELSE {Text(file.data, size)}

(* What reading size blocks of file and decrypting them may give.  Under a *)
(* wrong key the padding is bad unless by accident.                        *)
Decrypted(file, key, size) ==
  IF file \in {None, Alien} \/ ~Decryptable(size) \/ size > Blocks[file.data] THEN {Error}
  ELSE (IF "driver" \in Fault THEN {Failed} ELSE {})
         \union (IF key # file.key THEN {Error, Garbage}
                 ELSE IF Text(file.data, size) = None THEN {Error}
                 ELSE {Text(file.data, size)})

Read(p) ==
  /\ Doing(p, "read")
  /\ \/ \E a \in Decrypted(store[op[p].req.name], op[p].req.key, op[p].size) : Answer(p, a)
     \/ "disk" \in Fault /\ Answer(p, Failed)
  /\ UNCHANGED <<store, temp, seen>>

(* secure_storage_delete_file.                                             *)
Unlink(p) ==
  LET n == op[p].req.name IN
  /\ Doing(p, "unlink")
  /\ \/ store[n] = None /\ Answer(p, Error) /\ UNCHANGED <<store, seen>>
     \/ store[n] # None /\ Change(n, None) /\ Answer(p, Done)
     \/ "disk" \in Fault /\ Answer(p, Failed) /\ UNCHANGED <<store, seen>>
  /\ UNCHANGED temp

-----------------------------------------------------------------------------
(* secure_storage_list_files: readdir reaches the entries in an order of   *)
(* the file system's, and each entry is looked up again with stat.         *)

ReadDir(p) ==
  /\ Doing(p, "readdir")
  /\ \E n \in op[p].todo :
       op' = [op EXCEPT ![p].todo = @ \ {n},
                        ![p].at = IF store[n] = None \/ n \in Hidden THEN None ELSE n,
                        ![p].pc = IF store[n] = None \/ n \in Hidden
                                  THEN "readdir" ELSE "entry"]
  /\ UNCHANGED <<store, temp, seen>>

(* Faulty variant: the entries after a file that vanished are dropped, and *)
(* the rest is returned as the list.                                       *)
StatEntryCutsShort(p) ==
  /\ Doing(p, "entry")
  /\ IF store[op[p].at] = None THEN Answer(p, op[p].listed)
     ELSE op' = [op EXCEPT ![p].listed = @ \union {op[p].at}, ![p].at = None,
                           ![p].pc = "readdir"]
  /\ UNCHANGED <<store, temp, seen>>

StatEntry(p) ==
  /\ Doing(p, "entry")
  /\ IF store[op[p].at] = None THEN Answer(p, Error)
     ELSE op' = [op EXCEPT ![p].listed = @ \union {op[p].at}, ![p].at = None,
                           ![p].pc = "readdir"]
  /\ UNCHANGED <<store, temp, seen>>

(* Errors of opendir, stat or realloc; the list fails as a whole.          *)
ListFails(p) ==
  /\ op[p].pc \in {"readdir", "entry"} /\ "disk" \in Fault
  /\ Answer(p, Failed)
  /\ UNCHANGED <<store, temp, seen>>

(* An error of readdir is not told from the end of the directory.          *)
EndList(p) ==
  /\ Doing(p, "readdir")
  /\ op[p].todo = {} \/ "readdir" \in Fault
  /\ Answer(p, op[p].listed)
  /\ UNCHANGED <<store, temp, seen>>

-----------------------------------------------------------------------------
(* The process is killed.  A later one may get its number, and with it the *)
(* name of the temporary file.                                             *)
Crash(p) ==
  /\ "crash" \in Fault /\ op[p].pc \notin {"idle", "done"}
  /\ op' = [op EXCEPT ![p] = Idle]
  /\ temp' = [temp EXCEPT ![p] = [n \in Valid |-> IF @[n] = None THEN None ELSE Left]]
  /\ seen' = [seen EXCEPT ![p] = [n \in Valid |-> {}]]
  /\ UNCHANGED store

Step(p) ==
  \/ CheckAbsent(p) \/ Encrypt(p) \/ OpenTemp(p) \/ WriteTemp(p) \/ Rename(p)
  \/ Stat(p) \/ Read(p) \/ Unlink(p) \/ ReadDir(p) \/ StatEntry(p)
  \/ ListFails(p) \/ EndList(p)

Init ==
  /\ store \in [Valid -> {None, Alien}]
  /\ temp = [p \in Proc |-> [n \in Valid |-> None]]
  /\ op = [p \in Proc |-> Idle]
  /\ seen = [p \in Proc |-> [n \in Valid |-> {}]]

Next ==
  \E p \in Proc :
    Step(p) \/ Finish(p) \/ Crash(p) \/ \E req \in Request : Begin(p, req)

Spec == Init /\ [][Next]_vars

-----------------------------------------------------------------------------
(* Properties.                                                             *)

Stored == File \union {None, Alien}
SimplePc == {"check", "encrypt", "open", "write", "rename", "stat", "unlink"}

(* Every variable stays in its type; above all, no file of the storage is  *)
(* ever a partly written one.                                              *)
StorageTypeOK ==
  /\ store \in [Valid -> Stored]
  /\ temp \in [Proc -> [Valid -> File \union {None, Partial, Left}]]
  /\ seen \in [Proc -> [Valid -> SUBSET Stored]]
  /\ \A p \in Proc :
       \/ op[p] = Idle
       \/ op[p] \in [pc : SimplePc, req : Request]
       \/ op[p] \in [pc : {"read"}, req : Request, size : Nat]
       \/ op[p] \in [pc : {"readdir", "entry"}, req : Request, todo : SUBSET Valid,
                     listed : SUBSET (Valid \ Hidden), at : Valid \union {None}]
       \/ op[p] \in [pc : {"done"}, req : Request,
                     answer : Data \union {Garbage, Error, Done, Failed} \union SUBSET Valid]

Finished(p, kinds) == Doing(p, "done") /\ op[p].req.kind \in kinds

(* What a cut of file at the size of another version can pass for.         *)
CutsOf(file, other) ==
  {Cut[file.data][k] : k \in Sizes(other) \cap (1 .. Blocks[file.data] - 1)} \ {None}

(* What a read returns was, under that key, the content of the file at one *)
(* moment of the call, whatever saves and deletions ran meanwhile.  It is  *)
(* the whole content, unless the same call saw a shorter version too, at   *)
(* whose size it may be cut.  Nonsense only answers a wrong key.           *)
ReadSound ==
  \A p \in Proc :
    Finished(p, {"read"}) /\ op[p].answer \notin {Error, Failed} =>
      LET versions == seen[p][op[p].req.name] \ {None} IN
        \E file \in versions \ {Alien} :
          IF op[p].answer = Garbage THEN file.key # op[p].req.key
          ELSE /\ file.key = op[p].req.key
               /\ \/ op[p].answer = file.data
                  \/ \E other \in versions : op[p].answer \in CutsOf(file, other)

(* A file can be read back: under its own key, with nobody changing it and *)
(* nothing failing, a read gives no error, unless its plaintext is of the  *)
(* greatest length that can be saved.                                      *)
ReadComplete ==
  \A p \in Proc :
    LET req == op[p].req IN
      Finished(p, {"read"}) /\ op[p].answer = Error /\ req.key \in LegalKey /\ req.name \in Valid =>
        ~\E file \in File :
           /\ seen[p][req.name] = {file}
           /\ file.key = req.key /\ Blocks[file.data] <= MaxBlocks

(* A list that is returned misses no visible file that was there all the   *)
(* time and shows none that never was, unless readdir itself fails.  An    *)
(* error means that a file vanished while it was being listed.             *)
ListSound ==
  \A p \in Proc :
    Finished(p, {"list"}) /\ op[p].answer # Failed =>
      IF op[p].answer = Error
      THEN \E n \in Valid : None \in seen[p][n] /\ seen[p][n] # {None}
      ELSE /\ \A n \in Valid \ Hidden : None \notin seen[p][n] => n \in op[p].answer
           /\ \A n \in op[p].answer : seen[p][n] # {None}

(* A save or deletion that reports success has happened: the whole file    *)
(* was in place, or gone, at some moment of the call.                      *)
SuccessIsReal ==
  \A p \in Proc :
    /\ Finished(p, {"create", "update"}) /\ op[p].answer = Done
         => Content(op[p].req) \in seen[p][op[p].req.name]
    /\ Finished(p, {"delete"}) /\ op[p].answer = Done
         => None \in seen[p][op[p].req.name]

(* Only a killed process leaves a temporary file behind.                   *)
NoLitter ==
  \A p \in Proc, n \in Valid :
    temp[p][n] \notin {None, Left} =>
      op[p].pc \in {"write", "rename"} /\ op[p].req.name = n

(* A file changes in one step from one whole content to another, and only  *)
(* to what a call under way was asked to save, or away if one was asked to *)
(* delete it.                                                              *)
ChangesAreAsked ==
  [][\A n \in Valid :
       store'[n] # store[n] =>
         \E p \in Proc :
           /\ op[p].pc \in {"rename", "unlink"} /\ op[p].req.name = n
           /\ store'[n] = IF op[p].pc = "unlink" THEN None ELSE Content(op[p].req)]_vars

(* `create` replaces a file only if there was none at some moment of the   *)
(* call: that is, if somebody else made one after it had looked.           *)
CreateLooksFirst ==
  [][\A p \in Proc :
       op[p].pc = "rename" /\ op[p].req.kind = "create" /\ op'[p].pc = "done" /\ store' # store
         => None \in seen[p][op[p].req.name]]_vars

=============================================================================
