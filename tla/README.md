# Specifications of Driver_USB

TLA+ models of the two projects in this repository, the TLC runs that check
them, and proofs checked by TLAPS:

- `src/bai_2`: **usb_guard**, a kernel module that whitelists USB storage
  devices and deauthorizes the others, with a GTK GUI and a terminal monitor;
- `src/bai_1`: **secure_aes**, a character device that runs AES-CBC in the
  kernel, and the *secure file* storage (CLI and GTK editor) built on it.

The two share no code and no state. Line numbers below refer to the files under
`src/`.

## 1. The system

### usb_guard (`bai_2`)

| part | state | operations | interacts with |
|---|---|---|---|
| policy, `usb_guard.c` 84-100, 145-365 | rule table, `whitelist_enabled`, `block_untrusted` | `add`, `remove`, `clear`, `block on/off` written to `/proc/usb_guard/control`; the module parameters | recomputes the trust flag of every active device, schedules block works |
| device tracking, 533-849 | active list, history list, last event | `USB_DEVICE_ADD` / `REMOVE` notifier, seeding of devices that were there before `insmod` | USB core (calls it under the device lock, except for seeding) |
| block works, 154-183, 590-635 | workqueue, one work per decision | check the policy under the lock, then write `0` to `authorized` outside it | USB core |
| load / unload, 1148-1240 | proc files, notifier, workqueue | `usb_guard_init` with its error path, `usb_guard_exit` | all of the above |
| GUI, lists and configuration, `usb_guard_gui.cpp` 1134-1463, 1851-2104 | last status, configuration, flags of the first synchronization | refresh, add and remove rules, access modes, `/etc/usb_guard.conf` | status and control files, block devices |
| GUI, window, 415-741, 866-954, 1557-2018 | rows, selection, buttons, log, timer | refresh (timer, button), select, access buttons, interval | status file, `/sys`, block devices |
| monitor, `usb_guard_monitor.cpp` | none that outlasts a pass | one pass, or a loop of them (`--watch`, `--tui`); `--deauthorize-untrusted` | status file, `/sys/bus/usb/devices/*/authorized` |

What is hard: everything in the module runs concurrently (notifier calls on
several hubs, seeding, control writes, works) and is tied together by one mutex
that several operations take more than once; unloading races with all of it.
The GUI keeps three stores in step (the kernel's list, its own, the file) with
no transaction over them. GUI and monitor act on snapshots: they read the list,
look each device up by its port, and write to a port or to a disk by its name,
while sticks come and go.

What makes it correct: a device the policy blocks has always a work on its way;
the active list is the bus; connections are counted once; nothing outlives the
module; the saved list and the kernel's agree; what is shown, selected and
clicked is one device; the monitor hits nothing that was not listed.

### secure_aes and secure files (`bai_1`)

| part | state | operations | interacts with |
|---|---|---|---|
| padding, `driver/pkcs7.c` | none | pad, check, unpad | cipher |
| device, `driver/secure_aes_driver.c`, `aes_core.c` | a session per open file: parameters, input, output, offset | open, release, `SET_CONFIG`, write, `PROCESS`, read, `RESET`, `GET_STATUS`; init, exit | kernel crypto API |
| client, `app/driver_client.c` | none that lasts | `secure_aes_process_buffer` | device |
| storage, `app/secure_file_service.c`, `file_io.c` | the files of a directory | save (create, update), read, delete, list | client; other processes in the same directory |
| CLI, `app/main.c` | none | `create`, `update`, `read`, `delete`, `list` | storage |
| editor, `app/gui_main.c` | rows, selection, name entry, key entry, text | refresh, select, open, new, save, delete, typing | storage |

What is hard: the order of the file operations on a shared session; errors
halfway; processes that use the storage at once without a lock; kills between
the steps of a save; an editor whose name entry follows the selection while its
text does not.

What makes it correct: what can be read from the device is the result of what
it holds; a call answers its own request; a file is always one whole version, a
read returns a version that was there (cut, in the case that section 3
describes), and what was saved can be read; a save replaces what the user named.

The hazards of all of this, each at its line and with the properties that watch
it, are the `hazards` of `PROJECT.json`.

## 2. The modules

| module | models | abstraction |
|---|---|---|
| `UsbGuard` | `usb_guard.c` and what it meets of the USB core | one action per critical section of `usb_guard_lock`; a notifier call, a seeding step, a work, init and exit are several actions each |
| `UsbLedger` | what tracking promises: who is on a port, and connections counted once | abstract specification, implemented by `UsbGuard` |
| `UsbGuardProofs` | theorems about `UsbGuard` | |
| `UsbGuardMonitor` | the monitor on the kernel module (extends `UsbGuard`) | one action per read of the status, look-up of a device and write of `authorized` |
| `UsbGuardMonitorProofs` | theorems about the two together | |
| `UsbGuardGui` | refresh, synchronization, actions and configuration of the GUI | one action per file operation; the kernel is its rule list, read and changed by the commands |
| `UsbGuardGuiProofs` | theorems about `UsbGuardGui` | |
| `UsbGuardView` | rows, selection, buttons, log, timer and access modes of the GUI | one action per look-up of a device and per disk that is set; the kernel is its list, a stick has one disk |
| `UsbGuardViewProofs` | theorems about `UsbGuardView` | |
| `Pkcs7` | the padding | operators on byte strings |
| `Pkcs7Proofs` | theorems about `Pkcs7` | |
| `SecureAes` | the device | one action per file operation (each holds the session mutex throughout); the cipher is a pair of parameters |
| `CryptoService` | what the client promises | abstract specification, implemented by `DriverClient` |
| `DriverClient` | the client on the device (extends `SecureAes`) | one action per system call |
| `DriverClientProofs` | theorems about the device and the client | |
| `SecureStorage` | the storage and the commands | one action per system call on the directory; the driver as `CryptoService` has it |
| `SecureStorageProofs` | theorems about `SecureStorage` | |
| `SecureEditor` | the editor of `bai_1` | one action per handler, a handler that calls the storage twice is two; the storage does what `SecureStorage` shows of it: an error, or the whole effect at once |
| `SecureEditorProofs` | theorems about `SecureEditor` | |
| `MC...` | constants and definitions for TLC | |

Correspondence of the state:

- `UsbGuard`: `policy` is the rule table with its flags; `active` and `history`
  are the two lists, by port and by identity; `queued` and `checked` count the
  works before and after their policy check; `wq` follows the pointer
  `usb_guard_block_wq` and the queue behind it (destroying one does not clear
  the other); `bus` is the USB core's view of each port with the notifier call
  in progress; `seed` and `phase` are the program counters of the seeding and of
  init and exit. Identities (VID:PID and serial) are members of a small set,
  rules have the same shape, times and formatting are left out.
- `UsbGuardGui`: `gui` is `GuiState` with the place its single thread is at;
  `file` is the configuration file, `usb` the access mode of each stick,
  `kernel` the rule list. `Tokens` is what `split_whitelist_entries` does to a
  rule whose serial number has a comma. `meddled` is a history variable.
- `UsbGuardMonitor`: `mon` holds the options and the place of the loop; `todo` and
  `targets` are the devices of the snapshot that are still to be looked up and
  to be written; `kept` is a history variable, the ports that a pass must spare.
- `UsbGuardView`: `view` is the part of `GuiState` that the window shows, `work` the
  refresh or click the one thread is in, with its local `status`; `port` is what
  is plugged in, with `authorized`, the disk's number and its mode; `said` is a
  history variable that adds up the log. `work.todo` holds the places in the status
  of the devices whose mode is to be set, which are taken in their order. A row is its index into the status, as
  `ACTIVE_COL_INDEX` is.
- `SecureEditor`: `window` holds the widgets, `work` the handler that is in the
  middle of something (a dialog, a refresh after a save) and its file name;
  `origin`, `drift`, `foreign` and `behind` are history variables: where the text
  comes from, and what happened to the name, the file and the list since.
- `SecureAes`: `session[f]` is `struct secure_aes_session`; `module` and `held`
  are the progress of init and exit and the four resources they register.
- `DriverClient`: `call[c]` is the activation of `secure_aes_process_buffer`.
- `SecureStorage`: `store` and `temp` are the directory's `.saes` files and
  temporary files, `op` the call each process is in, `seen` a history variable:
  every version a file had since the call began. Contents are (key, plaintext)
  pairs; `Blocks` is their size, which matters because `read_entire_file` takes
  the size with `stat` and opens the name afterwards, and because the driver
  takes no more than `MaxBlocks`; a text of just that size (`full`) is saved as one
  block more and cannot be read back. `Cut` is what the first blocks of a text's
  ciphertext decrypt to under its own key: another text if the content in front of
  the cut happens to be good padding (`pkcs7.c` 49-59), an error otherwise. In the
  run `long` is such a text. Files that this program did not write have any size.

Operators called "faulty variant" in the modules are not part of any
specification. They are plausible mistakes in the definition that follows them;
putting one in its place makes the property named in `PROJECT.json` fail, which
shows that the property watches that code.

## 3. The runs

| run | size and bounds | what it shows |
|---|---|---|
| `kernel_policy` | 2 ports, 2 sticks of one model, 1 rule, 1 connection per identity and load, 2 equal works; commands may come late | `NoUntrustedLeftAlone`, `ActiveMirrorsBus`, `HistoryCountsActive`, `KeepsLedger` |
| `kernel_faults` | 1 port, 3 identities, 2 rules, every fault but late commands | `TypeOK`, `NothingOutlivesModule`, `RulesWellFormed`, `UnloadEnds` |
| `kernel_monitor` | 1 port, 2 sticks of one model, the monitor in every way to run it; lost works, root's writes to the parameter and to `authorized` | `MonitorSparesTheRest`, `MonitorEnforces`, `UntrustedDealtWith` |
| `driver_client` | 1 client, 1 lawless user, blocks of 2 bytes, a buffer of 4, a key too long and one the cipher refuses | the device's invariants, `FilesClosed`, `KeepsService` |
| `storage` | 2 processes, 3 file names of which one is hidden, 3 keys, 4 plaintexts of 1 to 3 blocks, of which one can be cut to another and one is too long to be read back; kills, failures of the driver and of every file operation but `readdir` | `StorageTypeOK`, `ReadSound`, `ReadComplete`, `ListSound`, `SuccessIsReal`, `NoLitter`, `ChangesAreAsked`, `CreateLooksFirst` |
| `editor` | 2 file names and one the storage refuses, 2 keys and a bad one, 1 text, other processes, failing calls | `TextBelongs`, `RowsFresh`, `SavesOverItsOwn` |
| `usb_gui` | 1 stick, 2 rules of which one has a comma, one entry the kernel rejects; other writers, reloads, kills, a configuration file that cannot be opened or be written in full | `GuiTypeOK`, `InStep`, `SavedWhenReported`, `PolicyReapplied` |
| `gui_view` | 2 ports, 2 sticks of which one fits both ports, 2 pluggings, 2 disk names, 1 click, a saved mode; disks and mounts that refuse, saving that fails, unloading and loading, blocking | `ButtonsRight`, `LogFollows`, `SelectionKept`, `WrittenAsChosen`, `EventuallyShown` |

Why the bounds are enough: two ports and two sticks of one model are the
smallest instance in which a device can replace another under the same port
name, a rule can cover one device and not the other, and a notifier call can
overlap with a call on another port; the rule table is full with `MaxRules` of
one or two, so the full-table branch is taken; `MaxWorks` of two lets an
outdated work and a new one exist for the same device. Blocks of two bytes
reach every branch of the padding (an empty input, a partial and a whole block,
a full block of padding), and a buffer of two blocks is filled by one write or
by two. Two processes suffice for every pairwise race on a file; a third would
only repeat one. The GUI is one process by construction (its application
identifier is unique). For the monitor one port is enough: it
treats each port by itself, and what can go wrong is that the device at a port
is another one by the time it writes. In `gui_view` a stick can come back at another
port, two sticks can swap rows when the module is loaded again, and a disk name
is given a second time, each with two pluggings; the two sticks have different keys. In the editor two names are the least with which a row can be selected
over the text of another. Bounds in guards: `MaxConnects`, `MaxWorks` in
`UsbGuard`; `MaxPlugs`, `MaxChoices` and `Fits` in `UsbGuardView`; everything
else is finite by itself.

Four runs show behaviour that contradicts a document or a message of the
repository. Each one is a `finding` of `PROJECT.json` with the quotation:

| run | property that fails | what happens |
|---|---|---|
| `kernel_trust` | `TrustedNeverBlocked` | the block work decides under the lock and writes `authorized` after it; a rule added in between is overruled |
| `kernel_unload` | `QueueNotMisused` | exit destroys the workqueue before it removes the control file |
| `kernel_seed` | `ActiveMirrorsBus` | a device unplugged while the seeding works on it stays in the active list |
| `usb_gui_access` | `AccessActionKeepsWhitelist` | setting one stick read-only, without a configuration file, clears the kernel's whitelist |

Known behaviour of the code that the models contain and no property excludes:

- the trust flag is computed before the entry exists and stored later
  (`usb_guard.c` 561, 689); a rule command in between leaves it wrong until the
  next one. The block works test the rules again, the monitor goes by the flag;
- two creates of one name overlap, and the second replaces the first one's file
  (`secure_file_service.c` 542, 629): `CreateLooksFirst` says that nothing but such
  an overlap lets a create replace a file;
- a file that is replaced between the `stat` (`file_io.c` 23) and the `fopen` (34)
  of a read by a longer version is read up to the old size. Decryption cannot
  tell: if the content in front of the cut looks like padding, the cut text is
  returned as success, under the right key. `ReadSound` says when: only if the same
  call saw another version of just that size;
- `readdir` failing halfway is not told from the end of the directory
  (`secure_file_service.c` 411), and the list is returned cut short: the fault
  `readdir`;
- if usb_guard is unloaded between `fs::exists` (`usb_guard_gui.cpp` 843) and the
  read (847), the GUI takes an empty status for a good one;
- a plaintext of exactly 8 MiB can be saved and not be read back: the exception in
  `ReadComplete`;
- the editor puts the name of a selected row above the text of another file, and
  a refresh may do so while it empties the list: the exceptions `drift` in
  `TextBelongs` and `SavesOverItsOwn`;
- after a save the editor selects the row of the name that its entry then holds,
  which a refresh may have changed (`gui_main.c` 454): no property says which row;
- a stick that took over the name of a disk between the reading of the status and
  the click gets the mode: the premise of `WrittenAsChosen`.

Some faults are modelled and left out of the passing run of their module, because
the properties do not hold with them and the code does nothing to make them
hold: what the run establishes is silent about them.

| fault | left out of | which would fail | where it is run |
|---|---|---|---|
| `seedunplug`: unplugged while the seeding works on it | `kernel_policy` | `ActiveMirrorsBus`, `KeepsLedger` | `kernel_seed`, `kernel_faults` |
| `late`: commands while rmmod runs | `kernel_faults` | `QueueNotMisused` | `kernel_unload`, `kernel_policy` |
| `flush`: an error of the stream's last flush | `usb_gui` | `SavedWhenReported` | `usb_gui_access` |
| `access`: block nodes that refuse | `usb_gui` | `PolicyReapplied` | `usb_gui_access`; refusals also in `gui_view` |
| `readdir`: an error in the middle of a directory | `storage` | `ListSound` | nowhere |

`kernel_policy` also runs without lost works and root's own writes, which
`kernel_faults` and `kernel_monitor` have.

### Fairness

`UsbGuard!FairSpec` assumes weak fairness of every step the kernel takes by
itself: a notifier call that has begun, a work (each of its two steps), the
seeding, init and exit. These are threads that the scheduler runs and that wait
only for `usb_guard_lock`, which every holder gives up after a bounded section.
Two steps have strong fairness: a work's write of `authorized`, which waits for
the device lock, and a failing init's `usb_unregister_notify`, which waits for
the notifier chain's rw_semaphore. Notifier calls take both again and again, and
the kernel serves the waiters of a lock in turn.
Nothing is assumed of plugging, commands, or `insmod`/`rmmod` being called.
`UsbGuardGui!Spec` assumes that the GUI's thread runs, and strong fairness of its
refresh timer: `on_refresh_timer` returns `G_SOURCE_CONTINUE`, and the main loop
dispatches a timeout that is due along with the user's events, however often
handlers run in between. The timer is on unless the user switches it off.
`PolicyReapplied` therefore speaks of a GUI with automatic refresh. `UsbGuardView!ViewSpec` assumes the same of its thread, and
that the timeout fires while its source exists: a user who changed the interval
again and again, faster than it ends, could postpone it for ever.
`UsbGuardMonitor!MonitorSpec` adds to the kernel's fairness that the monitor's
thread runs, which covers the end of its interval, and strong fairness of its
write, which waits for a device lock like that of a block work. Nobody has to
start the monitor, and it may be stopped at any time: `MonitorEnforces` and
`EventuallyShown` promise nothing then. `DriverClient`, `SecureEditor` and `SecureStorage`
state safety only:
a system call may block and a process may be stopped.

## 4. The proofs

Every invariant and every action property that a passing run checks is also a
theorem, for every value of the constants. Each proof module states one inductive
invariant, or one per property on top of a common one for the types, and reads
the properties off it.

| property | theorem | hypothesis |
|---|---|---|
| `TypeOK`, `NothingOutlivesModule`, `RulesWellFormed` of `UsbGuard` | `TypeCorrect`, `UnloadSafe`, `RulesStayWellFormed` | none |
| `KeepsLedger`, `HistoryCountsActive` | `LedgerKept`, `HistoryCounts` | `seedunplug` is not in `Env` |
| `ActiveMirrorsBus` | `ActiveIsBus` | `alloc`, `reauth`, `seedunplug` are not in `Env` |
| `NoUntrustedLeftAlone` | `BlockingReachesAll` | `alloc`, `io`, `reauth`, `param`, `seedunplug` are not in `Env` |
| `QueueNotMisused` | `QueueUsedInTime` | `late` is not in `Env` |
| `MonitorTypeOK`, `MonitorSparesTheRest` | `MonitorTypeCorrect`, `MonitorSpares` | none |
| `GuiTypeOK`, `InStep` | `GuiTypeCorrect`, `WhitelistsStayInStep` | none |
| `SavedWhenReported` | `ReportsAreSaved` | `flush` is not in `Fault` |
| `ViewTypeOK`, `ButtonsRight`, `LogFollows`, `SelectionKept`, `WrittenAsChosen` | `ViewTypeCorrect`, `ButtonsAreRight`, `LogsFollow`, `SelectionIsKept`, `WritesAreChosen` | none |
| `DriverTypeOK`, `OutputCurrent`, `BuffersBounded`, `DriverWhole` | `DeviceSound` | `CipherKeepsLength` |
| `FilesClosed`, `KeepsService` | `NoFileLeaks`, `ClientKeepsService` | `CipherKeepsLength` |
| `StorageTypeOK`, `ReadSound`, `ReadComplete`, `SuccessIsReal`, `NoLitter`, `ChangesAreAsked`, `CreateLooksFirst` | `StorageTypeCorrect`, `ReadsAreSound`, `ReadsAreComplete`, `SuccessesAreReal`, `NoLitterLeft`, `FilesChangeAsAsked`, `CreatesLookFirst` | none |
| `ListSound` | `ListsAreSound` | `readdir` is not in `Fault` |
| `EditorTypeOK`, `TextBelongs`, `RowsFresh`, `SavesOverItsOwn` | `EditorTypeCorrect`, `TextStaysNamed`, `RowsStayFresh`, `SavesWhatWasSeen` | none |

The hypotheses are those under which the runs check the property, or weaker
ones, and each names something the code does not survive: a device unplugged
while the seeding works on it (`kernel_seed`), a command while rmmod runs
(`kernel_unload`; only `QueueNotMisused` minds it), a block work that is lost
with an allocation or a write that fails, root writing the parameter or
`authorized` behind the module's back, the error of a flush that
`save_persistent_config_or_throw` does not test, an error of `readdir` that is taken for the end.
`CipherKeepsLength` is what is assumed of the kernel's `cbc(aes)`: whole blocks
become whole blocks of the same length.

### The kernel module

`UsbGuardProofs` holds for every set of ports, identities, rules and parameter
lists and every `MaxRules`. `TypeOK` is not inductive without `BusShape`,
`ListShape` and `SeedShape`: a notifier call past the interface test is about a
storage device (so its history exists), a free slot of the active list is
`NoEntry` and not merely without a device, and the seeding holds a storage
device while it works. The rule table rests on lemmas about appending to and
removing from an injective sequence.

`LedgerKept` goes step by step: each action maps to a step of `UsbLedger` or
leaves its variables alone. Its invariant is `EntriesCurrent` with
`SeedCurrent`: what the seeding read of a device is still so when it stores it.
`HistoryCounts` is by cardinality: an upsert adds one port to the set of ports
that hold an identity, a removal takes one.

`ActiveIsBus` needs `Tracked`: a device that was let in is in the list, or the
seeding has still to store it. `BlockingReachesAll` needs `Enforced` in turn: a
device the policy blocks has a work that is queued or checked, a step of its notifier
call that will schedule one, or the seeding has still to come to it. A command
that makes the policy stricter reaches every listed device, which is where
`Tracked` comes in, and `QueueUp` (between insmod and rmmod the queue takes
works) says that the works arrive.

`UsbGuardMonitorProofs` adds `Spared`: what the monitor is to look up or to
write to contains none of the ports that the pass has to spare, whatever the
kernel and the bus do in between.

### The GUI

`UsbGuardGuiProofs`: `ThreadShape` says what the thread holds at each place it
can be at. `SyncShape` strengthens `InStep`, which speaks of a GUI at rest, to
every place in between: after an addition or a removal, the list that is to be
saved is on its way, in the status that was read or in the one that is shown;
and while the kernel's list is filled again, what it has and what is still to
come are the saved list. `SaveInv` ties a report to the file.

`UsbGuardViewProofs`: `WorldInv` (no two disks share a name, the kernel's list
is what is plugged in), `ViewInv` (row, buttons and log agree with the status
that is shown) and `WorkInv` (the disks to be set are ones of the status in use,
and a mode was chosen for each). A disk or a mount that refuses, and a policy that cannot be saved, leave these as
they are. `WritesAreChosen` follows because a status that
tells the truth about a disk leads, by `DisksDiffer`, to one stick only.

### The device and its client

`Pkcs7Proofs` proves, for every block size from 1 to 255 and every byte string,
`UnpadUndoesPad` (what was padded is accepted and comes back) and
`PadUndoesUnpad` (what is accepted was padded). TLC's runs only meet blocks of
two bytes. `DriverClientProofs` builds on it. `SessionOK` of every session, with
`DriverWhole`, is the device's invariant; a client's `CallOK` adds what it knows of its own
session after each system call, which no other program can change.
`ClientKeepsService` shows that each step is one of `CryptoService` or none.
What a right answer is, is said by `Right` in `DriverClient` and in the terms of
PKCS#7: whole blocks that are the text followed by n bytes n. It mentions none of
the operators that model `pkcs7.c`; the lemma `ResultIsRight` shows that what the
driver computes with these is right, for an input of any length.
`DecryptUndoesEncrypt` is the round trip of the device, under the hypothesis
that CBC decryption inverts CBC encryption.

### The storage and the editor

`SecureStorageProofs` holds for any number of processes and any requests, with
kills and failures. Its invariant speaks of each process by itself: what a call
under way knows of its temporary file and of the versions each file had since it
began (`SaveOK`, `ReadOK`, `DeleteOK`, `ListOK`; for a read also that the size it took
is one of a version it has seen), what an answer may say
(`AnswerOK`), and that it has seen what the files are now (`UpToDate`). No
process has to know what another one is doing, which is why nothing is locked.

`SecureEditorProofs`: `EditorInv` consists of `Shape` (a handler that waits
for an answer holds a valid name), `Provenance` (unless the name drifted, the
entry names the file of the text, and that file still holds it unless others
changed it: `TextBelongs` alone says nothing of the disk, which a save needs),
`Freshness` (the rows stay up to date while a question is open) and `OffBehind`.

### Assumptions, and what is not proved

Assumptions on the constants are the `ASSUME`s of the modules, which TLC
evaluates in the runs. They say that sets have the shape the code gives them,
that special values differ from the others, and that three sets are finite: the
ports of both USB models, and the entries a user may type (GTK bounds their
length). `PadLength` needs a block of at most 255 bytes because the length is
stored in a byte; the ciphertext of an accepted text is at most one block too
long to be decrypted, because the driver encrypts nothing above 8 MiB.

Only model-checked are the liveness properties `UnloadEnds`, `UntrustedDealtWith`,
`MonitorEnforces`, `PolicyReapplied` and `EventuallyShown`: fairness and ENABLED
are outside what the prover handles. `TrustedNeverBlocked` and
`AccessActionKeepsWhitelist` are findings, and false.

## 5. Not modelled

- `file_manager.c`: not in any build list of `app/Makefile`.
- Formatting and parsing of texts, mounts, single partitions and I/O rates: no
  state of the properties; the comma in a serial number, which is one, is in
  `Tokens`. The monitor's TUI and JSON output, the styles of the windows.
- The fallback from `BLKROSET` to `/sys/block/*/ro`: both set the same disk.
- A second activation of the editor, which builds a second window over the same
  state: what GTK then does with the widgets is not in this code.
- Power failure: nothing is synced before or after `rename`, so the code gives a
  model nothing to check. A kill is modelled.
- The creation of the storage's directory by `secure_storage_resolve_directory`.
- AES itself: `CbcEncrypt` and `CbcDecrypt` are parameters; TLC gets an
  invertible byte-wise stand-in.
- Memory of the kernel beyond the question whether an allocation fails.
- Scripts, Makefiles, `verify.sh` and the desktop entry.

## 6. Plan

What could still be added are weaker hypotheses: `NoUntrustedLeftAlone` for the
devices no lost work was about, when allocations may fail, and
`ActiveMirrorsBus` for the ports root did not write to. The liveness properties
stay with TLC.
