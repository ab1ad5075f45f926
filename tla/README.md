# A verification of eStoraged

eStoraged is the OpenBMC daemon that manages one encrypted eMMC: it finds the
device that Entity Manager has configured, publishes a D-Bus object for it,
and formats, unlocks, locks and erases it on request. The modules here model
the daemon's control and what it does to the storage. TLC checks them on small
instances, and TLAPS proves the main safety properties for every instance.

All paths below are relative to the repository.

## 1. The system

### Components

| Component | Source | State it keeps | Operations | Module |
|---|---|---|---|---|
| Volume object | `src/estoraged.cpp` | none of its own: the LUKS header and keyslots, the device-mapper device, the mount and the mount point | FormatLuks, Unlock, Lock, ChangePassword, Erase, Locked, EncryptionStatus | `EStoraged`, `VolumeService` |
| Cryptographic erase | `src/erase/cryptoErase.cpp` | keyslots | destroy every active keyslot | `CryptErase`, `CryptEraseAtomic` |
| Overwrite and verify | `src/erase/zero.cpp`, `src/erase/pattern.cpp` | the medium, a file offset, a loop index | write or compare the whole device in blocks | `BlockErase`, `BlockEraseAtomic` |
| Sanitize | `src/erase/sanitize.cpp` | the medium | eMMC erase, then secure sanitize | `Sanitize`, `Emmc`; one step of `EStoraged` |
| Drive geometry | `src/erase/verifyDriveGeometry.cpp` | none | compare the size with two limits | `Emmc` |
| Configuration scan | `src/getConfig.cpp` | `respData`, outstanding calls, retry timers | ask the mapper, read each object, retry | `Discovery` |
| Daemon | `src/main.cpp` | `storageObjects`, `filterTimer` | first scan, signal handler, creation of objects | `Discovery`, `DriveSetup` |
| Device lookup, sysfs readers | `src/util.cpp` | none | find the device, its limits, size, life time and part number | `DriveSetup` |
| eMMC set-up | `src/estoraged.cpp:62-81`, `592-675` | eMMC registers | high-speed timing, background operations | `DriveSetup` |
| libcryptsetup and filesystem wrappers | `include/cryptsetupInterface.hpp`, `include/filesystemInterface.hpp` | none | forward one call each | steps of their callers |
| Service file, build, static inventory properties | `service_files/`, `meson.build` | none | restart the daemon | `Crash`, `Die`, `Restart` |

### How they interact

* The daemon has one thread and one `io_context`. A D-Bus method runs to its
  end before the next event is handled, so two methods never interleave. What
  does interleave with a method is the world outside: users of the mounted
  filesystem, the death of the process, loss of power, failures of each call.
* Everything a method achieves is in the kernel or on the disk. The daemon
  remembers nothing between calls, nor does it look at what it finds when it
  starts. A crash therefore loses no memory, but leaves the storage in the
  middle of a method, where the next method does not expect it.
* `erase()` creates one object per method and calls it on the same device
  file that holds the LUKS header, without locking the volume first.
* Scans are asynchronous. A scan is kept alive by the callbacks and timers
  that refer to it, and its destructor calls back into `main.cpp`, which
  creates volume objects in a map that all scans share.
* The callback looks up, measures and opens the drive and runs the
  constructor, which sends it two commands. Its result, the device, the size,
  the limits, stays with the object: the erase methods use the device and the
  limits for as long as the daemon runs. An exception that nobody catches
  leaves the scan's destructor and ends the process; systemd restarts it, and
  the set-up begins again on registers that kept their values.

### What is hard

1. A method is a chain of external calls, and each one may fail after the ones
   before it took effect. Only one of the ways out of Unlock undoes anything.
2. The daemon dies between two calls, or the machine does. After the first the
   kernel's state survives, after the second it does not.
3. Legal calls come in any order: format while unlocked, unlock twice, lock
   while locked, erase while mounted.
4. The erase loops handle short reads and writes, with retries and with index
   arithmetic in unsigned 64-bit integers.
5. Scans overlap, their reads fail and are retried after a delay, and only
   some of their answers may arrive.
6. The set-up is cut short and repeated at any point, its commands have effect
   with or without an answer, and its exceptions are caught or not.
7. Sanitize is two commands; the first may fail half-way, the second purges
   only what the first unmapped, and a mounted filesystem writes in between.

`PROJECT.json` lists each hazard at its line with the properties that cover it.

### What makes it correct

* Volume: a method answers without an error only if the storage is in the
  state it promises; data is lost only to a method asked to destroy it; what
  was cryptographically erased stays unreachable; a failed Unlock relocks; a
  client can always get back to a usable volume.
* Cryptographic erase: no keyslot is forgotten, whichever fail.
* Overwrite, verify: success means the whole device; the loops end.
* Discovery: the only device is found, and no scan ends the daemon that serves
  it by making a second volume object.
* Set-up: a register that should be programmed once is; what is published is
  true of the one device acted on; failing commands do not keep the drive from
  being served.
* Sanitize, geometry: success means that nothing of the old data is left, or
  that the size is within the limits.

## 2. The modules

| Module | What it is |
|---|---|
| `EStoraged` | the volume object and its storage; its safety properties |
| `EStoragedProofs` | the inductive invariant, and the proofs of those properties |
| `MCEStoraged` | the fault sets that are checked |
| `Findings` | what the documentation says of Unlock, and the code does not do |
| `Recovery`, `RecoveryProofs` | the volume object with a client that wants its volume back |
| `VolumeService` | the abstract volume: what clients are promised |
| `VolumeRefinement`, `VolumeProofs` | the refinement mapping from `EStoraged` to it, and its proof |
| `CryptErase`, `CryptEraseProofs` | the keyslot loop |
| `CryptEraseAtomic` | the keyslot loop as the one step of `EStoraged` |
| `BlockErase`, `BlockEraseProofs` | the block loops |
| `BlockEraseAtomic` | the block loops as the steps of `EStoraged` |
| `Discovery`, `DiscoveryProofs` | scans, signals, timers, creation and death |
| `DriveSetup` | from a configuration object to a published volume object |
| `Sanitize` | the two commands of VendorSanitize |
| `Emmc`, `EmmcProofs` | `DriveSetup` composed with `Sanitize` and the geometry check |
| `MCEmmc` | the machines and configurations that are checked |
| `Ranking` | the order in which the liveness arguments descend |

### `EStoraged`

`luks`, `keys`, `fs` and `raw` are the disk: whether there is a LUKS2 header,
which passwords open it, the state of the ext4 filesystem inside, and what the
whole device reads as once it is overwritten. `mapped`, `mounted` and
`mountPoint` are the kernel's: the crypt device, the mount and its directory.
`pc` names the external call that the running method makes next, `call` the
method. Each step is one such call with the checks the code makes around it:

| Method | Steps |
|---|---|
| `formatLuks` | `CryptFormat`, `AddKeyslot`, `Activate`, `CreateFilesystem`, then the mount |
| `unlock` | `Activate`, then the mount |
| the mount (`mountFilesystemLockOnError`) | `Fsck`, `CreateMountPoint`, `Mount`; on failure `RemoveMountPoint`, and for Unlock `Relock` |
| `lock` | `Unmount`, `RemoveDirectory`, `Deactivate` |
| `changePassword` | `ChangePassword` |
| `erase` | `CryptErase`; `OverwriteHeader`, `OverwriteRest`; `Verify`, `Compare`; `VendorSanitize`; `SecuredLocked`, then `lock` |

A step succeeds, throws (`Throw`: the D-Bus error), or, where the code catches
two particular exceptions, goes to `LockOnError`. `before` and `reply` are
history: how the device was when the call arrived, and the answer.

The world around it is modelled as follows.

* `cryptFormat` refuses a device that is in use, `cryptActivateByPassphrase` a
  name that is already active, `umount` a directory that is not a mount point.
* `fsck -p` exits with 0 only if there was nothing to repair and with 1 after
  a repair; `system()` reports both as the code reads them, zero or not.
* `std::filesystem` calls return a value or throw `filesystem_error`, which is
  a `runtime_error` with another text than the two the code looks for.
* Each password has at most one keyslot.
* A format, a keyslot operation, an overwrite or a sanitize that fails or is
  cut short leaves one of the states in `Torn`. Any other call that fails has
  had no effect. After the first blocks of an overwrite the device reads as
  neither content, unless it held the same content already. An overwrite that
  fails at its last call may have written everything, and one of a mounted
  volume may end without an error on a device that reads as neither.
* A verification decides on what the device holds when it is opened (`Verify`),
  but reads it piece by piece (`Compare`): a mounted filesystem may write to
  what has been read already, or to what is still to be read. That the block
  loops do no more than this is what `BlockEraseAtomic` shows.
* `Crash` keeps `mapped`, `mounted` and `mountPoint`; `Reboot` does not.
* `Faults` says which failures occur. They are unlimited in number: no bound
  is needed, since the state space is finite with two passwords.

### `VolumeService` and `VolumeRefinement`

`VolumeService` says what a client may rely on, without LUKS, mounts or
directories: the volume is locked, unlocked or stranded (`access`), some
passwords open it (`openers`), it has contents or not, and a call is being
served or not. `Costs` lists what each method may destroy on its way, `Does`
the one step in which a method that succeeds does what it promises; a method
that fails leaves the access as it was before the call, or strands the volume,
which only the four methods that open or close it can do. The mapping takes
`openers` from the keyslots and `contents` from the filesystem. While a method
has the device mapped and not yet or no longer mounted, the client's view is
`before`: the method's one change of access happens at its last step.

### `CryptErase` and `CryptEraseAtomic`

The loop of `doErase` over the keyslots, with the status of each (active, last
active, unbound, inactive), destroys that fail, and a crash anywhere.
`found` and `failed` are history. `CryptEraseAtomic` instantiates `EStoraged`
with the keyslots for passwords and checks that the loop, seen from there, is
its step `CryptErase`, or `Crash` with what `Torn` leaves. So the outcomes of
that step are derived from the loop and not assumed.

### `BlockErase`

`Zero` and `Pattern` have the same loops: `NextBlock` is the outer loop,
`Write` and `Read` a pass of the inner one, `AfterTransfer` its bookkeeping. A
cell of the medium is either the content written and expected, or not; whether
that content is zeros or the pseudo-random pattern makes no difference to the
loops. `Call` starts a method and `Open` opens the device and asks its size.
Transfers may be short or empty, or throw. `Modulus` stands for 2^64.
`Interfere` is a filesystem left mounted on the device, `Crash` a daemon that
dies inside a loop.

`BlockEraseAtomic` adds what the volume sees of the medium: `header`, the LUKS
header in the first `HeaderSize` cells, `contents`, the filesystem behind it,
`uniform`, whether the device reads as one content everywhere, and `agreed`,
whether it did when it was opened. They only watch: `HistoryNext` is defined
for every step of the loops. With them for `luks`, `fs` and `raw`, the loops
implement the steps `OverwriteHeader`, `OverwriteRest`, `Verify` and `Compare`
of `EStoraged`, or its `Crash`, and a write by others its `FsWrite`. The
overwrite has passed from the first of its steps to the second when the last
cell of the header is written, in the middle of a block if the header ends
there. So the outcomes of these steps, `Torn` included, are derived from the
loops. An earlier `EStoraged` had a single step for a verification and a
narrower `Torn`; the loops do not implement that one.

### `Discovery`

A scan (`scans[s]`) first waits for the mapper, then for a reply or a retry
timer of each path. When nothing refers to it any more it has `ended`, and
`EndScan`, the callback of the destructor, runs before any other event is
handled. `lost` is history. `queued` counts the calls of
`createStorageObjects` that are ready: the first is posted by `main`, the
others are expired timers. `Die` is a process that ends in the callback: an
exception that leaves a destructor, or the null descriptor that
`enableBackgroundOperation` uses.

All configuration objects lead to the one device, since `findDevice` does not
use their names and takes the first device that will do (`util.cpp:228-263`),
and the D-Bus path of a volume object is the name of its device
(`estoraged.cpp:84-87`). A second volume object therefore never comes to be:
`initialize()` (`estoraged.cpp:163`) throws for an interface that is registered
already, out of the callback, and the daemon dies (`PathTaken` in `EndScan`).

### `DriveSetup`, `Sanitize` and `Emmc`

`DriveSetup` follows the callback of `createStorageObjects` for the one
configuration object, one step per thing that can fail, with a program counter
`pc`: `Find`, `Size`, `ReadSysfs`, `Open`, then the constructor's
`ChangeHsTiming`, `ReadExtCsd`, `SwitchBkops` and `Publish`. `profile` is what
the block devices are, `config` what the configuration says; `bkops` and
`fast` are registers of the drives. `info` is what the object is made from.

* Several devices may pass for the eMMC; the directory iterator picks one. A
  type file that cannot be read hides its device (`missed`, history). A
  placeholder is final: no later scan tries again.
* stdplus's `ioctl` gives a status or throws `std::system_error`. The
  constructor turns a status into `HsModeError` or `BkopsError` and catches
  it; it does not catch `system_error`. Either way the command may have had
  its effect.
* A descriptor that is null skips the timing and ends the daemon in
  `enableBackgroundOperation`: a virtual call through a null pointer.
* `Kill` may strike at any step; `Restart` begins again with nothing but the
  registers; `Reboot` also resets the timing.

`Sanitize` follows the sectors as they were when the method was called: `live`
ones still read as they did, `stale` ones have a copy left in cells that no
read reaches. `LastGroup` is the argument of the erase command, cut to the
range of an argument. `EmmcErase` unmaps the sectors up to it, or some of them
if it fails; `EmmcSanitize` purges the cells; `Write` is a filesystem still
mounted, which moves copies to cells. A drive refuses a last group beyond its
size.

`Emmc` composes the two: erase methods are served once the set-up has
published the volume, on the device and the limits it found, and `Interrupt`
cuts either short. `EStoraged`'s step `VendorSanitize` that succeeds leaves
nothing behind: `SanitizeLeavesNothing` is why.

`Discovery` takes the whole callback for one step, `EndScan`. Its three
outcomes are the ends of `DriveSetup`: `serving`, `placeholder` and `dead`.
The callback runs without returning to `io_context`, so no other event comes
between its steps. `DriveSetup` has the one configuration object, so that its
`Publish` finds the D-Bus path free.

## 3. The runs

| Run | What it asks | States | Result |
|---|---|---|---|
| `all_faults` | With every fault, crash and reboot at every step: types, what the helpers assume, true answers, no unasked loss of data, no access to erased data, erased devices stay erased, stranded devices stay stranded, and all of it implements `VolumeService` | 5427 | holds |
| `contained` | Without the faults in `StrandingFaults`, does only FormatLuks leave a device mapped and unmounted? | 3314 | holds |
| `recovery_by_reboot` | After any faults, does trying Unlock, FormatLuks, Lock and then a reboot bring the volume back, and is no step of it in vain? | 5136 | holds |
| `crypt_erase` | Does the keyslot loop destroy or report everything, and is it one step seen from outside? | 2353 | holds |
| `block_erase` | Are the block loops exact, do they end, and are they the steps of the volume seen from outside, whoever writes meanwhile? | 18032 | holds |
| `discovery` | Does the volume object stay unless a read is lost for good, and is the only device found unless an answer is, with overlapping scans; is something that leads to it under way until then? | 20401 | holds |
| `emmc` | Is a register programmed once, is what is published true, does the drive come up with no step in vain, and do sanitize and the geometry check answer truly, however often set-up and methods are cut short? | 338924 | holds |
| `unlock_relocks` | Does a failed Unlock leave the device locked, as `estoraged.hpp:291-292` says? | | violated |
| `fsck_resolves` | Does Unlock resolve filesystem errors, as `estoraged.cpp:463-465` says? | | violated |
| `recovery_by_format` | Is reformatting enough after a crash, as `estoraged_test.cpp:476-482` says? | | violated |
| `called_again` | Can `createStorageObjects` be called again when new configuration objects show up, as `main.cpp:27-28` says, when reads fail more often than they are retried? | | violated |
| `null_descriptor` | Does a device that cannot be opened leave the daemon running, as the constructor's first call allows (`estoraged_test.cpp:816-820`)? | | violated |

### Bounds

* Two passwords: `ChangePassword` handles two, and the code only compares
  passwords for equality through libcryptsetup. The recovery and findings
  runs never need a second one.
* Four keyslots instead of 32: enough for an active slot before, at and after
  a failing one, an unbound one, and the last active one at any position.
* A device of 5 cells in blocks of 2: two whole blocks and a partial one; two
  retries; arithmetic modulo 8, above the 7 that `SizesAssumption` asks for. A
  header of two cells, so that it takes one write or two. `Content` only tells
  the volume which of the two contents it is: `"pattern"`.
  Real sizes are covered by the proofs.
* Two configuration objects, two scans at once, one retry, three failures:
  two objects are needed for an attempt at a second volume, two scans to overlap.
  `MaxQueued` limits the calls that are ready at once to two.
  Three failures let a read fail once more than it is retried and something
  else fail besides. `VolumeStaysIfAllAnswer` and `OnlyConfigIsFound` except
  what `lost` records; `called_again` checks `CallableAgain` without that
  exception.
* Two block devices: one eMMC beside another disk, none, or an eMMC and an SD
  card, so that there is a choice. Sectors of 2 bytes and arguments with 2
  values: the drive of 3 sectors has more than an argument can name, the one
  without any gives the largest argument. Estimates 0, 1, 2, 3, 11 and 12
  reach both ends of their range and both orders. The limits include the sizes
  themselves and an empty range. Two failures or deaths: one to leave
  something half done and one more during the repetition. (With three there
  are a million states, and the same holds.)

### Fairness

* `BlockErase`: weak fairness of the loop. A method runs in the only thread,
  and each pass of the loop ends.
* `Discovery`: weak fairness of the daemon's events: `io_context` handles what
  is ready, timers expire, and a D-Bus call is answered, if only by the
  bus's own timeout.
* `Recovery`: weak fairness of the running method, once no fault occurs any
  more, and of the client's next try. The client is the model's own; nothing
  is assumed of the daemon but that it finishes the method it runs.
* `Emmc`: weak fairness of the set-up with systemd's restart
  (`Restart=always` in the service file), and of a sanitize that was called.
  `MaxErrors` bounds the failures; it stays below systemd's default limit of
  five starts in ten seconds, after which it would give up. `DriveComesUp`
  rests on it: for a device that never opens it does not hold. Nothing is
  assumed of the statuses that commands answer with: these are not bounded.
* `EStoraged` and `CryptErase` have safety properties only.

`CHECK_DEADLOCK FALSE` is set in `Discovery` and `CalledAgain` (with both
objects exposed and every scan ended nothing happens any more) and in the two
recovery runs (a client with its volume back has nothing left to do). In
`Emmc` and `NullDescriptor` a daemon with a placeholder waits for events that
change nothing.

### What the violations show

1. **Unlock does not always relock** (`unlock_relocks`). The handler compares
   the text of the exception with two constants. When the mount fails and the
   mount point then cannot be removed, `filesystem_error` passes through and
   the device stays unlocked behind an error.
2. **A repaired filesystem fails Unlock** (`fsck_resolves`). Status 1 of
   `fsck -p` means that errors were corrected; the code takes it for failure.
   The second Unlock succeeds.
3. **A crash of the service is not recoverable by its methods**
   (`recovery_by_format`). After a death between activation and mount, Unlock
   fails at the activation, FormatLuks at the format, Lock at the unmount.
   `StrandedUntilReboot` says the same as a law: only a reboot helps. This
   includes a FormatLuks that failed half-way with no crash at all.
4. **A new configuration object can end the daemon** (`called_again`). The
   callback counts the objects that answered in this scan, not those it already
   has. When the reads of the first fail until they are given up and the second
   answers, it builds another `EStoraged` on the same device and D-Bus path,
   whose `initialize()` throws: the daemon and the volume object it served are
   gone. The restarted daemon finds two configuration objects and serves
   neither.
5. **A device that cannot be opened ends the daemon** (`null_descriptor`). The
   failure is caught and logged, and the null descriptor handed on. The timing
   looks for it, `enableBackgroundOperation` does not.

## 4. The proofs

All theorems are checked by `tlapm` to the last leaf.

### `EStoragedProofs`

For every set of passwords and every set of faults:

| Theorem | States |
|---|---|
| `TypeCorrect` | `TypeOK` |
| `HelpersFindWhatTheyAssume` | `Assumed`: what `estoraged.hpp:275-297` expects of callers |
| `AnswersAreTrueAlways` | `AnswersAreTrue` |
| `OnlyRebootFreesAStrandedDevice` | `StrandedUntilReboot` |
| `OnlyFormatStrands` | `StrandedOnlyByFormat`, assuming that `Faults` and `StrandingFaults` are disjoint |
| `DataLossIsAlwaysAsked` | `DataLossIsAsked` |
| `SealedDataStaysUnreachable` | `SealedDataIsUnreachable` |
| `ErasedAlwaysStaysErased` | `ErasedStaysErased` |

They rest on one inductive invariant, `IInv`, since none of the properties is
inductive: that `Mount` leaves a true answer depends on what `Fsck` saw, and
that `Deactivate` may succeed on what `Unmount` did two steps before.
`OpAt` says which methods pass each `pc`; `StorageOK` relates disk and kernel
between calls as well (a mounted volume is mapped and has its mount point, an
overwritten device has no header and no filesystem); `OpeningOK` and
`ClosingOK` say what a method has established at each step and that `before`
still describes the device at its first. The proof that a step keeps `IInv`
has one step per action and one below for each conjunct it can disturb. Action
properties follow from `IInv` by cases on the actions.

### `VolumeProofs`

`EStoragedImplementsVolumeService`: initial states map to initial states, and
every step of `EStoraged` to a step of `VolumeService` or to none. It uses the
`IInv` of `EStoragedProofs`, for `before` to be the access a method started
from, and for FormatLuks to find no keyslot but its own.

### `RecoveryProofs`

`RecoveryIsAnEStoraged`: the volume object with its client is the one of
`EStoraged`, so that all theorems above hold of it. `ComebackAlwaysAdvances`
states `ComebackAdvances` for every set of faults that includes a reboot: once
no fault occurs any more, each step of the daemon, each try of the client and
the reboot itself lowers `Rank` or ends with a usable volume. The rank is the
stage of the client's plan and, inside a method, the steps that method has
left. The stages are, from the top: anything that a fault left behind, Unlock
on a mapped device, FormatLuks that finds it mapped, Lock, what the reboot
leaves, Unlock on an unmapped device, and FormatLuks on one, which cannot
fail. So the proof needs to know which tries cannot fail when nothing goes
wrong, and `IInv` says what a FormatLuks under way has established.

### `CryptEraseProofs`

For every number of slots: `TypeCorrect`, `EveryKeyIsDestroyedOrReported`,
`LoopLeavesNoGap` and `LoopImplementsVolumeStep`. The loop invariant is
`PassedAreGone` with what the history variables record.

### `BlockEraseProofs`

For every device size, block size, retry limit and modulus that satisfy
`SizesAssumption` (the device does not end within one block of 2^64):
`TypeCorrect`, `IndexAlwaysFollowsOffset`, `OverwriteIsAlwaysExact`,
`VerifyIsAlwaysExact`, `MethodsAlwaysAdvance`. `NoWrap` and `BlockFits` are
where the assumption is used; the invariant adds that what a verification has
passed was as expected. `MethodsAlwaysAdvance` is the argument for
`EveryMethodEnds`: a step completes a block, or uses up one of its retries, or
ends the method, so the cells left and the retries left descend.

`LoopsImplementVolumeSteps` is the refinement of `BlockEraseAtomic`, for every
header that begins the device and does not fill it (`HeaderAssumption`). It
rests on a second invariant, `AInv`, that relates the history to the medium: a
header that is there has its last cell unwritten, `contents` that are there
have an unwritten cell behind it or an overwrite on its way, `uniform` is the
truth except while an overwrite has not ended, and a verification of a device
that did not agree has a difference before it or in the block it has read.
`OverwriteStep` and `VerifyStep` are the two cases of the proof,
`StoppedOverwriteIsTorn` the ways in which an overwrite ends early.

### `EmmcProofs`

For every machine, configuration, sector size and argument range, and any
number of failures: `TypeCorrect`, `BkopsIsNeverProgrammedTwice`,
`PublishedIsAlwaysTrue`, `SanitizeAlwaysLeavesNothing`,
`GeometryAlwaysAnswersTrue`, `SetUpAlwaysAdvances`. The invariant has a part
for each phase. What the set-up has found so far is true of the device it has
chosen; a drive about to be switched still has its background operations off,
so that the count of switches follows the register; and a sanitize that has
come to its second command has left no sector live, if its drive is one that
an argument can name (`EraseCoversDrive`). The last part is where a mounted
filesystem comes in: it moves copies to cells but makes no sector live.
`SetUpAlwaysAdvances` is the argument for `DriveComesUp`: each step of the
set-up is one less to go, and what sets it back is one of the failures that
`MaxErrors` counts, or a null descriptor, which costs one restart.

### `DiscoveryProofs`

For any number of configuration objects, scans and retries: `TypeCorrect`,
`VolumeStaysWhileAllAnswer` and `OnlyConfigIsAlwaysPending`. The second is not
inductive, and the reason is in how scans overlap. Each scan was told of a set
of configuration objects (`Told`), all there were when the mapper answered.
Configuration objects are only added, so these sets are nested. While no read
is lost for good, a scan that ends with one answer was told of one object, and
every other scan under way was told of that one as well: the next one that
ends with a single answer ends with the same. So a scan with something new and
one answer finds no volume object beside it (`NewIsAlone`), and `PathTaken` is
not met. The third is the argument for
`OnlyConfigIsFound`: as long as the only configuration object has no volume
and no answer is lost, a signal, a timer or a call that leads to a scan is
still to come, or a scan that asks for it is under way. `Told` is needed
again, and that a scan which ends with nothing but that object makes its
volume (`EndScanServes`).

### Model-checked only

* Liveness (`VolumeComesBack`, `EveryMethodEnds`, `OnlyConfigIsFound`,
  `DriveComesUp`). What the prover can say of it is proved: that no step is in
  vain (`ComebackAdvances`, `EveryStepAdvances`, `SetUpAdvances`, over the
  well-founded order of `Ranking`), and that the next step is always somewhere
  (`OnlyConfigIsPending`). What is left to TLC is that this step is enabled and
  that fairness takes it, and the induction over the ranks.
* `Discovery` has no rank: it would be a sum over the paths of every scan, and
  sums over a set of any size need induction over data.

## 5. What is not modelled, and why

* The content of the pattern and the random generators: the loops do not
  depend on it.
* Logging, Redfish message ids, the serial number, the location code and the
  other properties and associations set once in the constructor: no control
  depends on them. `PredictedMediaLifeLeftPercent` can be written by a client,
  for testing (`estoraged.cpp:120-122`); `PublishedIsTrue` is about the value
  the set-up gives it, and nothing reads it again as the drive wears out.
* Drives of up to 2 GB, which count in bytes: the code says that its sector
  size is not for them (`sanitize.cpp:76-78`). They are in the model, and so are
  drives whose last sector an argument cannot name; `SanitizeLeavesNothing` is
  about neither, and a `VendorSanitize` of `EStoraged` that succeeds is one of
  a drive that is neither.
* The page cache: the erase methods open the device without `O_SYNC` and do not
  call `fsync`. The models take what was written for stored, also across a loss
  of power; for a device that a mapped volume keeps open, and so is not flushed
  when the method closes it, this is more than the code ensures.
* What a mounted filesystem writes during an overwrite or a verification is in
  `BlockErase`, but `OverwriteIsExact`, `VerifyIsExact` and `ErasedStaysErased`
  say nothing of it; `ImplementsVolumeSteps` does.
* Configuration objects that are withdrawn: the code has no handler for that.
* D-Bus itself, and clients that cache `Locked` or `EncryptionStatus`, for
  which no change signal is sent.
* systemd giving up on a daemon that dies too often; the build.

## 6. Plan

Done: `EStoraged`, `VolumeService` and the refinement between them;
`CryptErase` and `BlockErase` and their refinements of `EStoraged`'s steps;
`Discovery`; `DriveSetup`, `Sanitize` and `Emmc`; `Recovery` and `Findings`;
proofs for each, with the ranks behind the liveness properties.

What could follow:

1. `Sanitize` shown to refine `VendorSanitize` of `EStoraged`, for the drives
   that an argument can name, as the keyslot and block loops do.
2. `EndScan` replaced by the steps of `DriveSetup`, for several configuration
   objects at once.
