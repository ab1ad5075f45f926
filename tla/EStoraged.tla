------------------------------ MODULE EStoraged ------------------------------
(***************************************************************************)
(* One eStoraged volume object (src/src/estoraged.cpp) and the storage it  *)
(* manages.  The daemon runs one D-Bus method at a time on a single        *)
(* io_context, so a method is a sequence of steps with a program counter;  *)
(* a step is one call that changes LUKS, device-mapper, mount or disk      *)
(* state, together with the checks the code makes around it.  Any call may *)
(* fail, the daemon may die and the machine may lose power between two     *)
(* steps; which of these happen is the constant Faults.                    *)
(***************************************************************************)
CONSTANTS Passwords,    \* the passwords clients use
          NoPassword,   \* the password field of a call that has none
          Faults        \* the kinds of failure the environment may inject

FaultKinds == {"format", "keyslot", "activate", "mkfs", "fsck", "exists",
               "mkdir", "mount", "rmdir", "umount", "deactivate", "io",
               "corrupt", "crash", "reboot"}

ASSUME FaultsAssumption == Faults \subseteq FaultKinds
ASSUME PasswordsAssumption == Passwords # {} /\ NoPassword \notin Passwords

May(f) == f \in Faults

EraseMethods == {"CryptoErase", "VerifyGeometry", "LogicalOverWrite",
                 "LogicalVerify", "VendorSanitize", "ZeroOverWrite",
                 "ZeroVerify", "SecuredLocked"}

(* Erase(m) is named by its method, FormatLuks with a filesystem type      *)
(* other than ext4 by FormatUnsupported.                                   *)
Calls ==
  [op : {"FormatLuks", "FormatUnsupported", "Unlock"},
   pw : Passwords, new : {NoPassword}]
    \cup [op : {"ChangePassword"}, pw : Passwords, new : Passwords]
    \cup [op : {"Lock"} \cup EraseMethods, pw : {NoPassword}, new : {NoPassword}]

NoCall == [op |-> "none", pw |-> NoPassword, new |-> NoPassword]

VARIABLES
  luks,        \* there is a LUKS2 header on devPath
  keys,        \* the passwords its keyslots accept
  fs,          \* the ext4 filesystem inside: "none", "clean", or "dirty",
               \* which fsck -p can repair
  raw,         \* what all of devPath reads as: "pattern", "zero", or "data"
  mapped,      \* the crypt device containerName is active
  mounted,     \* it is mounted on mountPoint
  mountPoint,  \* the directory mountPoint exists
  pc,          \* the external call the running method makes next, or "idle"
  call,        \* the running method, or the last one
  before,      \* how accessible the device was when call arrived (history)
  reply        \* the answer to call: "none" (yet, or ever), "ok", "error"

disk   == <<luks, keys, fs, raw>>
kernel == <<mapped, mounted, mountPoint>>
device == <<luks, keys, fs, raw, mapped, mounted, mountPoint>>
vars   == <<luks, keys, fs, raw, mapped, mounted, mountPoint,
            pc, call, before, reply>>

Labels == {"idle", "cryptFormat", "addKeyslot", "activate", "mkfs", "fsck",
           "mountPoint", "mount", "removeMountPoint", "relock", "unmount",
           "removeDirectory", "deactivate", "changeKeyslot", "checkLocked",
           "destroyKeyslots", "overwriteHeader", "overwriteRest", "verify",
           "compare", "sanitize"}

(* The D-Bus properties Locked and EncryptionStatus.                       *)
IsLocked == ~mapped
EncryptionStatus == IF luks THEN "Encrypted" ELSE "Unencrypted"

Access == IF ~mapped THEN "locked" ELSE IF mounted THEN "unlocked" ELSE "limbo"

(* A disk that an earlier boot left in any state, on a machine just booted.*)
Init ==
  /\ luks \in BOOLEAN
  /\ keys \in SUBSET Passwords
  /\ fs \in {"none", "clean", "dirty"}
  /\ ~luks => (keys = {} /\ fs = "none")
  /\ raw = "data"
  /\ mapped = FALSE /\ mounted = FALSE
  /\ mountPoint \in BOOLEAN
  /\ pc = "idle" /\ call = NoCall /\ before = "locked" /\ reply = "none"

-----------------------------------------------------------------------------
(* Control.                                                                *)

Goto(label) == pc' = label /\ UNCHANGED <<call, before, reply>>
Return == pc' = "idle" /\ reply' = "ok" /\ UNCHANGED <<call, before>>
Throw  == pc' = "idle" /\ reply' = "error" /\ UNCHANGED <<call, before>>

(* Slips in the dispatch: ZeroVerify that calls writeZero, lock() with its *)
(* two calls swapped, formatLuks() on the old header.                      *)
EntryVerifyWrites(op) ==
  IF op \in {"LogicalOverWrite", "ZeroOverWrite", "ZeroVerify"}
    THEN "overwriteHeader" ELSE "activate"
EntryDeactivateFirst(op) == IF op = "Lock" THEN "deactivate" ELSE "activate"
EntryKeepsHeader(op) == IF op = "FormatLuks" THEN "addKeyslot" ELSE "activate"

Entry(op) ==
  CASE op = "FormatLuks"     -> "cryptFormat"
    [] op = "Unlock"         -> "activate"
    [] op = "Lock"           -> "unmount"
    [] op = "ChangePassword" -> "changeKeyslot"
    [] op = "CryptoErase"    -> "destroyKeyslots"
    [] op = "VendorSanitize" -> "sanitize"
    [] op = "SecuredLocked"  -> "checkLocked"
    [] op \in {"LogicalOverWrite", "ZeroOverWrite"} -> "overwriteHeader"
    [] op \in {"LogicalVerify", "ZeroVerify", "VerifyGeometry"} -> "verify"

(* A method call arrives; only ext4 can be formatted.                      *)
Receive(c) ==
  /\ pc = "idle"
  /\ call' = c
  /\ before' = Access
  /\ IF c.op = "FormatUnsupported"
       THEN pc' = "idle" /\ reply' = "error"
       ELSE pc' = Entry(c.op) /\ reply' = "none"
  /\ UNCHANGED device

(* What an overwrite fills the device with, and what the device reads as   *)
(* once some of it has been written anew.                                  *)
Written == IF call.op = "ZeroOverWrite" THEN "zero" ELSE "pattern"
Rewritten == IF raw = Written THEN Written ELSE "data"

(* What a call that writes the disk may leave behind when it fails or is   *)
(* cut short.                                                              *)
Sanitized ==
  luks' = FALSE /\ keys' = {} /\ fs' = "none" /\ raw' \in {"zero", "data"}
Wiped == luks' = FALSE /\ keys' = {} /\ fs' = "none" /\ raw' = "data"
Torn ==
  \/ UNCHANGED disk
  \/ pc = "cryptFormat" /\ ~mapped /\ Wiped
  \/ /\ pc \in {"overwriteHeader", "overwriteRest"}
     /\ luks' = FALSE /\ keys' = {} /\ fs' = "none"
     /\ raw' \in {Rewritten, Written}
  \/ /\ pc = "sanitize" /\ fs' \in {fs, "none"} /\ raw' = "data"
     /\ UNCHANGED <<luks, keys>> \/ (luks' = FALSE /\ keys' = {})
  \/ pc = "sanitize" /\ Sanitized
  \/ /\ \/ pc = "changeKeyslot" /\ call.pw \in keys /\ keys' = keys \cup {call.new}
        \/ pc = "destroyKeyslots" /\ keys' \in SUBSET keys
     /\ UNCHANGED <<luks, fs, raw>>

-----------------------------------------------------------------------------
(* FormatLuks: formatLuksDev, then the steps it shares with Unlock.        *)

(* A new header with a new volume key; cryptsetup refuses a mapped device. *)
CryptFormat ==
  /\ pc = "cryptFormat"
  /\ \/ /\ ~mapped
        /\ luks' = TRUE /\ keys' = {} /\ fs' = "none" /\ raw' = "data"
        /\ Goto("addKeyslot")
     \/ May("format") /\ Torn /\ Throw
     \/ mapped /\ UNCHANGED disk /\ Throw
  /\ UNCHANGED kernel

(* A slip: the slot is given the wrong field of the call.                  *)
AddKeyslotOfNew ==
  /\ pc = "addKeyslot"
  /\ keys' = {call.new}
  /\ Goto("activate")
  /\ UNCHANGED <<luks, fs, raw, kernel>>

AddKeyslot ==
  /\ pc = "addKeyslot"
  /\ \/ /\ keys' = {call.pw}
        /\ UNCHANGED <<luks, fs, raw>>
        /\ Goto("activate")
     \/ May("keyslot") /\ UNCHANGED disk /\ Throw
  /\ UNCHANGED kernel

(* loadLuksHeader and cryptActivateByPassphrase.                           *)
Activate ==
  /\ pc = "activate"
  /\ \/ /\ luks /\ call.pw \in keys /\ ~mapped
        /\ mapped' = TRUE
        /\ Goto(IF call.op = "FormatLuks" THEN "mkfs" ELSE "fsck")
     \/ /\ ~(luks /\ call.pw \in keys /\ ~mapped) \/ May("activate")
        /\ UNCHANGED mapped
        /\ Throw
  /\ UNCHANGED <<disk, mounted, mountPoint>>

CreateFilesystem ==
  /\ pc = "mkfs"
  /\ \/ fs' = "clean" /\ Goto("fsck")
     \/ May("mkfs") /\ fs' = "none" /\ Throw
  /\ UNCHANGED <<luks, keys, raw, kernel>>

-----------------------------------------------------------------------------
(* mountFilesystemLockOnError: a failed fsck or mount is caught and, in    *)
(* Unlock, the device deactivated before the error is answered; any other  *)
(* exception passes through.                                               *)

(* A slip: a filesystem that cannot be mounted is made anew.               *)
MakeAnew == Goto("mkfs")

LockOnError == IF call.op = "Unlock" THEN Goto("relock") ELSE Throw

(* fsck -p exits with 0 only if there was nothing to repair.               *)
Fsck ==
  /\ pc = "fsck"
  /\ \/ fs = "clean" /\ UNCHANGED fs /\ Goto("mountPoint")
     \/ fs = "dirty" /\ fs' = "clean" /\ LockOnError
     \/ (fs = "none" \/ May("fsck")) /\ UNCHANGED fs /\ LockOnError
  /\ UNCHANGED <<luks, keys, raw, kernel>>

CreateMountPoint ==
  /\ pc = "mountPoint"
  /\ \/ mountPoint' = TRUE /\ Goto("mount")
     \/ /\ May("exists") \/ (~mountPoint /\ May("mkdir"))
        /\ UNCHANGED mountPoint
        /\ Throw
  /\ UNCHANGED <<disk, mapped, mounted>>

Mount ==
  /\ pc = "mount"
  /\ \/ mounted' = TRUE /\ Return
     \/ May("mount") /\ UNCHANGED mounted /\ Goto("removeMountPoint")
  /\ UNCHANGED <<disk, mapped, mountPoint>>

RemoveMountPoint ==
  /\ pc = "removeMountPoint"
  /\ \/ mountPoint' = FALSE /\ LockOnError
     \/ May("rmdir") /\ UNCHANGED mountPoint /\ Throw
  /\ UNCHANGED <<disk, mapped, mounted>>

Relock ==
  /\ pc = "relock"
  /\ mapped' = FALSE \/ (May("deactivate") /\ UNCHANGED mapped)
  /\ Throw
  /\ UNCHANGED <<disk, mounted, mountPoint>>

-----------------------------------------------------------------------------
(* Lock: unmountFilesystem, then deactivateLuksDev.                        *)

(* A slip: the result of umount is ignored.                                *)
UnmountUnchecked ==
  /\ pc = "unmount"
  /\ mounted' = FALSE
  /\ Goto("deactivate")
  /\ UNCHANGED <<disk, mapped, mountPoint>>

Unmount ==
  /\ pc = "unmount"
  /\ \/ mounted /\ mounted' = FALSE /\ Goto("removeDirectory")
     \/ (~mounted \/ May("umount")) /\ UNCHANGED mounted /\ Throw
  /\ UNCHANGED <<disk, mapped, mountPoint>>

RemoveDirectory ==
  /\ pc = "removeDirectory"
  /\ \/ mountPoint /\ mountPoint' = FALSE /\ Goto("deactivate")
     \/ (~mountPoint \/ May("rmdir")) /\ UNCHANGED mountPoint /\ Throw
  /\ UNCHANGED <<disk, mapped, mounted>>

Deactivate ==
  /\ pc = "deactivate"
  /\ \/ mapped /\ ~mounted /\ mapped' = FALSE /\ Return
     \/ (~mapped \/ mounted \/ May("deactivate")) /\ UNCHANGED mapped /\ Throw
  /\ UNCHANGED <<disk, mounted, mountPoint>>

-----------------------------------------------------------------------------
(* ChangePassword and the erase methods.                                   *)

ChangePassword ==
  /\ pc = "changeKeyslot"
  /\ \/ /\ luks /\ call.pw \in keys
        /\ keys' = (keys \ {call.pw}) \cup {call.new}
        /\ UNCHANGED <<luks, fs, raw>>
        /\ Return
     \/ ~(luks /\ call.pw \in keys) /\ UNCHANGED disk /\ Throw
     \/ May("keyslot") /\ Torn /\ Throw
  /\ UNCHANGED kernel

CryptErase ==
  /\ pc = "destroyKeyslots"
  /\ \/ luks /\ keys' = {} /\ UNCHANGED <<luks, fs, raw>> /\ Return
     \/ ~luks /\ UNCHANGED disk /\ Throw
     \/ May("keyslot") /\ Torn /\ Throw
  /\ UNCHANGED kernel

(* Pattern::writePattern and Zero::writeZero go from the header upwards; a *)
(* device that reads as what they write goes on doing so.  Users of a      *)
(* mounted filesystem may write behind them.                               *)
OverwriteHeader ==
  /\ pc = "overwriteHeader"
  /\ \/ /\ luks' = FALSE /\ keys' = {} /\ UNCHANGED fs
        /\ raw' = Rewritten
        /\ Goto("overwriteRest")
     \/ May("io") /\ Torn /\ Throw
  /\ UNCHANGED kernel

(* What was written is taken for stored; the code does not fsync.          *)
OverwriteRest ==
  /\ pc = "overwriteRest"
  /\ \/ /\ raw' = Written \/ (mounted /\ raw' = "data")
        /\ fs' = "none" /\ UNCHANGED <<luks, keys>>
        /\ Return
     \/ May("io") /\ Torn /\ Throw
  /\ UNCHANGED kernel

(* The reading methods; a size out of the configured bounds is an "io"     *)
(* failure of VerifyGeometry.                                              *)
Matches(op) == CASE op = "LogicalVerify"  -> raw = "pattern"
                 [] op = "ZeroVerify"     -> raw = "zero"
                 [] op = "VerifyGeometry" -> TRUE

Verify ==
  /\ pc = "verify"
  /\ \/ Matches(call.op) /\ Goto("compare")
     \/ (~Matches(call.op) \/ May("io")) /\ Throw
  /\ UNCHANGED device

(* A device that matched when it was opened may be written to before all   *)
(* of it is read, or after its first part was.                             *)
Compare ==
  /\ pc = "compare"
  /\ \/ Return
     \/ (~Matches(call.op) \/ May("io")) /\ Throw
  /\ UNCHANGED device

(* An erased eMMC reads as zeros or as ones, whichever it prefers. Success *)
(* is that of a drive whose last sector the erase command can name; Emmc   *)
(* says what it is on others.                                              *)
VendorSanitize ==
  /\ pc = "sanitize"
  /\ \/ Sanitized /\ Return
     \/ May("io") /\ Torn /\ Throw
  /\ UNCHANGED kernel

(* isLocked answers "unlocked" if it cannot tell.                          *)
SecuredLocked ==
  /\ pc = "checkLocked"
  /\ \/ IsLocked /\ Return
     \/ (~IsLocked \/ May("exists")) /\ Goto("unmount")
  /\ UNCHANGED device

-----------------------------------------------------------------------------
(* The environment.                                                        *)

(* Users of a mounted filesystem write to it.                              *)
FsWrite ==
  /\ mounted /\ raw # "data" /\ raw' = "data"
  /\ UNCHANGED <<luks, keys, fs, kernel, pc, call, before, reply>>

(* A mounted filesystem is damaged, repairably or not.                     *)
FsCorrupt ==
  /\ May("corrupt") /\ mounted /\ fs = "clean"
  /\ fs' \in {"dirty", "none"}
  /\ UNCHANGED <<luks, keys, raw, kernel, pc, call, before, reply>>

(* The daemon dies and systemd restarts it; what the kernel holds stays.   *)
Crash ==
  /\ May("crash") /\ pc # "idle"
  /\ Torn
  /\ pc' = "idle" /\ reply' = "none"
  /\ UNCHANGED <<call, before, kernel>>

Reboot ==
  /\ May("reboot")
  /\ \/ Torn
     \/ mounted /\ fs = "clean" /\ fs' = "dirty" /\ UNCHANGED <<luks, keys, raw>>
  /\ mapped' = FALSE /\ mounted' = FALSE
  /\ mountPoint' \in {mountPoint, FALSE}
  /\ pc' = "idle" /\ call' = NoCall /\ before' = "locked" /\ reply' = "none"

Step ==
  \/ CryptFormat \/ AddKeyslot \/ Activate \/ CreateFilesystem
  \/ Fsck \/ CreateMountPoint \/ Mount \/ RemoveMountPoint \/ Relock
  \/ Unmount \/ RemoveDirectory \/ Deactivate
  \/ ChangePassword \/ CryptErase \/ OverwriteHeader \/ OverwriteRest
  \/ Verify \/ Compare \/ VendorSanitize \/ SecuredLocked

Environment == FsWrite \/ FsCorrupt \/ Crash \/ Reboot

Next == (\E c \in Calls : Receive(c)) \/ Step \/ Environment

Spec == Init /\ [][Next]_vars

-----------------------------------------------------------------------------
(* Properties.                                                             *)

TypeOK ==
  /\ luks \in BOOLEAN /\ keys \in SUBSET Passwords
  /\ fs \in {"none", "clean", "dirty"} /\ raw \in {"data", "pattern", "zero"}
  /\ mapped \in BOOLEAN /\ mounted \in BOOLEAN /\ mountPoint \in BOOLEAN
  /\ pc \in Labels /\ call \in Calls \cup {NoCall}
  /\ before \in {"locked", "unlocked", "limbo"}
  /\ reply \in {"none", "ok", "error"}

(* What estoraged.hpp:275-297 assumes of the callers of its helpers holds  *)
(* whenever they run, whatever failed before: the device is active and not *)
(* mounted, mkfs finds no filesystem to destroy, mount finds a clean one   *)
(* and a mount point, and only Unlock relocks.                             *)
MidMethod == {"mkfs", "fsck", "mountPoint", "mount", "removeMountPoint",
              "relock", "removeDirectory", "deactivate"}
Assumed ==
  /\ pc \in MidMethod => mapped /\ ~mounted
  /\ pc = "mkfs" => fs = "none" /\ keys = {call.pw}
  /\ pc = "mount" => fs = "clean" /\ mountPoint
  /\ pc = "relock" => call.op = "Unlock"

(* What a method that answers without an error has established.            *)
OkMeans ==
  CASE call.op = "FormatLuks" ->
         before = "locked" /\ Access = "unlocked" /\ mountPoint
           /\ keys = {call.pw} /\ fs = "clean"
    [] call.op = "Unlock" ->
         before = "locked" /\ Access = "unlocked" /\ mountPoint
           /\ call.pw \in keys /\ fs = "clean"
    [] call.op = "Lock" ->
         before = "unlocked" /\ IsLocked /\ ~mounted /\ ~mountPoint
    [] call.op = "SecuredLocked" -> IsLocked /\ ~mounted
    [] call.op = "ChangePassword" ->
         call.new \in keys /\ (call.pw \in keys => call.pw = call.new)
    [] call.op = "CryptoErase" -> keys = {}
    [] call.op \in {"LogicalOverWrite", "ZeroOverWrite", "VendorSanitize",
                   "LogicalVerify", "ZeroVerify"} ->
         EncryptionStatus = "Unencrypted" /\ keys = {} /\ fs = "none"
    [] OTHER -> TRUE

(* Whatever fails or crashes on the way, a method answers without an error *)
(* only if the storage is in the state the method exists to bring about.   *)
AnswersAreTrue == [][reply = "none" /\ reply' = "ok" => OkMeans']_vars

(* The only method that can leave an accessible or locked device mapped    *)
(* but not mounted is a FormatLuks that failed; in particular Unlock       *)
(* relocks (estoraged.hpp:290-292).  Holds if none of StrandingFaults can  *)
(* occur.                                                                  *)
StrandingFaults == {"crash", "exists", "mkdir", "rmdir", "deactivate"}
StrandedOnlyByFormat ==
  pc = "idle" /\ Access = "limbo" /\ before # "limbo" => call.op = "FormatLuks"

(* A device that is mapped but not mounted when a method arrives stays so  *)
(* whatever methods are called: Unlock fails at the activation, FormatLuks *)
(* at cryptFormat, Lock at the unmount.  Only a reboot ends it.            *)
Stranded == Access = "limbo" /\ pc \notin MidMethod
StrandedUntilReboot == [][Stranded => Stranded' \/ Reboot]_vars

(* A filesystem is lost only to a method that is asked to erase it:        *)
(* FormatLuks on a locked device, an overwrite or a sanitize; a failed     *)
(* Unlock or Lock, or a FormatLuks of an unlocked device, never costs it.  *)
DataLossIsAsked ==
  [][fs # "none" /\ fs' = "none" =>
       \/ call.op = "FormatLuks" /\ before = "locked"
       \/ call.op \in {"LogicalOverWrite", "ZeroOverWrite", "VendorSanitize"}
       \/ FsCorrupt]_vars

(* Once no password opens the volume and it is locked, access comes back   *)
(* only with an empty volume: what was inside stays out of reach.          *)
Sealed == keys = {} /\ ~mapped
SealedDataIsUnreachable == [][Sealed => Sealed' \/ fs = "none"]_vars

(* What an overwrite that completed put on the device stays there until a  *)
(* format or another erase, unless the volume was left mounted.            *)
ErasedStaysErased ==
  [][raw # "data" /\ raw' = "data" =>
       \/ mounted
       \/ call.op \in {"FormatLuks", "LogicalOverWrite", "ZeroOverWrite",
                       "VendorSanitize"}]_vars
=============================================================================
