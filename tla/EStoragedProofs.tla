--------------------------- MODULE EStoragedProofs ---------------------------
(***************************************************************************)
(* The safety properties of EStoraged hold for every set of passwords and  *)
(* every set of faults.  They follow from one inductive invariant, which   *)
(* says at each step of a method which method it is, what it has already   *)
(* established, and what the device was like when the call arrived.        *)
(***************************************************************************)
EXTENDS EStoraged, TLAPS

(* Which methods pass each step.                                           *)
OpAt ==
  /\ pc \in {"cryptFormat", "addKeyslot", "mkfs"} => call.op = "FormatLuks"
  /\ pc \in {"activate", "fsck", "mountPoint", "mount", "removeMountPoint"}
       => call.op \in {"FormatLuks", "Unlock"}
  /\ pc = "relock" => call.op = "Unlock"
  /\ pc \in {"unmount", "removeDirectory", "deactivate"}
       => call.op \in {"Lock", "SecuredLocked"}
  /\ pc = "changeKeyslot" => call.op = "ChangePassword"
  /\ pc = "checkLocked" => call.op = "SecuredLocked"
  /\ pc = "destroyKeyslots" => call.op = "CryptoErase"
  /\ pc \in {"overwriteHeader", "overwriteRest"}
       => call.op \in {"LogicalOverWrite", "ZeroOverWrite"}
  /\ pc \in {"verify", "compare"}
       => call.op \in {"LogicalVerify", "ZeroVerify", "VerifyGeometry"}
  /\ pc = "sanitize" => call.op = "VendorSanitize"
  /\ pc # "idle" => reply = "none"
  /\ call.op \in {"FormatLuks", "Unlock", "ChangePassword"} => call.pw \in Passwords
  /\ call.op = "ChangePassword" => call.new \in Passwords

(* What holds between calls as well as in the middle of one.               *)
StorageOK ==
  /\ mounted => mapped /\ mountPoint
  /\ ~luks => keys = {}
  /\ raw # "data" => ~luks /\ fs = "none"

(* What FormatLuks and Unlock know after each of their steps.              *)
OpeningOK ==
  /\ pc \in {"cryptFormat", "activate"} => before = Access
  /\ pc = "addKeyslot" => before = "locked" /\ ~mapped /\ luks /\ keys = {} /\ fs = "none"
  /\ pc = "activate" /\ call.op = "FormatLuks"
       => ~mapped /\ luks /\ keys = {call.pw} /\ fs = "none"
  /\ pc \in {"mkfs", "fsck", "mountPoint", "mount", "removeMountPoint", "relock"}
       => /\ before = "locked" /\ mapped /\ ~mounted /\ luks
          /\ call.pw \in keys
          /\ call.op = "FormatLuks" => keys = {call.pw}
  /\ pc = "mkfs" => fs = "none"
  /\ pc \in {"mountPoint", "mount"} => fs = "clean"
  /\ pc = "mount" => mountPoint

(* What the methods that close, erase or read the device know.             *)
ClosingOK ==
  /\ pc \in {"unmount", "checkLocked", "changeKeyslot", "destroyKeyslots",
            "overwriteHeader", "overwriteRest", "verify", "compare", "sanitize"}
       => before = Access
  /\ pc \in {"removeDirectory", "deactivate"}
       => before = "unlocked" /\ mapped /\ ~mounted
  /\ pc = "removeDirectory" => mountPoint
  /\ pc = "deactivate" => ~mountPoint
  /\ pc = "compare" /\ call.op # "VerifyGeometry" => ~luks /\ keys = {} /\ fs = "none"
  /\ pc = "overwriteRest" => ~luks /\ keys = {} /\ raw \in {"data", Written}

IInv == TypeOK /\ OpAt /\ StorageOK /\ OpeningOK /\ ClosingOK

-----------------------------------------------------------------------------
(* The operations of a call and the fields they come with.                 *)
LEMMA CallFields ==
  ASSUME NEW c \in Calls
  PROVE  /\ c.op \in {"FormatLuks", "FormatUnsupported", "Unlock", "Lock",
                      "ChangePassword"} \cup EraseMethods
         /\ c.op \in {"FormatLuks", "Unlock", "ChangePassword"} => c.pw \in Passwords
         /\ c.op = "ChangePassword" => c.new \in Passwords
<1>1. CASE c \in [op : {"FormatLuks", "FormatUnsupported", "Unlock"},
                  pw : Passwords, new : {NoPassword}]
  BY <1>1
<1>2. CASE c \in [op : {"ChangePassword"}, pw : Passwords, new : Passwords]
  BY <1>2
<1>3. CASE c \in [op : {"Lock"} \cup EraseMethods, pw : {NoPassword}, new : {NoPassword}]
  BY <1>3 DEF EraseMethods
<1> QED BY <1>1, <1>2, <1>3 DEF Calls

(* The inductive invariant holds on a machine just booted.                 *)
LEMMA InvariantHoldsInitially == Init => IInv
<1> SUFFICES ASSUME Init PROVE IInv
  OBVIOUS
<1> USE DEF Init
<1>1. TypeOK
  BY DEF TypeOK, Labels
<1>2. OpAt
  BY DEF OpAt, NoCall
<1>3. StorageOK
  BY DEF StorageOK
<1>4. OpeningOK /\ ClosingOK
  BY DEF OpeningOK, ClosingOK
<1> QED BY <1>1, <1>2, <1>3, <1>4 DEF IInv

(* No step of a method and nothing the environment does breaks it.         *)
LEMMA InvariantIsInductive == IInv /\ [Next]_vars => IInv'
<1> SUFFICES ASSUME IInv, [Next]_vars PROVE IInv'
  OBVIOUS
<1> USE DEF IInv, TypeOK, OpAt, StorageOK, OpeningOK, ClosingOK, Written, Rewritten, Labels, Access,
            device, disk, kernel, Goto, Return, Throw
<1>1. ASSUME NEW c \in Calls, Receive(c) PROVE IInv'
  BY <1>1, CallFields DEF Receive, Entry, EraseMethods
<1>2. CASE CryptFormat
  <2>1. TypeOK'
    BY <1>2 DEF CryptFormat, Torn, Wiped, Sanitized
  <2>2. OpAt'
    BY <1>2 DEF CryptFormat, Torn, Wiped, Sanitized
  <2>3. StorageOK'
    BY <1>2 DEF CryptFormat, Torn, Wiped, Sanitized
  <2>4. OpeningOK'
    BY <1>2 DEF CryptFormat, Torn, Wiped, Sanitized
  <2>5. ClosingOK'
    BY <1>2 DEF CryptFormat, Torn, Wiped, Sanitized
  <2> QED BY <2>1, <2>2, <2>3, <2>4, <2>5
<1>3. CASE AddKeyslot
  BY <1>3 DEF AddKeyslot
<1>4. CASE Activate
  BY <1>4 DEF Activate
<1>5. CASE CreateFilesystem
  BY <1>5 DEF CreateFilesystem
<1>6. CASE Fsck
  BY <1>6 DEF Fsck, LockOnError
<1>7. CASE CreateMountPoint
  BY <1>7 DEF CreateMountPoint
<1>8. CASE Mount
  <2>1. TypeOK'
    BY <1>8 DEF Mount
  <2>2. OpAt'
    BY <1>8 DEF Mount
  <2>3. StorageOK'
    BY <1>8 DEF Mount
  <2>4. OpeningOK'
    BY <1>8 DEF Mount
  <2>5. ClosingOK'
    BY <1>8 DEF Mount
  <2> QED BY <2>1, <2>2, <2>3, <2>4, <2>5
<1>9. CASE RemoveMountPoint
  BY <1>9 DEF RemoveMountPoint, LockOnError
<1>10. CASE Relock
  BY <1>10 DEF Relock
<1>11. CASE Unmount
  <2>1. TypeOK'
    BY <1>11 DEF Unmount
  <2>2. OpAt'
    BY <1>11 DEF Unmount
  <2>3. StorageOK'
    BY <1>11 DEF Unmount
  <2>4. OpeningOK'
    BY <1>11 DEF Unmount
  <2>5. ClosingOK'
    BY <1>11 DEF Unmount
  <2> QED BY <2>1, <2>2, <2>3, <2>4, <2>5
<1>12. CASE RemoveDirectory
  BY <1>12 DEF RemoveDirectory
<1>13. CASE Deactivate
  BY <1>13 DEF Deactivate
<1>14. CASE ChangePassword
  BY <1>14 DEF ChangePassword, Torn, Wiped, Sanitized
<1>15. CASE CryptErase
  BY <1>15 DEF CryptErase, Torn, Wiped, Sanitized
<1>16. CASE OverwriteHeader
  <2>1. TypeOK'
    BY <1>16 DEF OverwriteHeader, Torn
  <2>2. OpAt'
    BY <1>16 DEF OverwriteHeader, Torn
  <2>3. StorageOK'
    BY <1>16 DEF OverwriteHeader, Torn
  <2>4. OpeningOK'
    BY <1>16 DEF OverwriteHeader, Torn
  <2>5. ClosingOK'
    BY <1>16 DEF OverwriteHeader, Torn
  <2> QED BY <2>1, <2>2, <2>3, <2>4, <2>5
<1>17. CASE OverwriteRest
  <2>1. TypeOK'
    BY <1>17 DEF OverwriteRest, Torn
  <2>2. OpAt'
    BY <1>17 DEF OverwriteRest, Torn
  <2>3. StorageOK'
    BY <1>17 DEF OverwriteRest, Torn
  <2>4. OpeningOK'
    BY <1>17 DEF OverwriteRest, Torn
  <2>5. ClosingOK'
    BY <1>17 DEF OverwriteRest, Torn
  <2> QED BY <2>1, <2>2, <2>3, <2>4, <2>5
<1>18. CASE Verify \/ Compare
  <2>1. CASE Verify
    BY <2>1 DEF Verify, Matches
  <2>2. CASE Compare
    BY <2>2 DEF Compare
  <2> QED BY <1>18, <2>1, <2>2
<1>19. CASE VendorSanitize
  <2>1. TypeOK'
    BY <1>19 DEF VendorSanitize, Torn, Wiped, Sanitized
  <2>2. OpAt'
    BY <1>19 DEF VendorSanitize, Torn, Wiped, Sanitized
  <2>3. StorageOK'
    BY <1>19 DEF VendorSanitize, Torn, Wiped, Sanitized
  <2>4. OpeningOK'
    BY <1>19 DEF VendorSanitize, Torn, Wiped, Sanitized
  <2>5. ClosingOK'
    BY <1>19 DEF VendorSanitize, Torn, Wiped, Sanitized
  <2> QED BY <2>1, <2>2, <2>3, <2>4, <2>5
<1>20. CASE SecuredLocked
  BY <1>20 DEF SecuredLocked
<1>21. CASE FsWrite
  BY <1>21 DEF FsWrite
<1>22. CASE FsCorrupt
  BY <1>22 DEF FsCorrupt
<1>23. CASE Crash
  <2>1. TypeOK'
    BY <1>23 DEF Crash, Torn, Wiped, Sanitized
  <2>2. OpAt'
    BY <1>23 DEF Crash, Torn, Wiped, Sanitized
  <2>3. StorageOK'
    BY <1>23 DEF Crash, Torn, Wiped, Sanitized
  <2>4. OpeningOK'
    BY <1>23 DEF Crash, Torn, Wiped, Sanitized
  <2>5. ClosingOK'
    BY <1>23 DEF Crash, Torn, Wiped, Sanitized
  <2> QED BY <2>1, <2>2, <2>3, <2>4, <2>5
<1>24. CASE Reboot
  <2>1. TypeOK'
    BY <1>24 DEF Reboot, Torn, Wiped, Sanitized, NoCall, Calls
  <2>2. OpAt'
    BY <1>24 DEF Reboot, Torn, Wiped, Sanitized, NoCall, Calls
  <2>3. StorageOK'
    BY <1>24 DEF Reboot, Torn, Wiped, Sanitized, NoCall, Calls
  <2>4. OpeningOK'
    BY <1>24 DEF Reboot, Torn, Wiped, Sanitized, NoCall, Calls
  <2>5. ClosingOK'
    BY <1>24 DEF Reboot, Torn, Wiped, Sanitized, NoCall, Calls
  <2> QED BY <2>1, <2>2, <2>3, <2>4, <2>5
<1>25. CASE UNCHANGED vars
  BY <1>25 DEF vars
<1> QED
  BY <1>1, <1>2, <1>3, <1>4, <1>5, <1>6, <1>7, <1>8, <1>9, <1>10, <1>11, <1>12,
     <1>13, <1>14, <1>15, <1>16, <1>17, <1>18, <1>19, <1>20, <1>21, <1>22,
     <1>23, <1>24, <1>25 DEF Next, Step, Environment

(* The invariant holds throughout.                                         *)
THEOREM Invariance == Spec => []IInv
<1>1. Init => IInv
  BY InvariantHoldsInitially
<1>2. IInv /\ [Next]_vars => IInv'
  BY InvariantIsInductive
<1> QED BY <1>1, <1>2, PTL DEF Spec

-----------------------------------------------------------------------------
(* The variables keep their types.                                         *)
THEOREM TypeCorrect == Spec => []TypeOK
<1>1. IInv => TypeOK
  BY DEF IInv
<1> QED BY <1>1, Invariance, PTL

(* mkfs, fsck, mount, deactivate and the removal of the mount point run    *)
(* only on a device in the state estoraged.hpp:275-297 assumes.            *)
THEOREM HelpersFindWhatTheyAssume == Spec => []Assumed
<1>1. IInv => Assumed
  BY DEF IInv, OpeningOK, ClosingOK, OpAt, Assumed, MidMethod
<1> QED BY <1>1, Invariance, PTL

(* A method that answers without an error has done what it is for.         *)
THEOREM AnswersAreTrueAlways == Spec => AnswersAreTrue
<1>1. IInv /\ [Next]_vars => [reply = "none" /\ reply' = "ok" => OkMeans']_vars
  <2> SUFFICES ASSUME IInv, Next, reply = "none", reply' = "ok" PROVE OkMeans'
    BY DEF vars
  <2> USE DEF IInv, OpAt, OkMeans, Goto, Return, Throw
  <2>1. ASSUME NEW c \in Calls, Receive(c) PROVE FALSE
    BY <2>1 DEF Receive
  <2>2. CASE Mount
    BY <2>2 DEF Mount, OpeningOK, Access, disk
  <2>3. CASE Deactivate
    BY <2>3 DEF Deactivate, ClosingOK, IsLocked
  <2>4. CASE ChangePassword
    BY <2>4 DEF ChangePassword
  <2>5. CASE CryptErase
    BY <2>5 DEF CryptErase
  <2>6. CASE OverwriteRest
    BY <2>6 DEF OverwriteRest, ClosingOK, EncryptionStatus
  <2>7. CASE Verify \/ Compare
    BY <2>7 DEF Verify, Compare, ClosingOK, device, EncryptionStatus
  <2>8. CASE VendorSanitize
    BY <2>8 DEF VendorSanitize, Sanitized, EncryptionStatus
  <2>9. CASE SecuredLocked
    BY <2>9 DEF SecuredLocked, IsLocked, StorageOK, device
  <2>10. CASE CryptFormat \/ AddKeyslot \/ Activate \/ CreateFilesystem
    BY <2>10 DEF CryptFormat, AddKeyslot, Activate, CreateFilesystem
  <2>11. CASE Fsck \/ CreateMountPoint \/ RemoveMountPoint \/ Relock
    BY <2>11 DEF Fsck, CreateMountPoint, RemoveMountPoint, Relock, LockOnError
  <2>12. CASE Unmount \/ RemoveDirectory \/ OverwriteHeader
    BY <2>12 DEF Unmount, RemoveDirectory, OverwriteHeader
  <2>13. CASE Environment
    BY <2>13 DEF Environment, FsWrite, FsCorrupt, Crash, Reboot
  <2> QED
    BY <2>1, <2>2, <2>3, <2>4, <2>5, <2>6, <2>7, <2>8, <2>9, <2>10, <2>11,
       <2>12, <2>13 DEF Next, Step
<1> QED BY <1>1, Invariance, PTL DEF Spec, AnswersAreTrue

(* A device mapped but not mounted stays so until the machine reboots.     *)
THEOREM OnlyRebootFreesAStrandedDevice == Spec => StrandedUntilReboot
<1>1. IInv /\ [Next]_vars => [Stranded => Stranded' \/ Reboot]_vars
  <2> SUFFICES ASSUME IInv, Next, Stranded, ~Reboot PROVE Stranded'
    BY DEF vars
  <2>0. mapped = TRUE /\ mounted = FALSE /\ pc \notin MidMethod
    BY DEF Stranded, Access, IInv, TypeOK
  <2> USE DEF Goto, Return, Throw, MidMethod
  <2>1. mapped' = TRUE /\ mounted' = FALSE /\ pc' \notin MidMethod
    <3>1. ASSUME NEW c \in Calls, Receive(c)
          PROVE  mapped' = TRUE /\ mounted' = FALSE /\ pc' \notin MidMethod
      BY <2>0, <3>1, CallFields DEF Receive, Entry, EraseMethods, device
    <3>2. CASE CryptFormat \/ AddKeyslot \/ Activate
      BY <2>0, <3>2 DEF CryptFormat, AddKeyslot, Activate, kernel, IInv, OpeningOK
    <3>3. CASE Unmount \/ SecuredLocked \/ Verify \/ Compare
      BY <2>0, <3>3 DEF Unmount, SecuredLocked, Verify, Compare, device
    <3>4. CASE ChangePassword \/ CryptErase
      BY <2>0, <3>4 DEF ChangePassword, CryptErase, kernel
    <3>5. CASE OverwriteHeader \/ OverwriteRest \/ VendorSanitize
      BY <2>0, <3>5 DEF OverwriteHeader, OverwriteRest, VendorSanitize, kernel
    <3>6. CASE CreateFilesystem \/ Fsck \/ CreateMountPoint \/ Mount
      BY <2>0, <3>6 DEF CreateFilesystem, Fsck, CreateMountPoint, Mount
    <3>7. CASE RemoveMountPoint \/ Relock \/ RemoveDirectory \/ Deactivate
      BY <2>0, <3>7 DEF RemoveMountPoint, Relock, RemoveDirectory, Deactivate
    <3>8. CASE FsWrite \/ FsCorrupt \/ Crash
      BY <2>0, <3>8 DEF FsWrite, FsCorrupt, Crash, kernel
    <3> QED
      BY <3>1, <3>2, <3>3, <3>4, <3>5, <3>6, <3>7, <3>8 DEF Next, Step, Environment
  <2> QED BY <2>1 DEF Stranded, Access
<1> QED BY <1>1, Invariance, PTL DEF Spec, StrandedUntilReboot

(* While the daemon does not die, the mount point can be created and       *)
(* removed and the device can be deactivated, no method but FormatLuks     *)
(* leaves the device mapped and not mounted.                               *)
THEOREM OnlyFormatStrands ==
  ASSUME Faults \cap StrandingFaults = {}
  PROVE  Spec => []StrandedOnlyByFormat
<1>1. ~May("crash") /\ ~May("exists") /\ ~May("mkdir") /\ ~May("rmdir")
        /\ ~May("deactivate")
  BY DEF May, StrandingFaults
<1>2. Init => StrandedOnlyByFormat
  BY DEF Init, StrandedOnlyByFormat, Access
<1>3. IInv /\ StrandedOnlyByFormat /\ [Next]_vars => StrandedOnlyByFormat'
  <2> SUFFICES ASSUME IInv, StrandedOnlyByFormat, [Next]_vars
               PROVE  StrandedOnlyByFormat'
    OBVIOUS
  <2> USE DEF StrandedOnlyByFormat, Access, IInv, TypeOK, Goto, Return, Throw
  <2>1. ASSUME NEW c \in Calls, Receive(c) PROVE StrandedOnlyByFormat'
    BY <2>1, CallFields DEF Receive, Entry, EraseMethods, device
  <2>2. CASE CryptFormat \/ AddKeyslot \/ CreateFilesystem
    BY <2>2 DEF CryptFormat, AddKeyslot, CreateFilesystem, OpAt, kernel
  <2>3. CASE Activate
    BY <2>3 DEF Activate, OpeningOK
  <2>4. CASE Fsck
    BY <2>4 DEF Fsck, LockOnError, OpAt, kernel
  <2>5. CASE CreateMountPoint
    BY <1>1, <2>5 DEF CreateMountPoint
  <2>6. CASE Mount
    BY <2>6 DEF Mount, OpeningOK
  <2>7. CASE RemoveMountPoint
    BY <1>1, <2>7 DEF RemoveMountPoint, LockOnError, OpAt
  <2>8. CASE Relock
    BY <1>1, <2>8 DEF Relock
  <2>9. CASE Unmount
    BY <2>9 DEF Unmount, ClosingOK
  <2>10. CASE RemoveDirectory
    BY <1>1, <2>10 DEF RemoveDirectory, ClosingOK, StorageOK
  <2>11. CASE Deactivate
    BY <1>1, <2>11 DEF Deactivate, ClosingOK
  <2>12. CASE ChangePassword \/ CryptErase \/ VendorSanitize
    BY <2>12 DEF ChangePassword, CryptErase, VendorSanitize, kernel, ClosingOK
  <2>13. CASE OverwriteHeader \/ OverwriteRest
    BY <2>13 DEF OverwriteHeader, OverwriteRest, kernel, ClosingOK
  <2>14. CASE Verify \/ Compare \/ SecuredLocked
    BY <2>14 DEF Verify, Compare, SecuredLocked, device, ClosingOK
  <2>15. CASE Crash
    BY <1>1, <2>15 DEF Crash
  <2>16. CASE FsWrite \/ FsCorrupt \/ Reboot
    BY <2>16 DEF FsWrite, FsCorrupt, Reboot, kernel
  <2>17. CASE UNCHANGED vars
    BY <2>17 DEF vars
  <2> QED
    BY <2>1, <2>2, <2>3, <2>4, <2>5, <2>6, <2>7, <2>8, <2>9, <2>10, <2>11,
       <2>12, <2>13, <2>14, <2>15, <2>16, <2>17 DEF Next, Step, Environment
<1> QED BY <1>2, <1>3, Invariance, PTL DEF Spec

(* A filesystem is lost only to a method asked to erase it, or to damage.  *)
THEOREM DataLossIsAlwaysAsked == Spec => DataLossIsAsked
<1> DEFINE Asked == \/ call.op = "FormatLuks" /\ before = "locked"
                    \/ call.op \in {"LogicalOverWrite", "ZeroOverWrite", "VendorSanitize"}
                    \/ FsCorrupt
<1>1. IInv /\ [Next]_vars => [fs # "none" /\ fs' = "none" => Asked]_vars
  <2> SUFFICES ASSUME IInv, Next, fs # "none", fs' = "none" PROVE Asked
    BY DEF vars
  <2> USE DEF IInv, OpAt
  <2>1. ~(\E c \in Calls : Receive(c))
    BY DEF Receive, device
  <2>2. CASE CryptFormat
    BY <2>2 DEF CryptFormat, Torn, disk, OpeningOK, Access
  <2>3. CASE CreateFilesystem
    BY <2>3 DEF CreateFilesystem, OpeningOK
  <2>4. CASE OverwriteHeader \/ OverwriteRest \/ VendorSanitize
    BY <2>4 DEF OverwriteHeader, OverwriteRest, VendorSanitize
  <2>5. CASE Crash \/ Reboot
    BY <2>5 DEF Crash, Reboot, Torn, disk, OpeningOK, Access
  <2>6. CASE FsCorrupt
    BY <2>6
  <2>7. CASE ChangePassword \/ CryptErase
    BY <2>7 DEF ChangePassword, CryptErase, Torn, disk
  <2>8. CASE AddKeyslot \/ Activate \/ Fsck \/ CreateMountPoint \/ Mount
             \/ RemoveMountPoint \/ Relock
    BY <2>8 DEF AddKeyslot, Activate, Fsck, CreateMountPoint, Mount,
                RemoveMountPoint, Relock, disk
  <2>9. CASE Unmount \/ RemoveDirectory \/ Deactivate
             \/ Verify \/ Compare \/ SecuredLocked \/ FsWrite
    BY <2>9 DEF Unmount, RemoveDirectory, Deactivate, Verify, Compare,
                SecuredLocked, FsWrite, disk, device
  <2> QED
    BY <2>1, <2>2, <2>3, <2>4, <2>5, <2>6, <2>7, <2>8, <2>9
       DEF Next, Step, Environment
<1> QED BY <1>1, Invariance, PTL DEF Spec, DataLossIsAsked

(* When no password opens a locked volume, only a volume with nothing in   *)
(* it becomes accessible again.                                            *)
THEOREM SealedDataStaysUnreachable == Spec => SealedDataIsUnreachable
<1>1. IInv /\ [Next]_vars => [Sealed => Sealed' \/ fs = "none"]_vars
  <2> SUFFICES ASSUME IInv, Next, keys = {}, ~mapped, fs # "none"
               PROVE  keys' = {} /\ ~mapped'
    BY DEF vars, Sealed
  <2>0. mapped = FALSE
    BY DEF IInv, TypeOK
  <2> USE <2>0 DEF IInv, OpeningOK, kernel, disk, device
  <2>1. ASSUME NEW c \in Calls, Receive(c) PROVE keys' = {} /\ ~mapped'
    BY <2>1 DEF Receive
  <2>2. CASE CryptFormat \/ AddKeyslot \/ Activate
    BY <2>2 DEF CryptFormat, AddKeyslot, Activate, Torn, Wiped, Sanitized
  <2>3. CASE CreateFilesystem \/ Fsck \/ CreateMountPoint \/ Mount
    BY <2>3 DEF CreateFilesystem, Fsck, CreateMountPoint, Mount
  <2>4. CASE RemoveMountPoint \/ Relock
    BY <2>4 DEF RemoveMountPoint, Relock
  <2>5. CASE Unmount \/ RemoveDirectory \/ Deactivate \/ Verify \/ Compare \/ SecuredLocked
    BY <2>5 DEF Unmount, RemoveDirectory, Deactivate, Verify, Compare, SecuredLocked
  <2>6. CASE ChangePassword \/ CryptErase \/ VendorSanitize
    BY <2>6 DEF ChangePassword, CryptErase, VendorSanitize, Torn, Wiped, Sanitized
  <2>7. CASE OverwriteHeader \/ OverwriteRest
    BY <2>7 DEF OverwriteHeader, OverwriteRest, Torn, Wiped, Sanitized
  <2>8. CASE FsWrite \/ FsCorrupt \/ Crash \/ Reboot
    BY <2>8 DEF FsWrite, FsCorrupt, Crash, Reboot, Torn, Wiped, Sanitized
  <2> QED
    BY <2>1, <2>2, <2>3, <2>4, <2>5, <2>6, <2>7, <2>8 DEF Next, Step, Environment
<1> QED BY <1>1, Invariance, PTL DEF Spec, SealedDataIsUnreachable

(* What an overwrite has put on the device stays there until it is         *)
(* formatted or erased again, unless the volume was left mounted.          *)
THEOREM ErasedAlwaysStaysErased == Spec => ErasedStaysErased
<1> DEFINE Allowed == \/ mounted
                      \/ call.op \in {"FormatLuks", "LogicalOverWrite",
                                      "ZeroOverWrite", "VendorSanitize"}
<1>1. IInv /\ [Next]_vars => [raw # "data" /\ raw' = "data" => Allowed]_vars
  <2> SUFFICES ASSUME IInv, Next, raw # "data", raw' = "data" PROVE Allowed
    BY DEF vars
  <2> USE DEF IInv, OpAt
  <2>1. ~(\E c \in Calls : Receive(c))
    BY DEF Receive, device, disk
  <2>2. CASE CryptFormat \/ CreateFilesystem
    BY <2>2 DEF CryptFormat, CreateFilesystem
  <2>3. CASE OverwriteHeader \/ OverwriteRest \/ VendorSanitize
    BY <2>3 DEF OverwriteHeader, OverwriteRest, VendorSanitize
  <2>4. CASE Crash \/ Reboot
    BY <2>4 DEF Crash, Reboot, Torn, disk
  <2>5. CASE FsWrite
    BY <2>5 DEF FsWrite
  <2>6. CASE AddKeyslot \/ ChangePassword \/ CryptErase
    BY <2>6 DEF AddKeyslot, ChangePassword, CryptErase, Torn, disk
  <2>7. CASE Activate \/ Fsck \/ CreateMountPoint \/ Mount \/ RemoveMountPoint \/ Relock
    BY <2>7 DEF Activate, Fsck, CreateMountPoint, Mount, RemoveMountPoint, Relock, disk
  <2>8. CASE Unmount \/ RemoveDirectory \/ Deactivate \/ Verify \/ Compare
             \/ SecuredLocked \/ FsCorrupt
    BY <2>8 DEF Unmount, RemoveDirectory, Deactivate, Verify, Compare, SecuredLocked,
                FsCorrupt, disk, device
  <2> QED
    BY <2>1, <2>2, <2>3, <2>4, <2>5, <2>6, <2>7, <2>8 DEF Next, Step, Environment
<1> QED BY <1>1, Invariance, PTL DEF Spec, ErasedStaysErased
=============================================================================
