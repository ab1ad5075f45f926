----------------------------- MODULE VolumeProofs -----------------------------
(***************************************************************************)
(* EStoraged implements VolumeService for every set of passwords and every *)
(* set of faults.  Each action of EStoraged is shown to be one of the      *)
(* abstract actions, or to change nothing the client sees; the inductive   *)
(* invariant of EStoragedProofs says what the device was like before.      *)
(***************************************************************************)
EXTENDS VolumeRefinement, EStoragedProofs

(* A machine just booted has a locked volume.                              *)
LEMMA InitImplements == Init => Volume!Init
BY DEF Init, Volume!Init, ClientAccess, Serving, Access, MidMethod

(* A call is not the absence of one.                                       *)
LEMMA CallsAreCalls == \A c \in Calls : c.op # "none" /\ c # NoCall
BY CallFields DEF NoCall, EraseMethods

(* While a method runs it is the request being served, outside a method    *)
(* there is none.                                                          *)
LEMMA ServingFacts ==
  ASSUME IInv
  PROVE  /\ pc = "idle" => Serving = NoCall
         /\ pc # "idle" => Serving = call /\ call # NoCall
BY DEF Serving, IInv, OpAt, TypeOK, Labels, NoCall

(* A call arrives, or is turned down at once.                              *)
LEMMA ReceiveImplements ==
  ASSUME IInv, NEW c \in Calls, Receive(c)
  PROVE  Volume!Next
<1>1. c.op \in {"FormatLuks", "FormatUnsupported", "Unlock", "Lock",
               "ChangePassword"} \cup EraseMethods
  BY CallFields
<1>2. ClientAccess' = ClientAccess /\ UNCHANGED Volume!volume
  BY <1>1 DEF Receive, device, ClientAccess, Access, MidMethod, Entry, EraseMethods, Volume!volume
<1>3. CASE c.op = "FormatUnsupported"
  BY <1>2, <1>3 DEF Receive, Volume!Next, Volume!Reject, Serving, Volume!volume
<1>4. CASE c.op # "FormatUnsupported"
  <2>1. pc = "idle" /\ pc' # "idle" /\ call' = c /\ reply' = "none"
    BY <1>1, <1>4 DEF Receive, Entry, EraseMethods
  <2>2. Volume!Ask(c)
    BY <1>2, <2>1 DEF Volume!Ask, Serving
  <2> QED BY <2>2 DEF Volume!Next
<1> QED BY <1>3, <1>4

(* Steps of FormatLuks and Unlock up to the filesystem.                    *)
LEMMA OpeningImplements ==
  ASSUME IInv, CryptFormat \/ AddKeyslot \/ Activate \/ CreateFilesystem
  PROVE  Volume!Next \/ UNCHANGED Volume!vars
<1> USE ServingFacts
    DEF IInv, OpAt, OpeningOK, Goto, Return, Throw, disk, kernel, Serving,
        Volume!Costs, Volume!Next, Volume!vars
<1>1. CASE CryptFormat
  <2>1. call.op = "FormatLuks" /\ ClientAccess = Access /\ ClientAccess' = Access'
        /\ Access' = Access
    BY <1>1 DEF CryptFormat, ClientAccess, Access, MidMethod
  <2>2. CASE ~mapped /\ Goto("addKeyslot")
    BY <1>1, <2>1, <2>2 DEF CryptFormat, Volume!Progress, Access
  <2>3. CASE Throw
    BY <1>1, <2>1, <2>3 DEF CryptFormat, Volume!Fail, Torn, Wiped, Sanitized, Access
  <2> QED BY <1>1, <2>2, <2>3 DEF CryptFormat
<1>2. CASE AddKeyslot
  BY <1>2 DEF AddKeyslot, ClientAccess, Access, MidMethod, Volume!Progress, Volume!Builds, Volume!Fail
<1>3. CASE Activate
  BY <1>3 DEF Activate, ClientAccess, Access, MidMethod, Volume!Fail
<1>4. CASE CreateFilesystem
  BY <1>4 DEF CreateFilesystem, ClientAccess, Access, MidMethod, Volume!Progress, Volume!Builds, Volume!Fail
<1> QED BY <1>1, <1>2, <1>3, <1>4

(* The mount and what undoes it.                                           *)
LEMMA MountImplements ==
  ASSUME IInv, Fsck \/ CreateMountPoint \/ Mount \/ RemoveMountPoint \/ Relock
  PROVE  Volume!Next \/ UNCHANGED Volume!vars
<1> USE ServingFacts
    DEF IInv, OpAt, OpeningOK, Goto, Return, Throw, LockOnError, disk, kernel,
        Serving, ClientAccess, Access, MidMethod, Volume!Costs, Volume!Next,
        Volume!vars
<1>1. CASE Fsck
  BY <1>1 DEF Fsck, Volume!Fail
<1>2. CASE CreateMountPoint
  BY <1>2 DEF CreateMountPoint, Volume!Fail
<1>3. CASE Mount
  BY <1>3 DEF Mount, Volume!Succeed, Volume!Does
<1>4. CASE RemoveMountPoint
  BY <1>4 DEF RemoveMountPoint, Volume!Fail
<1>5. CASE Relock
  BY <1>5 DEF Relock, Volume!Fail
<1> QED BY <1>1, <1>2, <1>3, <1>4, <1>5

(* Lock, and SecuredLocked.                                                *)
LEMMA ClosingImplements ==
  ASSUME IInv, Unmount \/ RemoveDirectory \/ Deactivate \/ SecuredLocked
  PROVE  Volume!Next \/ UNCHANGED Volume!vars
<1> USE ServingFacts
    DEF IInv, OpAt, StorageOK, ClosingOK, Goto, Return, Throw, disk, kernel,
        Serving, ClientAccess, Access, MidMethod, Volume!Costs, Volume!Next,
        Volume!vars
<1>1. CASE Unmount
  BY <1>1 DEF Unmount, Volume!Fail
<1>2. CASE RemoveDirectory
  BY <1>2 DEF RemoveDirectory, Volume!Fail
<1>3. CASE Deactivate
  BY <1>3 DEF Deactivate, Volume!Fail, Volume!Succeed, Volume!Does
<1>4. CASE SecuredLocked
  BY <1>4 DEF SecuredLocked, IsLocked, device, Volume!Succeed, Volume!Does, Volume!volume
<1> QED BY <1>1, <1>2, <1>3, <1>4

(* ChangePassword and the methods that erase or verify.                    *)
LEMMA EraseImplements ==
  ASSUME IInv,
         ChangePassword \/ CryptErase \/ OverwriteHeader \/ OverwriteRest
           \/ Verify \/ Compare \/ VendorSanitize
  PROVE  Volume!Next \/ UNCHANGED Volume!vars
<1>1. ClientAccess' = ClientAccess
  BY DEF ChangePassword, CryptErase, OverwriteHeader, OverwriteRest, Verify,
         Compare, VendorSanitize, Goto, Return, Throw, kernel, device, ClientAccess, Access, MidMethod
<1> USE <1>1, ServingFacts
    DEF IInv, OpAt, Goto, Return, Throw, disk, Serving,
        Volume!Costs, Volume!Next, Volume!Overwrites, Volume!Verifies
<1>2. CASE ChangePassword
  BY <1>2 DEF ChangePassword, Torn, Volume!Fail, Volume!Succeed, Volume!Does
<1>3. CASE CryptErase
  BY <1>3 DEF CryptErase, Torn, Volume!Fail, Volume!Succeed, Volume!Does
<1>4. CASE OverwriteHeader
  BY <1>4 DEF OverwriteHeader, Torn, Volume!Fail, Volume!Progress
<1>5. CASE OverwriteRest
  BY <1>5 DEF OverwriteRest, Torn, ClosingOK, Volume!Fail, Volume!Succeed, Volume!Does
<1>6. CASE Verify
  BY <1>6 DEF Verify, device, Volume!Fail, Volume!vars
<1>7. CASE Compare
  BY <1>7 DEF Compare, ClosingOK, device, Volume!Fail, Volume!Succeed,
              Volume!Does, Volume!volume
<1>8. CASE VendorSanitize
  BY <1>8 DEF VendorSanitize, Torn, Wiped, Sanitized, Volume!Fail, Volume!Succeed, Volume!Does
<1> QED BY <1>2, <1>3, <1>4, <1>5, <1>6, <1>7, <1>8

(* Users of the filesystem, crashes and loss of power.                     *)
LEMMA EnvironmentImplements ==
  ASSUME IInv, Environment
  PROVE  Volume!Next \/ UNCHANGED Volume!vars
<1> USE ServingFacts
    DEF IInv, OpAt, TypeOK, disk, kernel, Volume!Costs, Volume!Next, Volume!vars
<1>1. CASE FsWrite
  BY <1>1 DEF FsWrite, ClientAccess, Access, Serving
<1>2. CASE FsCorrupt
  BY <1>2 DEF FsCorrupt, ClientAccess, Access, Serving, StorageOK, OpeningOK,
              ClosingOK, MidMethod, Volume!Damage
<1>3. CASE Crash
  BY <1>3 DEF Crash, Torn, Wiped, Sanitized, ClientAccess, Access, Serving, StorageOK,
              OpeningOK, ClosingOK, MidMethod, Volume!Fail, Volume!Overwrites
<1>4. CASE Reboot
  BY <1>4 DEF Reboot, Torn, Wiped, Sanitized, ClientAccess, Access, Serving, NoCall,
              OpeningOK, ClosingOK, MidMethod, Volume!PowerCycle, Volume!Overwrites
<1> QED BY <1>1, <1>2, <1>3, <1>4 DEF Environment

-----------------------------------------------------------------------------
(* What clients are promised holds whatever fails: every behaviour of the  *)
(* volume object, seen through ClientAccess and Serving, is one of         *)
(* VolumeService.                                                          *)
THEOREM EStoragedImplementsVolumeService == Spec => ImplementsVolumeService
<1>1. Init => Volume!Init
  BY InitImplements
<1>2. IInv /\ [Next]_vars => [Volume!Next]_(Volume!vars)
  <2> SUFFICES ASSUME IInv, [Next]_vars PROVE Volume!Next \/ UNCHANGED Volume!vars
    OBVIOUS
  <2>1. CASE UNCHANGED vars
    BY <2>1 DEF vars, Volume!vars, ClientAccess, Access, Serving
  <2>2. CASE Next
    BY <2>2, ReceiveImplements, OpeningImplements, MountImplements,
       ClosingImplements, EraseImplements, EnvironmentImplements DEF Next, Step
  <2> QED BY <2>1, <2>2
<1> QED BY <1>1, <1>2, Invariance, PTL DEF Spec, ImplementsVolumeService, Volume!Spec
=============================================================================
