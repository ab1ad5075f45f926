---------------------------- MODULE RecoveryProofs ----------------------------
(***************************************************************************)
(* The client of Recovery is never further from having its volume than it  *)
(* was, for every set of passwords and every set of faults that includes a *)
(* reboot: the argument behind VolumeComesBack.                            *)
(***************************************************************************)
EXTENDS Recovery, EStoragedProofs

(* With nothing failing, the volume object does what it may do anyway.     *)
LEMMA CalmStepsAreSteps == Faultless!Step => Step
<1> USE DEF Faultless!May, Faultless!Torn, Torn, Wiped, Sanitized, Faultless!Wiped,
            Faultless!Sanitized, Faultless!Goto, Goto, Faultless!Return, Return,
            Faultless!Throw, Throw, Faultless!disk, disk, Faultless!kernel, kernel,
            Faultless!device, device
<1> SUFFICES ASSUME Faultless!Step PROVE Step
  OBVIOUS
<1>1. CASE \/ Faultless!CryptFormat \/ Faultless!AddKeyslot \/ Faultless!Activate
           \/ Faultless!CreateFilesystem
  BY <1>1 DEF Faultless!CryptFormat, Faultless!AddKeyslot, Faultless!Activate,
     Faultless!CreateFilesystem, CryptFormat, AddKeyslot, Activate, CreateFilesystem, Step
<1>2. CASE \/ Faultless!Fsck \/ Faultless!CreateMountPoint \/ Faultless!Mount
           \/ Faultless!RemoveMountPoint \/ Faultless!Relock
  BY <1>2 DEF Faultless!Fsck, Faultless!CreateMountPoint, Faultless!Mount,
     Faultless!RemoveMountPoint, Faultless!Relock, Fsck, CreateMountPoint, Mount,
     RemoveMountPoint, Relock, Faultless!LockOnError, LockOnError, Step
<1>3. CASE Faultless!Unmount \/ Faultless!RemoveDirectory \/ Faultless!Deactivate
  BY <1>3 DEF Faultless!Unmount, Faultless!RemoveDirectory, Faultless!Deactivate,
     Unmount, RemoveDirectory, Deactivate, Step
<1>4. CASE \/ Faultless!ChangePassword \/ Faultless!CryptErase
           \/ Faultless!OverwriteHeader \/ Faultless!OverwriteRest
  BY <1>4 DEF Faultless!ChangePassword, Faultless!CryptErase,
     Faultless!OverwriteHeader, Faultless!OverwriteRest, ChangePassword, CryptErase,
     OverwriteHeader, OverwriteRest, Faultless!Written, Written, Faultless!Rewritten,
     Rewritten, Step
<1>5. CASE \/ Faultless!Verify \/ Faultless!Compare \/ Faultless!VendorSanitize
           \/ Faultless!SecuredLocked
  BY <1>5 DEF Faultless!Verify, Faultless!Compare, Faultless!VendorSanitize,
     Faultless!SecuredLocked, Verify, Compare, VendorSanitize, SecuredLocked,
     Faultless!Matches, Matches, Faultless!IsLocked, IsLocked, Step
<1> QED BY <1>1, <1>2, <1>3, <1>4, <1>5 DEF Faultless!Step

(* Whatever the client and the faults do, the volume object is the one of  *)
(* EStoraged, so that all its theorems hold here too.                      *)
THEOREM RecoveryIsAnEStoraged == RecoverySpec => Spec
<1>1. RecoveryInit => Init
  BY DEF RecoveryInit
<1>2. [RecoveryNext]_rvars => [Next]_vars
  <2> SUFFICES ASSUME RecoveryNext PROVE [Next]_vars
    BY DEF rvars, vars
  <2>1. CASE Troubled
    BY <2>1 DEF Troubled
  <2>2. CASE Serve
    BY <2>2, CalmStepsAreSteps DEF Serve, Next
  <2>3. CASE Try
    BY <2>3 DEF Try, Next
  <2>4. CASE PowerCycle
    BY <2>4 DEF PowerCycle, Next, Environment
  <2> QED BY <2>1, <2>2, <2>3, <2>4 DEF RecoveryNext
<1> QED BY <1>1, <1>2, PTL DEF RecoverySpec, Spec

(* The invariant of the volume object holds while the client tries.        *)
LEMMA InvariantHolds == RecoverySpec => []IInv
BY RecoveryIsAnEStoraged, Invariance, PTL

-----------------------------------------------------------------------------
(* The rank, case by case, before a step and after it.                     *)
LEMMA StageIs ==
  /\ call.op = "FormatLuks" => Stage = IF Formatting THEN 0 ELSE 4
  /\ call.op = "Unlock"
       => Stage = IF mapped /\ pc \in {"idle", "activate"} THEN 5 ELSE 1
  /\ call.op = "Lock" /\ (pc # "idle" \/ reply = "error") => Stage = 3
  /\ call.op \notin {"FormatLuks", "Unlock"}
       /\ ~(call.op = "Lock" /\ (pc # "idle" \/ reply = "error"))
       => Stage = IF pc = "idle" /\ ~mapped THEN 2 ELSE 6
BY DEF Stage

LEMMA NextStageIs ==
  /\ call'.op = "FormatLuks" => Stage' = IF Formatting' THEN 0 ELSE 4
  /\ call'.op = "Unlock"
       => Stage' = IF mapped' /\ pc' \in {"idle", "activate"} THEN 5 ELSE 1
  /\ call'.op = "Lock" /\ (pc' # "idle" \/ reply' = "error") => Stage' = 3
  /\ call'.op \notin {"FormatLuks", "Unlock"}
       /\ ~(call'.op = "Lock" /\ (pc' # "idle" \/ reply' = "error"))
       => Stage' = IF pc' = "idle" /\ ~mapped' THEN 2 ELSE 6
BY DEF Stage

LEMMA StepsLeftIs ==
  /\ pc = "idle" => StepsLeft = 0
  /\ pc \in {"relock", "deactivate", "overwriteRest", "compare", "sanitize",
              "changeKeyslot", "destroyKeyslots"} => StepsLeft = 1
  /\ pc \in {"removeMountPoint", "removeDirectory", "overwriteHeader",
              "verify"} => StepsLeft = 2
  /\ pc \in {"mount", "unmount"} => StepsLeft = 3
  /\ pc \in {"mountPoint", "checkLocked"} => StepsLeft = 4
  /\ pc = "fsck" => StepsLeft = 5
  /\ pc = "mkfs" => StepsLeft = 6
  /\ pc = "activate" => StepsLeft = 7
  /\ pc = "addKeyslot" => StepsLeft = 8
  /\ pc = "cryptFormat" => StepsLeft = 9
BY DEF StepsLeft

LEMMA NextStepsLeftIs ==
  /\ pc' = "idle" => StepsLeft' = 0
  /\ pc' \in {"relock", "deactivate", "overwriteRest", "compare", "sanitize",
              "changeKeyslot", "destroyKeyslots"} => StepsLeft' = 1
  /\ pc' \in {"removeMountPoint", "removeDirectory", "overwriteHeader",
              "verify"} => StepsLeft' = 2
  /\ pc' \in {"mount", "unmount"} => StepsLeft' = 3
  /\ pc' \in {"mountPoint", "checkLocked"} => StepsLeft' = 4
  /\ pc' = "fsck" => StepsLeft' = 5
  /\ pc' = "mkfs" => StepsLeft' = 6
  /\ pc' = "activate" => StepsLeft' = 7
  /\ pc' = "addKeyslot" => StepsLeft' = 8
  /\ pc' = "cryptFormat" => StepsLeft' = 9
BY DEF StepsLeft

(* The rank is a triple of natural numbers.                                *)
LEMMA RankIsRank == IInv => Rank \in Ranks
<1> SUFFICES ASSUME IInv PROVE Rank \in Ranks
  OBVIOUS
<1>1. Stage \in 0 .. 6
  BY StageIs
<1>2. StepsLeft \in 0 .. 9
  BY StepsLeftIs DEF IInv, TypeOK, Labels
<1> QED BY <1>1, <1>2 DEF Rank, Ranks

(* When nothing fails, each step of a method brings the client nearer: it  *)
(* is one step less to go, or a call that had to fail has failed.          *)
LEMMA ServingAdvances ==
  ASSUME IInv, IInv', Faultless!Step
  PROVE  Usable' \/ Lower(Rank', Rank)
<1> DEFINE Nearer == \/ Stage' < Stage
                     \/ Stage' = Stage /\ StepsLeft' < StepsLeft
<1>1. SUFFICES Usable' \/ Nearer
  BY DEF Lower, Rank
<1> USE StageIs, NextStageIs, StepsLeftIs, NextStepsLeftIs
        DEF Faultless!May, Faultless!Goto, Faultless!Return, Faultless!Throw,
            Faultless!disk, Faultless!kernel, Faultless!device, Formatting
<1>2. CASE Faultless!CryptFormat
  BY <1>2 DEF Faultless!CryptFormat, IInv, OpAt
<1>3. CASE Faultless!AddKeyslot
  BY <1>3 DEF Faultless!AddKeyslot, IInv, OpAt
<1>4. CASE Faultless!Activate
  <2>1. CASE call.op = "FormatLuks"
    BY <1>4, <2>1 DEF Faultless!Activate, IInv, OpAt, OpeningOK
  <2>2. CASE call.op = "Unlock"
    BY <1>4, <2>2 DEF Faultless!Activate, IInv, TypeOK
  <2> QED BY <1>4, <2>1, <2>2 DEF Faultless!Activate, IInv, OpAt
<1>5. CASE Faultless!CreateFilesystem
  BY <1>5 DEF Faultless!CreateFilesystem, IInv, OpAt
<1>6. CASE Faultless!Fsck
  BY <1>6 DEF Faultless!Fsck, Faultless!LockOnError, IInv, OpAt
<1>7. CASE Faultless!CreateMountPoint
  BY <1>7 DEF Faultless!CreateMountPoint, IInv, OpAt
<1>8. CASE Faultless!Mount
  BY <1>8 DEF Faultless!Mount, Usable, Access, IInv, OpAt, OpeningOK
<1>9. CASE Faultless!RemoveMountPoint
  BY <1>9 DEF Faultless!RemoveMountPoint, Faultless!LockOnError, IInv, OpAt
<1>10. CASE Faultless!Relock
  BY <1>10 DEF Faultless!Relock, IInv, OpAt
<1>11. CASE Faultless!Unmount
  BY <1>11 DEF Faultless!Unmount, IInv, OpAt
<1>12. CASE Faultless!RemoveDirectory
  BY <1>12 DEF Faultless!RemoveDirectory, IInv, OpAt
<1>13. CASE Faultless!Deactivate
  BY <1>13 DEF Faultless!Deactivate, IInv, OpAt
<1>14. CASE Faultless!ChangePassword
  BY <1>14 DEF Faultless!ChangePassword, IInv, OpAt
<1>15. CASE Faultless!CryptErase
  BY <1>15 DEF Faultless!CryptErase, IInv, OpAt
<1>16. CASE Faultless!OverwriteHeader
  BY <1>16 DEF Faultless!OverwriteHeader, IInv, OpAt
<1>17. CASE Faultless!OverwriteRest
  BY <1>17 DEF Faultless!OverwriteRest, IInv, OpAt
<1>18. CASE Faultless!Verify
  BY <1>18 DEF Faultless!Verify, IInv, OpAt
<1>19. CASE Faultless!Compare
  BY <1>19 DEF Faultless!Compare, IInv, OpAt
<1>20. CASE Faultless!VendorSanitize
  BY <1>20 DEF Faultless!VendorSanitize, IInv, OpAt
<1>21. CASE Faultless!SecuredLocked
  BY <1>21 DEF Faultless!SecuredLocked, IInv, OpAt
<1> QED
  BY <1>2, <1>3, <1>4, <1>5, <1>6, <1>7, <1>8, <1>9, <1>10, <1>11, <1>12, <1>13,
     <1>14, <1>15, <1>16, <1>17, <1>18, <1>19, <1>20, <1>21 DEF Faultless!Step

(* So does each attempt: a call is made only when a nearer one has failed. *)
LEMMA TryingAdvances ==
  ASSUME IInv, IInv', May("reboot"), Try \/ PowerCycle
  PROVE  Lower(Rank', Rank)
<1>1. SUFFICES Stage' < Stage
  BY DEF Lower, Rank
<1> USE StageIs, NextStageIs DEF Formatting
<1>2. CASE Try
  <2>1. PICK c \in Calls : c.op = NextTry /\ Receive(c)
    BY <1>2 DEF Try
  <2>2. pc = "idle" /\ ~(call.op = "Lock" /\ reply = "error")
    BY <1>2 DEF Try
  <2>3. /\ c.op \in {"Unlock", "FormatLuks", "Lock"}
        /\ call'.op = c.op /\ pc' = Entry(c.op) /\ mapped' = mapped
    BY <2>1 DEF NextTry, Receive, device
  <2>4. CASE call.op = "Unlock"
    <3>1. call'.op = "FormatLuks" /\ pc' = "cryptFormat"
      BY <2>1, <2>3, <2>4 DEF NextTry, Entry
    <3> QED BY <2>2, <2>3, <2>4, <3>1 DEF IInv, TypeOK
  <2>5. CASE call.op = "FormatLuks"
    <3>1. call'.op = "Lock" /\ pc' = "unmount"
      BY <2>1, <2>3, <2>5 DEF NextTry, Entry
    <3> QED BY <2>2, <2>3, <2>5, <3>1
  <2>6. CASE call.op \notin {"Unlock", "FormatLuks"}
    <3>1. call'.op = "Unlock" /\ pc' = "activate"
      BY <2>1, <2>3, <2>6 DEF NextTry, Entry
    <3> QED BY <2>2, <2>3, <2>6, <3>1 DEF IInv, TypeOK
  <2> QED BY <2>4, <2>5, <2>6
<1>3. CASE PowerCycle
  <2>1. Stage = 3
    BY <1>3 DEF PowerCycle
  <2>2. ~mapped' /\ pc' = "idle" /\ call'.op = "none"
    BY <1>3 DEF PowerCycle, Reboot, NoCall
  <2> QED BY <2>1, <2>2
<1> QED BY <1>2, <1>3

(* Once no fault occurs any more, nothing the client or the daemon does is *)
(* in vain: the volume comes back after finitely many steps, a reboot      *)
(* among them at most once.                                                *)
THEOREM ComebackAlwaysAdvances ==
  May("reboot") => (RecoverySpec => ComebackAdvances)
<1> DEFINE Advance == calm' /\ Rank \in Ranks /\ (Usable' \/ Lower(Rank', Rank))
<1>1. ASSUME May("reboot")
      PROVE  IInv /\ IInv' /\ [RecoveryNext]_rvars => [calm => Advance]_rvars
  <2> SUFFICES ASSUME IInv, IInv', RecoveryNext, calm PROVE Advance
    OBVIOUS
  <2>1. Rank \in Ranks
    BY RankIsRank
  <2>2. ~Troubled
    BY DEF Troubled
  <2>3. CASE Serve
    BY <2>1, <2>3, ServingAdvances DEF Serve
  <2>4. CASE Try \/ PowerCycle
    BY <1>1, <2>1, <2>4, TryingAdvances DEF Try, PowerCycle
  <2> QED BY <2>2, <2>3, <2>4 DEF RecoveryNext
<1>2. ASSUME May("reboot") PROVE RecoverySpec => ComebackAdvances
  <2>1. IInv /\ IInv' /\ [RecoveryNext]_rvars => [calm => Advance]_rvars
    BY <1>1, <1>2
  <2> QED BY <2>1, InvariantHolds, PTL DEF RecoverySpec, ComebackAdvances
<1> QED BY <1>2
=============================================================================
