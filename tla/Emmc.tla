--------------------------------- MODULE Emmc ---------------------------------
(***************************************************************************)
(* The eMMC from the start of the daemon to the erase methods that act on  *)
(* the drive itself: DriveSetup makes the volume object, and its Erase     *)
(* serves VerifyGeometry (src/src/erase/verifyDriveGeometry.cpp) with the  *)
(* limits found at set-up, and VendorSanitize (Sanitize) on the device     *)
(* found at set-up.  The daemon may die in the middle of either.           *)
(***************************************************************************)
EXTENDS DriveSetup, Ranking

CONSTANTS SectorSize, ArgRange

ASSUME EmmcAssumption ==
  SectorSize \in Nat \ {0} /\ ArgRange \in Nat \ {0}

VARIABLES live, stale, method, answer,
          inUse    \* the volume is mounted and written to during a sanitize

vars == <<svars, live, stale, method, answer, inUse>>

Erasing == INSTANCE Sanitize

Init ==
  /\ SetupInit
  /\ live = [d \in Drives |-> Erasing!Sectors(d)] /\ stale = [d \in Drives |-> {}]
  /\ method = "none" /\ answer = "none" /\ inUse \in BOOLEAN

Idle == pc = "serving" /\ method = "none"

(* Erase(VendorSanitize): what is stored at the call is followed.          *)
CallSanitize ==
  /\ Idle
  /\ method' = "erase" /\ answer' = "none"
  /\ live' = [live EXCEPT ![dev] = Erasing!Sectors(dev)]
  /\ UNCHANGED <<svars, stale, inUse>>

RunSanitize ==
  /\ pc = "serving"
  /\ Erasing!EmmcErase(dev) \/ Erasing!EmmcSanitize(dev)
  /\ UNCHANGED <<svars, inUse>>

GeometryOkay(max, min, bytes) == bytes <= max /\ bytes >= min

(* Erase(VerifyGeometry): the size is read anew, which may fail.           *)
VerifyGeometry ==
  /\ Idle
  /\ \/ GeometryOkay(info.max, info.min, profile[dev].size) /\ answer' = "inRange"
     \/ answer' = "error"
  /\ UNCHANGED <<svars, live, stale, method, inUse>>

SetUp ==
  SetupStep /\ UNCHANGED <<live, stale, method, answer, inUse>>

(* The daemon is killed, or the machine reboots, during whatever it does.  *)
Interrupt ==
  /\ Kill \/ Reboot
  /\ IF dev \in Drives THEN Erasing!Interrupted(dev)
                       ELSE UNCHANGED <<live, stale, method, answer>>
  /\ UNCHANGED inUse

(* Users of the mounted volume.                                            *)
Write ==
  /\ inUse /\ pc = "serving" /\ method # "none"
  /\ \E s \in live[dev] : Erasing!Write(dev, s)
  /\ UNCHANGED <<config, bkops, fast, setup, errors, programmed, missed, inUse>>

Next == SetUp \/ CallSanitize \/ RunSanitize \/ VerifyGeometry \/ Interrupt \/ Write

(* The daemon goes on with what it has begun, and systemd restarts it.     *)
Spec == Init /\ [][Next]_vars /\ WF_vars(SetUp) /\ WF_vars(RunSanitize)

-----------------------------------------------------------------------------
(* Properties.                                                             *)

EraseTypeOK ==
  /\ live \in [Drives -> SUBSET Nat] /\ stale \in [Drives -> SUBSET Nat]
  /\ \A d \in Drives : live[d] \cup stale[d] \subseteq Erasing!Sectors(d)
  /\ method \in {"none", "erase", "sanitize"}
  /\ answer \in {"none", "inRange", "sanitized", "error"}
  /\ inUse \in BOOLEAN

TypeOK == SetupTypeOK /\ EraseTypeOK

(* When VendorSanitize succeeds, nothing that was stored when it was       *)
(* called can be read, nor is it left in a cell, whatever was written in   *)
(* the meantime.  For drives beyond 2 GB (sanitize.cpp:76-78) of at most   *)
(* as many sectors as an argument can name.                                *)
SanitizeLeavesNothing ==
  [][answer' = "sanitized" /\ answer # "sanitized"
       /\ ~profile[dev].byteAddressed
       /\ profile[dev].size \div SectorSize <= ArgRange
     => live'[dev] = {} /\ stale'[dev] = {}]_vars

(* VerifyGeometry answers without an error only if the size of the drive   *)
(* is within the limits of the configuration, or the defaults of those it  *)
(* does not give, through every restart in between.                        *)
GeometryAnswersTrue ==
  [][answer' = "inRange" /\ answer # "inRange" =>
       /\ profile[dev].size <= Limit(config.max, DefaultMax)
       /\ profile[dev].size >= Limit(config.min, DefaultMin)]_vars

(* Why DriveComesUp: with a drive that is configured, every step of the    *)
(* set-up is one less to go, and what sets it back is one of the failures; *)
(* a null descriptor costs one more restart.  The set-up ends without a    *)
(* volume only if there is no drive, or its type could not be read.        *)
StepsLeft ==
  CASE pc \in {"serving", "placeholder"} -> 0
    [] pc = "publish" -> 1
    [] pc = "switch"  -> 2
    [] pc = "extCsd"  -> IF open THEN 3 ELSE 10
    [] pc = "timing"  -> IF open THEN 4 ELSE 11
    [] pc = "open"    -> 5
    [] pc = "sysfs"   -> 6
    [] pc = "size"    -> 7
    [] pc = "find"    -> 8
    [] pc = "dead"    -> 9

Rank == <<MaxErrors - errors, StepsLeft, 0>>

SetUpAdvances ==
  [][config.type = "EmmcDevice" =>
       /\ Rank \in Ranks
       /\ Lower(Rank', Rank) \/ (pc = "serving" /\ UNCHANGED Rank)
       /\ pc' = "placeholder" => missed' \/ Candidates = {}]_vars
=============================================================================
