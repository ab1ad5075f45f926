------------------------------ MODULE EmmcProofs ------------------------------
(***************************************************************************)
(* The safety properties of Emmc, for every machine, configuration, sector *)
(* size and argument range, and however often the daemon dies.             *)
(***************************************************************************)
EXTENDS Emmc, TLAPS

(* The set-up has found its device, and its later steps rely on what the   *)
(* earlier ones have read.                                                 *)
Found == pc \notin {"find", "placeholder", "dead"}
Sized == Found /\ pc # "size"
Measured == Sized /\ pc # "sysfs"

FoundOK ==
  Found => /\ config.type = "EmmcDevice" /\ dev \in Candidates
           /\ info.max = Limit(config.max, DefaultMax)
           /\ info.min = Limit(config.min, DefaultMin)

SizedOK == Sized => info.size = profile[dev].size

LifeIsNotPromised ==
  info.life # Unknown =>
    /\ Usable(profile[dev].estA) /\ info.life <= 10 * (11 - profile[dev].estA)
    /\ Usable(profile[dev].estB) /\ info.life <= 10 * (11 - profile[dev].estB)

MeasuredOK == Measured => LifeIsNotPromised

SwitchOK == pc = "switch" => NeedsBkops(dev)

(* Drives of which one argument can name every sector.                     *)
Nameable(d) ==
  ~profile[d].byteAddressed /\ profile[d].size \div SectorSize <= ArgRange

ErasedFirst ==
  /\ method # "none" => pc = "serving"
  /\ method = "sanitize" /\ Nameable(dev) => live[dev] = {}

(* The parts of the invariant that are about the set-up, and all of it.    *)
SetupInv ==
  /\ SetupTypeOK /\ BkopsIsProgrammedOnce
  /\ FoundOK /\ SizedOK /\ MeasuredOK /\ SwitchOK

IInv == SetupInv /\ EraseTypeOK /\ ErasedFirst

-----------------------------------------------------------------------------
(* What the operators return.                                              *)

(* findPredictedMediaLifeLeftPercent (util.cpp:48-95) returns a percentage *)
(* in tens or 255, never more than either estimate leaves.                 *)
LEMMA LifeLeftIsCautious ==
  ASSUME NEW estA \in Nat, NEW estB \in Nat
  PROVE  LET life == LifeLeft(estA, estB)
         IN  /\ life \in {10 * tens : tens \in 0 .. 10} \cup {Unknown}
             /\ life # Unknown =>
                  /\ Usable(estA) /\ life <= 10 * (11 - estA)
                  /\ Usable(estB) /\ life <= 10 * (11 - estB)
<1> DEFINE worse == IF estA > estB THEN estA ELSE estB
<1>1. CASE Usable(estA) /\ Usable(estB)
  <2>1. /\ 11 - worse \in 0 .. 10
        /\ 11 - worse <= 11 - estA /\ 11 - worse <= 11 - estB
    BY <1>1 DEF Usable
  <2>2. LifeLeft(estA, estB) = (11 - worse) * 10
    BY <1>1 DEF LifeLeft
  <2> HIDE DEF worse
  <2>3. LifeLeft(estA, estB) = 10 * (11 - worse)
    BY <2>1, <2>2
  <2> QED BY <1>1, <2>1, <2>3 DEF Usable
<1>2. CASE ~(Usable(estA) /\ Usable(estB))
  BY <1>2 DEF LifeLeft, Unknown
<1> QED BY <1>1, <1>2

(* An erase command that a nameable drive accepts covers all its sectors   *)
(* (sanitize.cpp:87-90).                                                   *)
LEMMA EraseCoversDrive ==
  ASSUME NEW d \in Drives, profile[d].size \in Nat,
         Nameable(d), Erasing!InRange(d)
  PROVE  Erasing!Covered(d) = Erasing!Sectors(d)
<1> DEFINE n == profile[d].size \div SectorSize
<1>1. n \in Nat
  BY EmmcAssumption
<1>2. n <= ArgRange /\ ArgRange \in Nat \ {0}
  BY EmmcAssumption DEF Nameable
<1>3. Erasing!LastGroup(d) = (n - 1) % ArgRange
  BY DEF Erasing!LastGroup
<1>4. Erasing!LastGroup(d) < n
  BY DEF Nameable, Erasing!InRange
<1>5. Erasing!Sectors(d) = 0 .. n - 1
  BY DEF Erasing!Sectors
<1>6. Erasing!Covered(d) = {s \in 0 .. n - 1 : s <= Erasing!LastGroup(d)}
  BY <1>5 DEF Erasing!Covered, Nameable
<1> HIDE DEF n
<1>7. CASE n = 0
  BY <1>5, <1>6, <1>7
<1>8. CASE n # 0
  <2>1. (n - 1) % ArgRange = n - 1
    BY <1>1, <1>2, <1>8
  <2> QED BY <1>1, <1>3, <1>5, <1>6, <2>1
<1> QED BY <1>7, <1>8

-----------------------------------------------------------------------------
(* The set-up.                                                             *)

(* What a device is.                                                       *)
LEMMA ProfileTypes ==
  ASSUME profile \in Machines, NEW d \in Drives
  PROVE  /\ profile[d] \in Profiles
         /\ profile[d].size \in Nat /\ profile[d].estA \in Nat /\ profile[d].estB \in Nat
         /\ profile[d].byteAddressed \in BOOLEAN /\ profile[d].bkopsSupport \in BOOLEAN
         /\ profile[d].highSpeedPart \in BOOLEAN /\ profile[d].bkopsEn \in Modes
<1>1. profile \in [Drives -> Profiles]
  BY DriveSetupAssumption
<1>2. profile[d] \in Profiles
  BY <1>1
<1> QED BY <1>2 DEF Profiles

(* A limit is a number, configured or not.                                 *)
LEMMA LimitTypes ==
  ASSUME config \in Configs
  PROVE  Limit(config.max, DefaultMax) \in Nat /\ Limit(config.min, DefaultMin) \in Nat
<1>1. config.max \in Nat \cup {Unset} /\ config.min \in Nat \cup {Unset}
  BY DriveSetupAssumption
<1> QED BY <1>1, DriveSetupAssumption DEF Limit

(* The set-up starts with nothing read and no descriptor open.             *)
LEMMA SetupInvInit == SetupInit => SetupInv
<1> SUFFICES ASSUME SetupInit PROVE SetupInv
  OBVIOUS
<1>1. \A d \in Drives : profile[d].bkopsEn \in Modes
  BY ProfileTypes DEF SetupInit
<1>2. SetupTypeOK
  <2>1. bkops \in [Drives -> Modes] /\ programmed \in [Drives -> Nat]
    BY <1>1 DEF SetupInit
  <2>2. info \in [max : Nat, min : Nat, size : Nat,
                  life : {10 * tens : tens \in 0 .. 10} \cup {Unknown},
                  highSpeedPart : BOOLEAN]
    <3>1. 0 \in {10 * tens : tens \in 0 .. 10}
      OBVIOUS
    <3> QED BY <3>1 DEF SetupInit, NoInfo
  <2>3. /\ pc \in Labels /\ dev \in Drives \cup {NoDrive} /\ open \in BOOLEAN
        /\ fast \subseteq Drives /\ missed \in BOOLEAN
    BY DEF SetupInit, Labels
  <2>4. profile \in Machines /\ config \in Configs /\ errors \in 0 .. MaxErrors
    BY DriveSetupAssumption DEF SetupInit
  <2> QED BY <2>1, <2>2, <2>3, <2>4 DEF SetupTypeOK
<1>3. BkopsIsProgrammedOnce
  <2>1. \A d \in Drives : programmed[d] = 0
    BY DEF SetupInit
  <2>2. 0 <= 1 /\ 0 # 1
    OBVIOUS
  <2>3. \A d \in Drives : programmed[d] <= 1 /\ programmed[d] # 1
    BY <2>1, <2>2, Zenon
  <2> QED BY <2>3, Zenon DEF BkopsIsProgrammedOnce
<1> QED BY <1>2, <1>3 DEF SetupInit, SetupInv, FoundOK, SizedOK, MeasuredOK,
                          SwitchOK, Found, Sized, Measured

(* Looking for a device keeps the invariant, whether one is found or not.  *)
LEMMA FindKeeps == SetupInv /\ Find => SetupInv'
<1> SUFFICES ASSUME SetupInv, Find PROVE SetupInv'
  OBVIOUS
<1> USE DEF SetupInv, SetupTypeOK, machine, drive
<1>1. UNCHANGED <<profile, config, bkops, fast, programmed, open>> /\ errors' \in 0 .. MaxErrors
  BY DriveSetupAssumption DEF Find, Fine, Fail, Die
<1>2. BkopsIsProgrammedOnce'
  BY <1>1 DEF BkopsIsProgrammedOnce
<1>3. missed' \in BOOLEAN
  BY DEF Find
<1>4. CASE pc' \in {"placeholder", "dead"} /\ UNCHANGED <<dev, info>>
  BY <1>1, <1>2, <1>3, <1>4 DEF FoundOK, SizedOK, MeasuredOK, SwitchOK,
                                Found, Sized, Measured, Labels
<1>5. CASE /\ config.type = "EmmcDevice" /\ dev' \in Candidates
           /\ info' = Limits /\ pc' = "size"
  <2>1. info' = [max |-> Limit(config.max, DefaultMax), min |-> Limit(config.min, DefaultMin),
                 size |-> 0, life |-> 0, highSpeedPart |-> FALSE]
    BY <1>5 DEF Limits, NoInfo
  <2>2. 0 \in {10 * tens : tens \in 0 .. 10}
    OBVIOUS
  <2>3. SetupTypeOK'
    BY <1>1, <1>3, <1>5, <2>1, <2>2, LimitTypes DEF Candidates, Labels
  <2> QED BY <1>1, <1>2, <1>5, <2>1, <2>3 DEF FoundOK, SizedOK, MeasuredOK, SwitchOK,
                                Found, Sized, Measured, Candidates, Limit
<1> QED BY <1>4, <1>5 DEF Find, Die, Goto

(* Reading the size keeps the invariant, also when it throws.              *)
LEMMA SizeKeeps == SetupInv /\ Size => SetupInv'
<1> SUFFICES ASSUME SetupInv, Size PROVE SetupInv'
  OBVIOUS
<1> USE DEF SetupInv, SetupTypeOK, machine, drive
<1>1. /\ UNCHANGED <<profile, config, bkops, fast, programmed, open, dev, missed>>
      /\ errors' \in 0 .. MaxErrors
  BY DriveSetupAssumption DEF Size, Fine, Fail, Die
<1>2. BkopsIsProgrammedOnce'
  BY <1>1 DEF BkopsIsProgrammedOnce
<1>3. CASE pc' = "dead" /\ UNCHANGED info
  BY <1>1, <1>2, <1>3 DEF FoundOK, SizedOK, MeasuredOK, SwitchOK, Found, Sized,
                          Measured, Labels
<1>4. CASE pc' = "sysfs" /\ info' = [info EXCEPT !.size = profile[dev].size]
  <2>1. /\ config.type = "EmmcDevice" /\ dev \in Candidates /\ dev \in Drives
        /\ info.max = Limit(config.max, DefaultMax)
        /\ info.min = Limit(config.min, DefaultMin)
    BY DEF Size, FoundOK, Found, Candidates
  <2>2. profile[dev].size \in Nat
    BY <2>1, ProfileTypes
  <2>3. SetupTypeOK'
    BY <1>1, <1>4, <2>2 DEF Labels
  <2>4. FoundOK' /\ SizedOK'
    BY <1>1, <1>4, <2>1 DEF FoundOK, SizedOK, Candidates, Limit
  <2> QED BY <1>2, <1>4, <2>3, <2>4 DEF MeasuredOK, SwitchOK, Measured
<1> QED BY <1>3, <1>4 DEF Size, Die, Goto

(* Reading the attributes and opening the device keeps the invariant.      *)
LEMMA ReadSysfsKeeps == SetupInv /\ ReadSysfs => SetupInv'
<1> SUFFICES ASSUME SetupInv, ReadSysfs PROVE SetupInv'
  OBVIOUS
<1> USE DEF SetupInv, SetupTypeOK, machine, drive
<1>1. /\ UNCHANGED <<profile, config, bkops, fast, programmed, open, dev, missed>>
      /\ errors' \in 0 .. MaxErrors /\ pc = "sysfs" /\ pc' = "open"
  BY DriveSetupAssumption DEF ReadSysfs, Fine, Fail, Goto
<1>2. BkopsIsProgrammedOnce'
  BY <1>1 DEF BkopsIsProgrammedOnce
<1>3. /\ config.type = "EmmcDevice" /\ dev \in Candidates /\ dev \in Drives
      /\ info.max = Limit(config.max, DefaultMax)
      /\ info.min = Limit(config.min, DefaultMin)
      /\ info.size = profile[dev].size
  BY <1>1 DEF FoundOK, SizedOK, Found, Sized, Candidates
<1>4. PICK life \in {LifeLeft(profile[dev].estA, profile[dev].estB), Unknown},
           listed \in {profile[dev].highSpeedPart, FALSE} :
        info' = [info EXCEPT !.life = life, !.highSpeedPart = listed]
  BY DEF ReadSysfs
<1>5. profile[dev].estA \in Nat /\ profile[dev].estB \in Nat /\ listed \in BOOLEAN
  BY <1>3, ProfileTypes
<1>6. /\ life \in {10 * tens : tens \in 0 .. 10} \cup {Unknown}
      /\ life # Unknown =>
           /\ Usable(profile[dev].estA) /\ life <= 10 * (11 - profile[dev].estA)
           /\ Usable(profile[dev].estB) /\ life <= 10 * (11 - profile[dev].estB)
  BY <1>5, LifeLeftIsCautious
<1>7. SetupTypeOK'
  BY <1>1, <1>4, <1>5, <1>6 DEF Labels
<1>8. info'.life = life /\ info'.max = info.max /\ info'.min = info.min /\ info'.size = info.size
  BY <1>4
<1>9. FoundOK' /\ SizedOK'
  BY <1>1, <1>3, <1>8 DEF FoundOK, SizedOK, Candidates, Limit
<1>10. MeasuredOK'
  BY <1>1, <1>6, <1>8 DEF MeasuredOK, LifeIsNotPromised, Usable, Unknown
<1> QED BY <1>1, <1>2, <1>7, <1>9, <1>10 DEF SwitchOK

(* The steps that read or publish, and do not touch the drive.             *)
LEMMA OpenAndPublishKeep == SetupInv /\ (Open \/ Publish) => SetupInv'
<1> SUFFICES ASSUME SetupInv, Open \/ Publish PROVE SetupInv'
  OBVIOUS
<1> USE DEF SetupInv, SetupTypeOK, machine, drive
<1>1. /\ UNCHANGED <<profile, config, bkops, fast, programmed, dev, info, missed>>
      /\ errors' \in 0 .. MaxErrors /\ open' \in BOOLEAN
      /\ pc \in {"open", "publish"} /\ pc' \in {"timing", "serving"}
  <2>1. CASE Open
    <3>1. errors \in 0 .. MaxErrors
      BY Zenon
    <3>2. Fine \/ Fail
      BY <2>1, Zenon DEF Open
    <3>3. errors' \in 0 .. MaxErrors
      BY <3>1, <3>2, DriveSetupAssumption DEF Fine, Fail
    <3>4. open' \in BOOLEAN
      BY <2>1, Zenon DEF Open
    <3>5. UNCHANGED <<profile, config, bkops, fast, programmed, dev, info, missed>>
      BY <2>1 DEF Open
    <3> QED BY <2>1, <3>3, <3>4, <3>5 DEF Open, Goto
  <2>2. CASE Publish
    <3>1. UNCHANGED <<profile, config, bkops, fast, programmed, dev, info, missed, errors>>
      BY <2>2 DEF Publish
    <3>2. pc = "publish" /\ pc' = "serving" /\ open' = FALSE
      BY <2>2 DEF Publish, Goto
    <3> QED BY <3>1, <3>2
  <2> QED BY <2>1, <2>2
<1>2. BkopsIsProgrammedOnce'
  BY <1>1 DEF BkopsIsProgrammedOnce
<1>3. SetupTypeOK'
  BY <1>1 DEF Labels
<1> QED BY <1>1, <1>2, <1>3 DEF FoundOK, SizedOK, MeasuredOK, LifeIsNotPromised,
      SwitchOK, Found, Sized, Measured, Candidates, Limit, Usable

(* The commands to the device, answered or not, keep the invariant.        *)
LEMMA CommandsKeep ==
  SetupInv /\ (ChangeHsTiming \/ ReadExtCsd) => SetupInv'
<1> SUFFICES ASSUME SetupInv, ChangeHsTiming \/ ReadExtCsd PROVE SetupInv'
  OBVIOUS
<1> USE DEF SetupInv, SetupTypeOK, machine, drive
<1>1. /\ UNCHANGED <<profile, config, bkops, programmed, open, dev, info, missed>>
      /\ errors' \in 0 .. MaxErrors
      /\ pc \in {"timing", "extCsd"}
      /\ pc' \in {"extCsd", "switch", "publish", "dead"}
  BY DriveSetupAssumption DEF ChangeHsTiming, ReadExtCsd, Fine, Fail, Goto, OnStatus
<1>2. BkopsIsProgrammedOnce'
  BY <1>1 DEF BkopsIsProgrammedOnce
<1>3. dev \in Drives
  BY <1>1 DEF FoundOK, Found, Candidates
<1>4. fast' \subseteq Drives
  BY <1>3 DEF ChangeHsTiming, ReadExtCsd
<1>5. SetupTypeOK'
  BY <1>1, <1>4 DEF Labels
<1>6. SwitchOK'
  <2>1. pc' = "switch" => NeedsBkops(dev)
    BY DEF ChangeHsTiming, ReadExtCsd, Goto, OnStatus
  <2> QED BY <1>1, <2>1 DEF SwitchOK, NeedsBkops
<1> QED BY <1>1, <1>2, <1>5, <1>6 DEF FoundOK, SizedOK, MeasuredOK,
      LifeIsNotPromised, Found, Sized, Measured, Candidates, Limit, Usable

(* The one step that writes BKOPS_EN finds it off, so that it has not been *)
(* written before.                                                         *)
LEMMA SwitchBkopsKeeps == SetupInv /\ SwitchBkops => SetupInv'
<1> SUFFICES ASSUME SetupInv, SwitchBkops PROVE SetupInv'
  OBVIOUS
<1> USE DEF SetupInv, SetupTypeOK, machine, drive
<1>1. /\ UNCHANGED <<profile, config, fast, open, dev, info, missed>>
      /\ errors' \in 0 .. MaxErrors
      /\ pc = "switch" /\ pc' \in {"publish", "dead"}
  BY DriveSetupAssumption DEF SwitchBkops, Fine, Fail, Goto, OnStatus
<1>2. dev \in Drives
  BY <1>1 DEF FoundOK, Found, Candidates
<1>3. profile[dev].bkopsSupport /\ bkops[dev] = "off"
  BY <1>1 DEF SwitchOK, NeedsBkops
<1>4. programmed[dev] = 0
  BY <1>2, <1>3 DEF BkopsIsProgrammedOnce
<1>5. bkops' \in [Drives -> Modes] /\ programmed' \in [Drives -> Nat] /\ BkopsIsProgrammedOnce'
  <2>1. CASE UNCHANGED <<bkops, programmed>>
    BY <1>1, <2>1 DEF BkopsIsProgrammedOnce
  <2>2. CASE /\ bkops' = [bkops EXCEPT ![dev] = "manual"]
             /\ programmed' = [programmed EXCEPT ![dev] = @ + 1]
    <3>1. bkops' \in [Drives -> Modes] /\ bkops'[dev] = "manual"
      BY <1>2, <2>2 DEF Modes
    <3>2. programmed' \in [Drives -> Nat] /\ programmed'[dev] = 1
      BY <1>2, <1>4, <2>2
    <3>3. \A d \in Drives \ {dev} : bkops'[d] = bkops[d] /\ programmed'[d] = programmed[d]
      BY <2>2
    <3> QED BY <1>1, <1>2, <1>3, <3>1, <3>2, <3>3 DEF BkopsIsProgrammedOnce
  <2> QED BY <2>1, <2>2 DEF SwitchBkops
<1>6. SetupTypeOK'
  BY <1>1, <1>5 DEF Labels
<1> QED BY <1>1, <1>5, <1>6 DEF FoundOK, SizedOK, MeasuredOK, LifeIsNotPromised,
      SwitchOK, Found, Sized, Measured, Candidates, Limit, Usable

(* A death or a restart forgets all that the set-up has found.             *)
LEMMA RestartKeeps == SetupInv /\ (Restart \/ Kill \/ Reboot) => SetupInv'
<1> SUFFICES ASSUME SetupInv, Restart \/ Kill \/ Reboot PROVE SetupInv'
  OBVIOUS
<1> USE DEF SetupInv, SetupTypeOK, machine, drive
<1>1. /\ UNCHANGED <<profile, config, bkops, programmed, missed>>
      /\ errors' \in 0 .. MaxErrors
      /\ fast' \subseteq Drives
      /\ pc' \in {"find", "dead"}
  BY DriveSetupAssumption DEF Restart, Kill, Reboot, Forget, Die, Fail, Goto
<1>2. BkopsIsProgrammedOnce'
  BY <1>1 DEF BkopsIsProgrammedOnce
<1>3. 0 \in {10 * tens : tens \in 0 .. 10}
  OBVIOUS
<1>4. /\ dev' \in Drives \cup {NoDrive} /\ open' \in BOOLEAN
      /\ info' \in [max : Nat, min : Nat, size : Nat,
                    life : {10 * tens : tens \in 0 .. 10} \cup {Unknown},
                    highSpeedPart : BOOLEAN]
  <2>1. NoInfo \in [max : Nat, min : Nat, size : Nat,
                    life : {10 * tens : tens \in 0 .. 10} \cup {Unknown},
                    highSpeedPart : BOOLEAN]
    BY <1>3 DEF NoInfo
  <2> QED BY <2>1 DEF Restart, Kill, Reboot, Forget, Die
<1>5. SetupTypeOK'
  BY <1>1, <1>4 DEF Labels
<1> QED BY <1>1, <1>2, <1>5 DEF FoundOK, SizedOK, MeasuredOK, SwitchOK,
      Found, Sized, Measured

(* A step that leaves the set-up's variables alone keeps its invariant.    *)
LEMMA SetupStutters == SetupInv /\ UNCHANGED svars => SetupInv'
BY DEF SetupInv, svars, SetupTypeOK, BkopsIsProgrammedOnce, FoundOK, SizedOK,
       MeasuredOK, LifeIsNotPromised, SwitchOK, NeedsBkops, Found, Sized, Measured,
       Candidates, Limit, Usable

(* Every step of the set-up keeps its invariant.                           *)
LEMMA SetupStepKeeps == SetupInv /\ SetupStep => SetupInv'
BY FindKeeps, SizeKeeps, ReadSysfsKeeps, OpenAndPublishKeep, CommandsKeep,
   SwitchBkopsKeeps, RestartKeeps DEF SetupStep

-----------------------------------------------------------------------------
(* The erase methods.                                                      *)

(* The sectors of a drive are numbers.                                     *)
LEMMA SectorsAreNumbers ==
  ASSUME profile \in Machines, NEW d \in Drives
  PROVE  Erasing!Sectors(d) \subseteq Nat
<1>1. profile[d].size \div SectorSize \in Nat
  BY ProfileTypes, EmmcAssumption
<1> QED BY <1>1 DEF Erasing!Sectors

(* Unmapping moves contents from the live to the stale copies of a drive.  *)
LEMMA UnmapsKeepsTypes ==
  ASSUME EraseTypeOK, NEW d \in Drives, NEW S, Erasing!Unmaps(d, S),
         UNCHANGED profile
  PROVE  /\ live' \in [Drives -> SUBSET Nat] /\ stale' \in [Drives -> SUBSET Nat]
         /\ \A e \in Drives : live'[e] \cup stale'[e] \subseteq Erasing!Sectors(e)
<1>1. /\ live' = [live EXCEPT ![d] = @ \ S]
      /\ stale' = [stale EXCEPT ![d] = @ \cup (live[d] \cap S)]
  BY DEF Erasing!Unmaps
<1> QED BY <1>1 DEF EraseTypeOK

(* No sanitize is running at the start.                                    *)
LEMMA EraseInit == Init => EraseTypeOK /\ ErasedFirst
<1> SUFFICES ASSUME Init PROVE EraseTypeOK /\ ErasedFirst
  OBVIOUS
<1>1. \A d \in Drives : Erasing!Sectors(d) \subseteq Nat
  BY SectorsAreNumbers DEF Init, SetupInit
<1> QED BY <1>1 DEF Init, EraseTypeOK, ErasedFirst

(* While a volume is served, its drive is one of the machine's.            *)
LEMMA ServingFound == SetupInv /\ pc = "serving" => dev \in Drives
BY DEF SetupInv, FoundOK, Found, Candidates

(* Set-up steps leave a running sanitize as it is, or end it.              *)
LEMMA SetUpKeeps == IInv /\ SetUp => EraseTypeOK' /\ ErasedFirst'
<1> SUFFICES ASSUME IInv, SetUp PROVE EraseTypeOK' /\ ErasedFirst'
  OBVIOUS
<1>1. UNCHANGED <<live, stale, method, answer, inUse>> /\ UNCHANGED profile
  BY DEF SetUp, SetupStep, Find, Size, ReadSysfs, Open, ChangeHsTiming, ReadExtCsd,
         SwitchBkops, Publish, Restart, machine
<1>2. pc # "serving"
  BY DEF SetUp, SetupStep, Find, Size, ReadSysfs, Open, ChangeHsTiming, ReadExtCsd,
         SwitchBkops, Publish, Restart
<1>3. method = "none"
  BY <1>2 DEF IInv, ErasedFirst
<1> QED BY <1>1, <1>3 DEF IInv, EraseTypeOK, ErasedFirst, Erasing!Sectors

(* A sanitize that is called has nothing erased yet.                       *)
LEMMA CallSanitizeKeeps == IInv /\ CallSanitize => EraseTypeOK' /\ ErasedFirst'
<1> SUFFICES ASSUME IInv, CallSanitize PROVE EraseTypeOK' /\ ErasedFirst'
  OBVIOUS
<1>1. UNCHANGED <<profile, pc, dev, stale, inUse>> /\ pc = "serving"
  BY DEF CallSanitize, Idle, svars
<1>2. dev \in Drives /\ Erasing!Sectors(dev) \subseteq Nat
  BY <1>1, ServingFound, SectorsAreNumbers DEF IInv, SetupInv, SetupTypeOK
<1>3. live' = [live EXCEPT ![dev] = Erasing!Sectors(dev)] /\ method' = "erase" /\ answer' = "none"
  BY DEF CallSanitize
<1> QED BY <1>1, <1>2, <1>3 DEF IInv, EraseTypeOK, ErasedFirst, Erasing!Sectors

(* Each step of a sanitize erases before it sanitizes.                     *)
LEMMA RunSanitizeKeeps == IInv /\ RunSanitize => EraseTypeOK' /\ ErasedFirst'
<1> SUFFICES ASSUME IInv, RunSanitize PROVE EraseTypeOK' /\ ErasedFirst'
  OBVIOUS
<1>1. UNCHANGED <<profile, pc, dev, inUse>> /\ pc = "serving"
  BY DEF RunSanitize, svars
<1>2. dev \in Drives /\ profile[dev].size \in Nat
  BY <1>1, ServingFound, ProfileTypes DEF IInv, SetupInv, SetupTypeOK
<1>3. CASE Erasing!InRange(dev) /\ Erasing!Unmaps(dev, Erasing!Covered(dev))
             /\ method' = "sanitize" /\ UNCHANGED answer
  <2>1. EraseTypeOK'
    BY <1>1, <1>2, <1>3, UnmapsKeepsTypes DEF IInv, EraseTypeOK, Erasing!Sectors
  <2>2. ASSUME Nameable(dev) PROVE live'[dev] = {}
    <3>1. Erasing!Covered(dev) = Erasing!Sectors(dev)
      BY <1>2, <1>3, <2>2, EraseCoversDrive
    <3>2. live'[dev] = live[dev] \ Erasing!Sectors(dev)
      BY <1>2, <1>3, <3>1 DEF Erasing!Unmaps, IInv, EraseTypeOK
    <3> QED BY <1>2, <3>2 DEF IInv, EraseTypeOK
  <2> QED BY <1>1, <2>1, <2>2 DEF ErasedFirst, Nameable
<1>4. CASE (\E S \in SUBSET Erasing!Covered(dev) : Erasing!Unmaps(dev, S)) /\ Erasing!GiveUp
  <2>1. PICK S \in SUBSET Erasing!Covered(dev) : Erasing!Unmaps(dev, S)
    BY <1>4
  <2>2. method' = "none" /\ answer' = "error"
    BY <1>4 DEF Erasing!GiveUp, Erasing!Stop
  <2>3. EraseTypeOK'
    BY <1>1, <1>2, <2>1, <2>2, UnmapsKeepsTypes DEF IInv, EraseTypeOK, Erasing!Sectors
  <2> QED BY <2>2, <2>3 DEF ErasedFirst
<1>5. CASE Erasing!EmmcSanitize(dev)
  <2>1. PICK S \in SUBSET stale[dev] : stale' = [stale EXCEPT ![dev] = S]
    BY <1>5 DEF Erasing!EmmcSanitize
  <2>2. method' = "none" /\ answer' \in {"sanitized", "error"} /\ UNCHANGED live
    BY <1>5 DEF Erasing!EmmcSanitize, Erasing!Stop
  <2>3. EraseTypeOK'
    BY <1>1, <1>2, <2>1, <2>2 DEF IInv, EraseTypeOK, Erasing!Sectors
  <2> QED BY <2>2, <2>3 DEF ErasedFirst
<1> QED BY <1>3, <1>4, <1>5 DEF RunSanitize, Erasing!EmmcErase

(* Verifying the geometry writes nothing.                                  *)
LEMMA VerifyGeometryKeeps == IInv /\ VerifyGeometry => EraseTypeOK' /\ ErasedFirst'
<1> SUFFICES ASSUME IInv, VerifyGeometry PROVE EraseTypeOK' /\ ErasedFirst'
  OBVIOUS
<1>1. /\ UNCHANGED <<profile, pc, dev, live, stale, method, inUse>>
      /\ answer' \in {"inRange", "error"}
  BY DEF VerifyGeometry, svars
<1> QED BY <1>1 DEF IInv, EraseTypeOK, ErasedFirst, Nameable, Erasing!Sectors

(* A sanitize that is cut short leaves the record of what it did true.     *)
LEMMA InterruptKeeps == IInv /\ Interrupt => EraseTypeOK' /\ ErasedFirst'
<1> SUFFICES ASSUME IInv, Interrupt PROVE EraseTypeOK' /\ ErasedFirst'
  OBVIOUS
<1>1. UNCHANGED <<profile, inUse>>
  BY DEF Interrupt, Kill, Reboot, machine
<1>2. CASE dev \in Drives
  <2>1. Erasing!Interrupted(dev)
    BY <1>2 DEF Interrupt
  <2>2. method' = "none" /\ answer' = "none"
    BY <2>1 DEF Erasing!Interrupted, Erasing!Stop
  <2>3. CASE \E S \in SUBSET Erasing!Covered(dev) : Erasing!Unmaps(dev, S)
    <3>1. PICK S \in SUBSET Erasing!Covered(dev) : Erasing!Unmaps(dev, S)
      BY <2>3
    <3> QED BY <1>1, <1>2, <2>2, <3>1, UnmapsKeepsTypes
            DEF IInv, EraseTypeOK, ErasedFirst, Erasing!Sectors
  <2>4. CASE UNCHANGED live /\ \E S \in SUBSET stale[dev] : stale' = [stale EXCEPT ![dev] = S]
    BY <1>1, <1>2, <2>2, <2>4 DEF IInv, EraseTypeOK, ErasedFirst, Erasing!Sectors
  <2>5. CASE UNCHANGED <<live, stale>>
    BY <1>1, <2>2, <2>5 DEF IInv, EraseTypeOK, ErasedFirst, Erasing!Sectors
  <2> QED BY <2>1, <2>3, <2>4, <2>5 DEF Erasing!Interrupted
<1>3. CASE dev \notin Drives
  <2>1. UNCHANGED <<live, stale, method, answer>>
    BY <1>3 DEF Interrupt
  <2>2. method = "none"
    BY <1>3, ServingFound DEF IInv, ErasedFirst
  <2> QED BY <1>1, <2>1, <2>2 DEF IInv, EraseTypeOK, ErasedFirst, Erasing!Sectors
<1> QED BY <1>2, <1>3

(* Writes to the device by others keep what the running sanitize relies on. *)
LEMMA WriteKeeps == IInv /\ Write => EraseTypeOK' /\ ErasedFirst'
<1> SUFFICES ASSUME IInv, Write PROVE EraseTypeOK' /\ ErasedFirst'
  OBVIOUS
<1>1. PICK s \in live[dev] : Erasing!Write(dev, s)
  BY DEF Write
<1>2. UNCHANGED <<profile, pc, dev, method, answer, inUse>> /\ pc = "serving"
  BY <1>1 DEF Write, setup, Erasing!Write
<1>3. dev \in Drives
  BY <1>2, ServingFound DEF IInv
<1>4. Erasing!Unmaps(dev, {s})
  BY <1>1 DEF Erasing!Write
<1>5. EraseTypeOK'
  BY <1>2, <1>3, <1>4, UnmapsKeepsTypes DEF IInv, EraseTypeOK, Erasing!Sectors
<1>6. live'[dev] \subseteq live[dev]
  BY <1>3, <1>4 DEF Erasing!Unmaps, IInv, EraseTypeOK
<1> QED BY <1>2, <1>5, <1>6 DEF IInv, ErasedFirst, Nameable

(* A step that changes nothing keeps the sanitize part of the invariant.   *)
LEMMA EraseStutters == IInv /\ UNCHANGED vars => EraseTypeOK' /\ ErasedFirst'
BY DEF IInv, vars, svars, EraseTypeOK, ErasedFirst, Nameable, Erasing!Sectors

-----------------------------------------------------------------------------
(* The whole.                                                              *)

(* No step outside the set-up touches what it has found.                   *)
LEMMA OthersKeepSetup ==
  ASSUME SetupInv, CallSanitize \/ RunSanitize \/ VerifyGeometry \/ Write
  PROVE  SetupInv'
<1>1. UNCHANGED svars
  <2>1. CASE CallSanitize
    BY <2>1 DEF CallSanitize
  <2>2. CASE RunSanitize
    BY <2>2 DEF RunSanitize
  <2>3. CASE VerifyGeometry
    BY <2>3 DEF VerifyGeometry
  <2>4. CASE Write
    BY <2>4 DEF Write, setup, Erasing!Write, svars
  <2> QED BY <2>1, <2>2, <2>3, <2>4
<1> QED BY <1>1, SetupStutters

(* The invariant holds of every state that the daemon reaches.             *)
LEMMA Invariance == Spec => []IInv
<1>1. Init => IInv
  BY SetupInvInit, EraseInit DEF Init, IInv
<1>2. IInv /\ [Next]_vars => IInv'
  <2> SUFFICES ASSUME IInv, [Next]_vars PROVE IInv'
    OBVIOUS
  <2>1. SetupInv
    BY DEF IInv
  <2>2. CASE SetUp
    BY <2>1, <2>2, SetupStepKeeps, SetUpKeeps DEF SetUp, IInv
  <2>3. CASE CallSanitize
    BY <2>1, <2>3, OthersKeepSetup, CallSanitizeKeeps DEF IInv
  <2>4. CASE RunSanitize
    BY <2>1, <2>4, OthersKeepSetup, RunSanitizeKeeps DEF IInv
  <2>5. CASE VerifyGeometry
    BY <2>1, <2>5, OthersKeepSetup, VerifyGeometryKeeps DEF IInv
  <2>6. CASE Interrupt
    BY <2>1, <2>6, RestartKeeps, InterruptKeeps DEF Interrupt, IInv
  <2>7. CASE Write
    BY <2>1, <2>7, OthersKeepSetup, WriteKeeps DEF IInv
  <2>8. CASE UNCHANGED vars
    BY <2>1, <2>8, SetupStutters, EraseStutters DEF vars, IInv
  <2> QED BY <2>2, <2>3, <2>4, <2>5, <2>6, <2>7, <2>8 DEF Next
<1> QED BY <1>1, <1>2, PTL DEF Spec

(* The variables of the set-up and of the erase methods keep their types:  *)
(* in particular the life left that is published is a percentage or 255.   *)
THEOREM TypeCorrect == Spec => []TypeOK
<1>1. IInv => TypeOK
  BY DEF IInv, SetupInv, TypeOK
<1> QED BY <1>1, Invariance, PTL

(* Background operations are switched on at most once in the life of a     *)
(* drive (estoraged.cpp:592-642), through every restart.                   *)
THEOREM BkopsIsNeverProgrammedTwice == Spec => []BkopsIsProgrammedOnce
<1>1. IInv => BkopsIsProgrammedOnce
  BY DEF IInv, SetupInv
<1> QED BY <1>1, Invariance, PTL

(* What main.cpp:99-135 publishes describes the device it was found for.   *)
THEOREM PublishedIsAlwaysTrue == Spec => []PublishedIsTrue
<1>1. IInv => PublishedIsTrue
  BY DEF IInv, SetupInv, FoundOK, SizedOK, MeasuredOK, LifeIsNotPromised,
         Found, Sized, Measured, PublishedIsTrue
<1> QED BY <1>1, Invariance, PTL

(* A sanitize that succeeds has erased the whole of a drive beyond 2 GB,   *)
(* and purged it (sanitize.cpp:57-75).                                     *)
THEOREM SanitizeAlwaysLeavesNothing == Spec => SanitizeLeavesNothing
<1> DEFINE A == answer' = "sanitized" /\ answer # "sanitized"
                  /\ ~profile[dev].byteAddressed
                  /\ profile[dev].size \div SectorSize <= ArgRange
                => live'[dev] = {} /\ stale'[dev] = {}
<1>1. IInv /\ [Next]_vars => A
  <2> SUFFICES ASSUME IInv, [Next]_vars, answer' = "sanitized", answer # "sanitized",
                      Nameable(dev)
               PROVE  live'[dev] = {} /\ stale'[dev] = {}
    BY DEF Nameable
  <2>1. RunSanitize
    <3>1. ~SetUp /\ ~CallSanitize /\ ~VerifyGeometry /\ ~Write
      BY DEF SetUp, CallSanitize, VerifyGeometry, Write, Erasing!Write
    <3>2. ~Interrupt
      BY DEF Interrupt, Erasing!Interrupted, Erasing!Stop
    <3>3. ~UNCHANGED vars
      BY DEF vars
    <3> QED BY <3>1, <3>2, <3>3 DEF Next
  <2>2. Erasing!EmmcSanitize(dev) /\ pc = "serving"
    BY <2>1 DEF RunSanitize, Erasing!EmmcErase, Erasing!GiveUp, Erasing!Stop
  <2>3. method = "sanitize" /\ UNCHANGED live /\ stale' = [stale EXCEPT ![dev] = {}]
    BY <2>2 DEF Erasing!EmmcSanitize, Erasing!Stop
  <2>4. dev \in Drives
    BY <2>2, ServingFound DEF IInv
  <2>5. live[dev] = {}
    BY <2>3 DEF IInv, ErasedFirst
  <2> QED BY <2>3, <2>4, <2>5 DEF IInv, EraseTypeOK
<1>2. SanitizeLeavesNothing <=> [][A]_vars
  BY DEF SanitizeLeavesNothing
<1> QED BY <1>1, <1>2, Invariance, PTL DEF Spec

(* VerifyGeometry (verifyDriveGeometry.cpp:12-36) only accepts sizes       *)
(* within the limits of the configuration.                                 *)
THEOREM GeometryAlwaysAnswersTrue == Spec => GeometryAnswersTrue
<1> DEFINE A == answer' = "inRange" /\ answer # "inRange" =>
                  /\ profile[dev].size <= Limit(config.max, DefaultMax)
                  /\ profile[dev].size >= Limit(config.min, DefaultMin)
<1>1. IInv /\ [Next]_vars => A
  <2> SUFFICES ASSUME IInv, [Next]_vars, answer' = "inRange", answer # "inRange"
               PROVE  /\ profile[dev].size <= Limit(config.max, DefaultMax)
                      /\ profile[dev].size >= Limit(config.min, DefaultMin)
    OBVIOUS
  <2>1. VerifyGeometry
    <3>1. ~SetUp /\ ~CallSanitize /\ ~Write
      BY DEF SetUp, CallSanitize, Write, Erasing!Write
    <3>2. ~RunSanitize
      BY DEF RunSanitize, Erasing!EmmcErase, Erasing!EmmcSanitize, Erasing!GiveUp,
             Erasing!Stop
    <3>3. ~Interrupt
      BY DEF Interrupt, Erasing!Interrupted, Erasing!Stop
    <3>4. ~UNCHANGED vars
      BY DEF vars
    <3> QED BY <3>1, <3>2, <3>3, <3>4 DEF Next
  <2>2. pc = "serving" /\ GeometryOkay(info.max, info.min, profile[dev].size)
    BY <2>1 DEF VerifyGeometry, Idle
  <2> QED BY <2>2 DEF GeometryOkay, IInv, SetupInv, FoundOK, Found
<1>2. GeometryAnswersTrue <=> [][A]_vars
  BY DEF GeometryAnswersTrue
<1> QED BY <1>1, <1>2, Invariance, PTL DEF Spec

-----------------------------------------------------------------------------
(* The steps that are left, before a step and after it.                    *)
LEMMA StepsLeftIs ==
  /\ pc \in {"serving", "placeholder"} => StepsLeft = 0
  /\ pc = "publish" => StepsLeft = 1
  /\ pc = "switch" => StepsLeft = 2
  /\ pc = "extCsd" => StepsLeft = IF open THEN 3 ELSE 10
  /\ pc = "timing" => StepsLeft = IF open THEN 4 ELSE 11
  /\ pc = "open" => StepsLeft = 5
  /\ pc = "sysfs" => StepsLeft = 6
  /\ pc = "size" => StepsLeft = 7
  /\ pc = "find" => StepsLeft = 8
  /\ pc = "dead" => StepsLeft = 9
BY DEF StepsLeft

LEMMA NextStepsLeftIs ==
  /\ pc' \in {"serving", "placeholder"} => StepsLeft' = 0
  /\ pc' = "publish" => StepsLeft' = 1
  /\ pc' = "switch" => StepsLeft' = 2
  /\ pc' = "extCsd" => StepsLeft' = IF open' THEN 3 ELSE 10
  /\ pc' = "timing" => StepsLeft' = IF open' THEN 4 ELSE 11
  /\ pc' = "open" => StepsLeft' = 5
  /\ pc' = "sysfs" => StepsLeft' = 6
  /\ pc' = "size" => StepsLeft' = 7
  /\ pc' = "find" => StepsLeft' = 8
  /\ pc' = "dead" => StepsLeft' = 9
BY DEF StepsLeft

(* A failure sets the set-up back, but there are only so many.             *)
LEMMA FailureAdvances ==
  ASSUME SetupTypeOK, Fail PROVE Lower(Rank', Rank)
BY DriveSetupAssumption DEF SetupTypeOK, Fail, Rank, Lower

(* Every step of the set-up of a configured drive is one less to go.       *)
LEMMA SetupStepAdvances ==
  ASSUME SetupTypeOK, SetupTypeOK', SetupStep, config.type = "EmmcDevice"
  PROVE  Lower(Rank', Rank)
<1>1. SUFFICES ASSUME ~Fail PROVE Lower(Rank', Rank)
  BY FailureAdvances
<1>2. SUFFICES errors' = errors /\ StepsLeft' < StepsLeft
  BY DEF Rank, Lower
<1> USE StepsLeftIs, NextStepsLeftIs DEF Goto, Fine, Die
<1>3. CASE Find
  BY <1>1, <1>3 DEF Find
<1>4. CASE Size
  BY <1>1, <1>4 DEF Size
<1>5. CASE ReadSysfs
  <2>1. errors' = errors /\ pc = "sysfs" /\ pc' = "open"
    BY <1>1, <1>5 DEF ReadSysfs
  <2> QED BY <2>1
<1>6. CASE Open
  BY <1>1, <1>6 DEF Open
<1>7. CASE ChangeHsTiming
  BY <1>1, <1>7 DEF ChangeHsTiming, OnStatus
<1>8. CASE ReadExtCsd
  BY <1>1, <1>8 DEF ReadExtCsd, OnStatus
<1>9. CASE SwitchBkops \/ Publish
  BY <1>1, <1>9 DEF SwitchBkops, Publish, OnStatus
<1>10. CASE Restart
  BY <1>10 DEF Restart, Forget
<1> QED BY <1>3, <1>4, <1>5, <1>6, <1>7, <1>8, <1>9, <1>10 DEF SetupStep

(* A configured drive comes up, whatever its commands answer and however   *)
(* often the daemon dies: no step of its set-up is in vain, and what sets  *)
(* it back are failures, of which there are only MaxErrors.                *)
THEOREM SetUpAlwaysAdvances == Spec => SetUpAdvances
<1> DEFINE Advance ==
      /\ Rank \in Ranks
      /\ Lower(Rank', Rank) \/ (pc = "serving" /\ UNCHANGED Rank)
      /\ pc' = "placeholder" => missed' \/ Candidates = {}
<1>1. IInv /\ IInv' /\ [Next]_vars => [config.type = "EmmcDevice" => Advance]_vars
  <2> SUFFICES ASSUME IInv, IInv', Next, config.type = "EmmcDevice" PROVE Advance
    BY DEF vars
  <2>1. SetupTypeOK /\ SetupTypeOK'
    BY DEF IInv, SetupInv
  <2>2. Rank \in Ranks
    <3>1. StepsLeft \in 0 .. 11
      BY <2>1, StepsLeftIs DEF SetupTypeOK, Labels
    <3> QED BY <2>1, <3>1, DriveSetupAssumption DEF Rank, Ranks, SetupTypeOK
  <2>3. CASE SetUp
    <3>1. Lower(Rank', Rank)
      BY <2>1, <2>3, SetupStepAdvances DEF SetUp
    <3>2. pc' = "placeholder" => Find
      BY <2>3 DEF SetUp, SetupStep, Size, ReadSysfs, Open, ChangeHsTiming, ReadExtCsd,
         SwitchBkops, Publish, Restart, Goto, Die, OnStatus, Forget
    <3>3. Find /\ pc' = "placeholder" => missed' \/ Candidates = {}
      BY DEF Find, Goto, Die
    <3> QED BY <2>2, <3>1, <3>2, <3>3
  <2>4. CASE Interrupt
    <3>1. Fail /\ pc' # "placeholder"
      BY <2>4 DEF Interrupt, Kill, Reboot, Forget, Goto, Die
    <3> QED BY <2>1, <2>2, <3>1, FailureAdvances
  <2>5. CASE CallSanitize \/ RunSanitize \/ VerifyGeometry \/ Write
    <3>1. UNCHANGED svars /\ pc = "serving"
      BY <2>5 DEF CallSanitize, RunSanitize, VerifyGeometry, Write, Idle, setup,
         Erasing!Write, svars
    <3> QED BY <2>2, <3>1 DEF svars, Rank, StepsLeft
  <2> QED BY <2>3, <2>4, <2>5 DEF Next
<1> QED BY <1>1, Invariance, PTL DEF Spec, SetUpAdvances
=============================================================================
