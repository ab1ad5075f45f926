------------------------------ MODULE DriveSetup ------------------------------
(***************************************************************************)
(* How the daemon makes the volume object of the one configured eMMC: the  *)
(* drive is looked up and measured (src/src/util.cpp), opened              *)
(* (src/src/main.cpp), switched to high-speed timing and to background     *)
(* operations, and published (src/src/estoraged.cpp).  An exception that   *)
(* nobody catches leaves a destructor and ends the process; systemd starts *)
(* it again.  The registers of the drive outlive the process.              *)
(***************************************************************************)
EXTENDS Integers

CONSTANTS Drives,       \* the block devices of the machine
          NoDrive,      \* no device has been found
          Machines,     \* what the devices may be: kind, size, life, ...
          Configs,      \* what its configuration object may say
          DefaultMax,   \* ERASE_MAX_GEOMETRY
          DefaultMin,   \* ERASE_MIN_GEOMETRY
          MaxErrors     \* bound: exceptions, unreadable files and deaths

Unset  == -1            \* a limit that is absent or not an unsigned number
Modes  == {"off", "manual", "auto"}

Profiles ==
  [kind : {"MMC", "SD", "other"}, size : Nat, byteAddressed : BOOLEAN,
   estA : Nat, estB : Nat, highSpeedPart : BOOLEAN,
   bkopsSupport : BOOLEAN, bkopsEn : Modes]

ASSUME DriveSetupAssumption ==
  /\ Machines \subseteq [Drives -> Profiles]
  /\ Configs \subseteq [type : {"EmmcDevice", "unsupported", "absent", "notString"},
                        max : Nat \cup {Unset}, min : Nat \cup {Unset}]
  /\ NoDrive \notin Drives
  /\ DefaultMax \in Nat /\ DefaultMin \in Nat /\ MaxErrors \in Nat

VARIABLES
  profile,       \* what each block device is
  config,        \* the configuration object
  bkops,         \* EXT_CSD_BKOPS_EN of each device; it keeps its value
  fast,          \* the devices with HS400 timing, until the machine reboots
  pc,            \* the step of the set-up; "serving" once it is published
  dev,           \* the device it is for
  open,          \* the descriptor passed to EStoraged is not null
  info,          \* what the volume object is made from
  errors,        \* failures so far
  programmed,    \* how often BKOPS_EN of each device was changed (history)
  missed         \* the type file of an MMC device was not read (history)

setup == <<pc, dev, open, info>>
svars == <<profile, config, bkops, fast, pc, dev, open, info, errors,
           programmed, missed>>

NoInfo == [max |-> 0, min |-> 0, size |-> 0, life |-> 0, highSpeedPart |-> FALSE]

SetupInit ==
  /\ profile \in Machines /\ config \in Configs
  /\ bkops = [d \in Drives |-> profile[d].bkopsEn] /\ fast = {}
  /\ pc = "find" /\ dev = NoDrive /\ open = FALSE /\ info = NoInfo
  /\ errors = 0 /\ programmed = [d \in Drives |-> 0] /\ missed = FALSE

Goto(label) == pc' = label

Fail == errors < MaxErrors /\ errors' = errors + 1
Fine == UNCHANGED errors

Die == Goto("dead") /\ UNCHANGED <<dev, open, info>>

machine == <<profile, config>>
drive   == <<bkops, fast, programmed>>
-----------------------------------------------------------------------------
(* findDevice.                                                             *)

(* The devices findDevice takes for the eMMC; which of them comes first is *)
(* up to the directory iterator.                                           *)
Candidates == {d \in Drives : profile[d].kind \in {"MMC", "SD"}}

Limit(configured, default) == IF configured = Unset THEN default ELSE configured

(* A slip: the minimum is looked up under the name of the maximum.         *)
LimitsLookedUpOnce ==
  [NoInfo EXCEPT !.max = Limit(config.max, DefaultMax),
                 !.min = Limit(config.max, DefaultMin)]

Limits == [NoInfo EXCEPT !.max = Limit(config.max, DefaultMax),
                         !.min = Limit(config.min, DefaultMin)]

(* A type that is absent or not "EmmcDevice", or no device: a placeholder  *)
(* is kept, so that no later scan tries again.  A type that is not a       *)
(* string is an exception outside every try block, and so is a directory   *)
(* that cannot be read.                                                    *)
Find ==
  /\ pc = "find"
  /\ \/ config.type = "notString" /\ Die /\ Fine /\ UNCHANGED missed
     \/ /\ config.type \in {"absent", "unsupported"}
        /\ Goto("placeholder") /\ Fine /\ UNCHANGED <<dev, open, info, missed>>
     \/ /\ config.type = "EmmcDevice"
        /\ \E unread \in SUBSET Candidates :
             /\ IF unread = {} THEN Fine ELSE Fail
             /\ missed' = (missed \/ unread # {})
             /\ IF unread = Candidates
                  THEN Goto("placeholder") /\ UNCHANGED <<dev, info>>
                  ELSE /\ dev' \in Candidates \ unread
                       /\ info' = Limits
                       /\ Goto("size")
             /\ UNCHANGED open
     \/ config.type = "EmmcDevice" /\ Fail /\ Die /\ UNCHANGED missed
  /\ UNCHANGED <<machine, drive>>

-----------------------------------------------------------------------------
(* The callback of createStorageObjects.                                   *)

(* findSizeOfBlockDevice turns every failure into an InternalFailure.      *)
Size ==
  /\ pc = "size"
  /\ \/ info' = [info EXCEPT !.size = profile[dev].size]
          /\ Goto("sysfs") /\ Fine /\ UNCHANGED <<dev, open>>
     \/ Fail /\ Die
  /\ UNCHANGED <<machine, drive, missed>>

Unknown == 255
Usable(est) == est \in 1 .. 11

(* Slips: the estimates are not checked; the lesser one is taken.          *)
LifeLeftUnchecked(estA, estB) ==
  (((11 - (IF estA > estB THEN estA ELSE estB)) % 256) * 10) % 256
LifeLeftOfBetter(estA, estB) ==
  IF Usable(estA) /\ Usable(estB)
    THEN (11 - (IF estA > estB THEN estB ELSE estA)) * 10
    ELSE Unknown

(* findPredictedMediaLifeLeftPercent: 11 is a device past its life time.   *)
LifeLeft(estA, estB) ==
  IF Usable(estA) /\ Usable(estB)
    THEN (11 - (IF estA > estB THEN estA ELSE estB)) * 10
    ELSE Unknown

(* The sysfs files: one that cannot be read counts as "unknown".           *)
ReadSysfs ==
  /\ pc = "sysfs"
  /\ \E life \in {LifeLeft(profile[dev].estA, profile[dev].estB), Unknown},
        listed \in {profile[dev].highSpeedPart, FALSE} :
       /\ info' = [info EXCEPT !.life = life, !.highSpeedPart = listed]
       /\ IF /\ life = LifeLeft(profile[dev].estA, profile[dev].estB)
             /\ listed = profile[dev].highSpeedPart THEN Fine ELSE Fail
  /\ Goto("open") /\ UNCHANGED <<dev, open, machine, drive, missed>>

(* A device that cannot be opened is logged, and the set-up goes on.       *)
Open ==
  /\ pc = "open"
  /\ \/ open' = TRUE /\ Fine
     \/ open' = FALSE /\ Fail
  /\ Goto("timing") /\ UNCHANGED <<dev, info, machine, drive, missed>>

-----------------------------------------------------------------------------
(* The constructor of EStoraged.  An MMC command answers with a status, or *)
(* the call throws std::system_error; it may have taken effect either way. *)

(* A slip: a timing that is not taken is not caught.                       *)
OnStatusDies(label) == Goto(label) \/ Goto("dead")

(* HsModeError and BkopsError are caught and logged: the set-up goes on.   *)
OnStatus(label) == Goto(label)

ChangeHsTiming ==
  /\ pc = "timing"
  /\ \/ /\ ~open \/ ~info.highSpeedPart
        /\ Goto("extCsd") /\ Fine /\ UNCHANGED fast
     \/ /\ open /\ info.highSpeedPart
        /\ fast' \in {fast, fast \cup {dev}}
        /\ \/ OnStatus("extCsd") /\ Fine
           \/ Goto("dead") /\ Fail
  /\ UNCHANGED <<dev, open, info, machine, bkops, programmed, missed>>

(* A slip: background operations that are on already are switched again.   *)
NeedsSupport(d) == profile[d].bkopsSupport

NeedsBkops(d) == profile[d].bkopsSupport /\ bkops[d] = "off"

(* enableBackgroundOperation looks through its descriptor without a check. *)
ReadExtCsd ==
  /\ pc = "extCsd"
  /\ \/ ~open /\ Goto("dead") /\ Fine
     \/ open /\ OnStatus("publish") /\ Fine
     \/ open /\ Fine /\ Goto(IF NeedsBkops(dev) THEN "switch" ELSE "publish")
     \/ open /\ Goto("dead") /\ Fail
  /\ UNCHANGED <<dev, open, info, machine, drive, missed>>

SwitchBkops ==
  /\ pc = "switch"
  /\ \/ UNCHANGED <<bkops, programmed>>
     \/ /\ bkops' = [bkops EXCEPT ![dev] = "manual"]
        /\ programmed' = [programmed EXCEPT ![dev] = @ + 1]
  /\ \/ OnStatus("publish") /\ Fine
     \/ Goto("dead") /\ Fail
  /\ UNCHANGED <<dev, open, info, machine, fast, missed>>

(* The interfaces are registered; the descriptor has been given away.  The *)
(* path is free, since there is one configuration object (Discovery has    *)
(* more); a registration that throws for any other reason is a Kill.       *)
Publish ==
  /\ pc = "publish"
  /\ Goto("serving") /\ open' = FALSE
  /\ UNCHANGED <<dev, info, errors, machine, drive, missed>>

-----------------------------------------------------------------------------
(* systemd: Restart=always.  Nothing of the process is left.               *)
Forget == Goto("find") /\ open' = FALSE /\ info' = NoInfo /\ dev' = NoDrive

Restart == pc = "dead" /\ Forget /\ UNCHANGED <<errors, machine, drive, missed>>

(* The daemon is killed, or the machine loses power: timing is lost, the   *)
(* BKOPS_EN register is not.                                               *)
Kill ==
  /\ pc # "dead" /\ Fail /\ Die
  /\ UNCHANGED <<machine, drive, missed>>

Reboot ==
  /\ Fail /\ Forget
  /\ fast' = {}
  /\ UNCHANGED <<machine, bkops, programmed, missed>>

SetupStep ==
  \/ Find \/ Size \/ ReadSysfs \/ Open
  \/ ChangeHsTiming \/ ReadExtCsd \/ SwitchBkops \/ Publish \/ Restart

-----------------------------------------------------------------------------
(* Properties.                                                             *)

Labels == {"find", "size", "sysfs", "open", "timing", "extCsd", "switch",
           "publish", "serving", "placeholder", "dead"}

SetupTypeOK ==
  /\ profile \in Machines /\ config \in Configs
  /\ bkops \in [Drives -> Modes] /\ fast \subseteq Drives
  /\ pc \in Labels /\ dev \in Drives \cup {NoDrive} /\ open \in BOOLEAN
  /\ info \in [max : Nat, min : Nat, size : Nat,
               life : {10 * tens : tens \in 0 .. 10} \cup {Unknown},
               highSpeedPart : BOOLEAN]
  /\ errors \in 0 .. MaxErrors
  /\ programmed \in [Drives -> Nat] /\ missed \in BOOLEAN

(* Background operations are switched on at most once in the life of a     *)
(* drive, and never on one that does not support them or runs them in      *)
(* automatic mode, however often the set-up is cut short and repeated and  *)
(* whichever answers are lost: estoraged.cpp:613-626 looks before it       *)
(* writes.                                                                 *)
BkopsIsProgrammedOnce ==
  \A d \in Drives :
    /\ programmed[d] <= 1
    /\ programmed[d] = 1 => bkops[d] = "manual" /\ profile[d].bkopsSupport

(* What is published describes one device, the one the methods will act    *)
(* on, within limits of the configuration, and never promises more life    *)
(* than either estimate leaves (util.cpp:83-94).                           *)
PublishedIsTrue ==
  pc = "serving" =>
    /\ config.type = "EmmcDevice" /\ dev \in Candidates
    /\ info.size = profile[dev].size
    /\ info.max = Limit(config.max, DefaultMax)
    /\ info.min = Limit(config.min, DefaultMin)
    /\ info.life # Unknown => \A est \in {profile[dev].estA, profile[dev].estB} :
                                Usable(est) /\ info.life <= 10 * (11 - est)

(* A configured drive is served, and again after every death of the        *)
(* daemon, whatever statuses its commands answer with, unless its type     *)
(* could not be read once.                                                 *)
DriveComesUp ==
  config.type = "EmmcDevice" /\ Candidates # {} => []<>(pc = "serving" \/ missed)

(* A device that cannot be opened is logged like every other failure       *)
(* (main.cpp:112-127), and the null descriptor passed on is one the        *)
(* constructor is meant to take (estoraged_test.cpp:816-820): it does not  *)
(* end the daemon.                                                         *)
OpenFailureIsSurvived ==
  [][~open /\ pc \in {"timing", "extCsd"} /\ pc' = "dead" => Kill]_svars
=============================================================================
