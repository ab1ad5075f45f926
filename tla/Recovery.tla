------------------------------- MODULE Recovery -------------------------------
(***************************************************************************)
(* A client that wants the volume usable again after a period of faults.   *)
(* When they end (calm) it tries Unlock, after an error FormatLuks, after  *)
(* that Lock, and, where the machine may be rebooted, a reboot.            *)
(***************************************************************************)
EXTENDS EStoraged, Ranking

VARIABLE calm   \* no fault occurs any more

(* The volume object with nothing failing.                                 *)
Faultless == INSTANCE EStoraged WITH Faults <- {}

Usable == pc = "idle" /\ Access = "unlocked" /\ fs = "clean"

Troubled ==
  /\ ~calm
  /\ \/ Next /\ UNCHANGED calm
     \/ calm' = TRUE /\ UNCHANGED vars

Serve == calm /\ Faultless!Step /\ UNCHANGED calm

NextTry == CASE call.op = "Unlock"     -> "FormatLuks"
             [] call.op = "FormatLuks" -> "Lock"
             [] OTHER                  -> "Unlock"

Try ==
  /\ calm /\ pc = "idle" /\ ~Usable
  /\ ~(call.op = "Lock" /\ reply = "error" /\ May("reboot"))
  /\ \E c \in Calls : c.op = NextTry /\ Receive(c)
  /\ UNCHANGED calm

PowerCycle ==
  /\ calm /\ pc = "idle" /\ ~Usable
  /\ call.op = "Lock" /\ reply = "error"
  /\ Reboot
  /\ UNCHANGED calm

RecoveryInit == Init /\ calm = FALSE
RecoveryNext == Troubled \/ Serve \/ Try \/ PowerCycle
rvars == <<luks, keys, fs, raw, mapped, mounted, mountPoint,
           pc, call, before, reply, calm>>

(* The io_context serves a method it has started, and the client retries.  *)
RecoverySpec ==
  /\ RecoveryInit /\ [][RecoveryNext]_rvars
  /\ WF_rvars(Serve) /\ WF_rvars(Try \/ PowerCycle)

(* Whatever happened before, the client gets the volume back: by FormatLuks*)
(* and without a reboot where the test comment says so                     *)
(* (estoraged_test.cpp:476-482), by a reboot in every case.                *)
VolumeComesBack == calm ~> Usable

(* Why: how far the client still is from having the volume, in the calls   *)
(* that must fail first and the steps of the running one.  A failed call   *)
(* leaves the device closer to the state in which the next one succeeds.   *)
Formatting ==
  \/ pc \in {"addKeyslot", "activate", "mkfs", "mountPoint", "mount"}
  \/ pc = "cryptFormat" /\ ~mapped
  \/ pc = "fsck" /\ fs = "clean"

Stage ==
  CASE call.op = "FormatLuks" -> IF Formatting THEN 0 ELSE 4
    [] call.op = "Unlock" -> IF mapped /\ pc \in {"idle", "activate"} THEN 5 ELSE 1
    [] call.op = "Lock" /\ (pc # "idle" \/ reply = "error") -> 3
    [] OTHER -> IF pc = "idle" /\ ~mapped THEN 2 ELSE 6

StepsLeft ==
  CASE pc = "idle" -> 0
    [] pc \in {"relock", "deactivate", "overwriteRest", "compare", "sanitize",
               "changeKeyslot", "destroyKeyslots"} -> 1
    [] pc \in {"removeMountPoint", "removeDirectory", "overwriteHeader", "verify"} -> 2
    [] pc \in {"mount", "unmount"} -> 3
    [] pc \in {"mountPoint", "checkLocked"} -> 4
    [] pc = "fsck" -> 5
    [] pc = "mkfs" -> 6
    [] pc = "activate" -> 7
    [] pc = "addKeyslot" -> 8
    [] pc = "cryptFormat" -> 9

Rank == <<Stage, StepsLeft, 0>>

ComebackAdvances ==
  [][calm => calm' /\ Rank \in Ranks /\ (Usable' \/ Lower(Rank', Rank))]_rvars
=============================================================================
