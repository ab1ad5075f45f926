------------------------------- MODULE Sanitize -------------------------------
(***************************************************************************)
(* The VendorSanitize method (src/src/erase/sanitize.cpp): an erase of the *)
(* range of write blocks up to the size of the drive, then the sanitize    *)
(* command, which purges what an erase or an overwrite left in the cells.  *)
(* Only what was stored when the method was called is followed.            *)
(***************************************************************************)
EXTENDS Integers

CONSTANTS Drives,
          SectorSize,   \* 512
          ArgRange      \* values of the argument of a command, 2^32

VARIABLES
  profile,   \* size in bytes and addressing of each drive
  live,      \* live[d]: the sectors that read as they did at the call
  stale,     \* stale[d]: the sectors of which the cells keep an old copy
  method,    \* the step of the method: "none", "erase", "sanitize"
  answer     \* of the last call: "none", "sanitized", "error"

Sectors(d) == 0 .. (profile[d].size \div SectorSize) - 1

(* The argument of ERASE_GROUP_END, a uint32_t computed in uint64_t.       *)
LastGroup(d) == (profile[d].size \div SectorSize - 1) % ArgRange

(* What the drive makes of it: drives of up to 2 GB count in bytes.        *)
InRange(d) ==
  LastGroup(d) < IF profile[d].byteAddressed THEN profile[d].size
                                             ELSE profile[d].size \div SectorSize
Covered(d) ==
  {s \in Sectors(d) :
     (IF profile[d].byteAddressed THEN s * SectorSize ELSE s) <= LastGroup(d)}

(* The drive unmaps the sectors of S; their old contents stay in cells.    *)
Unmaps(d, S) ==
  /\ live'  = [live EXCEPT ![d] = @ \ S]
  /\ stale' = [stale EXCEPT ![d] = @ \cup (live[d] \cap S)]

Stop(result) == method' = "none" /\ answer' = result

(* A slip: the result of the erase command is not looked at.               *)
Ignored == method' = "sanitize" /\ UNCHANGED answer

(* InternalFailure: the method ends without the sanitize command.          *)
GiveUp == Stop("error")

(* emmcErase.  A size that cannot be read, a device that cannot be opened  *)
(* and a command that is refused or fails half-way are all one failure.    *)
EmmcErase(d) ==
  /\ method = "erase"
  /\ \/ /\ InRange(d) /\ Unmaps(d, Covered(d))
        /\ method' = "sanitize" /\ UNCHANGED answer
     \/ (\E S \in SUBSET Covered(d) : Unmaps(d, S)) /\ GiveUp
  /\ UNCHANGED profile

(* emmcSanitize.                                                           *)
EmmcSanitize(d) ==
  /\ method = "sanitize"
  /\ \/ stale' = [stale EXCEPT ![d] = {}] /\ Stop("sanitized")
     \/ (\E S \in SUBSET stale[d] : stale' = [stale EXCEPT ![d] = S]) /\ Stop("error")
  /\ UNCHANGED <<profile, live>>

(* The process dies in the middle of a command, which runs on or not.      *)
Interrupted(d) ==
  /\ \/ method = "erase" /\ \E S \in SUBSET Covered(d) : Unmaps(d, S)
     \/ /\ method = "sanitize" /\ UNCHANGED live
        /\ \E S \in SUBSET stale[d] : stale' = [stale EXCEPT ![d] = S]
     \/ method = "none" /\ UNCHANGED <<live, stale>>
  /\ Stop("none")

(* A volume that is still mounted is written to: the old copy of a sector  *)
(* stays in the cells.                                                     *)
Write(d, s) ==
  /\ s \in live[d]
  /\ Unmaps(d, {s})
  /\ UNCHANGED <<profile, method, answer>>
=============================================================================
