------------------------------- MODULE Findings -------------------------------
(***************************************************************************)
(* What the repository's documentation says of Unlock, and the code does   *)
(* not do.  Each property is checked under the faults that its statement   *)
(* is about.                                                               *)
(***************************************************************************)
EXTENDS EStoraged

FailedUnlock ==
  pc = "idle" /\ call.op = "Unlock" /\ reply = "error" /\ before = "locked"

(* mountFilesystemLockOnError(true): "lock device if filesystem is invalid *)
(* or on filesystem mount failure" (estoraged.hpp:291-292).                *)
UnlockRelocks == FailedUnlock => IsLocked

(* "Before mounting, run fsck to check for and resolve any filesystem      *)
(* errors" (estoraged.cpp:463-465): with nothing failing, Unlock with a    *)
(* password of the volume fails only if there is no filesystem to mount.   *)
FsckResolves == FailedUnlock /\ call.pw \in keys => fs = "none"
=============================================================================
