--------------------------- MODULE CryptEraseAtomic ---------------------------
(***************************************************************************)
(* EStoraged takes a cryptographic erase for one step.  The keyslot loop   *)
(* of CryptErase implements that step: the slots are the passwords, and    *)
(* while the loop runs the volume still has those it was called with.      *)
(***************************************************************************)
EXTENDS CryptErase

EraseCall == [op |-> "CryptoErase", pw |-> -1, new |-> -1]

Volume == INSTANCE EStoraged WITH
  Passwords  <- Slots,
  NoPassword <- -1,
  Faults     <- {"keyslot", "crash"},
  luks       <- loads,
  keys       <- IF pc = "idle" THEN active ELSE found,
  fs         <- "none",
  raw        <- "data",
  mapped     <- FALSE,
  mounted    <- FALSE,
  mountPoint <- FALSE,
  pc         <- IF pc = "idle" THEN "idle" ELSE "destroyKeyslots",
  call       <- EraseCall,
  before     <- "locked",
  reply      <- IF result \in {"none", "ok"} THEN result ELSE "error"

(* Seen from the volume, the loop is the one step of EStoraged: it leaves  *)
(* no password and no error, or an error and some of the passwords, and a  *)
(* crash in it leaves some of the passwords.                               *)
ImplementsVolumeStep ==
  [][Volume!Receive(EraseCall) \/ Volume!CryptErase \/ Volume!Crash]_(Volume!vars)
=============================================================================
