------------------------------ MODULE CryptErase ------------------------------
(***************************************************************************)
(* CryptErase::doErase (src/src/erase/cryptoErase.cpp): every keyslot of   *)
(* the LUKS2 header is looked at in turn and destroyed if it is active;    *)
(* a slot that cannot be destroyed is remembered and the loop goes on.     *)
(***************************************************************************)
EXTENDS Integers

CONSTANT MaxKeySlots   \* what cryptKeySlotMax answers; 32 for LUKS2

ASSUME MaxKeySlotsAssumption == MaxKeySlots \in Int

VARIABLES
  loads,         \* cryptLoad finds a LUKS2 header
  active,        \* the slots that hold a passphrase of the volume
  unbound,       \* the slots that hold a key of nothing on this volume
  i,             \* the slot the loop is at
  keySlotIssue,  \* some destroy failed
  failed,        \* which ones did (history)
  found,         \* the active slots when the method was called (history)
  pc,            \* "idle", "load", "loop"
  result         \* "none", "ok", "ResourceNotFound", "InternalFailure"

vars == <<loads, active, unbound, i, keySlotIssue, failed, found, pc, result>>

Slots == 0 .. MaxKeySlots - 1

Init ==
  /\ loads \in BOOLEAN
  /\ active \in SUBSET Slots /\ unbound \in SUBSET (Slots \ active)
  /\ i = 0 /\ keySlotIssue = FALSE /\ failed = {} /\ found = {}
  /\ pc = "idle" /\ result = "none"

(* cryptKeySlotStatus.                                                     *)
Status(slot) ==
  IF slot \in active
    THEN IF active = {slot} THEN "CRYPT_SLOT_ACTIVE_LAST" ELSE "CRYPT_SLOT_ACTIVE"
    ELSE IF slot \in unbound THEN "CRYPT_SLOT_UNBOUND" ELSE "CRYPT_SLOT_INACTIVE"

End(r) == pc' = "idle" /\ result' = r

DoErase ==
  /\ pc = "idle"
  /\ pc' = "load" /\ result' = "none"
  /\ i' = 0 /\ keySlotIssue' = FALSE /\ failed' = {} /\ found' = active
  /\ UNCHANGED <<loads, active, unbound>>

(* The handle, the header and the number of slots.                         *)
Load ==
  /\ pc = "load"
  /\ \/ loads /\ MaxKeySlots > 0 /\ pc' = "loop" /\ UNCHANGED result
     \/ End("ResourceNotFound")
  /\ UNCHANGED <<loads, active, unbound, i, keySlotIssue, failed, found>>

(* A slip: the last active slot is left alone.                             *)
DestroysAllButLast(slot) == Status(slot) = "CRYPT_SLOT_ACTIVE"

Destroys(slot) == Status(slot) \in {"CRYPT_SLOT_ACTIVE", "CRYPT_SLOT_ACTIVE_LAST"}

(* A slip: the failure is forgotten.                                       *)
Forget == keySlotIssue' = FALSE /\ failed' = failed /\ i' = i + 1

NoteAndContinue == keySlotIssue' = TRUE /\ failed' = failed \cup {i} /\ i' = i + 1

(* A slip: one pass too many, over a slot that there is not.               *)
MoreSlotsAtEnd(slot) == slot <= MaxKeySlots

MoreSlots(slot) == slot < MaxKeySlots

Visit ==
  /\ pc = "loop" /\ MoreSlots(i)
  /\ \/ /\ Destroys(i)
        /\ \/ /\ active' = active \ {i} /\ i' = i + 1
              /\ UNCHANGED <<keySlotIssue, failed>>
           \/ /\ UNCHANGED active /\ NoteAndContinue
     \/ /\ ~Destroys(i) /\ i' = i + 1
        /\ UNCHANGED <<active, keySlotIssue, failed>>
  /\ UNCHANGED <<loads, unbound, found, pc, result>>

Finish ==
  /\ pc = "loop" /\ ~MoreSlots(i)
  /\ End(IF keySlotIssue THEN "InternalFailure" ELSE "ok")
  /\ UNCHANGED <<loads, active, unbound, i, keySlotIssue, failed, found>>

(* The daemon dies; the slots destroyed so far stay destroyed.             *)
Crash ==
  /\ pc # "idle"
  /\ End("none")
  /\ UNCHANGED <<loads, active, unbound, i, keySlotIssue, failed, found>>

Next == DoErase \/ Load \/ Visit \/ Finish \/ Crash
Spec == Init /\ [][Next]_vars

-----------------------------------------------------------------------------
(* Properties.                                                             *)

(* In particular every slot the loop looks at is one of the header's.      *)
TypeOK ==
  /\ loads \in BOOLEAN
  /\ active \in SUBSET Slots /\ unbound \in SUBSET Slots
  /\ i \in Nat /\ (pc = "loop" => i <= MaxKeySlots)
  /\ keySlotIssue \in BOOLEAN
  /\ failed \in SUBSET Slots /\ found \in SUBSET Slots
  /\ pc \in {"idle", "load", "loop"}
  /\ result \in {"none", "ok", "ResourceNotFound", "InternalFailure"}

(* Success means that no passphrase is left; a failure means that all the  *)
(* slots but those that resisted are gone, and that some did resist; and   *)
(* ResourceNotFound that nothing was touched.                              *)
EraseIsAllOrReported ==
  /\ result = "ok" => active = {}
  /\ result = "InternalFailure" => active = failed /\ failed # {}
  /\ result = "ResourceNotFound" => active = found

(* At every moment, also when the daemon dies there, the slots the loop    *)
(* has passed are destroyed or on record, and those ahead untouched.       *)
PassedAreGone ==
  pc = "loop" =>
    /\ \A s \in active : s < i => s \in failed /\ keySlotIssue
    /\ \A s \in found : s >= i => s \in active
=============================================================================
