--------------------------- MODULE CryptEraseProofs ---------------------------
(***************************************************************************)
(* CryptErase destroys or reports every active slot, for any number of     *)
(* slots.  The loop invariant is PassedAreGone, with what the history says.*)
(***************************************************************************)
EXTENDS CryptEraseAtomic, TLAPS

IInv ==
  /\ TypeOK
  /\ EraseIsAllOrReported
  /\ PassedAreGone
  /\ pc = "loop" => loads /\ active \subseteq found
                      /\ (keySlotIssue => failed # {}) /\ failed \subseteq active
                      /\ \A s \in failed : s < i
  /\ pc = "load" => active = found /\ i = 0 /\ failed = {} /\ ~keySlotIssue
  /\ pc # "idle" => result = "none"

(* The loop invariant holds before the first call.                         *)
LEMMA InvariantHoldsInitially == Init => IInv
<1> SUFFICES ASSUME Init PROVE IInv
  OBVIOUS
<1>1. TypeOK
  BY DEF Init, TypeOK
<1>2. EraseIsAllOrReported /\ PassedAreGone
  BY DEF Init, EraseIsAllOrReported, PassedAreGone
<1> QED BY <1>1, <1>2 DEF Init, IInv

(* No pass of the loop, and no crash, breaks it.                           *)
LEMMA InvariantIsInductive == IInv /\ [Next]_vars => IInv'
<1> SUFFICES ASSUME IInv, [Next]_vars PROVE IInv'
  OBVIOUS
<1> USE MaxKeySlotsAssumption
        DEF IInv, TypeOK, EraseIsAllOrReported, PassedAreGone, Slots, End,
            MoreSlots
<1>1. CASE DoErase
  BY <1>1 DEF DoErase
<1>2. CASE Load
  BY <1>2 DEF Load
<1>3. CASE Visit
  <2>1. CASE /\ active' = active \ {i} /\ i' = i + 1
             /\ UNCHANGED <<keySlotIssue, failed>> /\ i \in active
    BY <1>3, <2>1 DEF Visit
  <2>2. CASE UNCHANGED active /\ NoteAndContinue /\ i \in active
    BY <1>3, <2>2 DEF Visit, NoteAndContinue
  <2>3. CASE i \notin active /\ i' = i + 1 /\ UNCHANGED <<active, keySlotIssue, failed>>
    BY <1>3, <2>3 DEF Visit
  <2>4. Destroys(i) <=> i \in active
    BY DEF Destroys, Status
  <2> QED BY <1>3, <2>1, <2>2, <2>3, <2>4 DEF Visit
<1>4. CASE Finish
  <2>1. \A s \in active : s \in failed /\ keySlotIssue
    BY <1>4 DEF Finish
  <2>2. CASE keySlotIssue
    BY <1>4, <2>1, <2>2 DEF Finish
  <2>3. CASE ~keySlotIssue
    BY <1>4, <2>1, <2>3 DEF Finish
  <2> QED BY <2>2, <2>3
<1>5. CASE Crash
  BY <1>5 DEF Crash
<1>6. CASE UNCHANGED vars
  BY <1>6 DEF vars
<1> QED BY <1>1, <1>2, <1>3, <1>4, <1>5, <1>6 DEF Next

(* However many slots there are and whichever resist, success means that   *)
(* no passphrase opens the volume any more, and failure names those left.  *)
THEOREM EveryKeyIsDestroyedOrReported == Spec => []EraseIsAllOrReported
<1>1. IInv => EraseIsAllOrReported
  BY DEF IInv
<1> QED BY <1>1, InvariantHoldsInitially, InvariantIsInductive, PTL DEF Spec

(* The daemon may die anywhere in the loop: the slots passed are gone.     *)
THEOREM LoopLeavesNoGap == Spec => []PassedAreGone
<1>1. IInv => PassedAreGone
  BY DEF IInv
<1> QED BY <1>1, InvariantHoldsInitially, InvariantIsInductive, PTL DEF Spec

(* The variables keep their types.                                         *)
THEOREM TypeCorrect == Spec => []TypeOK
<1>1. IInv => TypeOK
  BY DEF IInv
<1> QED BY <1>1, InvariantHoldsInitially, InvariantIsInductive, PTL DEF Spec

(* What EStoraged takes for one step is what the loop does, for any number *)
(* of keyslots.                                                            *)
THEOREM LoopImplementsVolumeStep == Spec => ImplementsVolumeStep
<1> DEFINE Atomically == Volume!Receive(EraseCall) \/ Volume!CryptErase \/ Volume!Crash
<1>1. IInv /\ IInv' /\ [Next]_vars => [Atomically]_(Volume!vars)
  <2> SUFFICES ASSUME IInv, IInv', [Next]_vars
               PROVE  Atomically \/ UNCHANGED Volume!vars
    OBVIOUS
  <2> USE DEF IInv, TypeOK, End, Volume!vars, Volume!disk, Volume!kernel
  <2>1. CASE DoErase
    <3>1. Volume!Entry("CryptoErase") = "destroyKeyslots"
      BY DEF Volume!Entry
    <3>2. Volume!Receive(EraseCall)
      BY <2>1, <3>1 DEF DoErase, Volume!Receive, Volume!Access, Volume!device, EraseCall
    <3> QED BY <3>2
  <2>2. CASE Load
    BY <2>2 DEF Load, Volume!CryptErase, Volume!May, Volume!Torn, Volume!Throw
  <2>3. CASE Visit
    BY <2>3 DEF Visit
  <2>4. CASE Finish
    <3>1. CASE keySlotIssue
      BY <2>4, <3>1 DEF Finish, Volume!CryptErase, Volume!May, Volume!Torn, Volume!Throw
    <3>2. CASE ~keySlotIssue
      BY <2>4, <3>2 DEF Finish, EraseIsAllOrReported, Volume!CryptErase, Volume!Return
    <3> QED BY <3>1, <3>2
  <2>5. CASE Crash
    BY <2>5 DEF Crash, Volume!Crash, Volume!May, Volume!Torn
  <2>6. CASE UNCHANGED vars
    BY <2>6 DEF vars
  <2> QED BY <2>1, <2>2, <2>3, <2>4, <2>5, <2>6 DEF Next
<1> QED
  BY <1>1, InvariantHoldsInitially, InvariantIsInductive, PTL
  DEF Spec, ImplementsVolumeStep
=============================================================================
