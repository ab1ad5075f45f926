--------------------------- MODULE BlockEraseProofs ---------------------------
(***************************************************************************)
(* The overwrite and verify loops are exact for every device size, block   *)
(* size and retry limit, however the transfers are cut up.  The index      *)
(* arithmetic is modulo 2^64: SizesAssumption is what keeps it from        *)
(* wrapping, and the invariant carries that no index passes the end.       *)
(***************************************************************************)
EXTENDS BlockEraseAtomic, TLAPS

IInv ==
  /\ TypeOK
  /\ IndexFollowsOffset
  /\ OverwriteIsExact
  /\ VerifyIsExact
  /\ pc # "idle" => method \in {"write", "verify"} /\ result = "none"
  /\ pc = "open" => pos = 0 /\ currentIndex = 0
  /\ (method = "verify" /\ pc = "block" /\ ~shared)
       => \A c \in Cells : c < pos => medium[c]
  /\ (method = "verify" /\ pc = "io" /\ ~shared)
       => /\ \A c \in Cells : c < currentIndex => medium[c]
          /\ matches <=> \A c \in Cells :
                           (currentIndex <= c /\ c < pos) => medium[c]
  /\ pos <= DriveSize

(* An index that stays below the modulus is not changed by it.             *)
LEMMA NoWrap ==
  ASSUME NEW x \in Nat, x < Modulus
  PROVE  x % Modulus = x
BY SizesAssumption, Z3

(* A block is never empty and never reaches past the end of the device.    *)
LEMMA BlockFits ==
  ASSUME NEW index \in Nat, index < DriveSize
  PROVE  /\ LengthAt(index) \in Nat \ {0}
         /\ index + LengthAt(index) <= DriveSize
<1>1. (index + BlockSize) % Modulus = index + BlockSize
  BY NoWrap, SizesAssumption
<1>2. (DriveSize - index) % Modulus = DriveSize - index
  BY NoWrap, SizesAssumption
<1> QED BY <1>1, <1>2, SizesAssumption DEF LengthAt

(* The invariant holds before the first method.                            *)
LEMMA InvariantHoldsInitially == Init => IInv
<1> SUFFICES ASSUME Init PROVE IInv
  OBVIOUS
<1>1. TypeOK
  BY DEF Init, TypeOK
<1>2. IndexFollowsOffset /\ OverwriteIsExact /\ VerifyIsExact
  BY DEF Init, IndexFollowsOffset, OverwriteIsExact, VerifyIsExact
<1> QED BY <1>1, <1>2, SizesAssumption DEF Init, IInv

(* How a transfer of k cells can leave the loop: at the next block, ended  *)
(* by a mismatch, inside the same block, or out of retries.                *)
Outcome(k, good) ==
  \/ /\ moved + k = size /\ good /\ pc' = "block" /\ result' = "none"
     /\ currentIndex' = pos'
  \/ moved + k = size /\ ~good /\ pc' = "idle" /\ result' = "mismatch"
  \/ /\ moved + k < size /\ pc' = "io" /\ result' = "none"
     /\ currentIndex' = currentIndex
  \/ moved + k < size /\ pc' = "idle" /\ result' = "ioError"

(* A transfer of k cells keeps the index and the offset together.          *)
LEMMA TransferKeepsIndex ==
  ASSUME IInv, pc = "io", NEW k \in 0 .. size - moved, NEW good \in BOOLEAN,
         AfterTransfer(k, good), pos' = pos + k, pos + k <= DriveSize,
         UNCHANGED <<method, size>>
  PROVE  /\ IndexFollowsOffset'
         /\ currentIndex' \in Nat /\ moved' \in Nat /\ retry' \in Nat /\ pos' \in Nat
         /\ Outcome(k, good)
<1> USE SizesAssumption DEF IInv, TypeOK, IndexFollowsOffset, AfterTransfer, End, Outcome
<1>1. (currentIndex + size) % Modulus = currentIndex + size
  BY NoWrap
<1>2. CASE moved + k = size /\ good
  BY <1>1, <1>2
<1>3. CASE moved + k = size /\ ~good
  BY <1>3
<1>4. CASE moved + k < size
  BY <1>4
<1> QED BY <1>2, <1>3, <1>4

(* No block, no transfer and no failure breaks it.                         *)
LEMMA InvariantIsInductive == IInv /\ [Next]_vars => IInv'
<1> SUFFICES ASSUME IInv, [Next]_vars PROVE IInv'
  OBVIOUS
<1> USE SizesAssumption DEF IInv, End
<1>0. CASE Open
  BY <1>0 DEF Open, TypeOK, IndexFollowsOffset, OverwriteIsExact, VerifyIsExact, Cells
<1>1. ASSUME NEW m \in {"write", "verify"}, Call(m) PROVE IInv'
  BY <1>1 DEF Call, TypeOK, IndexFollowsOffset, OverwriteIsExact, VerifyIsExact, Cells
<1>2. CASE NextBlock
  <2>1. CASE MoreToDo(currentIndex)
    <3>1. /\ size' \in Nat \ {0} /\ currentIndex + size' <= DriveSize
          /\ pc' = "io" /\ moved' = 0 /\ retry' = 0 /\ matches' = TRUE
          /\ UNCHANGED <<shared, medium, pos, method, currentIndex, result>>
          /\ pos = currentIndex /\ pc = "block"
      BY <1>2, <2>1, BlockFits DEF NextBlock, MoreToDo, IndexFollowsOffset, TypeOK
    <3>2. TypeOK' /\ IndexFollowsOffset'
      <4>1. TypeOK'
        BY <3>1 DEF TypeOK
      <4>2. pos' = currentIndex' + moved' /\ moved' < size' /\ retry' <= MaxRetry
        BY <3>1 DEF TypeOK
      <4>3. IndexFollowsOffset'
        BY <3>1, <4>2 DEF IndexFollowsOffset
      <4> QED BY <4>1, <4>3
    <3>3. OverwriteIsExact' /\ VerifyIsExact'
      BY <3>1 DEF OverwriteIsExact, VerifyIsExact
    <3>4. ~(\E c \in Cells : currentIndex <= c /\ c < pos)
      BY <3>1 DEF Cells, TypeOK
    <3>5. method' = "verify" /\ ~shared'
            => /\ \A c \in Cells : c < currentIndex' => medium'[c]
               /\ matches' <=> \A c \in Cells :
                                 (currentIndex' <= c /\ c < pos') => medium'[c]
      BY <3>1, <3>4
    <3>6. pos' <= DriveSize /\ method' \in {"write", "verify"} /\ result' = "none"
      BY <3>1
    <3> QED BY <3>1, <3>2, <3>3, <3>5, <3>6
  <2>2. CASE ~MoreToDo(currentIndex)
    <3>1. /\ pc' = "idle" /\ result' = "ok" /\ pos = DriveSize
          /\ UNCHANGED <<shared, medium, pos, method, currentIndex, size, moved,
                         retry, matches>>
      BY <1>2, <2>2 DEF NextBlock, MoreToDo, IndexFollowsOffset, TypeOK
    <3> QED
      BY <1>2, <3>1 DEF NextBlock, TypeOK, IndexFollowsOffset, OverwriteIsExact,
                        VerifyIsExact, Cells
  <2> QED BY <2>1, <2>2
<1>3. CASE Write
  <2>1. PICK k \in 0 .. size - moved :
          /\ pos + k <= DriveSize
          /\ medium' = [c \in Cells |-> medium[c] \/ (pos <= c /\ c < pos + k)]
          /\ pos' = pos + k
          /\ AfterTransfer(k, TRUE)
    BY <1>3 DEF Write
  <2>2. pc = "io" /\ method = "write" /\ UNCHANGED <<shared, method, size, matches>>
    BY <1>3 DEF Write
  <2>3. /\ IndexFollowsOffset'
        /\ currentIndex' \in Nat /\ moved' \in Nat /\ retry' \in Nat /\ pos' \in Nat
        /\ Outcome(k, TRUE)
    BY <2>1, <2>2, TransferKeepsIndex
  <2>4. \A c \in Cells : c < pos' /\ ~shared => medium'[c]
    <3>1. ASSUME NEW c \in Cells, c < pos', ~shared PROVE medium'[c]
      <4>1. c < pos \/ (pos <= c /\ c < pos + k)
        BY <2>1, <3>1 DEF Cells, TypeOK
      <4>2. c < pos => medium[c]
        BY <2>2, <3>1 DEF OverwriteIsExact
      <4>3. medium'[c] = (medium[c] \/ (pos <= c /\ c < pos + k))
        BY <2>1
      <4> QED BY <4>1, <4>2, <4>3
    <3> QED BY <3>1
  <2>5. TypeOK'
    BY <2>1, <2>2, <2>3 DEF TypeOK, Outcome
  <2>6. OverwriteIsExact' /\ VerifyIsExact'
    BY <2>2, <2>3, <2>4 DEF OverwriteIsExact, VerifyIsExact, Outcome, Cells
  <2> QED BY <2>1, <2>2, <2>3, <2>5, <2>6 DEF Outcome
<1>4. CASE Read
  <2>1. PICK k \in 0 .. size - moved :
          /\ pos + k <= DriveSize
          /\ matches' = (matches /\ \A c \in pos .. pos + k - 1 : medium[c])
          /\ pos' = pos + k
          /\ AfterTransfer(k, matches')
    BY <1>4 DEF Read
  <2>2. pc = "io" /\ method = "verify" /\ UNCHANGED <<shared, method, size, medium>>
    BY <1>4 DEF Read
  <2>3. matches' \in BOOLEAN
    BY <2>1 DEF TypeOK
  <2>4. /\ IndexFollowsOffset'
        /\ currentIndex' \in Nat /\ moved' \in Nat /\ retry' \in Nat /\ pos' \in Nat
        /\ Outcome(k, matches')
    BY <2>1, <2>2, <2>3, TransferKeepsIndex
  <2>5. TypeOK'
    BY <2>2, <2>3, <2>4 DEF TypeOK, Outcome
  <2>6. ~shared => /\ \A c \in Cells : c < currentIndex => medium[c]
                   /\ matches' <=> \A c \in Cells :
                        (currentIndex <= c /\ c < pos') => medium[c]
    <3>1. pos = currentIndex + moved
      BY <2>2 DEF IndexFollowsOffset
    <3>2. ~shared => (matches <=> \A c \in Cells :
                                   (currentIndex <= c /\ c < pos) => medium[c])
      BY <2>2
    <3>3. \A c \in pos .. pos + k - 1 : c \in Cells /\ pos <= c /\ c < pos'
      BY <2>1 DEF Cells, TypeOK
    <3>4. \A c \in Cells : currentIndex <= c /\ c < pos' =>
            (currentIndex <= c /\ c < pos) \/ c \in pos .. pos + k - 1
      BY <2>1 DEF Cells, TypeOK
    <3>5. \A c \in pos .. pos + k - 1 : currentIndex <= c
      BY <3>1 DEF TypeOK
    <3>6. \A c \in Cells : c < pos => c < pos'
      BY <2>1 DEF Cells, TypeOK
    <3> QED BY <2>1, <2>2, <3>2, <3>3, <3>4, <3>5, <3>6
  <2>7. ~shared /\ matches' => \A c \in Cells : c < pos' => medium'[c]
    <3>1. \A c \in Cells : c < currentIndex \/ currentIndex <= c
      BY DEF Cells, TypeOK
    <3> QED BY <2>2, <2>6, <3>1
  <2>8. OverwriteIsExact' /\ VerifyIsExact'
    BY <2>2, <2>4, <2>6 DEF OverwriteIsExact, VerifyIsExact, Outcome
  <2>9. /\ pc' # "idle" => method' \in {"write", "verify"} /\ result' = "none"
        /\ pos' <= DriveSize /\ pc' # "open"
    BY <2>1, <2>2, <2>4 DEF Outcome
  <2>10. method' = "verify" /\ pc' = "block" /\ ~shared'
          => \A c \in Cells : c < pos' => medium'[c]
    BY <2>2, <2>4, <2>7 DEF Outcome
  <2>11. method' = "verify" /\ pc' = "io" /\ ~shared'
          => /\ \A c \in Cells : c < currentIndex' => medium'[c]
             /\ matches' <=> \A c \in Cells :
                               (currentIndex' <= c /\ c < pos') => medium'[c]
    BY <2>2, <2>4, <2>6 DEF Outcome
  <2> QED BY <2>4, <2>5, <2>8, <2>9, <2>10, <2>11
<1>5. CASE TransferFails \/ Crash
  BY <1>5 DEF TransferFails, Crash, TypeOK, IndexFollowsOffset, OverwriteIsExact,
              VerifyIsExact
<1>6. CASE Interfere
  BY <1>6 DEF Interfere, TypeOK, IndexFollowsOffset, OverwriteIsExact, VerifyIsExact
<1>7. CASE UNCHANGED vars
  BY <1>7 DEF vars, TypeOK, IndexFollowsOffset, OverwriteIsExact, VerifyIsExact
<1> QED BY <1>0, <1>1, <1>2, <1>3, <1>4, <1>5, <1>6, <1>7 DEF Next, Loop

(* The invariant holds throughout.                                         *)
LEMMA Invariance == Spec => []IInv
BY InvariantHoldsInitially, InvariantIsInductive, PTL DEF Spec

(* The variables keep their types: no offset or index leaves the device.   *)
THEOREM TypeCorrect == Spec => []TypeOK
<1>1. IInv => TypeOK
  BY DEF IInv
<1> QED BY <1>1, Invariance, PTL

-----------------------------------------------------------------------------
(* The index follows the offset and no block reaches past the end.         *)
THEOREM IndexAlwaysFollowsOffset == Spec => []IndexFollowsOffset
<1>1. IInv => IndexFollowsOffset
  BY DEF IInv
<1> QED BY <1>1, Invariance, PTL

(* An overwrite that reports success has replaced the whole device, one    *)
(* that stopped early all of it up to there.                               *)
THEOREM OverwriteIsAlwaysExact == Spec => []OverwriteIsExact
<1>1. IInv => OverwriteIsExact
  BY DEF IInv
<1> QED BY <1>1, Invariance, PTL

(* A verification answers what the device holds.                           *)
THEOREM VerifyIsAlwaysExact == Spec => []VerifyIsExact
<1>1. IInv => VerifyIsExact
  BY DEF IInv
<1> QED BY <1>1, Invariance, PTL

-----------------------------------------------------------------------------
(* The rank is a triple of natural numbers, since no index passes the end  *)
(* and no block is tried again once its retries are used up.               *)
LEMMA RankIsRank == IInv /\ pc # "idle" => Rank \in Ranks
<1> SUFFICES ASSUME IInv, pc # "idle" PROVE Rank \in Ranks
  OBVIOUS
<1> USE SizesAssumption DEF IInv, TypeOK, IndexFollowsOffset
<1>1. CASE pc = "open"
  <2>1. Rank = <<2, DriveSize - currentIndex, MaxRetry + 1>>
    BY <1>1 DEF Rank
  <2> QED BY <1>1, <2>1 DEF Ranks
<1>2. CASE pc = "block"
  <2>1. Rank = <<1, DriveSize - currentIndex, MaxRetry + 1>>
    BY <1>2 DEF Rank
  <2> QED BY <1>2, <2>1 DEF Ranks
<1>3. CASE pc = "io"
  <2>1. Rank = <<1, DriveSize - currentIndex, MaxRetry - retry>>
    BY <1>3 DEF Rank
  <2> QED BY <1>3, <2>1 DEF Ranks
<1> QED BY <1>1, <1>2, <1>3

(* Every step of a method opens the device, completes a block, uses up a   *)
(* retry or ends the method: however short the transfers are, it cannot go *)
(* on for ever.                                                            *)
THEOREM MethodsAlwaysAdvance == Spec => EveryStepAdvances
<1> DEFINE Advance == /\ Rank \in Ranks
                      /\ Lower(Rank', Rank) \/ (Interfere /\ UNCHANGED Rank)
<1>1. IInv /\ IInv' /\ [Next]_vars => [pc # "idle" => Advance]_vars
  <2> SUFFICES ASSUME IInv, IInv', Next, pc # "idle"
               PROVE  Lower(Rank', Rank) \/ (Interfere /\ UNCHANGED Rank)
    BY RankIsRank DEF vars
  <2> USE SizesAssumption DEF IInv, TypeOK, IndexFollowsOffset, Rank, Lower
  <2>1. ASSUME NEW m \in {"write", "verify"}, Call(m) PROVE FALSE
    BY <2>1 DEF Call
  <2>2. CASE pc' = "idle"
    BY <2>2
  <2>3. CASE Open
    BY <2>3 DEF Open, End
  <2>4. CASE NextBlock
    BY <2>4 DEF NextBlock, End
  <2>5. ASSUME pc = "io", NEW k \in 0 .. size - moved, NEW good \in BOOLEAN,
               AfterTransfer(k, good), pos' = pos + k, pos + k <= DriveSize
        PROVE  Lower(Rank', Rank)
    <3>1. (currentIndex + size) % Modulus = currentIndex + size
      BY <2>5, NoWrap
    <3> QED BY <2>5, <3>1 DEF AfterTransfer, End
  <2>6. CASE Write
    BY <2>5, <2>6 DEF Write
  <2>7. CASE Read
    <3>1. matches' \in BOOLEAN
      OBVIOUS
    <3> QED BY <2>5, <2>7, <3>1 DEF Read
  <2>8. CASE TransferFails \/ Crash
    BY <2>2, <2>8 DEF TransferFails, Crash, End
  <2>9. CASE Interfere
    BY <2>9 DEF Interfere
  <2> QED BY <2>1, <2>3, <2>4, <2>6, <2>7, <2>8, <2>9 DEF Next, Loop
<1> QED BY <1>1, Invariance, InvariantIsInductive, PTL DEF Spec, EveryStepAdvances

-----------------------------------------------------------------------------
(* The loops implement the steps that EStoraged takes.                     *)

(* What the history says of the medium: a header or a filesystem that is   *)
(* there shows in a cell that was not replaced, and a device that did not  *)
(* agree when it was opened will be found out.                             *)
AInv ==
  /\ header \in BOOLEAN /\ contents \in BOOLEAN
  /\ uniform \in BOOLEAN /\ agreed \in BOOLEAN
  /\ header => ~HeaderPassed /\ ~medium[HeaderSize - 1]
  /\ contents => \/ pc # "idle" /\ HeaderPassed
                 \/ \E c \in Cells : c >= HeaderSize /\ ~medium[c]
  /\ uniform => Uniform
  /\ pc \in {"idle", "open"} \/ method # "write" => uniform = Uniform
  /\ method = "verify" /\ pc \in {"block", "io"} /\ ~agreed =>
       \E c \in Cells : ~medium[c] /\ (c >= pos \/ (pc = "io" /\ ~matches))

(* It holds of every device a method may be called on.                     *)
LEMMA HistoryHoldsInitially == AtomicInit => AInv
<1> SUFFICES ASSUME AtomicInit PROVE AInv
  OBVIOUS
<1>1. Uniform \in BOOLEAN
  BY DEF Uniform
<1> QED BY <1>1 DEF AtomicInit, Init, AInv, HeaderPassed

(* What all steps have in common: the history of a step that only adds to  *)
(* the medium cells below the new offset.                                  *)
LEMMA WritingKeepsHistory ==
  ASSUME IInv, AInv, HistoryNext, method = "write", method' = "write",
         pc # "idle", pc' # "open", pos' \in Nat, pos <= pos',
         \A c \in Cells : /\ medium'[c] \in BOOLEAN
                          /\ medium[c] => medium'[c]
                          /\ medium'[c] => medium[c] \/ c < pos'
  PROVE  AInv'
<1> USE HeaderAssumption, SizesAssumption
        DEF IInv, TypeOK, AInv, HistoryNext, HeaderPassed
<1>1. Uniform \in BOOLEAN /\ Uniform' \in BOOLEAN /\ (Uniform => Uniform')
  BY DEF Uniform
<1>2. /\ header' \in BOOLEAN /\ contents' \in BOOLEAN
      /\ uniform' \in BOOLEAN /\ agreed' \in BOOLEAN
  BY <1>1
<1>3. header' => ~HeaderPassed' /\ ~medium'[HeaderSize - 1]
  BY DEF Cells
<1>4. contents' => \/ pc' # "idle" /\ HeaderPassed'
                   \/ \E c \in Cells : c >= HeaderSize /\ ~medium'[c]
  BY DEF Cells
<1>5. (uniform' => Uniform') /\ (pc' = "idle" => uniform' = Uniform')
  BY <1>1
<1> QED BY <1>2, <1>3, <1>4, <1>5

(* No transfer, no failure and no write by others breaks it.               *)
LEMMA HistoryIsInductive ==
  IInv /\ IInv' /\ AInv /\ [AtomicNext]_avars => AInv'
<1> SUFFICES ASSUME IInv, IInv', AInv, [AtomicNext]_avars PROVE AInv'
  OBVIOUS
<1>1. CASE UNCHANGED avars
  BY <1>1 DEF avars, vars, history, AInv, Uniform, HeaderPassed
<1> SUFFICES ASSUME Next, HistoryNext PROVE AInv'
  BY <1>1 DEF AtomicNext
<1>2. Uniform \in BOOLEAN /\ Uniform' \in BOOLEAN
  BY DEF Uniform
<1>3. UNCHANGED medium => Uniform' = Uniform
  BY DEF Uniform
<1> USE HeaderAssumption, SizesAssumption
        DEF IInv, TypeOK, AInv, HistoryNext, HeaderPassed
<1>4. ASSUME NEW m \in {"write", "verify"}, Call(m) PROVE AInv'
  BY <1>2, <1>3, <1>4 DEF Call, Open
<1>5. ASSUME method = "write", pc # "idle", UNCHANGED <<method, medium, pos>>,
             pc' # "open"
      PROVE  AInv'
  BY <1>5, WritingKeepsHistory
<1>6. CASE Open
  <2>1. CASE method = "write"
    BY <1>5, <1>6, <2>1 DEF Open, End
  <2>2. CASE method = "verify"
    <3>1. ~Uniform => \E c \in Cells : ~medium'[c] /\ c >= pos'
      BY <1>6 DEF Uniform, Open, Cells
    <3> QED BY <1>2, <1>3, <1>6, <2>2, <3>1 DEF Open, End
  <2> QED BY <1>6, <2>1, <2>2 DEF Open
<1>7. CASE NextBlock
  <2>1. CASE method = "write"
    BY <1>5, <1>7, <2>1 DEF NextBlock, End
  <2>2. CASE method = "verify"
    BY <1>2, <1>3, <1>7, <2>2 DEF NextBlock, End, Open
  <2> QED BY <1>7, <2>1, <2>2 DEF NextBlock
<1>8. CASE Write
  BY <1>8, WritingKeepsHistory DEF Write, AfterTransfer, End, Cells
<1>9. CASE Read
  <2>1. PICK k \in 0 .. size - moved :
          /\ matches' = (matches /\ \A c \in pos .. pos + k - 1 : medium[c])
          /\ pos' = pos + k
          /\ AfterTransfer(k, matches')
    BY <1>9 DEF Read
  <2>2. ~agreed => \E c \in Cells : ~medium[c] /\ (c >= pos' \/ ~matches')
    BY <1>9, <2>1 DEF Read, Cells
  <2>3. pc' \in {"block", "io"} => matches' \/ pc' = "io"
    <3>1. pc = "io"
      BY <1>9 DEF Read
    <3> HIDE DEF IInv, TypeOK, AInv, HistoryNext, HeaderPassed
    <3> QED BY <2>1, <3>1 DEF AfterTransfer, End
  <2>4. /\ method' = "verify" /\ medium' = medium /\ pc' # "open"
        /\ pc = "io" /\ method = "verify" /\ agreed' = agreed
    BY <1>9, <2>1 DEF Read, Open, AfterTransfer, End
  <2>5. uniform' = Uniform' /\ uniform = Uniform
    BY <1>2, <1>3, <2>4
  <2>6. pc' \in {"block", "io"} /\ ~agreed' =>
          \E c \in Cells : ~medium'[c] /\ (c >= pos' \/ (pc' = "io" /\ ~matches'))
    BY <2>2, <2>3, <2>4
  <2>7. contents' => \E c \in Cells : c >= HeaderSize /\ ~medium'[c]
    BY <2>4
  <2> QED BY <1>2, <2>4, <2>5, <2>6, <2>7
<1>10. CASE TransferFails \/ Crash
  <2>1. CASE method = "write"
    BY <1>5, <1>10, <2>1 DEF TransferFails, Crash, End
  <2>2. CASE method = "verify"
    BY <1>2, <1>3, <1>10, <2>2 DEF TransferFails, Crash, End, Open
  <2> QED BY <1>10, <2>1, <2>2 DEF TransferFails, Crash
<1>11. CASE Interfere
  <2>1. PICK x \in Cells : medium[x] /\ medium' = [medium EXCEPT ![x] = FALSE]
    BY <1>11 DEF Interfere
  <2>2. ~medium'[x] /\ \A c \in Cells : ~medium[c] => ~medium'[c]
    BY <2>1
  <2>3. ~Uniform'
    BY <2>2 DEF Uniform
  <2>4. ~uniform'
    BY <2>1, <2>2, <2>3
  <2>5. HeaderSize - 1 \in Cells
    BY DEF Cells
  <2> QED BY <1>2, <1>11, <2>2, <2>3, <2>4, <2>5 DEF Interfere, Open
<1> QED BY <1>4, <1>6, <1>7, <1>8, <1>9, <1>10, <1>11 DEF Next, Loop

(* Both invariants hold throughout, and the history only watches.          *)
LEMMA HistoryInvariance == AtomicSpec => Spec /\ [](IInv /\ AInv)
<1>1. [AtomicNext]_avars => [Next]_vars
  BY DEF AtomicNext, avars
<1>2. AtomicInit => Init
  BY DEF AtomicInit
<1>3. AtomicSpec => Spec
  BY <1>1, <1>2, PTL DEF AtomicSpec, Spec
<1> QED
  BY <1>3, Invariance, HistoryHoldsInitially, HistoryIsInductive, PTL
  DEF AtomicSpec

(* Where the volume is, in terms of the loop.                              *)
LEMMA Labels ==
  /\ pc = "idle" => VolumeLabel = "idle"
  /\ pc # "idle" /\ method = "write" =>
       VolumeLabel = IF HeaderPassed THEN "overwriteRest" ELSE "overwriteHeader"
  /\ pc # "idle" /\ method = "verify" =>
       VolumeLabel = IF pc # "open" /\ agreed THEN "compare" ELSE "verify"
BY DEF VolumeLabel

LEMMA NextLabels ==
  /\ pc' = "idle" => VolumeLabel' = "idle"
  /\ pc' # "idle" /\ method' = "write" =>
       VolumeLabel' = IF HeaderPassed' THEN "overwriteRest" ELSE "overwriteHeader"
  /\ pc' # "idle" /\ method' = "verify" =>
       VolumeLabel' = IF pc' # "open" /\ agreed' THEN "compare" ELSE "verify"
BY DEF VolumeLabel

(* The call is one the volume can receive, and says what is written.       *)
LEMMA CallFacts ==
  ASSUME method \in {"write", "verify"}
  PROVE  /\ VolumeCall \in Volume!Calls
         /\ VolumeCall.op = IF method = "write"
              THEN IF Content = "zero" THEN "ZeroOverWrite" ELSE "LogicalOverWrite"
              ELSE IF Content = "zero" THEN "ZeroVerify" ELSE "LogicalVerify"
BY DEF VolumeCall, CallOf, Volume!Calls, Volume!EraseMethods

(* An overwrite that stops anywhere leaves what the volume expects.        *)
LEMMA StoppedOverwriteIsTorn ==
  ASSUME IInv, IInv', AInv, AInv', HistoryNext, pc # "idle", pc' = "idle",
         method = "write", UNCHANGED method, pos <= pos',
         \A c \in Cells : medium[c] => medium'[c]
  PROVE  Volume!Torn
<1>1. VolumeLabel \in {"overwriteHeader", "overwriteRest"}
  BY Labels
<1>2. Volume!Written = Content
  BY CallFacts, HeaderAssumption DEF Volume!Written
<1>3. Uniform \in BOOLEAN /\ Uniform' \in BOOLEAN /\ (Uniform => Uniform')
  BY DEF Uniform
<1>4. uniform' = Uniform' /\ (uniform => uniform')
  BY <1>3 DEF AInv
<1>5. Content # "data"
  BY HeaderAssumption
<1>6. HeaderSize - 1 \in Cells
  BY HeaderAssumption, SizesAssumption DEF Cells
<1>7. CASE header' \/ contents'
  <2>1. ~HeaderPassed'
    BY <1>7 DEF AInv, HistoryNext
  <2>2. ~Uniform'
    BY <1>6, <1>7, <2>1 DEF AInv, Uniform
  <2>3. UNCHANGED <<header, contents, uniform>>
    BY <1>4, <2>1, <2>2 DEF AInv, HistoryNext
  <2> QED BY <2>3 DEF Volume!Torn, Volume!disk
<1>8. CASE ~header' /\ ~contents'
  BY <1>1, <1>2, <1>4, <1>8 DEF Volume!Torn, Volume!Rewritten, AInv
<1> QED BY <1>7, <1>8

(* A step of the loop that changes nothing the volume sees.                *)
LEMMA VolumeSeesNothing ==
  ASSUME UNCHANGED <<shared, method, header, contents, uniform, VolumeLabel>>,
         pc # "idle", pc' # "idle", result = "none", result' = "none"
  PROVE  UNCHANGED Volume!vars
BY DEF Volume!vars, VolumeCall

(* An overwrite: no step, the one that takes the header, or the end.       *)
LEMMA OverwriteStep ==
  ASSUME IInv, IInv', AInv, AInv', HistoryNext, pc # "idle", pc' # "open",
         method = "write", UNCHANGED <<method, shared>>, pos <= pos',
         \A c \in Cells : medium[c] => medium'[c],
         pc' # "idle" => result' = "none",
         pc' = "idle" => result' \in {"ok", "ioError"},
         result' = "ok" => HeaderPassed /\ pos' = pos
  PROVE  \/ Volume!OverwriteHeader \/ Volume!OverwriteRest
         \/ UNCHANGED Volume!vars
<1>1. /\ Volume!Written = Content /\ Content # "data"
      /\ Volume!Written' = Content
  BY CallFacts, HeaderAssumption DEF Volume!Written, VolumeCall
<1>2. UNCHANGED VolumeCall /\ Volume!May("io")
  BY DEF VolumeCall, Volume!May
<1>3. result = "none"
  BY DEF IInv
<1>4. header => ~HeaderPassed
  BY DEF AInv
<1>5. CASE pc' = "idle" /\ result' = "ioError"
  <2>1. Volume!Torn
    BY <1>5, StoppedOverwriteIsTorn
  <2>2. Volume!Throw
    BY <1>2, <1>5, NextLabels DEF Volume!Throw
  <2>3. VolumeLabel \in {"overwriteHeader", "overwriteRest"}
    BY Labels
  <2> QED
    BY <1>2, <2>1, <2>2, <2>3
    DEF Volume!OverwriteHeader, Volume!OverwriteRest, Volume!kernel
<1>6. CASE pc' = "idle" /\ result' = "ok"
  <2>1. VolumeLabel = "overwriteRest"
    BY <1>6, Labels
  <2>2. Volume!Return
    BY <1>2, <1>6, NextLabels DEF Volume!Return
  <2>3. ~header /\ header' = header /\ ~contents'
    BY <1>4, <1>6 DEF HistoryNext, HeaderPassed, AInv
  <2>4. ~shared => Uniform'
    BY <1>6 DEF IInv, OverwriteIsExact, Uniform
  <2>5. shared \/ uniform'
    BY <1>6, <2>4 DEF AInv
  <2>6. \/ (IF uniform' THEN Content ELSE "data") = Content
        \/ shared /\ (IF uniform' THEN Content ELSE "data") = "data"
    BY <2>5 DEF AInv
  <2> QED
    BY <1>1, <2>1, <2>2, <2>3, <2>6 DEF Volume!OverwriteRest, Volume!kernel
<1>7. CASE pc' # "idle"
  <2>1. uniform' = uniform /\ contents' = contents
    BY <1>7 DEF HistoryNext, AInv
  <2>2. CASE HeaderPassed = HeaderPassed'
    <3>1. header' = header
      BY <1>4, <2>2 DEF HistoryNext, AInv
    <3>2. VolumeLabel' = VolumeLabel
      BY <1>7, <2>2, Labels, NextLabels
    <3> QED BY <1>3, <1>7, <2>1, <3>1, <3>2, VolumeSeesNothing
  <2>3. CASE HeaderPassed' # HeaderPassed
    <3>1. HeaderPassed' /\ ~HeaderPassed
      BY <2>3, HeaderAssumption DEF HeaderPassed, IInv, TypeOK
    <3>2. ~header'
      BY <3>1 DEF HistoryNext
    <3>3. VolumeLabel = "overwriteHeader" /\ VolumeLabel' = "overwriteRest"
      BY <1>7, <3>1, Labels, NextLabels
    <3>4. Volume!Goto("overwriteRest")
      BY <1>2, <1>3, <1>7, <3>3 DEF Volume!Goto
    <3> QED
      BY <1>1, <2>1, <3>2, <3>3, <3>4
      DEF Volume!OverwriteHeader, Volume!Rewritten, Volume!kernel
  <2> QED BY <2>2, <2>3
<1> QED BY <1>5, <1>6, <1>7

(* A verification: no step, the one that finds agreement, or the end.      *)
LEMMA VerifyStep ==
  ASSUME IInv, IInv', AInv, AInv', HistoryNext, pc # "idle", pc' # "open",
         method = "verify", UNCHANGED <<method, shared, medium>>,
         pc' # "idle" => result' = "none",
         pc' = "idle" => result' \in {"ok", "mismatch", "ioError"},
         result' = "ok" => pc # "open" /\ agreed,
         pc = "open" /\ pc' # "idle" => Open,
         pc # "open" => ~Open
  PROVE  \/ Volume!Verify \/ Volume!Compare
         \/ UNCHANGED Volume!vars
<1>1. UNCHANGED <<header, contents, uniform>>
  <2>1. Uniform' = Uniform
    BY DEF Uniform
  <2> QED BY <2>1 DEF HistoryNext, HeaderPassed, AInv
<1>2. UNCHANGED VolumeCall /\ Volume!May("io") /\ UNCHANGED Volume!device
  BY <1>1 DEF VolumeCall, Volume!May, Volume!device
<1>3. result = "none"
  BY DEF IInv
<1>4. VolumeLabel = IF pc # "open" /\ agreed THEN "compare" ELSE "verify"
  BY Labels
<1>5. CASE pc' = "idle" /\ result' # "ok"
  <2>1. Volume!Throw
    BY <1>2, <1>5, NextLabels DEF Volume!Throw
  <2> QED BY <1>2, <1>4, <2>1 DEF Volume!Verify, Volume!Compare
<1>6. CASE pc' = "idle" /\ result' = "ok"
  <2>1. Volume!Return
    BY <1>2, <1>6, NextLabels DEF Volume!Return
  <2> QED BY <1>2, <1>4, <1>6, <2>1 DEF Volume!Compare
<1>7. CASE pc' # "idle"
  <2>1. VolumeLabel' = IF agreed' THEN "compare" ELSE "verify"
    BY <1>7, NextLabels
  <2>2. CASE VolumeLabel' = VolumeLabel
    BY <1>1, <1>3, <1>7, <2>2, VolumeSeesNothing
  <2>3. CASE VolumeLabel' # VolumeLabel
    <3>1. pc = "open" /\ Open
      BY <1>4, <1>7, <2>1, <2>3 DEF HistoryNext
    <3>2. agreed' /\ Uniform
      BY <1>4, <2>1, <2>3, <3>1 DEF HistoryNext
    <3>3. uniform
      BY <3>2 DEF AInv
    <3>4. Volume!Matches(VolumeCall.op)
      BY <3>3, CallFacts, HeaderAssumption DEF Volume!Matches
    <3>5. Volume!Goto("compare")
      BY <1>2, <1>3, <1>7, <2>1, <3>2 DEF Volume!Goto
    <3> QED BY <1>2, <1>4, <3>1, <3>4, <3>5 DEF Volume!Verify
  <2> QED BY <2>2, <2>3
<1> QED BY <1>5, <1>6, <1>7

(* EStoraged takes an overwrite for two steps and a verification for two:  *)
(* every run of the block loops, with whatever errors, crashes and writes  *)
(* by others, is made of these.                                            *)
THEOREM LoopsImplementVolumeSteps == AtomicSpec => ImplementsVolumeSteps
<1> DEFINE VolumeStep ==
      \/ \E c \in Volume!Calls : Volume!Receive(c)
      \/ Volume!OverwriteHeader \/ Volume!OverwriteRest
      \/ Volume!Verify \/ Volume!Compare
      \/ Volume!FsWrite \/ Volume!Crash
<1>1. IInv /\ IInv' /\ AInv /\ AInv' /\ [AtomicNext]_avars
        => [VolumeStep]_(Volume!vars)
  <2> SUFFICES ASSUME IInv, IInv', AInv, AInv', [AtomicNext]_avars
               PROVE  VolumeStep \/ UNCHANGED Volume!vars
    OBVIOUS
  <2>1. CASE UNCHANGED avars
    BY <2>1 DEF avars, vars, history, Volume!vars, VolumeCall, VolumeLabel, HeaderPassed
  <2> SUFFICES ASSUME Next, HistoryNext
               PROVE  VolumeStep \/ UNCHANGED Volume!vars
    BY <2>1 DEF AtomicNext
  <2>2. TypeOK /\ TypeOK' /\ IndexFollowsOffset
    BY DEF IInv
  <2>3. pc # "idle" => method \in {"write", "verify"} /\ result = "none"
    BY DEF IInv
  <2>4. Uniform \in BOOLEAN /\ Uniform' \in BOOLEAN
    BY DEF Uniform
  <2>5. UNCHANGED medium => Uniform' = Uniform
    BY DEF Uniform
  <2>6. ASSUME NEW m \in {"write", "verify"}, Call(m)
        PROVE  \E c \in Volume!Calls : Volume!Receive(c)
    <3>1. VolumeCall' \in Volume!Calls
      BY <2>6, HeaderAssumption
      DEF Call, VolumeCall, CallOf, Volume!Calls, Volume!EraseMethods
    <3>2. /\ VolumeCall'.op # "FormatUnsupported"
          /\ Volume!Entry(VolumeCall'.op) = VolumeLabel'
      BY <2>6, HeaderAssumption
      DEF Call, VolumeCall, CallOf, Volume!Entry, VolumeLabel, HeaderPassed
    <3>3. UNCHANGED <<shared, header, contents, uniform>>
      BY <2>4, <2>5, <2>6, HeaderAssumption
      DEF Call, HistoryNext, HeaderPassed, AInv, Open
    <3>4. VolumeLabel = "idle" /\ result' = "none"
      BY <2>6, Labels DEF Call
    <3> QED
      BY <3>1, <3>2, <3>3, <3>4, <2>2
      DEF Volume!Receive, Volume!Access, Volume!device, TypeOK
  <2>7. CASE Open
    <3>1. CASE method = "write"
      <4>1. \A c \in Cells : medium[c] => medium'[c]
        BY <2>7 DEF Open
      <4> QED BY <2>2, <2>3, <2>7, <3>1, <4>1, OverwriteStep DEF Open, End, TypeOK
    <3>2. CASE method = "verify"
      BY <2>3, <2>7, <3>2, VerifyStep DEF Open, End
    <3> QED BY <2>3, <2>7, <3>1, <3>2 DEF Open
  <2>8. CASE NextBlock
    <3>1. result' = "ok" => pos = DriveSize
      BY <2>2, <2>3, <2>8, SizesAssumption
      DEF NextBlock, MoreToDo, IndexFollowsOffset, TypeOK
    <3>2. CASE method = "write"
      <4>1. result' = "ok" => HeaderPassed /\ pos' = pos
        BY <2>8, <3>1, <3>2, HeaderAssumption, SizesAssumption
        DEF HeaderPassed, NextBlock
      <4>2. \A c \in Cells : medium[c] => medium'[c]
        BY <2>8 DEF NextBlock
      <4> QED
        BY <2>2, <2>3, <2>8, <3>2, <4>1, <4>2, OverwriteStep DEF NextBlock, End, TypeOK
    <3>3. CASE method = "verify"
      <4>1. result' = "ok" => agreed
        BY <2>8, <3>1, <3>3, SizesAssumption DEF AInv, Cells, NextBlock
      <4> QED
        BY <2>3, <2>8, <3>3, <4>1, VerifyStep DEF NextBlock, End, Open
    <3> QED BY <2>3, <2>8, <3>2, <3>3 DEF NextBlock
  <2>9. CASE Write
    <3>1. \A c \in Cells : medium[c] => medium'[c]
      BY <2>9 DEF Write
    <3>2. pos <= pos' /\ pc' # "open" /\ result' \in {"none", "ioError"}
          /\ (pc' # "idle" => result' = "none") /\ (pc' = "idle" => result' = "ioError")
      BY <2>2, <2>3, <2>9 DEF Write, AfterTransfer, End, TypeOK
    <3> QED BY <2>9, <3>1, <3>2, OverwriteStep DEF Write
  <2>10. CASE Read
    <3>1. /\ pc' # "open" /\ (pc' # "idle" => result' = "none")
          /\ (pc' = "idle" => result' \in {"mismatch", "ioError"})
      BY <2>2, <2>3, <2>10 DEF Read, AfterTransfer, End, TypeOK
    <3> QED BY <2>3, <2>10, <3>1, VerifyStep DEF Read, Open
  <2>11. CASE TransferFails
    <3>1. CASE method = "write"
      <4>1. \A c \in Cells : medium[c] => medium'[c]
        BY <2>11 DEF TransferFails
      <4> QED
        BY <2>2, <2>11, <3>1, <4>1, OverwriteStep DEF TransferFails, End, TypeOK
    <3>2. CASE method = "verify"
      BY <2>11, <3>2, VerifyStep DEF TransferFails, End, Open
    <3> QED BY <2>3, <2>11, <3>1, <3>2 DEF TransferFails
  <2>12. CASE Crash
    <3>1. Volume!Torn
      <4>1. CASE method = "write"
        <5>1. \A c \in Cells : medium[c] => medium'[c]
          BY <2>12 DEF Crash
        <5> QED
          BY <2>2, <2>12, <4>1, <5>1, StoppedOverwriteIsTorn DEF Crash, End, TypeOK
      <4>2. CASE method = "verify"
        <5>1. UNCHANGED <<header, contents, uniform>>
          BY <2>4, <2>5, <2>12, <4>2 DEF Crash, End, HistoryNext, HeaderPassed, AInv
        <5> QED BY <5>1 DEF Volume!Torn, Volume!disk
      <4> QED BY <2>3, <2>12, <4>1, <4>2 DEF Crash
    <3>2. VolumeLabel' = "idle" /\ VolumeLabel # "idle"
      BY <2>3, <2>12, Labels, NextLabels DEF Crash, End
    <3> QED
      BY <2>12, <3>1, <3>2
      DEF Crash, End, Volume!Crash, Volume!May, Volume!kernel, VolumeCall
  <2>13. CASE Interfere
    <3>1. PICK x \in Cells : medium[x] /\ medium' = [medium EXCEPT ![x] = FALSE]
      BY <2>13 DEF Interfere
    <3>2. medium[x] /\ ~medium'[x]
      BY <2>2, <3>1 DEF TypeOK
    <3>3. ~Uniform' /\ ~uniform'
      BY <3>2 DEF Uniform, AInv
    <3>4. UNCHANGED <<header, contents, agreed>>
      BY <2>13 DEF Interfere, HistoryNext, HeaderPassed, AInv, Open, End
    <3>5. UNCHANGED <<VolumeLabel, VolumeCall, shared, result>> /\ shared
      BY <2>13, <3>4 DEF Interfere, VolumeLabel, VolumeCall, HeaderPassed
    <3>6. CASE uniform
      BY <3>3, <3>4, <3>5, <3>6, HeaderAssumption DEF Volume!FsWrite, Volume!kernel
    <3>7. CASE ~uniform
      BY <3>3, <3>4, <3>5, <3>7 DEF Volume!vars, AInv
    <3> QED BY <3>6, <3>7 DEF AInv
  <2> QED
    BY <2>6, <2>7, <2>8, <2>9, <2>10, <2>11, <2>12, <2>13 DEF Next, Loop
<1> QED BY <1>1, HistoryInvariance, PTL DEF AtomicSpec, ImplementsVolumeSteps
=============================================================================
