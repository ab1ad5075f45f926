------------------------------ MODULE BlockErase ------------------------------
(***************************************************************************)
(* The loops behind LogicalOverWrite, LogicalVerify, ZeroOverWrite and     *)
(* ZeroVerify (src/src/erase/zero.cpp, src/src/erase/pattern.cpp): a pass  *)
(* over the device in blocks, each block moved by reads or writes that may *)
(* be short, may do nothing, or may fail, with a bounded number of retries *)
(* per block.  Zero and Pattern differ only in the content they write and  *)
(* expect, so a cell of the medium is either that content or not.          *)
(***************************************************************************)
EXTENDS Integers, Ranking

CONSTANTS DriveSize,   \* what findSizeOfBlockDevice returned
          BlockSize,   \* blockSize, 4096 in the code
          MaxRetry,    \* maxRetry, 32 in the code
          Modulus      \* the range of uint64_t, 2^64

(* Index arithmetic does not wrap: no device ends within a block of 2^64.  *)
ASSUME SizesAssumption ==
  /\ DriveSize \in Nat /\ BlockSize \in Nat \ {0} /\ MaxRetry \in Nat
  /\ Modulus \in Nat /\ DriveSize + BlockSize <= Modulus

VARIABLES
  shared,        \* the volume is mounted meanwhile, and written to
  medium,        \* which cells hold the content that is written and expected
  pos,           \* the file offset of the descriptor
  method,        \* "write" or "verify", or "none" at first
  pc,            \* "idle", "open", "block" (between blocks), "io" (inside one)
  currentIndex,  \* where the current block starts
  size,          \* writeSize, readSize: the length of the current block
  moved,         \* written, read: how much of it is done
  retry,         \* the short transfers of this block
  matches,       \* all of what was read of this block was as expected
  result         \* "none", "ok", "mismatch" or "ioError"

vars == <<shared, medium, pos, method, pc, currentIndex, size, moved, retry,
          matches, result>>

Cells == 0 .. DriveSize - 1

Init ==
  /\ shared \in BOOLEAN
  /\ medium \in [Cells -> BOOLEAN]
  /\ pos = 0 /\ method = "none" /\ pc = "idle"
  /\ currentIndex = 0 /\ size = 0 /\ moved = 0 /\ retry = 0
  /\ matches = TRUE /\ result = "none"

End(r) == pc' = "idle" /\ result' = r

Call(m) ==
  /\ pc = "idle"
  /\ method' = m /\ pc' = "open" /\ result' = "none"
  /\ pos' = 0 /\ currentIndex' = 0 /\ size' = 0 /\ moved' = 0 /\ retry' = 0
  /\ matches' = TRUE
  /\ UNCHANGED <<shared, medium>>

(* open() and findSizeOfBlockDevice; either may throw.                     *)
Open ==
  /\ pc = "open"
  /\ \/ pc' = "block" /\ UNCHANGED result
     \/ End("ioError")
  /\ UNCHANGED <<shared, medium, pos, method, currentIndex, size, moved,
                 retry, matches>>

(* Slips: the last block taken for a full one; its length subtracted the   *)
(* wrong way round; one pass too many.                                     *)
LengthRounded(index) == BlockSize
LengthReversed(index) ==
  IF index + BlockSize < DriveSize THEN BlockSize ELSE index - DriveSize
MoreToDoAtEnd(index) == index <= DriveSize

LengthAt(index) ==
  IF (index + BlockSize) % Modulus < DriveSize
    THEN BlockSize
    ELSE (DriveSize - index) % Modulus

MoreToDo(index) == index < DriveSize

NextBlock ==
  /\ pc = "block"
  /\ IF MoreToDo(currentIndex)
       THEN /\ size' = LengthAt(currentIndex)
            /\ moved' = 0 /\ retry' = 0 /\ matches' = TRUE
            /\ pc' = "io" /\ UNCHANGED result
       ELSE /\ End("ok")
            /\ UNCHANGED <<size, moved, retry, matches>>
  /\ UNCHANGED <<shared, medium, pos, method, currentIndex>>

(* A slip: a block is done after its first transfer.                       *)
AfterAnyTransfer(k, good) ==
  /\ moved' = moved + k
  /\ currentIndex' = (currentIndex + size) % Modulus
  /\ pc' = "block" /\ UNCHANGED <<retry, result>>

(* What follows a transfer of k cells: the block is done, or it is tried   *)
(* again from where it stopped, or the retries are used up.                *)
AfterTransfer(k, good) ==
  /\ moved' = moved + k
  /\ \/ /\ moved + k = size
        /\ IF good
             THEN /\ currentIndex' = (currentIndex + size) % Modulus
                  /\ pc' = "block" /\ UNCHANGED result
             ELSE End("mismatch") /\ UNCHANGED currentIndex
        /\ UNCHANGED retry
     \/ /\ moved + k < size
        /\ retry' = retry + 1
        /\ IF retry + 1 > MaxRetry THEN End("ioError") ELSE UNCHANGED <<pc, result>>
        /\ UNCHANGED currentIndex

(* fd.write of the rest of the block; the device takes up to its end.      *)
Write ==
  /\ pc = "io" /\ method = "write"
  /\ \E k \in 0 .. size - moved :
       /\ pos + k <= DriveSize
       /\ medium' = [c \in Cells |-> medium[c] \/ (pos <= c /\ c < pos + k)]
       /\ pos' = pos + k
       /\ AfterTransfer(k, TRUE)
  /\ UNCHANGED <<shared, method, size, matches>>

(* fd.read of the rest of the block, and the comparison once it is whole.  *)
Read ==
  /\ pc = "io" /\ method = "verify"
  /\ \E k \in 0 .. size - moved :
       /\ pos + k <= DriveSize
       /\ matches' = (matches /\ \A c \in pos .. pos + k - 1 : medium[c])
       /\ pos' = pos + k
       /\ AfterTransfer(k, matches')
  /\ UNCHANGED <<shared, method, size, medium>>

(* fd.write or fd.read throws, or reports more than it was asked for.      *)
TransferFails ==
  /\ pc = "io"
  /\ End("ioError")
  /\ UNCHANGED <<shared, medium, pos, method, currentIndex, size, moved,
                 retry, matches>>

(* A mounted filesystem writes to the device.                              *)
Interfere ==
  /\ shared
  /\ \E c \in Cells : medium[c] /\ medium' = [medium EXCEPT ![c] = FALSE]
  /\ UNCHANGED <<shared, pos, method, pc, currentIndex, size, moved, retry,
                 matches, result>>

(* The daemon dies.                                                        *)
Crash ==
  /\ pc # "idle"
  /\ End("none")
  /\ UNCHANGED <<shared, medium, pos, method, currentIndex, size, moved,
                 retry, matches>>

Loop == Open \/ NextBlock \/ Write \/ Read \/ TransferFails
Next == (\E m \in {"write", "verify"} : Call(m)) \/ Loop \/ Crash \/ Interfere

(* A method that is running keeps running.                                 *)
Spec == Init /\ [][Next]_vars /\ WF_vars(Loop)

-----------------------------------------------------------------------------
(* Properties.                                                             *)

TypeOK ==
  /\ shared \in BOOLEAN
  /\ medium \in [Cells -> BOOLEAN]
  /\ pos \in Nat /\ currentIndex \in Nat /\ size \in Nat /\ moved \in Nat
  /\ retry \in Nat
  /\ method \in {"none", "write", "verify"} 
  /\ pc \in {"idle", "open", "block", "io"}
  /\ matches \in BOOLEAN
  /\ result \in {"none", "ok", "mismatch", "ioError"}

(* However the transfers are cut up, the loop's index and the descriptor's *)
(* offset agree, and no block reaches past the end of the device.          *)
IndexFollowsOffset ==
  /\ pc = "block" => pos = currentIndex /\ currentIndex <= DriveSize
  /\ pc = "io" => /\ pos = currentIndex + moved /\ moved < size
                  /\ currentIndex + size <= DriveSize /\ retry <= MaxRetry

(* An overwrite that ends in an error, or is still running, has replaced   *)
(* everything up to where it stopped, the LUKS header first; one that      *)
(* succeeds has replaced everything.                                       *)
OverwriteIsExact ==
  method = "write" /\ ~shared =>
    /\ \A c \in Cells : c < pos => medium[c]
    /\ result = "ok" => \A c \in Cells : medium[c]

(* A verification succeeds only if the whole device is as expected, and    *)
(* reports a mismatch only if it is not.                                   *)
VerifyIsExact ==
  method = "verify" /\ ~shared =>
    /\ result = "ok" => \A c \in Cells : medium[c]
    /\ result = "mismatch" => \E c \in Cells : ~medium[c]

(* Every method ends, even if the device never moves a cell.               *)
EveryMethodEnds == pc # "idle" ~> pc = "idle"

(* Why: each step of a method opens the device, completes a block, uses up *)
(* one of its retries or ends the method, and writes by others change      *)
(* nothing of that.                                                        *)
Rank ==
  <<CASE pc = "idle" -> 0 [] pc = "open" -> 2 [] pc \in {"block", "io"} -> 1,
    DriveSize - currentIndex,
    IF pc = "io" THEN MaxRetry - retry ELSE MaxRetry + 1>>

EveryStepAdvances ==
  [][pc # "idle" =>
       /\ Rank \in Ranks
       /\ Lower(Rank', Rank) \/ (Interfere /\ UNCHANGED Rank)]_vars
=============================================================================
