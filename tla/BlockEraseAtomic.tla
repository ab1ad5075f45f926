--------------------------- MODULE BlockEraseAtomic ---------------------------
(***************************************************************************)
(* EStoraged takes an overwrite for two steps, one that ends with the LUKS *)
(* header gone and one that does the rest, and a verification for two, of  *)
(* which the first finds the device as expected.  The block loops of       *)
(* BlockErase implement these steps, on a device with a header and a       *)
(* filesystem or without, whoever writes to it meanwhile.                  *)
(***************************************************************************)
EXTENDS BlockErase

CONSTANTS HeaderSize,   \* the header is gone when so many cells are written
          Content       \* "zero" or "pattern"

(* The header is on the device, and something comes after it.              *)
ASSUME HeaderAssumption ==
  /\ HeaderSize \in Nat \ {0} /\ HeaderSize < DriveSize
  /\ Content \in {"zero", "pattern"}

VARIABLES
  header,     \* the LUKS header is there
  contents,   \* the filesystem behind it is there
  uniform,    \* the volume takes the device to read as Content everywhere
  agreed      \* the device read as Content everywhere when it was opened

history == <<header, contents, uniform, agreed>>
avars   == <<vars, history>>

Uniform == \A c \in Cells : medium[c]

(* Neither a header nor a filesystem reads as Content.                     *)
AtomicInit ==
  /\ Init
  /\ header \in BOOLEAN /\ (header => ~medium[HeaderSize - 1])
  /\ contents \in BOOLEAN
  /\ contents => \E c \in Cells : c >= HeaderSize /\ ~medium[c]
  /\ uniform = Uniform /\ agreed = FALSE

HeaderPassed == method = "write" /\ pos >= HeaderSize

(* While it overwrites, the volume does not know how much has become       *)
(* uniform already; it does when it has ended.                             *)
HistoryNext ==
  /\ header' = (header /\ ~HeaderPassed')
  /\ contents' = (contents /\ ~(HeaderPassed' /\ pc # "idle" /\ pc' = "idle"))
  /\ uniform' = IF method' = "write" /\ pc' # "idle"
                  THEN uniform /\ \A c \in Cells : medium[c] => medium'[c]
                  ELSE Uniform'
  /\ agreed' = IF Open THEN Uniform ELSE agreed

AtomicNext == Next /\ HistoryNext

AtomicSpec == AtomicInit /\ [][AtomicNext]_avars /\ WF_vars(Loop)

-----------------------------------------------------------------------------
CallOf(op) == [op |-> op, pw |-> -1, new |-> -1]

VolumeCall ==
  CASE method = "none"   -> CallOf("none")
    [] method = "write"  -> CallOf(IF Content = "zero" THEN "ZeroOverWrite"
                                                       ELSE "LogicalOverWrite")
    [] method = "verify" -> CallOf(IF Content = "zero" THEN "ZeroVerify"
                                                       ELSE "LogicalVerify")

VolumeLabel ==
  CASE pc = "idle" -> "idle"
    [] pc # "idle" /\ method = "write" ->
         IF HeaderPassed THEN "overwriteRest" ELSE "overwriteHeader"
    [] pc # "idle" /\ method = "verify" ->
         IF pc # "open" /\ agreed THEN "compare" ELSE "verify"

Volume == INSTANCE EStoraged WITH
  Passwords  <- {0},
  NoPassword <- -1,
  Faults     <- {"io", "crash"},
  luks       <- header,
  keys       <- IF header THEN {0} ELSE {},
  fs         <- IF contents THEN "clean" ELSE "none",
  raw        <- IF uniform THEN Content ELSE "data",
  mapped     <- shared,
  mounted    <- shared,
  mountPoint <- shared,
  pc         <- VolumeLabel,
  call       <- VolumeCall,
  before     <- IF shared THEN "unlocked" ELSE "locked",
  reply      <- IF result \in {"none", "ok"} THEN result ELSE "error"

(* Seen from the volume, the loops are the steps of EStoraged: the header  *)
(* goes first, a failure or a crash leaves what Torn says, an overwrite    *)
(* that succeeds leaves its content, and a verification that succeeds      *)
(* began on a device that had it.                                          *)
ImplementsVolumeSteps ==
  [][\/ \E c \in Volume!Calls : Volume!Receive(c)
     \/ Volume!OverwriteHeader \/ Volume!OverwriteRest
     \/ Volume!Verify \/ Volume!Compare
     \/ Volume!FsWrite \/ Volume!Crash]_(Volume!vars)
=============================================================================
