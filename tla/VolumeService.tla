---------------------------- MODULE VolumeService ----------------------------
(***************************************************************************)
(* What clients are promised of a volume, whatever goes wrong beneath it.  *)
(* A method changes how accessible the volume is in one step, or not at    *)
(* all, or it strands the volume; each method has its own ways of losing   *)
(* passwords or contents, and no others.  EStoraged implements this        *)
(* (VolumeRefinement).                                                     *)
(***************************************************************************)
CONSTANTS Passwords,   \* the passwords clients use
          Calls,       \* the method calls: op, pw, new
          NoCall       \* no call is being served

VARIABLES
  access,    \* "locked", "unlocked", or "limbo": stranded in between
  openers,   \* the passwords that open the volume
  contents,  \* there is a filesystem to come back to
  request,   \* the call being served, or NoCall
  reply      \* its answer, or the last one: "none", "ok", "error"

volume == <<access, openers, contents>>
vars   == <<access, openers, contents, request, reply>>

Init ==
  /\ access = "locked" /\ openers \in SUBSET Passwords /\ contents \in BOOLEAN
  /\ request = NoCall /\ reply = "none"

Ask(c) ==
  /\ request = NoCall
  /\ request' = c /\ reply' = "none"
  /\ UNCHANGED volume

(* A call that is not served at all.                                       *)
Reject ==
  /\ request = NoCall
  /\ reply' = "error"
  /\ UNCHANGED <<volume, request>>

Overwrites == {"LogicalOverWrite", "ZeroOverWrite"}
Verifies   == {"LogicalVerify", "ZeroVerify"}

(* What a call may have cost when it ends badly, or on its way.            *)
Costs(c) ==
  \/ UNCHANGED <<openers, contents>>
  \/ /\ c.op = "FormatLuks" /\ access = "locked"
     /\ openers' = {} /\ contents' = FALSE
  \/ /\ c.op \in Overwrites
     /\ openers' = {} /\ contents' \in {contents, FALSE}
  \/ /\ c.op = "VendorSanitize"
     /\ openers' \in {openers, {}} /\ contents' \in {contents, FALSE}
  \/ /\ c.op = "CryptoErase"
     /\ openers' \in SUBSET openers /\ UNCHANGED contents
  \/ /\ c.op = "ChangePassword" /\ c.pw \in openers
     /\ openers' = openers \cup {c.new} /\ UNCHANGED contents

(* What FormatLuks builds on a volume it has emptied.                      *)
Builds(c) ==
  /\ c.op = "FormatLuks" /\ access = "locked" /\ ~contents
  /\ \/ openers = {} /\ openers' = {c.pw} /\ UNCHANGED contents
     \/ openers = {c.pw} /\ contents' = TRUE /\ UNCHANGED openers

Progress ==
  /\ request # NoCall
  /\ Costs(request) \/ Builds(request)
  /\ UNCHANGED <<access, request, reply>>

(* The one step in which a method that succeeds does what it promises.     *)
Does(c) ==
  \/ /\ c.op \in {"FormatLuks", "Unlock"}
     /\ access = "locked" /\ contents
     /\ IF c.op = "Unlock" THEN c.pw \in openers ELSE openers = {c.pw}
     /\ access' = "unlocked" /\ UNCHANGED <<openers, contents>>
  \/ /\ c.op \in {"Lock", "SecuredLocked"}
     /\ access = "unlocked"
     /\ access' = "locked" /\ UNCHANGED <<openers, contents>>
  \/ /\ c.op = "SecuredLocked"
     /\ access = "locked" /\ UNCHANGED volume
  \/ /\ c.op = "ChangePassword" /\ c.pw \in openers
     /\ openers' = (openers \ {c.pw}) \cup {c.new} /\ UNCHANGED <<access, contents>>
  \/ /\ c.op = "CryptoErase"
     /\ openers' = {} /\ UNCHANGED <<access, contents>>
  \/ /\ c.op \in Overwrites \cup {"VendorSanitize"}
     /\ openers' = {} /\ contents' = FALSE /\ UNCHANGED access
  \/ /\ c.op \in Verifies
     /\ openers = {} /\ ~contents /\ UNCHANGED volume
  \/ c.op = "VerifyGeometry" /\ UNCHANGED volume

Succeed ==
  /\ request # NoCall
  /\ Does(request)
  /\ request' = NoCall /\ reply' = "ok"

(* An error, or no answer because the daemon died.  The volume is as       *)
(* accessible as before the call, or stranded by a method that opens or    *)
(* closes it.                                                              *)
Fail ==
  /\ request # NoCall
  /\ Costs(request)
  /\ \/ UNCHANGED access
     \/ request.op \in {"FormatLuks", "Unlock", "Lock", "SecuredLocked"}
          /\ access' = "limbo"
  /\ request' = NoCall /\ reply' \in {"error", "none"}

(* A filesystem in use is damaged beyond repair.                           *)
Damage ==
  /\ access = "unlocked"
  /\ contents' = FALSE
  /\ UNCHANGED <<access, openers, request, reply>>

(* The machine is started again, at any moment.                            *)
PowerCycle ==
  /\ IF request = NoCall THEN UNCHANGED <<openers, contents>> ELSE Costs(request)
  /\ access' = "locked" /\ request' = NoCall /\ reply' = "none"

Next ==
  \/ \E c \in Calls : Ask(c)
  \/ Reject \/ Progress \/ Succeed \/ Fail \/ Damage \/ PowerCycle

Spec == Init /\ [][Next]_vars
=============================================================================
