--------------------------- MODULE VolumeRefinement ---------------------------
(***************************************************************************)
(* EStoraged implements VolumeService.  The steps of a method that opens   *)
(* or closes the device leave it mapped and not mounted in between; for    *)
(* the client it is then still as it was when the call arrived.            *)
(***************************************************************************)
EXTENDS EStoraged

ClientAccess == IF pc \in MidMethod THEN before ELSE Access
Serving == IF pc = "idle" THEN NoCall ELSE call

Volume == INSTANCE VolumeService WITH
  access   <- ClientAccess,
  openers  <- keys,
  contents <- fs # "none",
  request  <- Serving

(* Clients see a method change the access to the volume in one step or not *)
(* at all, unless it strands the volume, and each method costs them only   *)
(* what it is allowed to, whatever fails, dies or loses power.             *)
ImplementsVolumeService == Volume!Spec
=============================================================================
