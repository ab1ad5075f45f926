----------------------------- MODULE MCEStoraged -----------------------------
(***************************************************************************)
(* Values for the constants of EStoraged.  Two passwords suffice: a        *)
(* keyslot accepts one, ChangePassword handles two, and the code compares  *)
(* passwords only for equality.                                            *)
(***************************************************************************)
EXTENDS VolumeRefinement

AnyFault == FaultKinds
ContainedFaults == FaultKinds \ StrandingFaults
=============================================================================
