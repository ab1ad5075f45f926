-------------------------------- MODULE MCEmmc --------------------------------
(***************************************************************************)
(* Values for the constants of Emmc.  A sector has 2 bytes and an argument *)
(* 2 values, so that a drive of 3 sectors has more than an argument can    *)
(* name; the estimates reach both ends of their range and both sides of    *)
(* each other; there is one eMMC, none, or one and an SD card beside it;   *)
(* the limits include the sizes of the drives, and an empty range.         *)
(***************************************************************************)
EXTENDS Emmc, TLC

CONSTANTS d1, d2

Of(kind, size, estA, estB, highSpeedPart, bkopsSupport, bkopsEn) ==
  [kind |-> kind, size |-> size, byteAddressed |-> kind = "SD",
   estA |-> estA, estB |-> estB, highSpeedPart |-> highSpeedPart,
   bkopsSupport |-> bkopsSupport, bkopsEn |-> bkopsEn]

Emmc2  == Of("MMC", 4, 1, 11, TRUE, TRUE, "off")
Emmc3  == Of("MMC", 6, 0, 0, FALSE, FALSE, "off")
NoSize == Of("MMC", 0, 3, 2, TRUE, TRUE, "auto")
SdCard == Of("SD", 4, 12, 1, FALSE, TRUE, "off")
Other  == Of("other", 6, 1, 1, FALSE, FALSE, "off")

SomeMachines ==
  {d1 :> m @@ d2 :> Other : m \in {Emmc2, Emmc3, NoSize, Other}}
    \cup {d1 :> Emmc2 @@ d2 :> SdCard}

SomeConfigs ==
  {[type |-> "EmmcDevice", max |-> m, min |-> n] : m \in {Unset, 4}, n \in {Unset, 6}}
    \cup {[type |-> t, max |-> Unset, min |-> Unset] :
            t \in {"unsupported", "absent", "notString"}}
=============================================================================
