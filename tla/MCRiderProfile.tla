------------------------- MODULE MCRiderProfile -------------------------
(* Instances of RiderProfile small enough for TLC.                       *)
EXTENDS RiderProfile, TLC

CONSTANTS r1, r2, phone, laptop

OneBrowser  == [r \in Requests |-> phone]
TwoBrowsers == r1 :> phone @@ r2 :> laptop
=========================================================================
