------------------------------ MODULE MCWeapon ------------------------------
(* Small inventories for Weapon: pistols of three rounds, and the two         *)
(* magazines of tgw_combat 764-773, which hold 1.5 and 2 times as much.       *)
EXTENDS Weapon, TLC

MCGuns     == {"pistol"}
MCAccs     == {"drum", "ext_mag"}
MCSlots    == {"mag", "sight"}
MCSlotOf   == "drum" :> "mag" @@ "ext_mag" :> "mag"
MCMagWith  == "drum" :> 6 @@ "ext_mag" :> 5
Bought     == <<"pistol", "ext_mag", "drum">>
=============================================================================
