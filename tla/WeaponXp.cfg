SPECIFICATION Spec
CONSTANTS
  Guns <- MCGuns
  Accs <- MCAccs
  AccSlots <- MCSlots
  SlotOf <- MCSlotOf
  MagWith <- MCMagWith
  MagSize = 3
  Size = 3
  ReloadTime = 2
  Contents <- Bought
  MaxGuns = 2
  MaxKills = 1
INVARIANT KillsGiveXp
