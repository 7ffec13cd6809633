SPECIFICATION Spec
CONSTANTS
  Ids = {i1, i2, i3, i4}
  Room = 0
  Waves = 2
  WaveSize <- TwoWaves
  BossOf <- LastBoss
  Hp <- SmallHp
  Punches = {2}
  Traps = {2}
  Strikes = {}
  DoorHp = 2
  SummonCount = 1
  SpawnGap = 1
  PipeDelay = 1
  WaveGap = 2
  ResetDelay = 2
  ClearDelay = 1
  LoadoutDelay = 1
  Perils = {"unload"}
SYMMETRY Symmetry
INVARIANTS CountIsExact
