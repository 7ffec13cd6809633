SPECIFICATION FairSpec
CONSTANTS
  Ids = {i1, i2, i3, i4}
  Room = 4
  Waves = 2
  WaveSize <- TwoWaves
  BossOf <- LastBoss
  Hp <- SmallHp
  Punches = {1, 3}
  Traps = {2}
  Strikes = {1}
  DoorHp = 2
  SummonCount = 1
  SpawnGap = 1
  PipeDelay = 1
  WaveGap = 2
  ResetDelay = 2
  ClearDelay = 1
  LoadoutDelay = 1
  Perils = {"unload", "strike"}
INVARIANTS CountIsExact
PROPERTIES VictoryResets NextWaveComes
