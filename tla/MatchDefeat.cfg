SPECIFICATION FairSpec
CONSTANTS
  Ids = {i1, i2}
  Room = 0
  Waves = 2
  WaveSize <- OneEach
  BossOf <- NoBoss
  Hp <- TinyHp
  Punches = {1}
  Traps = {}
  Strikes = {2}
  DoorHp = 2
  SummonCount = 1
  SpawnGap = 1
  PipeDelay = 1
  WaveGap = 2
  ResetDelay = 2
  ClearDelay = 1
  LoadoutDelay = 1
  Perils = {"strike"}
PROPERTIES DefeatResets
