SPECIFICATION FairSpec
CONSTANTS
  Ids = {i1, i2, i3}
  Room = 0
  Waves = 2
  WaveSize <- OneEach
  BossOf <- TitanLast
  Hp <- TinyHp
  Punches = {1}
  Traps = {}
  Strikes = {1}
  DoorHp = 1
  SummonCount = 1
  SpawnGap = 1
  PipeDelay = 1
  WaveGap = 2
  ResetDelay = 2
  ClearDelay = 1
  LoadoutDelay = 1
  Perils = {"net", "unload", "ungenerated", "strike", "stop"}
INVARIANTS TypeOK OneWaveAtATime EachWaveClearedOnce OneHallOfFameLine ResetOnlyAfterVictory
PROPERTIES ImplementsCampaign VictoryResets NextWaveComes
