SPECIFICATION Spec
CONSTANTS
  h = h
  t1 = t1
  p1 = p1
  p2 = p2
  s1 = s1
  s2 = s2
  s3 = s3
  House = h
  Towers <- MCTowers
  Players <- OnePlayer
  Slots <- TwoSlots
  MaxPaid = 1
  MaxTimers = 1
  Worlds <- BlowsAndUnload
INVARIANT ClosedBoxUsable
