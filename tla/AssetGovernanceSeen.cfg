SPECIFICATION AssetSpec
CONSTANTS
  Picture = {x}
  Licensed = {x}
  Point = {f}
  AssetCall = {e1, e2, e3, e4}
  Nowhere = Nowhere
INVARIANT CropsShipAsSeen
CHECK_DEADLOCK FALSE
