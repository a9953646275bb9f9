CONSTANTS
  Threads = {ntfn}
  Main = main
  Sources = {0, 1, 30, 31}
  MsiFrames <- MCFrames
  WordSize = 65536
SPECIFICATION LinesSpec
INVARIANTS
  TypeOK
  WiredOr
  LinesTypeOK
  LinesRest
  MsiDelivered
  AdvertisedRange
CHECK_DEADLOCK FALSE
