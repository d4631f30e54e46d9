SPECIFICATION Spec
CONSTANTS
  ByteBits = 2
  Bytes = 8
  TimeBits = 12
  CycleTimestamp = 288
  HighestTarget = 4095
  GenesisTarget = 3840
  Times <- CycleTimes
PROPERTIES
  TheoreticalTimeKeepsTarget
