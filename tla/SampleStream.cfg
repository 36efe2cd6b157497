SPECIFICATION Spec
CONSTANTS
  PacketSize = 4
  Points <- MCPoints
  Cabins <- MCCabins
  SampleDuration = 250
  Transmission = 100
  UsedKinds <- Kinds
  Starts <- MCStarts
  Steps <- MCSteps
  Fills = {"00", "A5"}
  Garbage <- MCGarbage
  MaxSessions = 2
  MaxPackets = 6
  EarlierPackets = 2
  MaxLate = 1
  MaxFaults = 1
CHECK_DEADLOCK FALSE
INVARIANTS
  NeighboursOnly
  SyncsMatchTurns
  EveryPacketDecoded
  StampedInTime
