SPECIFICATION FairSpec
CONSTANTS
  MaxRev = 5
  SamplesPerRev = 4
  Capacity = 3
  Counts = {2, 4}
  LossyRevs = {3}
  SpuriousWakeup = FALSE
  StopDrains = TRUE
INVARIANTS
  AvailableWhenReading
  DeliveredIsOneRevolution
  NeverAnOlderScan
PROPERTIES
  MailboxSpec
