SPECIFICATION FairSpec
\* The node is gone and nothing is left to do.
CHECK_DEADLOCK FALSE
CONSTANTS
  Devices <- SomeDevices
  Configs <- AllConfigs
  MaxTimeouts = 1
INVARIANTS
  NodeAndDriverAgree
  EndsQuietly
PROPERTIES
  ScansFlow
