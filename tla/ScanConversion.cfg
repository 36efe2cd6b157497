\* 4 cells (or 8) of 3 angles each; scans of 1, 3 and 4 samples.
SPECIFICATION ConversionSpec
CONSTANTS
  Circle = 12
  Degrees = 4
  Multiples = {1, 2}
  Counts = {1, 3, 4}
  RawAngles = {0, 4, 5, 8, 11}
INVARIANTS
  MeasurementsKeepTheirAngles
  MeasurementsAreShown
  RaysPointToMeasurements
