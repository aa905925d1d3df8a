\* The claim that only a recent drop blanks the sensor.
SPECIFICATION Spec
CONSTANTS
  Half = 6
  Blanking = 3
  Window = 2
  Outlier = 5
  Empty = 38
  Full = 8
  DefaultEmpty = 30
  Reach = 20
  Readings <- SpreadReadings
INVARIANTS BlankedOnlyAfterDrop
