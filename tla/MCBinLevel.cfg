\* The filter with its real window, calibration and thresholds; the counter wraps every six ticks.
SPECIFICATION Spec
CONSTANTS
  Half = 3
  Blanking = 2
  Window = 5
  Outlier = 5
  Empty = 38
  Full = 8
  DefaultEmpty = 30
  Reach = 20
  Readings <- SpreadReadings
INVARIANTS TypeOK SettlesOnSteady MajorityDecides
PROPERTIES BlanksAfterDrop
