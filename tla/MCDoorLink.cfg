\* What the kiosk counts: two classes, two commands, two sessions, one line or frame at a time.
SPECIFICATION Spec
CONSTANTS
  Types = {"CAN", "PET"}
  Tolerance = 1
  MaxCommands = 2
  MaxSessions = 2
  MaxQueue = 1
INVARIANTS TypeOK
PROPERTIES CountsNewOpening PaidAgainOnlyIfStale CountsRightClass
