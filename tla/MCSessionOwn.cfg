\* The claim that only an app's cancel reaches the kiosk.
SPECIFICATION Spec
CONSTANTS
  Members = {u1, u2}
  NoMember = NoMember
  Slots = {1, 2}
  MaxSessions = 2
  MaxItems = 1
  MaxQueue = 2
  MaxScans = 3
PROPERTIES OwnCancelIsHarmless
