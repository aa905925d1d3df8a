\* What must eventually happen: two members' apps, one session, one request at a time.
SPECIFICATION FairSpec
CONSTANTS
  Members = {u1, u2}
  NoMember = NoMember
  Slots = {1}
  MaxSessions = 1
  MaxItems = 1
  MaxQueue = 1
  MaxScans = 3
INVARIANTS TypeOK
PROPERTIES FinishedIsCredited AppFollowsKiosk
