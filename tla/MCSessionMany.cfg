\* Who is paid: two members' apps, two sessions, two requests at a time, over every order of them.
SPECIFICATION Spec
CONSTANTS
  Members = {u1, u2}
  NoMember = NoMember
  Slots = {c1, c2}
  MaxSessions = 2
  MaxItems = 1
  MaxQueue = 2
  MaxScans = 2
SYMMETRY Alike
INVARIANTS CreditedOnce LogsExplainPoints FinishedIsKept
