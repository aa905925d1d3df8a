\* The super loop and its interrupts: two classes, ramps of two ticks, a console line that sends a
\* bottom servo home slowly, again and again if it likes.
SPECIFICATION Spec
CONSTANTS
  Types = {"CAN", "VINYL"}
  MinOpen = 6
  MaxOpen = 7
  Step = 80
  LoopTicks = 1
  ReportTicks = 1
  ReportPeriod = 1
  ServiceMoves <- SomeServiceMoves
INVARIANTS TypeOK OpenBounded ClosedIsNeutral TopFollowsBottoms
PROPERTIES ClosesOnlyAfterRouted GateCloses ImplementsGate
