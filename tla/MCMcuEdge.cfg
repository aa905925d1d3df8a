\* The claim that every change of the gate is reported to the Jetson.
SPECIFICATION Spec
CONSTANTS
  Types = {"CAN"}
  MinOpen = 2
  MaxOpen = 4
  Step = 60
  LoopTicks = 1
  ReportTicks = 1
  ReportPeriod = 2
  ServiceMoves <- NoServiceMoves
PROPERTIES EveryEdgeReported
