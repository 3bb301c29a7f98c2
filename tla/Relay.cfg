CONSTANTS
  Node = {"a", "b", "c"}
  Origin = "a"
  Links <- MCTriangle
  RetryTicks = 1
  MaxBreaks = 2
SPECIFICATION Spec
PROPERTY Relayed
CHECK_DEADLOCK FALSE
