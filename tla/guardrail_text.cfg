SPECIFICATION Spec
CONSTANTS
  NoTool = NoTool
  NoIndex = NoIndex
  Raw = Raw
  Indexes <- Both
  Tools <- Both
  Shapes <- Ordinary
  MaxText = 2
  Trailing = FALSE
INVARIANTS TextAccounted FinishIsLast EndsComplete SocketReleased
PROPERTY ReleasedWhenFinal
CHECK_DEADLOCK FALSE
