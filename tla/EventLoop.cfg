SPECIFICATION FairSpec
CONSTANTS
  Size = 2
  Events = {e1, e2, e3}
  NoEvent = NoEvent
  Producers = {p1, p2, loop}
  Modes = {"Drop", "Block"}
  Self = loop
  Reporters = {r1}
CHECK_DEADLOCK FALSE
INVARIANTS
  SlotsInOrder
  DispatchAnswerIsTrue
PROPERTIES
  IsEventQueue
  LoopProgress
