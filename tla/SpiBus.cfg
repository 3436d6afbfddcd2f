SPECIFICATION Spec
CONSTANTS
  Commands <- MCCommands
  MaxCommands = 2
INVARIANTS TypeOK AnswersWhole OneWaiter
PROPERTIES FramesWhole CommandEnds
CHECK_DEADLOCK FALSE
