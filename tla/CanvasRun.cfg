SPECIFICATION Spec
CONSTANTS
  Node <- MCNode
  Graphs <- MCGraphs
  NoParent = NoParent
  TurnsOf <- MCTurnsOf
  MaxFaults = 1
INVARIANTS TypeOK NeverBlind NobodyLost EachOnce AnswerFirst ErrorsAreNew IterationsComplete
CHECK_DEADLOCK FALSE
