SPECIFICATION DisplayFairSpec
CONSTANTS
  stop_drawing = stop_drawing
  Handlers = {blank, stop_drawing}
  level <- MCLevel
  EarlyWorkers = {es0, es1}
  LateWorkers = {lr0, lr1}
VIEW View
INVARIANTS
  MainHeldUnlessSuspended
  HandlersMatchState
  LevelOrder
  QuietWhileStopped
  NoLostWakeup
PROPERTIES
  DrawingFollowsRequest
