SPECIFICATION Spec
CONSTANTS
  Names = {1, 2, 3}
  Begins <- MCBegins
  Timeouts = {0, 5, 7, 15, 31}
  Jiffy = 2
  LongWidth = 3
  U64Width = 5
INVARIANTS
  TreeInOrder
  HeldAsAsked
