SPECIFICATION ShmSpec
CONSTANTS
  Processes = {p1, p2}
  Keys = {7, 8}
  Ids = {0, 1, 2}
  Sizes = {1, 2}
  MaxSegments = 2
  AddressEnd = 2
  CountSpace = 8
  Allowed = {"exec", "kill"}
  NoId = NoId
INVARIANTS MappingIsBacked RemovedIsForgotten
CHECK_DEADLOCK FALSE
