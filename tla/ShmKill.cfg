SPECIFICATION ShmSpec
CONSTANTS
  Processes = {p1, p2}
  Keys = {7, 8}
  Ids = {0, 1, 2}
  Sizes = {1, 2}
  MaxSegments = 2
  AddressEnd = 3
  CountSpace = 8
  Allowed = {"kill"}
  NoId = NoId
INVARIANTS AttachedIsMapped
CHECK_DEADLOCK FALSE
