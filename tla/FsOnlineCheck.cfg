SPECIFICATION Spec
CONSTANTS
    Writers = {"w1", "w2"}
    Owns <- Own
    Names = {"a", "b"}
    Torn = Torn
    InodeCapacity = 2
    Machines <- Checked
INVARIANT FilesSurviveCheck
CHECK_DEADLOCK FALSE
