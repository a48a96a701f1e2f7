SPECIFICATION Spec
CONSTANTS
    Writers = {"w1", "w2"}
    Owns <- Own
    Names = {"a", "b"}
    Torn = Torn
    InodeCapacity = 2
    Machines <- Volumes
INVARIANTS CrashAtomic FilesAsAcknowledged FreeMapExact RepairConverges
CHECK_DEADLOCK FALSE
