SPECIFICATION Spec
CONSTANTS
    Name = {"d", "e"}
    MaxInode = 3
    MaxOp = 4
CHECK_DEADLOCK FALSE
INVARIANT AllWatched
