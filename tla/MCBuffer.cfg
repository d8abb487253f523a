\* Vectors of up to seven bytes that start with one for headers and two more.
SPECIFICATION Spec
CONSTANTS
    Byte = {0, 1, 2, 3}
    Zero = 0
    kPrepend = 1
    kInitSize = 2
    ExtraBuf = 2
    Data <- Pieces
    Reserves = {0, 1}
    MaxSize = 7
    SizeMax = 16
INVARIANTS TypeOK
PROPERTIES ImplementsQueue LeavesOnlyBy GrowsOnlyWhenFull
