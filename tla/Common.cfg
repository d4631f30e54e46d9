SPECIFICATION CommonSpec
CONSTANTS
    Strings <- Texts
    Words <- Numbers
    BufferSize = 5
    MaxItems = 2
    MaxSize = 7
    WIDTH = 3
    LimbBytes = 2
    DigitBits = 1
    Operand = {0, 1, 17, 255, 256, 2063, 4095}
INVARIANTS
    ContentIsUnread
    ReadsInOrder
    ArithmeticIsModular
    QuotientIsFloor
    ShiftsAreExact
    FormsAgree
CHECK_DEADLOCK FALSE
