CONSTANTS
    Rows = 2
    Cols = 3
    Wrap = 8
    Chars = {"a", "b", "k", "1", "2"}
    Newline = "nl"
    Texts <- SomeTexts
    KeyTexts <- SomeKeyTexts
    MaxTexts = 4
    MaxKeys = 1
SPECIFICATION Spec
INVARIANTS TypeOK DrawsInsideAlone  PortWhole InterruptsAsBefore
PROPERTIES KeysAreServed
CHECK_DEADLOCK FALSE
