SPECIFICATION Spec
CONSTANTS
    StreamLength = 5
    SeqSpace = 16
    Window = 6
    Segments <- AnyCut
    Isns <- LowAndHigh
    Scenarios <- Reordered
CHECK_DEADLOCK FALSE
INVARIANTS
    SubmitsTaken
