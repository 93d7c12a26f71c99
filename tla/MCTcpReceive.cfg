SPECIFICATION Spec
CONSTANTS
    StreamLength = 5
    SeqSpace = 16
    Window = 6
    Segments <- AnyCut
    Isns <- LowAndHigh
    Scenarios <- Each
CHECK_DEADLOCK FALSE
INVARIANTS
    RcvNxtTracks
    
    IndicatedOnce
    QueueCorrect
PROPERTY
    StreamArrives
