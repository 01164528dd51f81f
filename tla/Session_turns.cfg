\* Turns of one session under every order of inputs, output and timers.
SPECIFICATION Spec
CONSTANTS
    MaxInputs = 4
    MaxChunks = 5
INVARIANTS
    TypeOK
    AwaitedIsOwed
    QuietIsIdle
PROPERTIES
    TurnAnswered
    TurnsComplete
CHECK_DEADLOCK FALSE
