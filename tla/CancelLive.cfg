SPECIFICATION Spec
CONSTANTS
    Script <- MCScript
    Header = 1
    MaxFaults = 1
    MaxStops = 2
    Conns = {c1}
    Window = 4
    MaxBreaks = 1
INVARIANTS EndLeavesNothing TerminalIsLast
PROPERTIES NothingMissed StopEnds
CHECK_DEADLOCK FALSE
