SPECIFICATION Spec
CONSTANTS
    Tools = {t1}
    Hook = Hook
    NoTool = NoTool
    Ends <- MCEnds
    Casts <- MCPoll
    MaxText = 1
    MaxSweeps = 0
CHECK_DEADLOCK FALSE
INVARIANT TerminalNamed
