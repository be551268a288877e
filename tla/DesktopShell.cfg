SPECIFICATION ShellSpec
CONSTANT MaxRetries = 4
INVARIANTS
    ShellInv
    ServerDiesWithApp
PROPERTIES
    StartSettles
    QuitExits
CHECK_DEADLOCK FALSE
