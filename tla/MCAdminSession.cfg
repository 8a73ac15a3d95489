CONSTANTS
    tab1 = tab1
    tab2 = tab2
    cmd1 = cmd1
    cmd2 = cmd2
    s1 = s1
    s2 = s2
    None = None
    Client = {tab1, tab2, cmd1}
    Cli = {cmd1}
    Session = {s1}
    Policy <- MCPolicy
    Window = 1
    StepsBack = TRUE
    Born = 1
    MaxTime = 2
    MaxToken = 2
    MaxAuth = 2
SYMMETRY Symmetric
SPECIFICATION Spec
INVARIANTS RowsStayValid AnnouncedExpiryHolds ResetClosesSessions OneReloadDisplacesNobody
