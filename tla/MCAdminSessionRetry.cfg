CONSTANTS
    tab1 = tab1
    tab2 = tab2
    cmd1 = cmd1
    cmd2 = cmd2
    s1 = s1
    s2 = s2
    None = None
    Client = {tab1, tab2, cmd1, cmd2}
    Cli = {cmd1, cmd2}
    Session = {s1}
    Policy <- OnePolicy
    Window = 1
    StepsBack = FALSE
    Born = 0
    MaxTime = 2
    MaxToken = 3
    MaxAuth = 1
SPECIFICATION Spec
INVARIANTS RejectionIsRetried
