CONSTANTS
    b1 = b1
    Bots = {b1}
    Enabled = {b1}
    MaxInst = 1
    Faults = {"shutdown"}
SPECIFICATION LiveSpec
PROPERTY ExitIsNoticed
