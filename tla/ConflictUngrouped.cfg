SPECIFICATION Spec
CONSTANTS
    g1 = g1
    g2 = g2
    x = x
    y = y
    MaxVersion = 4
    ChangeId = {1, 2, 3}
    Char = {x}
    Group = {g1}
    NoGroup = NoGroup
    Rest = {r1}
    Menu <- UngroupedMenu
    None = None
CHECK_DEADLOCK FALSE
INVARIANT
    DocumentMatchesValue
