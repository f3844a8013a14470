SPECIFICATION Spec
CONSTANTS
    g1 = g1
    g2 = g2
    x = x
    y = y
    MaxVersion = 4
    ChangeId = {1, 2, 3}
    Char = {x, y}
    Group = {g1, g2}
    NoGroup = NoGroup
    Rest = {r1, r2}
    Menu <- GroupedMenu
    None = None
SYMMETRY Symmetry
CHECK_DEADLOCK FALSE
INVARIANTS
    DocumentMatchesValue
    OrderIsImmaterial
PROPERTIES
    UnseenEditsSurvive
    NamingAllHeadsResolves
