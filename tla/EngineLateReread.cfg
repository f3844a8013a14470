SPECIFICATION EngineSpec
CONSTANTS
    k1 = k1
    k2 = k2
    u1 = u1
    u2 = u2
    i1 = i1
    q1 = q1
    q2 = q2
    q3 = q3
    o1 = o1
    Key = {k1}
    Version = {1, 2, 3, 4, 5}
    Unit = {u1}
    Policy = {p1}
    Identity = {i1}
    Request = {q1, q2, q3}
    None = None
    Mint <- AnyFresh
    NewVersions <- MintInOrder
    Req = {r1, r2, r3}
    Node = {n1}
    Menu <- DriftMenu
    Deadlines = TRUE
    MaxDraw = 2
SYMMETRY Symmetry
INVARIANT
    RefusedIsUnpublished
