SPECIFICATION RetrievalSpec
CONSTANTS
    Key = {1, 2, 3}
    Version = {1, 2, 3, 4}
    Unit = {u1}
    Policy = {p1}
    Identity = {}
    Request = {}
    None = None
    Mint <- MintOne
    Session = {s1}
    Limit = 2
    Order = {"newest", "oldest", "id_asc", "id_desc"}
    MaxTime = 2
    ReadSeeds = {1, 2}
    WalkSeeds = {1, 2, 3}
INVARIANTS
    ReadsMeetTheirFloor
    SearchAgreesWithRead
    WalkReturnsSteadyOnce
