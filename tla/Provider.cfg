SPECIFICATION StoriesSpec
CONSTANTS
    Key = {k1, k2}
    Version = {1, 2, 3}
    Unit = {u1, u2}
    Policy = {p1, p2}
    Identity = {i1}
    Request = {q1, q2}
    None = None
    Mint <- MintOne
SYMMETRY Symmetry
INVARIANTS
    TypeOK
    HeadsHaveRows
    HistoryMatchesHeads
    BaselineIsSnapshot
    BatchIsAtomic
    SealedUnitHasDrift
    IdempotencyDisjoint
PROPERTIES
    UnitOutcomeIsFinal
