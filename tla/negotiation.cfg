SPECIFICATION Spec
CONSTANTS
    Names <- MCNames
    Worlds <- MCWorlds
    NoClause = NoClause
INVARIANT Accepted
INVARIANT Settled
INVARIANT AsNegotiated
INVARIANT NoBogusValue
INVARIANT ExactlyNeeded
INVARIANT NeverAsserted
PROPERTY FinitelyManySteps
