SPECIFICATION FairSpec
CONSTANTS
    Names <- MCNames
    Worlds <- MCTwice
    NoClause = NoClause
PROPERTY Terminates
