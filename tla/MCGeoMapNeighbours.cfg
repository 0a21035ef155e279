CONSTANTS
    Branch = 2
    MaxLevel = 4
    Faces = 1
    Units = {1}
    Key = {k1}
    Region <- MCStoredCovers
    QueryRegion <- MCDeepQueries
    MinLevel = 0
    LevelRange = 2
    BlockSize = 3
    EmptyFirst = {0, 5}
    Unlucky = {}
    MaxWrites = 2
    NoFile = NoFile
SPECIFICATION Spec
INVARIANT OnlyMatchesReturned
