CONSTANTS
    Branch = 2
    MaxLevel = 3
    Faces = 1
    Units = {1, 4}
    Key = {k1}
    Region <- MCCovers
    QueryRegion <- MCCovers
    MinLevel = 1
    LevelRange = 1
    BlockSize = 3
    EmptyFirst = {0, 5}
    Unlucky = {}
    MaxWrites = 1
    NoFile = NoFile
SPECIFICATION Spec
INVARIANT OwnCoverFound
