CONSTANTS
    Branch = 2
    MaxLevel = 4
    Faces = 1
    Units = {1, 4}
    Key = {k1, k2}
    Region <- MCCovers
    QueryRegion <- MCQueries
    MinLevel = 0
    LevelRange = 2
    BlockSize = 2
    EmptyFirst = {5}
    Unlucky <- MCUnlucky
    MaxWrites = 3
    NoFile = NoFile
    WriterRanges = {4, 6}
    ByteValues = 4
SPECIFICATION CallSpec
INVARIANTS NeverOutOfRange KeysFollowIds AncestorHitsFound RangeHitsFound
    StraysFollowAHit
PROPERTIES ImplementsGeoMap CallsReturn ZeroRangeNeverReturns
