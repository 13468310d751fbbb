SPECIFICATION FairSpec
CONSTANTS
    Documents <- MCDocuments
    MCLines = 4
    MaxChars = 18
    Overlap = 2
    Texts = {1, 2, 3, 4, 5, 6, 7, 8, 9, 10, 11, 12}
    NoVector = 0
    MaxBatch = 2
    MaxTrouble = 1
    MaxContext = 40
    ExpandTop = 2
    MinScore = 25
    HeaderLen = 4
    Nodes <- SeedNodes
    Equipment <- SeedEquipment
    Relations <- SeedRelations
    Shelf <- MCShelf
    TopK = 2
    Scores = {100, 98}
    Cards <- MCCards
INVARIANTS ChunksFit NothingLost ChunksFollow ParsedTextIsWhole ParsedTextIsThere CacheIsTrue VectorsMatch NeighbourHasHit TopIsQuoted DepthIsShortest
PROPERTY ChunkingEnds
