\* One question at a time; a behaviour returns to Idle after each.
SPECIFICATION Spec
CONSTANTS
    MaxInt = 7
    Mantissa = 4
    NaN = NaN
    CharOrder <- Chars
    ByteBits = 2
    Capacity = 2
    SampleValues <- Values1
    Columns <- ColumnTypes
    MaxColumns = 7
    SampleTrees <- Trees
    Texts <- MatchTexts
    LikePatterns <- LikeSamples
    GlobPatterns <- GlobSamples
    Moments <- SampleMoments
    Modifiers <- SampleModifiers
    MaxModifiers = 2
    CachePages = {1, 2, 3}
    Contents = {1, 2}
    MaxUses = 6
INVARIANTS
    OrderIsTotal
    FoldPreservesMeaning
    StoredValuesReadBack
    
    CalendarIsExact
    LruConsistent
PROPERTIES
    ImplementsLru
