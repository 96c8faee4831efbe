\* Autocommit statements follow each other forever.
SPECIFICATION Spec
CONSTANTS
    MaxInt = 3
    Mantissa = 8
    NaN = NaN
    CharOrder <- Chars
    Schema <- SampleSchema
    Catalog <- SampleCatalog
    Table = "t"
    Others <- OtherTrees
    InitialTrees <- Trees
    Statements <- SampleStatements
    Queries <- SampleQueries
    MaxRows = 2
INVARIANTS
    QueriesAnswer
    StatementsMean
