CONSTANTS
    Ids <- MCIds
    Symbol <- MCSymbol
    Files <- MCFiles
    Words <- MCWords
    HeaderTokens = 1
    SymbolsHeaderTokens = 2
    NoteTokens <- MCNoteTokens
    Graphs <- MCGraphs
    Transactions <- MCTransactions
    Requests <- MCRequests
    MapBudgets = {0, 4, 6, 8}
    MaxFiles = 1
    NothingTokens = 1
    ManyResults = 20
    MaxWrites = 2
    Normal <- MCNormal
    MatchedPaths <- MCMatchedPaths
    MaxQueries = 2
    MaxReads = 1
    MaxTurns = 1
SPECIFICATION RSpec
INVARIANTS
    BudgetHolds
    NothingIsDropped
    AnswersAreTrue
    MissesAreTrue
    MapFits
CHECK_DEADLOCK FALSE
