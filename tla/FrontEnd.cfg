CONSTANTS
    Names <- MCNames
    Numbers = {"1"}
    Sessions <- MCSessions
    InitialTables <- MCTables
    ParseSql <- Parsed
    ResultsOf <- Results
    ExplainStatement <- Explained
    MayGoOn <- IsViable
SPECIFICATION Spec
INVARIANTS
    TypeOK
    StatementsAreReadOnce
    SemicolonsAreTheLexers
    PredicatesAreReadAsWritten
    NothingIsLost
    JoinColumnsAreCertain
    SchemaIsExecutable
    EndKeepsWhatWasCommitted
    ExitCodeIsRight
