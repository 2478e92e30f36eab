SPECIFICATION Spec
CONSTANTS
    TableBytes <- PlainTableBytes
    Indexes = 0
    MaxRows = 3
    MaxPages = 4000
INVARIANT AtMostNineTransactions
PROPERTY CommitDoublesTheFile
