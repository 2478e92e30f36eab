SPECIFICATION Spec
CONSTANTS
    NULL = NULL
    c = c
    d = d
    t = t
    u = u
    text = text
    Columns <- MCColumns
    Tables = {t}
    Schemas <- MCSchemas
    NoTable = NoTable
    IndexName <- OwnIndex
    Wheres <- MCWheres
    Inserts <- MCInserts
    Assignments <- MCAssignments
    Orderings <- MCOrderings
    Groupings <- MCGroupings
    Joins <- MCJoins
    Deleted = Deleted
    Idle = Idle
    MaxPages = 3
INVARIANT TypeOK DmlInvariant IndexesAgree KeysAreUnique IndexScanMatchesTableScan
INVARIANT OrderIsLexicographic GroupsAddUp JoinsAreComplete
PROPERTY ImplementsRelations
