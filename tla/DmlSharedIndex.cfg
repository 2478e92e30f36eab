SPECIFICATION Spec
CONSTANTS
    NULL = NULL
    c = c
    d = d
    t = t
    u = u
    text = text
    Columns <- MCColumns
    Tables = {t, u}
    Schemas <- MCSchemas
    NoTable = NoTable
    IndexName <- SharedIndex
    Wheres <- MCWheres
    Inserts <- MCInserts
    Assignments <- MCAssignments
    Orderings <- MCOrderings
    Groupings <- MCGroupings
    Joins <- MCJoins
    Deleted = Deleted
    Idle = Idle
    MaxPages = 3
INVARIANT IndexScanMatchesTableScan
