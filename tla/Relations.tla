----------------------------- MODULE Relations -----------------------------
(***************************************************************************)
(* What the tables of TinyDB promise: a table is a set of rows with a      *)
(* schema, and a statement changes all the rows that its WHERE clause      *)
(* holds for, at once, or none.  Rows are evaluated one by one against the *)
(* clause: there are no pages, no indexes and no plans here.               *)
(***************************************************************************)
EXTENDS Rows

CONSTANTS
    Tables,       \* the names of tables
    Schemas,      \* functions from columns to constraints
    NoTable,      \* in place of the schema of a table that does not exist
    Wheres,       \* the clauses of statements
    Inserts,      \* the rows of INSERT statements
    Assignments,  \* functions from some columns to operands
    Ids           \* what tells equal rows apart

VARIABLES
    schema,    \* schema[t]: the schema of t, or NoTable
    content    \* content[t]: a function from the ids of the rows of t to the rows

-----------------------------------------------------------------------------

Consistent(s, rows) ==
    /\ \A p \in DOMAIN rows : Valid(s, rows[p])
    /\ \A p, q \in DOMAIN rows : p # q => ~Collide(s, rows[p], rows[q])

Init ==
    /\ schema = [t \in Tables |-> NoTable]
    /\ content = [t \in Tables |-> <<>>]

Create(t, s) ==
    /\ schema[t] = NoTable
    /\ schema' = [schema EXCEPT ![t] = s]
    /\ UNCHANGED content

Drop(t) ==
    /\ schema[t] # NoTable
    /\ schema' = [schema EXCEPT ![t] = NoTable]
    /\ content' = [content EXCEPT ![t] = <<>>]

\* Rows replace those of t, and keep the constraints.
Change(t, rows) ==
    /\ schema[t] # NoTable
    /\ Consistent(schema[t], rows)
    /\ content' = [content EXCEPT ![t] = rows]
    /\ UNCHANGED schema

Insert(t, row) == \E id \in Ids \ DOMAIN content[t] :
    Change(t, [p \in DOMAIN content[t] \cup {id} |->
                IF p = id THEN row ELSE content[t][p]])

Selected(t, w) == {p \in DOMAIN content[t] : Eval(w, content[t][p]) = "true"}

Update(t, w, a) ==
    LET selected == Selected(t, w)
    IN Change(t, [p \in DOMAIN content[t] |->
                    IF p \in selected THEN Assigned(content[t][p], a)
                                      ELSE content[t][p]])

Delete(t, w) ==
    LET kept == DOMAIN content[t] \ Selected(t, w)
    IN Change(t, [p \in kept |-> content[t][p]])

Next == \E t \in Tables :
    \/ \E s \in Schemas : Create(t, s)
    \/ Drop(t)
    \/ \E row \in Inserts : Insert(t, row)
    \/ \E w \in Wheres : Delete(t, w)
    \/ \E w \in Wheres, a \in Assignments : Update(t, w, a)

Spec == Init /\ [][Next]_<<schema, content>>
=============================================================================
