------------------------------- MODULE Parser -------------------------------
(***************************************************************************)
(* SQL statements: tinydb/sql/parser.py and tinydb/sql/ast.py.             *)
(*                                                                         *)
(* The methods of _Parser look at the current token only, and never go     *)
(* back.  Each is a rule here, the sequence of what it expects; Items      *)
(* reads the tokens as the rules say and gives the tree of the rules that  *)
(* were followed.  The statement, as the classes of ast.py have it, is     *)
(* built from that tree.                                                   *)
(***************************************************************************)
EXTENDS Lexer

-----------------------------------------------------------------------------
(* What a rule is made of *)

Rule(r) == [item |-> "rule", of |-> r]

\* A token of one of these classes is consumed; must come next; must not come
\* next, since what it would start is not supported.
One(classes) == [item |-> "one", of |-> classes]
Before(classes) == [item |-> "before", of |-> classes]
Refused(classes) == [item |-> "refused", of |-> classes]

\* The body if the current token is in classes: once at most, or repeatedly.
Maybe(classes, body) == [item |-> "maybe", of |-> classes, body |-> body]
Many(classes, body) == [item |-> "many", of |-> classes, body |-> body]

\* The first alternative, a pair of classes and a body, for the current token.
Choice(alternatives) == [item |-> "choice", of |-> alternatives]

List(item) == << item, Many({"COMMA"}, <<One({"COMMA"}), item>>) >>

Name == One({"IDENTIFIER"})

Literals == {"INTEGER", "DECIMAL", "STRING", "BOOLEAN", "NULL"}

Anything == Keywords \union Literals \union Comparisons \union Range(Marks)
            \union {"IDENTIFIER", "EOF"}

InParentheses(items) == <<One({"LPAREN"})>> \o items \o <<One({"RPAREN"})>>

-----------------------------------------------------------------------------
(* The rules, one for each method *)

StatementRule ==
    << Refused({"ALTER", "VIEW", "TRIGGER", "JOIN"}),
       Choice(<< <<{"CREATE"}, <<Rule("create")>> >>, <<{"DROP"}, <<Rule("drop")>> >>,
                 <<{"INSERT"}, <<Rule("insert")>> >>, <<{"SELECT"}, <<Rule("select")>> >>,
                 <<{"UPDATE"}, <<Rule("update")>> >>, <<{"DELETE"}, <<Rule("delete")>> >>,
                 <<{"BEGIN", "COMMIT", "ROLLBACK"},
                   <<One({"BEGIN", "COMMIT", "ROLLBACK"})>> >> >>),
       Maybe({"SEMICOLON"}, <<One({"SEMICOLON"})>>), One({"EOF"}) >>

CreateRule ==
    << One({"CREATE"}), Refused({"VIEW", "TRIGGER"}), One({"TABLE"}), Name >>
    \o InParentheses(List(Rule("column_def")))

ColumnDefRule ==
    << Name, One(Types),
       Many({"PRIMARY", "NOT", "UNIQUE"},
            << Choice(<< <<{"PRIMARY"}, <<One({"PRIMARY"}), One({"KEY"})>> >>,
                         <<{"NOT"}, <<One({"NOT"}), One({"NULL"})>> >>,
                         <<{"UNIQUE"}, <<One({"UNIQUE"})>> >> >>) >>),
       Refused({"FOREIGN"}) >>

DropRule == << One({"DROP"}), One({"TABLE"}), Name >>

InsertRule ==
    << One({"INSERT"}), One({"INTO"}), Name >> \o InParentheses(List(Name))
    \o << One({"VALUES"}) >> \o InParentheses(List(Rule("value")))

\* An alias is for joins: without a join, none may follow it.
SelectRule ==
    << One({"SELECT"}) >> \o List(Rule("starred")) \o
    << One({"FROM"}), Name,
       Maybe({"AS", "IDENTIFIER"}, << Rule("alias"), Refused(UnsupportedJoins \union {"JOIN"}),
                                      Before({"INNER"}) >>),
       Many({"INNER"}, <<Rule("join")>>),
       Refused(UnsupportedJoins \union {"JOIN"}),
       Maybe({"WHERE"}, <<Rule("where")>>),
       Maybe({"GROUP"}, <<Rule("group_by")>>),
       Maybe({"ORDER"}, <<Rule("order_by")>>),
       Maybe({"LIMIT"}, <<Rule("limit")>>),
       Maybe({"OFFSET"}, <<Rule("offset")>>) >>

JoinRule ==
    << One({"INNER"}), One({"JOIN"}), Name, Maybe({"AS", "IDENTIFIER"}, <<Rule("alias")>>),
       One({"ON"}), Rule("qualified"), One({"="}), Rule("qualified") >>

AliasRule == << Maybe({"AS"}, <<One({"AS"})>>), Name >>

\* A projection, or the argument of COUNT.
StarredRule == << Choice(<< <<{"STAR"}, <<One({"STAR"})>> >>,
                            <<Anything, <<Rule("value")>> >> >>) >>

UpdateRule ==
    << One({"UPDATE"}), Name, One({"SET"}) >> \o List(Rule("assignment"))
    \o << Maybe({"WHERE"}, <<Rule("where")>>) >>

AssignmentRule == << Name, One({"="}), Rule("value") >>

DeleteRule == << One({"DELETE"}), One({"FROM"}), Name, Maybe({"WHERE"}, <<Rule("where")>>) >>

OrderingRule == << Rule("column"), Maybe({"ASC", "DESC"}, <<One({"ASC", "DESC"})>>) >>

\* Mutant: what follows an OR is a comparison.
OrRuleMutant == << Rule("and"), Many({"OR"}, <<One({"OR"}), Rule("leaf")>>) >>

OrRule == << Rule("and"), Many({"OR"}, <<One({"OR"}), Rule("and")>>) >>

AndRule == << Rule("leaf"), Many({"AND"}, <<One({"AND"}), Rule("leaf")>>) >>

\* A parenthesis at the start of a comparison is taken for that of a predicate.
LeafRule ==
    << Choice(<< <<{"LPAREN"}, InParentheses(<<Rule("or")>>)>>,
                 <<Anything, <<Rule("value"), One(Comparisons), Rule("value")>> >> >>) >>

ValueRule ==
    << Choice(<< <<Aggregates, <<Rule("call")>> >>,
                 <<{"IDENTIFIER"}, <<Rule("column")>> >>,
                 <<Literals, <<One(Literals)>> >>,
                 <<{"LPAREN"}, InParentheses(<<Rule("value")>>)>> >>) >>

ColumnRule == << Name, Maybe({"DOT"}, <<One({"DOT"}), Name>>) >>

QualifiedRule == << Name, One({"DOT"}), Name >>

CallRule ==
    << Choice(<< <<{"COUNT"}, <<One({"COUNT"}), One({"LPAREN"})>> >>,
                 <<{"SUM", "AVG"}, <<One({"SUM", "AVG"}), One({"LPAREN"}), Refused({"STAR"})>> >> >>),
       Rule("starred"), One({"RPAREN"}) >>

Rules ==
    [statement |-> StatementRule, create |-> CreateRule, column_def |-> ColumnDefRule,
     drop |-> DropRule, insert |-> InsertRule, select |-> SelectRule, join |-> JoinRule,
     alias |-> AliasRule, starred |-> StarredRule, update |-> UpdateRule,
     assignment |-> AssignmentRule, delete |-> DeleteRule,
     or |-> OrRule, and |-> AndRule, leaf |-> LeafRule, value |-> ValueRule,
     column |-> ColumnRule, qualified |-> QualifiedRule, call |-> CallRule,
     ordering |-> OrderingRule,
     where |-> <<One({"WHERE"}), Rule("or")>>,
     group_by |-> <<One({"GROUP"}), One({"BY"})>> \o List(Name),
     order_by |-> <<One({"ORDER"}), One({"BY"})>> \o List(Rule("ordering")),
     limit |-> <<One({"LIMIT"}), One({"INTEGER"})>>,
     offset |-> <<One({"OFFSET"}), One({"INTEGER"})>>]

-----------------------------------------------------------------------------
(* Reading tokens *)

Read(kids, next) == [failed |-> FALSE, kids |-> kids, next |-> next]

\* error(): the parser stops at the token i.
Stopped(i) == [failed |-> TRUE, kids |-> <<>>, next |-> i]

RECURSIVE Items(_, _, _)

NodeOf(class, r) ==
    IF r.failed THEN r ELSE Read(<<[class |-> class, kids |-> r.kids]>>, r.next)

ReadItem(ts, it, i) ==
    LET here == ts[i].class
    IN CASE it.item = "one" ->
                IF here \in it.of THEN Read(<<ts[i]>>, i + 1) ELSE Stopped(i)
         [] it.item = "before" ->
                IF here \in it.of THEN Read(<<>>, i) ELSE Stopped(i)
         [] it.item = "refused" ->
                IF here \in it.of THEN Stopped(i) ELSE Read(<<>>, i)
         [] it.item = "maybe" ->
                IF here \in it.of THEN Items(ts, it.body, i) ELSE Read(<<>>, i)
         [] it.item = "many" ->
                IF here \in it.of THEN Items(ts, Append(it.body, it), i) ELSE Read(<<>>, i)
         [] it.item = "choice" ->
                LET Fits(a) == here \in a[1]
                    fitting == SelectSeq(it.of, Fits)
                IN IF fitting = <<>> THEN Stopped(i) ELSE Items(ts, Head(fitting)[2], i)
         [] it.item = "rule" ->
                NodeOf(it.of, Items(ts, Rules[it.of], i))

Prepend(kids, rest) == IF rest.failed THEN rest ELSE Read(kids \o rest.kids, rest.next)

\* The items that follow the first one, from where it ends.
Continue(ts, first, items) ==
    IF first.failed THEN first ELSE Prepend(first.kids, Items(ts, items, first.next))

Items(ts, items, i) ==
    IF items = <<>>
    THEN Read(<<>>, i)
    ELSE Continue(ts, ReadItem(ts, Head(items), i), Tail(items))

TreeOf(tokens) ==
    IF HasError(tokens) \/ tokens = <<>>
    THEN Stopped(1)
    ELSE Items(Append(tokens, [class |-> "EOF", value |-> <<>>]), Rules.statement, 1)

\* The tree of a text, or where parse_sql() stops.
Tree(text) == TreeOf(Tokens(text))

-----------------------------------------------------------------------------
(* Statements *)

None == [kind |-> "none"]
Identifier(n) == [kind |-> "identifier", name |-> n]
ColumnRef(q, n) == [kind |-> "column_ref", qualifier |-> q, name |-> n]
Literal(v) == [kind |-> "literal", value |-> v]
Binary(l, op, r) == [kind |-> "binary", left |-> l, op |-> op, right |-> r]
Call(f, e) == [kind |-> "call", name |-> f, argument |-> e]

WordOf(token) == token.value[1]

Each(s, F(_)) == [i \in DOMAIN s |-> F(s[i])]

Kids(node, class) == SelectSeq(node.kids, LAMBDA k : k.class = class)

NamesIn(node) == Each(Kids(node, "IDENTIFIER"), WordOf)

\* What Build makes of the clause of this class, if the node has one.
Clause(node, class, Build(_), otherwise) ==
    LET clauses == Kids(node, class)
    IN IF clauses = <<>> THEN otherwise ELSE Build(clauses[1])

RECURSIVE Expression(_)

\* Operators of the same kind are applied from left to right.
Chain(op, operands) ==
    FoldLeft(LAMBDA e, k : Binary(e, op, Expression(k)), Expression(Head(operands)),
             Tail(operands))

Expression(n) ==
    CASE n.class = "or" -> Chain("OR", Kids(n, "and"))
      [] n.class = "and" -> Chain("AND", Kids(n, "leaf"))
      [] n.class = "STAR" -> Identifier("*")
      [] n.class \in Literals -> Literal(n.value)
      [] n.class = "call" -> Call(n.kids[1].class, Expression(Kids(n, "starred")[1]))
      [] n.class \in {"column", "qualified"} ->
            IF Len(n.kids) = 1
            THEN Identifier(NamesIn(n)[1])
            ELSE ColumnRef(NamesIn(n)[1], NamesIn(n)[2])
      [] n.class \in {"leaf", "value"} /\ n.kids[1].class = "LPAREN" -> Expression(n.kids[2])
      [] n.class = "leaf" /\ n.kids[1].class # "LPAREN" ->
            Binary(Expression(n.kids[1]), n.kids[2].class, Expression(n.kids[3]))
      [] OTHER -> Expression(n.kids[1])

Where(node) == Clause(node, "where", LAMBDA c : Expression(c.kids[2]), None)

Alias(node) == Clause(node, "alias", LAMBDA c : Identifier(NamesIn(c)[1]), None)

ColumnDef(n) ==
    [name |-> NamesIn(n)[1], type |-> n.kids[2].class,
     primary_key |-> Kids(n, "PRIMARY") # <<>>,
     not_null |-> Kids(n, "NOT") # <<>>,
     unique |-> Kids(n, "UNIQUE") # <<>>]

Source(n) == [table |-> NamesIn(n)[1], alias |-> Alias(n)]

JoinPredicate(n) == Each(Kids(n, "qualified"), Expression)

Ordering(n) == [by |-> Expression(n.kids[1]), descending |-> Kids(n, "DESC") # <<>>]

\* Mutant: LIMIT and OFFSET are exchanged.
CountMutant(node, class) ==
    Clause(node, IF class = "limit" THEN "offset" ELSE "limit",
           LAMBDA c : Literal(c.kids[2].value), None)

\* LIMIT or OFFSET.
Count(node, class) == Clause(node, class, LAMBDA c : Literal(c.kids[2].value), None)

SelectOf(n) ==
    [statement |-> "select", projections |-> Each(Kids(n, "starred"), Expression),
     source |-> Source(n),
     sources |-> Each(Kids(n, "join"), Source),
     predicates |-> Each(Kids(n, "join"), JoinPredicate),
     where |-> Where(n),
     group_by |-> Clause(n, "group_by", NamesIn, <<>>),
     order_by |-> Clause(n, "order_by", LAMBDA c : Each(Kids(c, "ordering"), Ordering), <<>>),
     limit |-> Count(n, "limit"), offset |-> Count(n, "offset")]

Assignment(n) == [column |-> NamesIn(n)[1], value |-> Expression(n.kids[3])]

StatementOf(n) ==
    CASE n.class = "create" ->
            [statement |-> "create", table |-> NamesIn(n)[1],
             columns |-> Each(Kids(n, "column_def"), ColumnDef)]
      [] n.class = "drop" -> [statement |-> "drop", table |-> NamesIn(n)[1]]
      [] n.class = "insert" ->
            [statement |-> "insert", table |-> NamesIn(n)[1], columns |-> Tail(NamesIn(n)),
             values |-> Each(Kids(n, "value"), Expression)]
      [] n.class = "select" -> SelectOf(n)
      [] n.class = "update" ->
            [statement |-> "update", table |-> NamesIn(n)[1],
             assignments |-> Each(Kids(n, "assignment"), Assignment), where |-> Where(n)]
      [] n.class = "delete" ->
            [statement |-> "delete", table |-> NamesIn(n)[1], where |-> Where(n)]
      [] OTHER -> [statement |-> n.class]

ParsedTree(tree) ==
    IF tree.failed THEN [statement |-> "error"] ELSE StatementOf(tree.kids[1])

\* parse_sql()
Parsed(text) == ParsedTree(Tree(text))
=============================================================================
