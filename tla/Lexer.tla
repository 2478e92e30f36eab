------------------------------- MODULE Lexer -------------------------------
(***************************************************************************)
(* The text of SQL statements and its tokens: tinydb/sql/lexer.py.         *)
(*                                                                         *)
(* A text is a sequence of pieces.  A piece is a word, a run of digits, or *)
(* one character of any other kind.  Two words or numbers that follow each *)
(* other are written with a blank between them; nothing else is.           *)
(***************************************************************************)
EXTENDS Naturals, Sequences, SequencesExt

CONSTANTS
    Names,    \* words that are not keywords
    Numbers   \* runs of digits

Types == {"INT", "FLOAT", "TEXT", "BOOL"}

Aggregates == {"COUNT", "SUM", "AVG"}

UnsupportedJoins == {"LEFT", "RIGHT", "FULL", "CROSS", "NATURAL"}

Keywords ==
    Types \union Aggregates \union UnsupportedJoins \union
    {"ALTER", "AND", "AS", "ASC", "BEGIN", "BY", "COMMIT", "CREATE", "DELETE", "DESC",
     "DROP", "FOREIGN", "FROM", "GROUP", "INSERT", "INNER", "INTO", "JOIN", "KEY",
     "LIMIT", "NOT", "OFFSET", "ON", "OR", "ORDER", "OUTER", "PRIMARY", "ROLLBACK",
     "SELECT", "SET", "TABLE", "TRIGGER", "UNIQUE", "UPDATE", "VALUES", "VIEW", "WHERE"}

Booleans == {"TRUE", "FALSE"}

Words == Names \union Keywords \union Booleans \union {"NULL"}

\* Characters that are in no word or number, and what stands for no piece.
Signs == {" ", "\n", "'", ";", ",", ".", "(", ")", "*", "!", "<", ">", "=", "end"}

ASSUME NamesAssumption ==
    Numbers \intersect Words = {} /\ (Names \union Numbers) \intersect Signs = {}

Blanks == {" ", "\n"}

Marks == [c \in {",", ".", "(", ")", "*", ";"} |->
    CASE c = "," -> "COMMA"  [] c = "." -> "DOT"    [] c = "(" -> "LPAREN"
      [] c = ")" -> "RPAREN" [] c = "*" -> "STAR"   [] c = ";" -> "SEMICOLON"]

TwoCharOperators == [two \in {<<"!", "=">>, <<"<", "=">>, <<">", "=">>} |->
    CASE two[1] = "!" -> "!=" [] two[1] = "<" -> "<=" [] two[1] = ">" -> ">="]

Comparisons == {"=", "!=", "<", "<=", ">", ">="}

WordClass(w) == CASE w \in Keywords -> w
                  [] w \in Booleans -> "BOOLEAN"
                  [] w = "NULL" -> "NULL"
                  [] OTHER -> "IDENTIFIER"

\* The piece at i, and no piece after the end.
PieceAt(text, i) == IF i \in DOMAIN text THEN text[i] ELSE "end"

\* The token that begins with piece i: its class, which is its kind, or for a keyword
\* or an operator what it is, and for a number its type; and its last piece.  An ERROR
\* is the rest of the text.  Of a string there is only the quote.
TokenAt(text, i) ==
    LET Is(class, last) == [class |-> class, last |-> last]
        c == text[i]
        two == <<c, PieceAt(text, i + 1)>>
    IN CASE c \in Blanks -> Is("BLANK", i)
         [] c \in Words -> Is(WordClass(c), i)
         [] c \in Numbers /\ two[2] # "." -> Is("INTEGER", i)
         [] c \in Numbers /\ two[2] = "." /\ PieceAt(text, i + 2) \in Numbers ->
                Is("DECIMAL", i + 2)
         [] c = "'" -> Is("QUOTE", i)
         [] c \in DOMAIN Marks -> Is(Marks[c], i)
         [] two \in DOMAIN TwoCharOperators -> Is(TwoCharOperators[two], i + 1)
         [] c \in {"<", ">", "="} /\ two \notin DOMAIN TwoCharOperators -> Is(c, i)
         [] OTHER -> Is("ERROR", Len(text))

\* With the token of these pieces.
WithToken(state, class, text, first, last) ==
    [tokens |-> Append(state.tokens, [class |-> class, value |-> SubSeq(text, first, last)]),
     next |-> last + 1, string |-> 0]

\* One more piece of a string.  Two quotes in a string stand for one.
ReadString(state, text, i) ==
    IF text[i] # "'" THEN state
    ELSE IF PieceAt(text, i + 1) = "'" THEN [state EXCEPT !.next = i + 2]
    ELSE WithToken(state, "STRING", text, state.string, i)

\* The loop of tokenize().  A state has the tokens so far, the next piece to be read,
\* and where the string begins that this piece is in, 0 if it is in none.
Lex(state, text, i) ==
    LET token == TokenAt(text, i)
    IN IF i < state.next THEN state
       ELSE IF state.string # 0 THEN ReadString(state, text, i)
       ELSE IF token.class = "BLANK" THEN state
       ELSE IF token.class = "QUOTE" THEN [state EXCEPT !.string = i]
       ELSE WithToken(state, token.class, text, i, token.last)

\* The tokens of a text; the last one is an ERROR if the text cannot be read.
Tokens(text) ==
    LET UpTo[i \in Nat] == IF i = 0 THEN [tokens |-> <<>>, next |-> 1, string |-> 0]
                           ELSE Lex(UpTo[i - 1], text, i)
        end == UpTo[Len(text)]
    IN IF end.string = 0 THEN end.tokens
       ELSE WithToken(end, "ERROR", text, end.string, Len(text)).tokens

HasError(tokens) == \E i \in DOMAIN tokens : tokens[i].class = "ERROR"
=============================================================================
