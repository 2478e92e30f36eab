----------------------------- MODULE CliProofs -----------------------------
(***************************************************************************)
(* What the command line promises, whatever statements are and do: what is *)
(* typed is executed once and in order, the file keeps what was committed, *)
(* and the exit code tells how it went.                                    *)
(***************************************************************************)
EXTENDS Cli, TLAPS, WellFoundedInduction, SequenceTheorems

-----------------------------------------------------------------------------
(* One more statement *)

\* What execute() may do to the database.
LEMMA ExecuteEnds ==
  ASSUME NEW s, NEW d, NEW r \in Execute(s, d)
  PROVE  /\ r.end # Ok => r.db.tables = d.tables /\ r.db.saved = d.saved
         /\ r.end = Ok => CASE s.statement = "BEGIN" ->
                                 /\ d.saved = NoTransaction
                                 /\ r.db.saved # NoTransaction
                                 /\ r.db.saved.tables = d.tables
                            [] s.statement = "COMMIT" ->
                                 /\ d.saved # NoTransaction
                                 /\ r.db.saved = NoTransaction
                            [] s.statement = "ROLLBACK" ->
                                 /\ d.saved # NoTransaction
                                 /\ r.db.saved = NoTransaction
                            [] OTHER -> r.db.saved = d.saved
<1>. DEFINE End(end, tables, saved) ==
              [end |-> end, db |-> [tables |-> tables, saved |-> saved]]
<1>1. CASE s.statement = "BEGIN"
  BY <1>1 DEF Execute, NoTransaction, Ok
<1>2. CASE s.statement = "COMMIT"
  BY <1>2 DEF Execute, Ok
<1>3. CASE s.statement = "ROLLBACK"
  BY <1>3 DEF Execute, Ok
<1>4. CASE s.statement \notin {"BEGIN", "COMMIT", "ROLLBACK"}
  BY <1>4 DEF Execute
<1>5. QED
  BY <1>1, <1>2, <1>3, <1>4

LEMMA EmptyHistory ==
  ASSUME history = <<>>
  PROVE  HistoryOK /\ Len(history) = 0 /\ DOMAIN history = {}
<1>1. \A S : history \in Seq(S)
  OBVIOUS
<1>2. QED
  BY <1>1 DEF HistoryOK

LEMMA LongerHistory ==
  ASSUME HistoryOK, NEW e, history' = Append(history, e)
  PROVE  /\ HistoryOK'
         /\ Len(history) \in Nat /\ Len(history') = Len(history) + 1
         /\ DOMAIN history = 1..Len(history) /\ DOMAIN history' = 1..(Len(history) + 1)
         /\ history'[Len(history) + 1] = e
         /\ \A i \in 1..Len(history) : history'[i] = history[i]
<1>. DEFINE S == {history[i] : i \in DOMAIN history}
            T == S \cup {e}
<1>1. history \in Seq(S)
  BY DEF HistoryOK
<1>2. history \in Seq(T) /\ history' \in Seq(T)
  BY <1>1
<1>. HIDE DEF S, T
<1>3. /\ Len(history) \in Nat /\ Len(history') = Len(history) + 1
      /\ DOMAIN history = 1..Len(history) /\ DOMAIN history' = 1..(Len(history) + 1)
      /\ history'[Len(history) + 1] = e
      /\ \A i \in 1..Len(history) : history'[i] = history[i]
  BY <1>2
<1>4. HistoryOK'
  BY <1>2, <1>3 DEF HistoryOK
<1>5. QED
  BY <1>3, <1>4

\* Another statement does not change what the ones before it did.
LEMMA PastIsKept ==
  ASSUME HistoryOK, NEW e, NEW n, n = Len(history) + 1, history' = Append(history, e)
  PROVE  /\ \A i \in 1..Len(history) : \A w : Succeeded(i, w)' = Succeeded(i, w)
         /\ \A w : Succeeded(n, w)' = (e.end = Ok /\ ParseSql(e.sql).statement \in w)
         /\ \A k \in 0..Len(history) : Settled(k)' = Settled(k)
<1>1. /\ Len(history) \in Nat
      /\ history'[n] = e
      /\ \A i \in 1..Len(history) : history'[i] = history[i]
  BY LongerHistory
<1>2. ASSUME NEW i \in 1..Len(history), NEW w PROVE Succeeded(i, w)' = Succeeded(i, w)
  BY <1>1 DEF Succeeded
<1>3. ASSUME NEW w
      PROVE  Succeeded(n, w)' = (e.end = Ok /\ ParseSql(e.sql).statement \in w)
  BY <1>1 DEF Succeeded
<1>4. ASSUME NEW k \in 0..Len(history) PROVE Settled(k)' = Settled(k)
  <2>1. \A i \in 1..k : i \in 1..Len(history) /\ \A j \in (i + 1)..k : j \in 1..Len(history)
    BY <1>1
  <2>2. QED
    BY <1>2, <2>1 DEF Settled
<1>5. QED
  BY <1>2, <1>3, <1>4

LEMMA MaxOfNumbers ==
  ASSUME NEW n \in Nat, NEW S \in SUBSET (1..n), S # {}
  PROVE  Max(S) \in S /\ \A x \in S : Max(S) >= x
<1>. DEFINE Less == {pair \in Nat \X Nat : pair[1] < pair[2]}
            below == {n - x : x \in S}
<1>1. IsWellFoundedOn(Less, Nat)
  BY NatLessThanWellFounded DEF OpToRel
<1>2. below \subseteq Nat /\ below # {}
  <2>1. PICK x \in S : x \in 1..n
    OBVIOUS
  <2>2. QED
    BY <2>1
<1>. HIDE DEF Less
<1>3. PICK m \in below : \A k \in below : <<k, m>> \notin Less
  BY <1>1, <1>2, WFMin, Zenon
<1>4. PICK x \in S : m = n - x
  BY <1>3
<1>5. ASSUME NEW y \in S PROVE x >= y
  <2>1. n - y \in below /\ n - y \in Nat /\ m \in Nat
    BY <1>2, <1>3
  <2>2. ~(n - y < m)
    BY <1>3, <2>1 DEF Less
  <2>3. QED
    BY <1>4, <2>1, <2>2
<1>6. QED
  BY <1>5 DEF Max

\* Committed follows the last statement if no transaction is open then.
LEMMA CommittedThen ==
  ASSUME HistoryOK, NEW e, NEW n, n = Len(history) + 1, history' = Append(history, e)
  PROVE  Committed' = IF Settled(n)' THEN e.after ELSE Committed
<1>. DEFINE settled == {k \in DOMAIN history : Settled(k)}
            now == {k \in DOMAIN history' : Settled(k)'}
<1>1. /\ n \in Nat /\ n = Len(history) + 1 /\ Len(history) \in Nat
      /\ DOMAIN history = 1..Len(history) /\ DOMAIN history' = 1..n
      /\ history'[n] = e
      /\ \A i \in 1..Len(history) : history'[i] = history[i]
  BY LongerHistory
<1>2. \A k \in 1..Len(history) : Settled(k)' = Settled(k)
  BY <1>1, PastIsKept
<1>3. Committed' = IF now = {} THEN InitialTables ELSE history'[Max(now)].after
  BY DEF Committed
<1>4. CASE Settled(n)'
  <2>1. n \in now /\ \A k \in now : k \in Nat /\ n >= k
    BY <1>1, <1>4
  <2>2. Max(now) = n
    BY <1>1, <2>1 DEF Max
  <2>3. QED
    BY <1>1, <1>3, <1>4, <2>1, <2>2
<1>5. CASE ~Settled(n)'
  <2>1. now = settled
    <3>1. \A k : k \in 1..n <=> k \in 1..Len(history) \/ k = n
      BY <1>1
    <3>2. QED
      BY <1>1, <1>2, <1>5, <3>1
  <2>2. settled # {} => Max(settled) \in 1..Len(history)
    BY <1>1, MaxOfNumbers
  <2>3. QED
    BY <1>1, <1>3, <1>5, <2>1, <2>2 DEF Committed
<1>6. QED
  BY <1>4, <1>5

\* Every statement keeps what was committed, in and outside of transactions.
LEMMA KeepsStep ==
  ASSUME HistoryOK, Keeps(db), NEW raw, NEW sql,
         NEW r \in Execute(ParseSql(sql), db), Record(raw, sql, r)
  PROVE  HistoryOK' /\ Keeps(r.db)'
<1>. DEFINE e == [raw |-> raw, sql |-> sql, end |-> r.end,
                  before |-> db.tables, after |-> r.db.tables]
            kind == ParseSql(sql).statement
            Begins == r.end = Ok /\ kind = "BEGIN"
            Ends == r.end = Ok /\ kind \in {"COMMIT", "ROLLBACK"}
<1>1. PICK n : n = Len(history) + 1
  OBVIOUS
<1>2. history' = Append(history, e) /\ e.after = r.db.tables
  BY DEF Record
<1>3. /\ HistoryOK' /\ Len(history) \in Nat /\ Len(history') = n
  BY <1>1, <1>2, LongerHistory
<1>4. /\ \A i \in 1..Len(history) : \A w : Succeeded(i, w)' = Succeeded(i, w)
      /\ Succeeded(n, {"BEGIN"})' = Begins
      /\ Succeeded(n, {"COMMIT", "ROLLBACK"})' = Ends
  BY <1>1, <1>2, PastIsKept
<1>5. Committed' = IF Settled(n)' THEN r.db.tables ELSE Committed
  BY <1>1, <1>2, CommittedThen
<1>. HIDE DEF e
<1>6. Settled(n)' <=> (~Begins /\ (Ends \/ Settled(Len(history))))
  <2>1. Settled(n)' = \A i \in 1..n : Succeeded(i, {"BEGIN"})' =>
                        \E j \in (i + 1)..n : Succeeded(j, {"COMMIT", "ROLLBACK"})'
    BY DEF Settled
  <2>2. CASE Begins
    <3>1. n \in 1..n /\ (n + 1)..n = {}
      BY <1>1, <1>3
    <3>2. QED
      BY <1>4, <2>1, <2>2, <3>1
  <2>3. CASE ~Begins /\ Ends
    <3>1. \A i \in 1..n : i # n => n \in (i + 1)..n
      BY <1>1, <1>3
    <3>2. QED
      BY <1>4, <2>1, <2>3, <3>1
  <2>4. CASE ~Begins /\ ~Ends
    <3>1. \A i : i \in 1..n <=> i \in 1..Len(history) \/ i = n
      BY <1>1, <1>3
    <3>2. \A i \in 1..Len(history) : \A j :
            j \in (i + 1)..n <=> j \in (i + 1)..Len(history) \/ j = n
      BY <1>1, <1>3
    <3>3. \A i \in 1..Len(history) : \A j \in (i + 1)..Len(history) : j \in 1..Len(history)
      BY <1>3
    <3>4. ASSUME NEW i \in 1..Len(history)
          PROVE  (\E j \in (i + 1)..n : Succeeded(j, {"COMMIT", "ROLLBACK"})')
                   <=> \E j \in (i + 1)..Len(history) : Succeeded(j, {"COMMIT", "ROLLBACK"})
      BY <1>4, <2>4, <3>2, <3>3
    <3>5. Settled(n)' <=> \A i \in 1..Len(history) : Succeeded(i, {"BEGIN"})' =>
                            \E j \in (i + 1)..n : Succeeded(j, {"COMMIT", "ROLLBACK"})'
      BY <1>4, <2>1, <2>4, <3>1
    <3>6. Settled(n)' <=> Settled(Len(history))
      BY <1>4, <3>4, <3>5 DEF Settled
    <3>7. QED
      BY <2>4, <3>6
  <2>5. QED
    BY <2>2, <2>3, <2>4
<1>7. Keeps(r.db)' = IF r.db.saved = NoTransaction
                     THEN Settled(n)' /\ r.db.tables = Committed'
                     ELSE ~Settled(n)' /\ r.db.saved.tables = Committed'
  BY <1>3 DEF Keeps, NoTransaction
<1>8. CASE r.end # Ok
  <2>1. r.db.tables = db.tables /\ r.db.saved = db.saved
    BY <1>8, ExecuteEnds
  <2>2. QED
    BY <1>3, <1>5, <1>6, <1>7, <1>8, <2>1 DEF Keeps
<1>9. CASE Begins
  <2>1. /\ db.saved = NoTransaction /\ r.db.saved # NoTransaction
        /\ r.db.saved.tables = db.tables
    BY <1>9, ExecuteEnds
  <2>2. QED
    BY <1>3, <1>5, <1>6, <1>7, <1>9, <2>1 DEF Keeps
<1>10. CASE Ends
  <2>1. r.db.saved = NoTransaction
    BY <1>10, ExecuteEnds
  <2>2. QED
    BY <1>3, <1>5, <1>6, <1>7, <1>10, <2>1
<1>11. CASE r.end = Ok /\ ~Begins /\ ~Ends
  <2>1. r.db.saved = db.saved
    BY <1>11, ExecuteEnds
  <2>2. QED
    BY <1>3, <1>5, <1>6, <1>7, <1>11, <2>1 DEF Keeps
<1>12. QED
  BY <1>8, <1>9, <1>10, <1>11

-----------------------------------------------------------------------------
(* The end of the program *)

\* A program that ends closes the database, and that gives up what is not committed.
LEMMA ClosedKeeps ==
  ASSUME NEW d, Keeps(d)
  PROVE  Closed(d).tables = Committed
BY DEF Keeps, Closed

\* Steps without a statement leave what was committed as it is.
LEMMA CommittedStep ==
  ASSUME CommittedInv, [Next]_vars
  PROVE  CommittedInv'
<1>1. ASSUME UNCHANGED <<history, db, status>> PROVE CommittedInv'
  BY <1>1 DEF CommittedInv, HistoryOK, Ended, Keeps, Committed, Settled, Succeeded
<1>2. ASSUME UNCHANGED history, Keeps(db), db' = Closed(db), Ended'
      PROVE  CommittedInv'
  <2>1. Committed' = Committed
    BY <1>2 DEF Committed, Settled, Succeeded
  <2>2. QED
    BY <1>2, <2>1, ClosedKeeps DEF CommittedInv, HistoryOK
<1>3. ASSUME NEW raw, NEW sql, NEW r \in Execute(ParseSql(sql), db), Record(raw, sql, r),
             Keeps(db), IF Ended' THEN db' = Closed(r.db) ELSE db' = r.db
      PROVE  CommittedInv'
  <2>1. HistoryOK' /\ Keeps(r.db)'
    BY <1>3, KeepsStep DEF CommittedInv
  <2>2. CASE Ended'
    <3>1. Closed(r.db).tables = Committed'
      BY <2>1 DEF Keeps, Closed
    <3>2. QED
      BY <1>3, <2>1, <2>2, <3>1 DEF CommittedInv
  <2>3. CASE ~Ended'
    <3>1. Keeps(db)'
      BY <1>3, <2>1, <2>3 DEF Keeps
    <3>2. QED
      BY <2>1, <2>3, <3>1 DEF CommittedInv
  <2>4. QED
    BY <2>2, <2>3
<1>4. status \in {"reading", "executing"} => Keeps(db)
  BY DEF CommittedInv, Ended
<1>5. CASE \/ UNCHANGED vars \/ Stay \/ EndInput \/ SkipLine \/ RunCommand \/ BufferLine
           \/ \E phrase \in Sessions[session].phrases : Type(phrase)
  BY <1>1, <1>5 DEF vars, Stay, EndInput, SkipLine, RunCommand, BufferLine, Type
<1>6. CASE Quit \/ EndRepl \/ FinishStatements
  BY <1>2, <1>4, <1>6 DEF Quit, EndRepl, FinishStatements, ReadLine, Ended
<1>7. CASE ReadStatements
  <2>1. UNCHANGED <<history, db>> /\ ~Ended' /\ Keeps(db)
    BY <1>4, <1>7 DEF ReadStatements, Ended
  <2>2. QED
    BY <2>1 DEF CommittedInv, HistoryOK, Keeps, Committed, Settled, Succeeded
<1>8. CASE RunStatement
  <2>1. PICK raw, sql : \E r \in Execute(ParseSql(sql), db) :
          /\ Record(raw, sql, r)
          /\ db' = IF Stops(r) THEN Closed(r.db) ELSE r.db
          /\ status' = IF Stops(r) THEN "traceback" ELSE status
    BY <1>8 DEF RunStatement
  <2>2. status = "reading"
    BY <1>8 DEF RunStatement, ReadLine
  <2>3. QED
    BY <1>3, <1>4, <2>1, <2>2 DEF Ended
<1>9. CASE ExecuteNext
  <2>1. PICK sql : \E r \in Execute(ParseSql(sql), db) :
          /\ Record(sql, sql, r)
          /\ db' = IF r.end = Ok THEN r.db ELSE Closed(r.db)
          /\ status' = CASE Stops(r) -> "traceback"
                          [] r.end \in PublicErrors -> "exit 1"
                          [] OTHER -> status
    BY <1>9 DEF ExecuteNext
  <2>2. status = "executing"
    BY <1>9 DEF ExecuteNext
  <2>3. QED
    BY <1>3, <1>4, <2>1, <2>2 DEF Ended, Stops, Ok, PublicErrors
<1>10. QED
  BY <1>5, <1>6, <1>7, <1>8, <1>9 DEF Next

\* However the program ends - the end of its input, .quit, the first error of a script,
\* or an error that it does not catch - the database has what was committed.
THEOREM CommittedTheorem == Spec => []EndKeepsWhatWasCommitted
<1>1. Init => CommittedInv
  <2>1. SUFFICES ASSUME Init PROVE CommittedInv
    OBVIOUS
  <2>2. HistoryOK /\ Len(history) = 0 /\ DOMAIN history = {}
    BY <2>1, EmptyHistory DEF Init
  <2>3. Settled(Len(history)) /\ Committed = InitialTables
    BY <2>2 DEF Settled, Committed
  <2>4. QED
    BY <2>1, <2>2, <2>3 DEF Init, CommittedInv, Ended, Keeps
<1>2. CommittedInv => EndKeepsWhatWasCommitted
  BY DEF CommittedInv, EndKeepsWhatWasCommitted
<1>3. QED
  BY <1>1, <1>2, CommittedStep, PTL DEF Spec

LEMMA ExitStep ==
  ASSUME ExitInv, [Next]_vars
  PROVE  ExitInv'
<1>1. CASE \/ UNCHANGED vars \/ Stay \/ EndInput \/ SkipLine \/ RunCommand \/ BufferLine
           \/ Quit \/ EndRepl \/ ReadStatements \/ FinishStatements
           \/ \E phrase \in Sessions[session].phrases : Type(phrase)
  <2>1. UNCHANGED <<history, session>> /\ Mode' = Mode
    BY <1>1 DEF vars, Stay, EndInput, SkipLine, RunCommand, BufferLine, Type, Quit, EndRepl,
                ReadStatements, FinishStatements, ReadLine, input, Mode
  <2>2. UNCHANGED <<status, pending>> \/ Mode = "repl" \/ ReadStatements \/ FinishStatements
    BY <1>1 DEF vars, Stay, EndInput, SkipLine, RunCommand, BufferLine, Type, Quit, EndRepl,
                ReadLine
  <2>3. status' \in {"reading", "executing", "exit 0", "exit 1", "traceback"}
    BY <1>1 DEF ExitInv, vars, Stay, EndInput, SkipLine, RunCommand, BufferLine, Type, Quit,
                EndRepl, ReadStatements, FinishStatements
  <2>4. CASE UNCHANGED <<status, pending>> \/ Mode = "repl"
    BY <2>1, <2>3, <2>4 DEF ExitInv, HistoryOK
  <2>5. CASE ReadStatements
    BY <2>1, <2>3, <2>5, EmptyHistory DEF ExitInv, HistoryOK, ReadStatements
  <2>6. CASE FinishStatements
    <3>1. status = "executing" /\ status' = "exit 0" /\ pending' = <<>>
      BY <2>6 DEF FinishStatements
    <3>2. HistoryOK'
      BY <2>1 DEF ExitInv, HistoryOK
    <3>3. QED
      BY <2>1, <3>1, <3>2 DEF ExitInv
  <2>7. QED
    BY <2>2, <2>4, <2>5, <2>6
<1>2. CASE RunStatement
  <2>1. PICK raw, sql, r : Record(raw, sql, r) /\ status' \in {"traceback", status}
    BY <1>2 DEF RunStatement
  <2>2. Mode = "repl" /\ Mode' = Mode
    BY <1>2 DEF RunStatement, ReadLine, Mode
  <2>3. QED
    BY <2>1, <2>2, LongerHistory DEF ExitInv, Record
<1>3. CASE ExecuteNext
  <2>1. PICK sql, r : /\ Record(sql, sql, r)
                      /\ status' = CASE Stops(r) -> "traceback"
                                      [] r.end \in PublicErrors -> "exit 1"
                                      [] OTHER -> status
    BY <1>3 DEF ExecuteNext
  <2>2. status = "executing" /\ Mode' = Mode
    BY <1>3 DEF ExecuteNext, Mode, input
  <2>. DEFINE e == [raw |-> sql, sql |-> sql, end |-> r.end,
                    before |-> db.tables, after |-> r.db.tables]
  <2>3. history' = Append(history, e) /\ e.end = r.end
    BY <2>1 DEF Record
  <2>. HIDE DEF e
  <2>4. /\ HistoryOK' /\ Len(history) \in Nat /\ Len(history') = Len(history) + 1
        /\ DOMAIN history = 1..Len(history) /\ DOMAIN history' = 1..(Len(history) + 1)
        /\ history'[Len(history) + 1] = e
        /\ \A i \in 1..Len(history) : history'[i] = history[i]
    BY <2>3, LongerHistory DEF ExitInv
  <2>5. history' # <<>> /\ Last(history') = e
    BY <2>4 DEF Last
  <2>6. status' = IF r.end = Ok THEN "executing"
                  ELSE IF r.end \in PublicErrors THEN "exit 1" ELSE "traceback"
    BY <2>1, <2>2 DEF Stops, Ok, PublicErrors
  <2>7. Mode # "repl" => \A i \in 1..Len(history) : history[i].end = Ok
    BY <2>2, <2>4 DEF ExitInv
  <2>8. Mode # "repl" => /\ \A i \in 1..(Len(history') - 1) : history'[i].end = Ok
                         /\ r.end = Ok => \A i \in DOMAIN history' : history'[i].end = Ok
    BY <2>3, <2>4, <2>7
  <2>9. status' \in {"executing", "exit 1", "traceback"}
        /\ (status' = "executing" <=> r.end = Ok)
    BY <2>6
  <2>10. QED
    BY <2>2, <2>3, <2>4, <2>5, <2>8, <2>9 DEF ExitInv
<1>4. QED
  BY <1>1, <1>2, <1>3 DEF Next

\* The exit code of --script and --execute tells whether every statement succeeded, and
\* the first one that fails is the last one that runs.
THEOREM ExitTheorem == Spec => []ExitCodeIsRight
<1>1. Init => ExitInv
  <2>1. SUFFICES ASSUME Init PROVE ExitInv
    OBVIOUS
  <2>2. history = <<>> /\ status = "reading"
    BY <2>1 DEF Init
  <2>3. HistoryOK /\ 1..(Len(history) - 1) = {}
    BY <2>2, EmptyHistory
  <2>4. QED
    BY <2>2, <2>3 DEF ExitInv
<1>2. ExitInv => ExitCodeIsRight
  BY DEF ExitInv, ExitCodeIsRight
<1>3. QED
  BY <1>1, <1>2, ExitStep, PTL DEF Spec

-----------------------------------------------------------------------------
(* What a text has apart from blanks and semicolons *)

Skipped == Blanks \union {";"}

SqueezeStep(s, i, x) ==
    IF i = 0 THEN <<>> ELSE IF s[i] \in Skipped THEN x ELSE Append(x, s[i])
SqueezeRecursion == INSTANCE Recursion WITH Step <- SqueezeStep

Squeezes(s, f) ==
    f = [i \in Nat |-> IF i = 0 THEN <<>>
                       ELSE IF s[i] \in Skipped THEN f[i - 1]
                       ELSE Append(f[i - 1], s[i])]

\* A text is squeezed one piece at a time.
LEMMA SqueezedRule ==
  ASSUME NEW s
  PROVE  \E f : Squeezes(s, f) /\ Squeezed(s) = f[Len(s)]
<1>1. \E f : Squeezes(s, f)
  <2>1. \A x, y : SqueezeStep(s, 0, x) = SqueezeStep(s, 0, y)
    BY DEF SqueezeStep
  <2>2. \E f : f = [h \in Nat |-> SqueezeStep(s, h, f[h - 1])]
    BY <2>1, SqueezeRecursion!RecursionExists
  <2>3. QED
    BY <2>2 DEF SqueezeStep, Squeezes
<1>. DEFINE F == CHOOSE f : Squeezes(s, f)
<1>2. Squeezes(s, F)
  BY <1>1
<1>3. Squeezed(s) = F[Len(s)]
  BY DEF Squeezed, Squeezes, Skipped
<1>. HIDE DEF F
<1>4. QED
  BY <1>2, <1>3

\* Texts that begin with the same n pieces are squeezed to the same up to there.
LEMMA SqueezesSame ==
  ASSUME NEW s, NEW t, NEW f, NEW g, Squeezes(s, f), Squeezes(t, g),
         NEW n \in Nat, \A i \in 1..n : s[i] = t[i]
  PROVE  f[n] = g[n]
<1>. DEFINE T == {m \in Nat : m <= n => f[m] = g[m]}
<1>1. 0 \in T
  BY DEF Squeezes
<1>2. ASSUME NEW m \in Nat, m \in T PROVE m + 1 \in T
  <2>1. m + 1 \in Nat /\ m + 1 # 0 /\ (m + 1) - 1 = m
    OBVIOUS
  <2>2. SUFFICES ASSUME m + 1 <= n PROVE f[m + 1] = g[m + 1]
    BY <2>1
  <2>3. f[m] = g[m] /\ s[m + 1] = t[m + 1]
    BY <1>2, <2>2
  <2>4. /\ f[m + 1] = IF s[m + 1] \in Skipped THEN f[m] ELSE Append(f[m], s[m + 1])
        /\ g[m + 1] = IF t[m + 1] \in Skipped THEN g[m] ELSE Append(g[m], t[m + 1])
    BY <2>1 DEF Squeezes
  <2>5. QED
    BY <2>3, <2>4
<1>3. Nat \subseteq T
  <2>. HIDE DEF T
  <2>1. QED
    BY <1>1, <1>2, SqueezeRecursion!Induction
<1>4. QED
  BY <1>3

LEMMA SqueezedNothing == Squeezed(<<>>) = <<>>
<1>1. PICK f : Squeezes(<<>>, f) /\ Squeezed(<<>>) = f[Len(<<>>)]
  BY SqueezedRule
<1>2. Len(<<>>) = 0
  OBVIOUS
<1>3. QED
  BY <1>1, <1>2 DEF Squeezes

LEMMA SqueezedAppend ==
  ASSUME NEW S, NEW s \in Seq(S), NEW e \in S
  PROVE  Squeezed(Append(s, e)) =
            IF e \in Skipped THEN Squeezed(s) ELSE Append(Squeezed(s), e)
<1>. DEFINE t == Append(s, e)
            n == Len(s)
<1>1. n \in Nat /\ Len(t) = n + 1 /\ t[n + 1] = e /\ \A i \in 1..n : s[i] = t[i]
  BY AppendProperties, LenProperties
<1>2. PICK f : Squeezes(s, f) /\ Squeezed(s) = f[n]
  BY SqueezedRule
<1>3. PICK g : Squeezes(t, g) /\ Squeezed(t) = g[Len(t)]
  BY SqueezedRule
<1>. HIDE DEF t, n
<1>4. f[n] = g[n]
  BY <1>1, <1>2, <1>3, SqueezesSame
<1>5. n + 1 \in Nat /\ n + 1 # 0 /\ (n + 1) - 1 = n
  BY <1>1
<1>6. g[n + 1] = IF t[n + 1] \in Skipped THEN g[n] ELSE Append(g[n], t[n + 1])
  BY <1>3, <1>5 DEF Squeezes
<1>7. Squeezed(t) = IF e \in Skipped THEN Squeezed(s) ELSE Append(Squeezed(s), e)
  BY <1>1, <1>2, <1>3, <1>4, <1>6
<1>8. QED
  BY <1>7 DEF t

LEMMA SqueezedType ==
  ASSUME NEW S, NEW s \in Seq(S)
  PROVE  Squeezed(s) \in Seq(S)
<1>1. PICK f : Squeezes(s, f) /\ Squeezed(s) = f[Len(s)]
  BY SqueezedRule
<1>. DEFINE T == {m \in Nat : m <= Len(s) => f[m] \in Seq(S)}
<1>2. 0 \in T
  BY <1>1 DEF Squeezes
<1>3. ASSUME NEW m \in Nat, m \in T PROVE m + 1 \in T
  <2>1. m + 1 \in Nat /\ m + 1 # 0 /\ (m + 1) - 1 = m
    OBVIOUS
  <2>2. SUFFICES ASSUME m + 1 <= Len(s) PROVE f[m + 1] \in Seq(S)
    BY <2>1
  <2>3. f[m + 1] = IF s[m + 1] \in Skipped THEN f[m] ELSE Append(f[m], s[m + 1])
    BY <1>1, <2>1 DEF Squeezes
  <2>4. Len(s) \in Nat /\ m + 1 \in 1..Len(s)
    BY <2>1, <2>2, LenProperties
  <2>5. s[m + 1] \in S
    BY <2>4, ElementOfSeq
  <2>6. f[m] \in Seq(S)
    BY <1>3, <2>2, <2>4
  <2>7. QED
    BY <2>3, <2>5, <2>6
<1>4. Nat \subseteq T
  <2>. HIDE DEF T
  <2>1. QED
    BY <1>2, <1>3, SqueezeRecursion!Induction
<1>5. QED
  BY <1>1, <1>4, LenProperties

\* Nothing is left of a text of blanks and semicolons.
LEMMA NothingLeft ==
  ASSUME NEW S, NEW s \in Seq(S), \A i \in 1..Len(s) : s[i] \in Skipped
  PROVE  Squeezed(s) = <<>>
<1>1. PICK f : Squeezes(s, f) /\ Squeezed(s) = f[Len(s)]
  BY SqueezedRule
<1>. DEFINE T == {m \in Nat : m <= Len(s) => f[m] = <<>>}
<1>2. 0 \in T
  BY <1>1 DEF Squeezes
<1>3. ASSUME NEW m \in Nat, m \in T PROVE m + 1 \in T
  <2>1. m + 1 \in Nat /\ m + 1 # 0 /\ (m + 1) - 1 = m
    OBVIOUS
  <2>2. SUFFICES ASSUME m + 1 <= Len(s) PROVE f[m + 1] = <<>>
    BY <2>1
  <2>3. f[m + 1] = IF s[m + 1] \in Skipped THEN f[m] ELSE Append(f[m], s[m + 1])
    BY <1>1, <2>1 DEF Squeezes
  <2>4. Len(s) \in Nat /\ m + 1 \in 1..Len(s)
    BY <2>1, <2>2, LenProperties
  <2>5. f[m] = <<>>
    BY <1>3, <2>2, <2>4
  <2>6. QED
    BY <2>3, <2>4, <2>5
<1>4. Nat \subseteq T
  <2>. HIDE DEF T
  <2>1. QED
    BY <1>2, <1>3, SqueezeRecursion!Induction
<1>5. QED
  BY <1>1, <1>4, LenProperties

\* Two texts are squeezed one by one.
LEMMA SqueezedConcat ==
  ASSUME NEW S, NEW s \in Seq(S), NEW t \in Seq(S)
  PROVE  Squeezed(s \o t) = Squeezed(s) \o Squeezed(t)
<1>. DEFINE Begin(n) == SubSeq(t, 1, n)
            T == {n \in Nat : n <= Len(t) =>
                    Squeezed(s \o Begin(n)) = Squeezed(s) \o Squeezed(Begin(n))}
<1>1. Len(t) \in Nat /\ Squeezed(s) \in Seq(S)
  BY SqueezedType, LenProperties
<1>2. 0 \in T
  <2>1. Begin(0) = <<>>
    BY SubSeqEmpty
  <2>2. s \o <<>> = s /\ Squeezed(s) \o <<>> = Squeezed(s)
    BY <1>1, ConcatEmptySeq
  <2>3. QED
    BY <2>1, <2>2, SqueezedNothing
<1>3. ASSUME NEW n \in Nat, n \in T PROVE n + 1 \in T
  <2>1. SUFFICES ASSUME n + 1 <= Len(t)
                 PROVE  Squeezed(s \o Begin(n + 1)) = Squeezed(s) \o Squeezed(Begin(n + 1))
    OBVIOUS
  <2>. DEFINE e == t[n + 1]
              b == Begin(n)
  <2>2. n + 1 \in 1..Len(t) /\ 1 \in 1..Len(t) /\ n + 1 \in 1..Len(t) /\ (n + 1) - 1 = n
    BY <1>1, <2>1
  <2>3. e \in S
    BY <2>2, ElementOfSeq
  <2>4. b \in Seq(S)
    <3>1. \A i \in 1..n : i \in 1..Len(t)
      BY <1>1, <2>1
    <3>2. \A i \in 1..n : t[i] \in S
      BY <3>1, ElementOfSeq
    <3>3. QED
      BY <3>2, SubSeqProperties
  <2>5. Begin(n + 1) = Append(b, e)
    <3>1. Begin(n + 1) = b \o <<e>>
      BY <2>2, SubSeqRecursiveSecond
    <3>2. QED
      BY <2>3, <2>4, <3>1, AppendIsConcat
  <2>6. Squeezed(s \o b) = Squeezed(s) \o Squeezed(b)
    BY <1>1, <1>3, <2>1
  <2>. HIDE DEF b, e, Begin
  <2>7. s \o b \in Seq(S) /\ Squeezed(b) \in Seq(S)
    BY <2>4, SqueezedType, ConcatProperties
  <2>8. s \o Append(b, e) = Append(s \o b, e)
    BY <2>3, <2>4
  <2>9. /\ Squeezed(Append(s \o b, e)) =
             IF e \in Skipped THEN Squeezed(s \o b) ELSE Append(Squeezed(s \o b), e)
        /\ Squeezed(Append(b, e)) =
             IF e \in Skipped THEN Squeezed(b) ELSE Append(Squeezed(b), e)
    BY <2>3, <2>4, <2>7, SqueezedAppend
  <2>10. Squeezed(s) \o Append(Squeezed(b), e) = Append(Squeezed(s) \o Squeezed(b), e)
    BY <1>1, <2>3, <2>7
  <2>11. QED
    BY <2>5, <2>6, <2>8, <2>9, <2>10
<1>4. Nat \subseteq T
  <2>. HIDE DEF T
  <2>1. QED
    BY <1>2, <1>3, SqueezeRecursion!Induction
<1>5. Squeezed(s \o Begin(Len(t))) = Squeezed(s) \o Squeezed(Begin(Len(t)))
  BY <1>1, <1>4
<1>6. Begin(Len(t)) = t
  BY SubSeqFull
<1>7. QED
  BY <1>5, <1>6

\* A part of a text is a text.
LEMMA PartType ==
  ASSUME NEW S, NEW s \in Seq(S), NEW m \in Nat \ {0}, NEW n \in Int, n <= Len(s)
  PROVE  SubSeq(s, m, n) \in Seq(S)
<1>1. \A i \in m..n : i \in 1..Len(s)
  BY LenProperties
<1>2. \A i \in m..n : s[i] \in S
  BY <1>1, ElementOfSeq
<1>3. QED
  BY <1>2, SubSeqProperties

\* Two parts of a text that follow each other.
LEMMA SqueezedParts ==
  ASSUME NEW S, NEW s \in Seq(S), NEW m \in 1..(Len(s) + 1),
         NEW k \in (m - 1)..Len(s), NEW n \in k..Len(s)
  PROVE  Squeezed(SubSeq(s, m, k)) \o Squeezed(SubSeq(s, k + 1, n)) =
            Squeezed(SubSeq(s, m, n))
<1>1. SubSeq(s, m, k) \o SubSeq(s, k + 1, n) = SubSeq(s, m, n)
  BY ConcatAdjacentSubSeq
<1>2. Len(s) \in Nat
  BY LenProperties
<1>3. m \in Nat \ {0} /\ k \in Int /\ k <= Len(s) /\ k + 1 \in Nat \ {0} /\ n \in Int
      /\ n <= Len(s)
  BY <1>2
<1>4. SubSeq(s, m, k) \in Seq(S) /\ SubSeq(s, k + 1, n) \in Seq(S)
  BY <1>3, PartType
<1>5. QED
  BY <1>1, <1>4, SqueezedConcat

-----------------------------------------------------------------------------
(* Stripping a text *)

\* What is stripped on the right is the end of a text.
LEMMA StripRightIs ==
  ASSUME NEW S, NEW s \in Seq(S), NEW blanks
  PROVE  \E n \in 0..Len(s) : /\ StripRight(s, blanks) = SubSeq(s, 1, n)
                              /\ \A i \in (n + 1)..Len(s) : s[i] \in blanks
<1>. DEFINE places == {i \in DOMAIN s : s[i] \notin blanks}
            P == {0} \union places
            n == Max(P)
<1>1. Len(s) \in Nat /\ DOMAIN s = 1..Len(s)
  BY LenProperties
<1>2. n \in 0..Len(s) /\ \A i \in places : n >= i
  <2>1. CASE places = {}
    <3>1. P = {0}
      BY <2>1
    <3>2. \A x \in {0} : \A y \in {0} : x >= y
      OBVIOUS
    <3>3. n = 0
      BY <3>1, <3>2 DEF Max
    <3>4. QED
      BY <1>1, <2>1, <3>3
  <2>2. CASE places # {}
    <3>1. places \in SUBSET (1..Len(s))
      BY <1>1
    <3>. DEFINE top == Max(places)
    <3>2. top \in places /\ \A i \in places : top >= i
      BY <1>1, <2>2, <3>1, MaxOfNumbers
    <3>. HIDE DEF places, top
    <3>3. top \in P /\ \A i \in P : top >= i
      BY <1>1, <3>1, <3>2
    <3>4. P \subseteq Nat
      BY <1>1, <3>1
    <3>5. n \in P /\ \A i \in P : n >= i
      BY <3>3 DEF Max
    <3>6. P \subseteq 0..Len(s) /\ places \subseteq P
      BY <1>1, <3>1
    <3>. HIDE DEF P, n
    <3>7. QED
      BY <3>5, <3>6
  <2>3. QED
    BY <2>1, <2>2
<1>3. StripRight(s, blanks) = SubSeq(s, 1, n)
  BY DEF StripRight
<1>4. ASSUME NEW i \in (n + 1)..Len(s) PROVE s[i] \in blanks
  <2>1. i \in 1..Len(s) /\ ~(n >= i)
    BY <1>1, <1>2
  <2>2. i \notin places
    BY <1>2, <2>1
  <2>3. QED
    BY <1>1, <2>1, <2>2
<1>. HIDE DEF n
<1>5. QED
  BY <1>2, <1>3, <1>4

\* The pieces from x to y are what stripping leaves.
IsStripped(s, x, y) ==
    /\ Strip(s) = SubSeq(s, x, y)
    /\ \A i \in 1..(x - 1) : s[i] \in Blanks
    /\ \A i \in (y + 1)..Len(s) : s[i] \in Blanks
    /\ x <= y => s[x] \notin Blanks

\* What is stripped are blanks at the ends of a text.
LEMMA StripIs ==
  ASSUME NEW S, NEW s \in Seq(S)
  PROVE  \E x \in 1..(Len(s) + 1) : \E y \in (x - 1)..Len(s) : IsStripped(s, x, y)
<1>1. PICK n \in 0..Len(s) : /\ StripRight(s, Blanks) = SubSeq(s, 1, n)
                             /\ \A i \in (n + 1)..Len(s) : s[i] \in Blanks
  BY StripRightIs
<1>. DEFINE r == SubSeq(s, 1, n)
            places == {i \in DOMAIN r : r[i] \notin Blanks}
            P == places \union {Len(r) + 1}
            m == Min(P)
<1>2. Strip(s) = SubSeq(r, m, Len(r))
  BY <1>1 DEF Strip
<1>3. Len(s) \in Nat /\ n \in Nat
  BY LenProperties
<1>4. r \in Seq(S) /\ Len(r) = n /\ DOMAIN r = 1..n /\ \A i \in 1..n : r[i] = s[i]
  <2>1. \A i \in 1..n : i \in 1..Len(s)
    BY <1>3
  <2>2. \A i \in 1..n : s[i] \in S
    BY <2>1, ElementOfSeq
  <2>3. /\ r \in Seq(S) /\ Len(r) = IF 1 <= n THEN n - 1 + 1 ELSE 0
        /\ \A i \in 1..(n - 1 + 1) : r[i] = s[1 + i - 1]
    BY <1>3, <2>2, SubSeqProperties
  <2>. HIDE DEF r
  <2>4. Len(r) = n
    BY <1>3, <2>3
  <2>5. \A i \in 1..n : i \in 1..(n - 1 + 1) /\ 1 + i - 1 = i
    BY <1>3
  <2>6. QED
    BY <2>3, <2>4, <2>5, LenProperties
<1>. HIDE DEF r
<1>5. m \in 1..(n + 1) /\ (\A i \in places : m <= i) /\ m \in P
  <2>1. P \subseteq 1..(n + 1) /\ P # {} /\ P \subseteq Nat
    BY <1>3, <1>4
  <2>. HIDE DEF P
  <2>2. \E x \in P : \A y \in P : x <= y
    BY <2>1, SqueezeRecursion!LeastNumber
  <2>3. m \in P /\ \A y \in P : m <= y
    BY <2>2 DEF Min
  <2>4. places \subseteq P
    BY DEF P
  <2>5. QED
    BY <2>1, <2>3, <2>4
<1>. HIDE DEF m
<1>6. Strip(s) = SubSeq(s, m, n)
  <2>1. CASE m \in 1..n
    <3>1. n \in 1..Len(s) /\ 1 \in 1..Len(s) /\ m \in 1..(n - 1 + 1) /\ n \in 1..(n - 1 + 1)
          /\ 1 + m - 1 = m /\ 1 + n - 1 = n
      BY <1>3, <2>1
    <3>2. SubSeq(SubSeq(s, 1, n), m, n) = SubSeq(s, 1 + m - 1, 1 + n - 1)
      BY <3>1, SubSeqOfSubSeq
    <3>3. QED
      BY <1>2, <1>4, <3>1, <3>2 DEF r
  <2>2. CASE m = n + 1
    <3>1. m \in Int /\ n \in Int /\ n < m
      BY <1>3, <2>2
    <3>2. SubSeq(r, m, n) = <<>> /\ SubSeq(s, m, n) = <<>>
      BY <3>1, SubSeqEmpty
    <3>3. QED
      BY <1>2, <1>4, <3>2
  <2>3. QED
    BY <1>3, <1>5, <2>1, <2>2
<1>7. ASSUME NEW i \in 1..(m - 1) PROVE s[i] \in Blanks
  <2>1. i \in 1..n /\ ~(m <= i)
    BY <1>3, <1>5
  <2>2. i \notin places
    BY <1>5, <2>1
  <2>3. QED
    BY <1>4, <2>1, <2>2
<1>8. m <= n => s[m] \notin Blanks
  <2>1. SUFFICES ASSUME m <= n PROVE s[m] \notin Blanks
    OBVIOUS
  <2>2. m # n + 1 /\ m \in 1..n
    BY <1>3, <1>5, <2>1
  <2>3. m \in places
    BY <1>4, <1>5, <2>2
  <2>4. QED
    BY <1>4, <2>2, <2>3
<1>9. m \in 1..(Len(s) + 1) /\ n \in (m - 1)..Len(s)
  BY <1>3, <1>5
<1>10. QED
  BY <1>1, <1>6, <1>7, <1>8, <1>9 DEF IsStripped

\* A part of blanks and semicolons.
LEMMA SkippedPart ==
  ASSUME NEW s, NEW m \in Int, NEW n \in Int, \A i \in m..n : s[i] \in Skipped
  PROVE  Squeezed(SubSeq(s, m, n)) = <<>>
<1>. DEFINE part == SubSeq(s, m, n)
<1>1. part \in Seq(Skipped)
  BY SubSeqProperties
<1>. HIDE DEF part
<1>2. \A i \in 1..Len(part) : part[i] \in Skipped
  BY <1>1, ElementOfSeq
<1>3. Squeezed(part) = <<>>
  BY <1>1, <1>2, NothingLeft
<1>4. QED
  BY <1>3 DEF part

\* A part with nothing but blanks and semicolons around it.
LEMMA PartKeeps ==
  ASSUME NEW S, NEW s \in Seq(S), NEW x \in 1..(Len(s) + 1), NEW y \in (x - 1)..Len(s),
         \A i \in 1..(x - 1) : s[i] \in Skipped,
         \A i \in (y + 1)..Len(s) : s[i] \in Skipped
  PROVE  SubSeq(s, x, y) \in Seq(S) /\ Squeezed(SubSeq(s, x, y)) = Squeezed(s)
<1>. DEFINE n == Len(s)
            before == SubSeq(s, 1, x - 1)
            part == SubSeq(s, x, y)
            after == SubSeq(s, y + 1, n)
<1>1. /\ n \in Nat /\ x \in Nat \ {0} /\ y \in Int /\ y <= n /\ y + 1 \in Int /\ n \in Int
      /\ 1 \in Int /\ x - 1 \in Int /\ (x - 1) + 1 = x
      /\ 1 \in 1..(n + 1) /\ x - 1 \in (1 - 1)..n /\ n \in (x - 1)..n
      /\ x \in 1..(n + 1) /\ y \in (x - 1)..n /\ n \in y..n
  BY LenProperties
<1>2. Squeezed(before) = <<>> /\ Squeezed(after) = <<>>
  BY <1>1, SkippedPart
<1>3. part \in Seq(S)
  BY <1>1, PartType
<1>4. Squeezed(part) \in Seq(S) /\ Squeezed(s) \in Seq(S)
  BY <1>3, SqueezedType
<1>5. Squeezed(part) \o Squeezed(after) = Squeezed(SubSeq(s, x, n))
  BY <1>1, SqueezedParts
<1>6. Squeezed(before) \o Squeezed(SubSeq(s, (x - 1) + 1, n)) = Squeezed(SubSeq(s, 1, n))
  BY <1>1, SqueezedParts
<1>7. SubSeq(s, 1, n) = s
  BY SubSeqFull
<1>8. SubSeq(s, x, n) \in Seq(S)
  BY <1>1, PartType
<1>9. Squeezed(SubSeq(s, x, n)) \in Seq(S)
  BY <1>8, SqueezedType
<1>10. Squeezed(SubSeq(s, x, n)) = Squeezed(s)
  BY <1>1, <1>2, <1>6, <1>7, <1>9, ConcatEmptySeq
<1>11. Squeezed(SubSeq(s, x, n)) = Squeezed(part)
  BY <1>2, <1>4, <1>5, ConcatEmptySeq
<1>12. QED
  BY <1>3, <1>10, <1>11

\* What is stripped is skipped.
LEMMA StripRightKeeps ==
  ASSUME NEW S, NEW s \in Seq(S), NEW blanks, blanks \subseteq Skipped
  PROVE  StripRight(s, blanks) \in Seq(S) /\ Squeezed(StripRight(s, blanks)) = Squeezed(s)
<1>1. PICK n \in 0..Len(s) : /\ StripRight(s, blanks) = SubSeq(s, 1, n)
                             /\ \A i \in (n + 1)..Len(s) : s[i] \in blanks
  BY StripRightIs
<1>2. 1 \in 1..(Len(s) + 1) /\ n \in (1 - 1)..Len(s) /\ \A i \in 1..(1 - 1) : s[i] \in Skipped
  BY LenProperties
<1>3. \A i \in (n + 1)..Len(s) : s[i] \in Skipped
  BY <1>1
<1>4. QED
  BY <1>1, <1>2, <1>3, PartKeeps

LEMMA StripKeeps ==
  ASSUME NEW S, NEW s \in Seq(S)
  PROVE  Strip(s) \in Seq(S) /\ Squeezed(Strip(s)) = Squeezed(s)
<1>1. PICK x \in 1..(Len(s) + 1) : \E y \in (x - 1)..Len(s) : IsStripped(s, x, y)
  BY StripIs
<1>2. PICK y \in (x - 1)..Len(s) : IsStripped(s, x, y)
  BY <1>1
<1>3. /\ Strip(s) = SubSeq(s, x, y)
      /\ \A i \in 1..(x - 1) : s[i] \in Skipped
      /\ \A i \in (y + 1)..Len(s) : s[i] \in Skipped
  BY <1>2 DEF IsStripped, Skipped
<1>4. QED
  BY <1>3, PartKeeps

-----------------------------------------------------------------------------
(* What several texts have *)

JoinStep(texts, i, x) == IF i = 0 THEN <<>> ELSE x \o Squeezed(texts[i])
JoinRecursion == INSTANCE Recursion WITH Step <- JoinStep

Joins(texts, f) ==
    f = [i \in Nat |-> IF i = 0 THEN <<>> ELSE f[i - 1] \o Squeezed(texts[i])]

\* Texts are squeezed one after the other.
LEMMA JoinRule ==
  ASSUME NEW texts
  PROVE  \E f : Joins(texts, f) /\ AllSqueezed(texts) = f[Len(texts)]
<1>1. \E f : Joins(texts, f)
  <2>1. \A x, y : JoinStep(texts, 0, x) = JoinStep(texts, 0, y)
    BY DEF JoinStep
  <2>2. \E f : f = [h \in Nat |-> JoinStep(texts, h, f[h - 1])]
    BY <2>1, JoinRecursion!RecursionExists
  <2>3. QED
    BY <2>2 DEF JoinStep, Joins
<1>. DEFINE F == CHOOSE f : Joins(texts, f)
<1>2. Joins(texts, F)
  BY <1>1
<1>3. AllSqueezed(texts) = F[Len(texts)]
  BY DEF AllSqueezed, Joins
<1>. HIDE DEF F
<1>4. QED
  BY <1>2, <1>3

LEMMA AllNothing == AllSqueezed(<<>>) = <<>>
<1>1. PICK f : Joins(<<>>, f) /\ AllSqueezed(<<>>) = f[Len(<<>>)]
  BY JoinRule
<1>2. Len(<<>>) = 0
  OBVIOUS
<1>3. QED
  BY <1>1, <1>2 DEF Joins

\* Lists that begin with the same n texts are squeezed to the same up to there.
LEMMA JoinsSame ==
  ASSUME NEW s, NEW t, NEW f, NEW g, Joins(s, f), Joins(t, g),
         NEW n \in Nat, \A i \in 1..n : s[i] = t[i]
  PROVE  f[n] = g[n]
<1>. DEFINE T == {m \in Nat : m <= n => f[m] = g[m]}
<1>1. 0 \in T
  BY DEF Joins
<1>2. ASSUME NEW m \in Nat, m \in T PROVE m + 1 \in T
  <2>1. m + 1 \in Nat /\ m + 1 # 0 /\ (m + 1) - 1 = m
    OBVIOUS
  <2>2. SUFFICES ASSUME m + 1 <= n PROVE f[m + 1] = g[m + 1]
    BY <2>1
  <2>3. f[m] = g[m] /\ s[m + 1] = t[m + 1]
    BY <1>2, <2>2
  <2>4. /\ f[m + 1] = f[m] \o Squeezed(s[m + 1])
        /\ g[m + 1] = g[m] \o Squeezed(t[m + 1])
    BY <2>1 DEF Joins
  <2>5. QED
    BY <2>3, <2>4
<1>3. Nat \subseteq T
  <2>. HIDE DEF T
  <2>1. QED
    BY <1>1, <1>2, JoinRecursion!Induction
<1>4. QED
  BY <1>3

LEMMA AllAppend ==
  ASSUME NEW S, NEW texts \in Seq(Seq(S)), NEW text \in Seq(S)
  PROVE  AllSqueezed(Append(texts, text)) = AllSqueezed(texts) \o Squeezed(text)
<1>. DEFINE t == Append(texts, text)
            n == Len(texts)
<1>1. n \in Nat /\ Len(t) = n + 1 /\ t[n + 1] = text /\ \A i \in 1..n : texts[i] = t[i]
  BY AppendProperties, LenProperties
<1>2. PICK f : Joins(texts, f) /\ AllSqueezed(texts) = f[n]
  BY JoinRule
<1>3. PICK g : Joins(t, g) /\ AllSqueezed(t) = g[Len(t)]
  BY JoinRule
<1>. HIDE DEF t, n
<1>4. f[n] = g[n]
  BY <1>1, <1>2, <1>3, JoinsSame
<1>5. n + 1 \in Nat /\ n + 1 # 0 /\ (n + 1) - 1 = n
  BY <1>1
<1>6. g[n + 1] = g[n] \o Squeezed(t[n + 1])
  BY <1>3, <1>5 DEF Joins
<1>7. AllSqueezed(t) = AllSqueezed(texts) \o Squeezed(text)
  BY <1>1, <1>2, <1>3, <1>4, <1>6
<1>8. QED
  BY <1>7 DEF t

LEMMA AllType ==
  ASSUME NEW S, NEW texts \in Seq(Seq(S))
  PROVE  AllSqueezed(texts) \in Seq(S)
<1>1. PICK f : Joins(texts, f) /\ AllSqueezed(texts) = f[Len(texts)]
  BY JoinRule
<1>. DEFINE T == {m \in Nat : m <= Len(texts) => f[m] \in Seq(S)}
<1>2. 0 \in T
  BY <1>1 DEF Joins
<1>3. ASSUME NEW m \in Nat, m \in T PROVE m + 1 \in T
  <2>1. m + 1 \in Nat /\ m + 1 # 0 /\ (m + 1) - 1 = m
    OBVIOUS
  <2>2. SUFFICES ASSUME m + 1 <= Len(texts) PROVE f[m + 1] \in Seq(S)
    BY <2>1
  <2>3. f[m + 1] = f[m] \o Squeezed(texts[m + 1])
    BY <1>1, <2>1 DEF Joins
  <2>4. Len(texts) \in Nat /\ m + 1 \in 1..Len(texts)
    BY <2>1, <2>2, LenProperties
  <2>5. texts[m + 1] \in Seq(S)
    BY <2>4, ElementOfSeq
  <2>6. Squeezed(texts[m + 1]) \in Seq(S)
    BY <2>5, SqueezedType
  <2>7. f[m] \in Seq(S)
    BY <1>3, <2>2, <2>4
  <2>8. QED
    BY <2>3, <2>6, <2>7, ConcatProperties
<1>4. Nat \subseteq T
  <2>. HIDE DEF T
  <2>1. QED
    BY <1>2, <1>3, JoinRecursion!Induction
<1>5. QED
  BY <1>1, <1>4, LenProperties

-----------------------------------------------------------------------------
(* Splitting a script *)

LEMMA WithStatementKeeps ==
  ASSUME NEW S, NEW statements \in Seq(Seq(S)), NEW text \in Seq(S)
  PROVE  /\ WithStatement(statements, text) \in Seq(Seq(S))
         /\ AllSqueezed(WithStatement(statements, text)) =
              AllSqueezed(statements) \o Squeezed(text)
<1>1. Strip(text) \in Seq(S) /\ Squeezed(Strip(text)) = Squeezed(text)
  BY StripKeeps
<1>2. AllSqueezed(statements) \in Seq(S)
  BY AllType
<1>3. CASE Strip(text) = <<>>
  <2>1. Squeezed(text) = <<>>
    BY <1>1, <1>3, SqueezedNothing
  <2>2. AllSqueezed(statements) \o <<>> = AllSqueezed(statements)
    BY <1>2, ConcatEmptySeq
  <2>3. WithStatement(statements, text) = statements
    BY <1>3 DEF WithStatement
  <2>4. QED
    BY <2>1, <2>2, <2>3
<1>4. CASE Strip(text) # <<>>
  <2>1. WithStatement(statements, text) = Append(statements, Strip(text))
    BY <1>4 DEF WithStatement
  <2>2. Append(statements, Strip(text)) \in Seq(Seq(S))
    BY <1>1, AppendProperties
  <2>3. QED
    BY <1>1, <2>1, <2>2, AllAppend
<1>5. QED
  BY <1>3, <1>4

SplitStep(text, i, x) ==
    IF i = 0 THEN [statements |-> <<>>, start |-> 1] ELSE SplitAt(x, text, i)
SplitRecursion == INSTANCE Recursion WITH Step <- SplitStep

Splits(text, f) ==
    f = [i \in Nat |-> IF i = 0 THEN [statements |-> <<>>, start |-> 1]
                       ELSE SplitAt(f[i - 1], text, i)]

\* A script is split one piece at a time.
LEMMA SplitRule ==
  ASSUME NEW text
  PROVE  \E f : /\ Splits(text, f)
                /\ SplitScript(text) =
                     WithStatement(f[Len(text)].statements,
                                   SubSeq(text, f[Len(text)].start, Len(text)))
<1>1. \E f : Splits(text, f)
  <2>1. \A x, y : SplitStep(text, 0, x) = SplitStep(text, 0, y)
    BY DEF SplitStep
  <2>2. \E f : f = [h \in Nat |-> SplitStep(text, h, f[h - 1])]
    BY <2>1, SplitRecursion!RecursionExists
  <2>3. QED
    BY <2>2 DEF SplitStep, Splits
<1>. DEFINE F == CHOOSE f : Splits(text, f)
<1>2. Splits(text, F)
  BY <1>1
<1>3. SplitScript(text) =
        WithStatement(F[Len(text)].statements,
                      SubSeq(text, F[Len(text)].start, Len(text)))
  BY DEF SplitScript, Splits
<1>. HIDE DEF F
<1>4. QED
  BY <1>2, <1>3

\* What has been read of a text is in the statements that have ended, and behind them.
SplitUpTo(state, text, i) ==
    /\ state.start \in 1..(i + 1)
    /\ AllSqueezed(state.statements) \o Squeezed(SubSeq(text, state.start, i)) =
         Squeezed(SubSeq(text, 1, i))

LEMMA SplitAtKeeps ==
  ASSUME NEW S, NEW text \in Seq(S), NEW m \in Nat, NEW n, n = m + 1, n <= Len(text),
         NEW state, state.statements \in Seq(Seq(S)), SplitUpTo(state, text, m)
  PROVE  /\ SplitAt(state, text, n).statements \in Seq(Seq(S))
         /\ SplitUpTo(SplitAt(state, text, n), text, n)
<1>. DEFINE before == SubSeq(text, state.start, m)
            piece == SubSeq(text, n, n)
<1>1. Len(text) \in Nat
  BY LenProperties
<1>2. /\ n \in Nat \ {0} /\ n - 1 = m /\ state.start \in Nat \ {0} /\ m <= Len(text)
      /\ m \in Int /\ n \in Int /\ n \in 1..Len(text)
  BY <1>1 DEF SplitUpTo
<1>3. before \in Seq(S) /\ SubSeq(text, 1, m) \in Seq(S) /\ piece \in Seq(S)
  BY <1>2, PartType
<1>4. Squeezed(SubSeq(text, 1, m)) \o Squeezed(piece) = Squeezed(SubSeq(text, 1, n))
  <2>1. /\ 1 \in 1..(Len(text) + 1) /\ m \in (1 - 1)..Len(text) /\ n \in m..Len(text)
        /\ m + 1 = n
    BY <1>1, <1>2
  <2>2. Squeezed(SubSeq(text, 1, m)) \o Squeezed(SubSeq(text, m + 1, n)) =
          Squeezed(SubSeq(text, 1, n))
    BY <2>1, SqueezedParts
  <2>3. QED
    BY <2>1, <2>2
<1>5. Squeezed(before) \o Squeezed(piece) = Squeezed(SubSeq(text, state.start, n))
  <2>1. /\ state.start \in 1..(Len(text) + 1) /\ m \in (state.start - 1)..Len(text)
        /\ n \in m..Len(text) /\ m + 1 = n
    BY <1>1, <1>2 DEF SplitUpTo
  <2>2. Squeezed(SubSeq(text, state.start, m)) \o Squeezed(SubSeq(text, m + 1, n)) =
          Squeezed(SubSeq(text, state.start, n))
    BY <2>1, SqueezedParts
  <2>3. QED
    BY <2>1, <2>2
<1>6. /\ AllSqueezed(state.statements) \in Seq(S) /\ Squeezed(before) \in Seq(S)
      /\ Squeezed(piece) \in Seq(S) /\ Squeezed(SubSeq(text, 1, m)) \in Seq(S)
  BY <1>3, AllType, SqueezedType
<1>7. AllSqueezed(state.statements) \o Squeezed(before) = Squeezed(SubSeq(text, 1, m))
  BY DEF SplitUpTo
<1>. HIDE DEF before, piece
<1>8. CASE n \in Terminators(text)
  <2>. DEFINE next == [statements |-> WithStatement(state.statements, before),
                       start |-> n + 1]
  <2>1. SplitAt(state, text, n) = next
    BY <1>2, <1>8 DEF SplitAt, before
  <2>2. text[n] = ";"
    BY <1>8 DEF Terminators
  <2>3. Squeezed(piece) = <<>>
    <3>1. text[n] \in {";"}
      BY <2>2
    <3>2. \A i \in n..n : i = n
      BY <1>2
    <3>3. \A i \in n..n : text[i] \in {";"}
      BY <3>1, <3>2
    <3>4. piece \in Seq({";"})
      BY <1>2, <3>3, SubSeqProperties DEF piece
    <3>5. \A i \in 1..Len(piece) : piece[i] \in {";"}
      BY <3>4, ElementOfSeq
    <3>6. QED
      BY <3>4, <3>5, NothingLeft DEF Skipped
  <2>4. Squeezed(SubSeq(text, 1, n)) = Squeezed(SubSeq(text, 1, m))
    BY <1>4, <1>6, <2>3, ConcatEmptySeq
  <2>5. /\ next.statements \in Seq(Seq(S))
        /\ AllSqueezed(next.statements) = Squeezed(SubSeq(text, 1, m))
    <3>1. next.statements = WithStatement(state.statements, before)
      OBVIOUS
    <3>2. QED
      BY <1>3, <1>7, <3>1, WithStatementKeeps
  <2>6. Squeezed(SubSeq(text, next.start, n)) = <<>>
    <3>1. next.start = n + 1 /\ n + 1 \in Int /\ n < n + 1
      BY <1>2
    <3>2. SubSeq(text, next.start, n) = <<>>
      BY <1>2, <3>1, SubSeqEmpty
    <3>3. QED
      BY <3>2, SqueezedNothing
  <2>7. next.start \in 1..(n + 1)
    BY <1>2
  <2>. HIDE DEF next
  <2>8. AllSqueezed(next.statements) \o Squeezed(SubSeq(text, next.start, n)) =
          Squeezed(SubSeq(text, 1, n))
    BY <1>6, <2>4, <2>5, <2>6, ConcatEmptySeq
  <2>9. SplitUpTo(next, text, n)
    BY <2>7, <2>8 DEF SplitUpTo
  <2>10. QED
    BY <2>1, <2>5, <2>9
<1>9. CASE n \notin Terminators(text)
  <2>1. SplitAt(state, text, n) = state
    BY <1>9 DEF SplitAt
  <2>2. (AllSqueezed(state.statements) \o Squeezed(before)) \o Squeezed(piece) =
          AllSqueezed(state.statements) \o (Squeezed(before) \o Squeezed(piece))
    <3>. DEFINE a == AllSqueezed(state.statements)
                b == Squeezed(before)
                c == Squeezed(piece)
    <3>1. a \in Seq(S) /\ b \in Seq(S) /\ c \in Seq(S)
      BY <1>6
    <3>. HIDE DEF a, b, c
    <3>2. (a \o b) \o c = a \o (b \o c)
      BY <3>1
    <3>3. QED
      BY <3>2 DEF a, b, c
  <2>3. AllSqueezed(state.statements) \o Squeezed(SubSeq(text, state.start, n)) =
          Squeezed(SubSeq(text, 1, n))
    BY <1>4, <1>5, <1>7, <2>2
  <2>4. state.start \in 1..(n + 1)
    BY <1>2 DEF SplitUpTo
  <2>5. QED
    BY <2>1, <2>3, <2>4 DEF SplitUpTo
<1>10. QED
  BY <1>8, <1>9

\* What is in a script is in its statements.
LEMMA SplitKeeps ==
  ASSUME NEW S, NEW text \in Seq(S)
  PROVE  /\ SplitScript(text) \in Seq(Seq(S))
         /\ AllSqueezed(SplitScript(text)) = Squeezed(text)
<1>. DEFINE n == Len(text)
<1>1. n \in Nat
  BY LenProperties
<1>2. PICK f : /\ Splits(text, f)
               /\ SplitScript(text) = WithStatement(f[n].statements,
                                                    SubSeq(text, f[n].start, n))
  BY SplitRule
<1>. DEFINE T == {m \in Nat : m <= n => /\ f[m].statements \in Seq(Seq(S))
                                        /\ SplitUpTo(f[m], text, m)}
<1>3. 0 \in T
  <2>1. f[0] = [statements |-> <<>>, start |-> 1]
    BY <1>2 DEF Splits
  <2>2. f[0].statements = <<>> /\ f[0].start = 1
    BY <2>1
  <2>3. SubSeq(text, 1, 0) = <<>>
    BY SubSeqEmpty
  <2>4. Squeezed(SubSeq(text, 1, 0)) = <<>>
    BY <2>3, SqueezedNothing
  <2>5. AllSqueezed(f[0].statements) \o Squeezed(SubSeq(text, f[0].start, 0)) =
          Squeezed(SubSeq(text, 1, 0))
    <3>1. <<>> \in Seq(S) /\ <<>> \o <<>> = <<>>
      BY ConcatEmptySeq
    <3>2. QED
      BY <2>2, <2>3, <2>4, <3>1, AllNothing
  <2>6. f[0].start \in 1..(0 + 1)
    BY <2>2
  <2>7. SplitUpTo(f[0], text, 0)
    BY <2>5, <2>6 DEF SplitUpTo
  <2>8. f[0].statements \in Seq(Seq(S))
    BY <2>2, EmptySeq
  <2>9. QED
    BY <2>7, <2>8
<1>4. ASSUME NEW m \in Nat, m \in T PROVE m + 1 \in T
  <2>1. m + 1 \in Nat /\ m + 1 # 0 /\ (m + 1) - 1 = m
    OBVIOUS
  <2>2. SUFFICES ASSUME m + 1 <= n
                 PROVE  /\ f[m + 1].statements \in Seq(Seq(S))
                        /\ SplitUpTo(f[m + 1], text, m + 1)
    BY <2>1
  <2>3. f[m].statements \in Seq(Seq(S)) /\ SplitUpTo(f[m], text, m)
    BY <1>1, <1>4, <2>2
  <2>4. f[m + 1] = SplitAt(f[m], text, m + 1)
    BY <1>2, <2>1 DEF Splits
  <2>5. QED
    BY <2>2, <2>3, <2>4, SplitAtKeeps
<1>5. Nat \subseteq T
  <2>. HIDE DEF T
  <2>1. QED
    BY <1>3, <1>4, SplitRecursion!Induction
<1>6. f[n].statements \in Seq(Seq(S)) /\ SplitUpTo(f[n], text, n)
  BY <1>1, <1>5
<1>7. SubSeq(text, f[n].start, n) \in Seq(S)
  <2>1. f[n].start \in Nat \ {0} /\ n \in Int /\ n <= Len(text)
    BY <1>1, <1>6 DEF SplitUpTo
  <2>2. QED
    BY <2>1, PartType
<1>8. SubSeq(text, 1, n) = text
  BY SubSeqFull
<1>9. QED
  BY <1>2, <1>6, <1>7, <1>8, WithStatementKeeps DEF SplitUpTo

-----------------------------------------------------------------------------
(* What is read *)

\* The statements that were executed.
Executed == [i \in DOMAIN history |-> history[i].sql]

LEMMA ExecutedType ==
  ASSUME HistoryOK, \A i \in DOMAIN history : history[i].sql \in Seq(Pieces)
  PROVE  /\ Executed \in Seq(Seq(Pieces))
         /\ Len(history) \in Nat /\ DOMAIN history = 1..Len(history)
         /\ Len(Executed) = Len(history)
<1>1. Len(history) \in Nat /\ DOMAIN history = 1..Len(history)
  BY LenProperties DEF HistoryOK
<1>2. Executed = [i \in 1..Len(history) |-> history[i].sql]
  BY <1>1 DEF Executed
<1>3. Executed \in [1..Len(history) -> Seq(Pieces)]
  BY <1>1, <1>2
<1>4. QED
  BY <1>1, <1>3

LEMMA ExecutedAppend ==
  ASSUME HistoryOK, \A i \in DOMAIN history : history[i].sql \in Seq(Pieces),
         NEW e, e.sql \in Seq(Pieces), history' = Append(history, e)
  PROVE  /\ HistoryOK'
         /\ \A i \in DOMAIN history' : history'[i].sql \in Seq(Pieces)
         /\ Executed' = Append(Executed, e.sql)
<1>1. /\ HistoryOK'
      /\ Len(history) \in Nat /\ Len(history') = Len(history) + 1
      /\ DOMAIN history = 1..Len(history) /\ DOMAIN history' = 1..(Len(history) + 1)
      /\ history'[Len(history) + 1] = e
      /\ \A i \in 1..Len(history) : history'[i] = history[i]
  BY LongerHistory
<1>. DEFINE n == Len(history)
            longer == Append(Executed, e.sql)
<1>2. \A i \in 1..(n + 1) : i \in 1..n \/ i = n + 1
  BY <1>1
<1>3. \A i \in DOMAIN history' : history'[i].sql \in Seq(Pieces)
  BY <1>1, <1>2
<1>4. Executed \in Seq(Seq(Pieces)) /\ Len(Executed) = n
  BY ExecutedType
<1>5. /\ longer \in Seq(Seq(Pieces)) /\ Len(longer) = n + 1
      /\ longer[n + 1] = e.sql
      /\ \A i \in 1..n : longer[i] = Executed[i]
  BY <1>4, AppendProperties
<1>6. Executed' \in Seq(Seq(Pieces)) /\ Len(Executed') = n + 1
  <2>1. Executed' = [i \in 1..(n + 1) |-> history'[i].sql]
    BY <1>1 DEF Executed
  <2>2. Executed' \in [1..(n + 1) -> Seq(Pieces)]
    BY <1>1, <1>3, <2>1
  <2>3. n + 1 \in Nat
    BY <1>1
  <2>4. QED
    BY <2>2, <2>3
<1>7. ASSUME NEW i \in 1..(n + 1) PROVE longer[i] = Executed'[i]
  <2>1. Executed'[i] = history'[i].sql
    BY <1>1 DEF Executed
  <2>2. CASE i \in 1..n
    BY <1>1, <1>5, <2>1, <2>2 DEF Executed
  <2>3. CASE i = n + 1
    BY <1>1, <1>5, <2>1, <2>3
  <2>4. QED
    BY <1>2, <2>2, <2>3
<1>. HIDE DEF longer
<1>8. longer = Executed'
  BY <1>5, <1>6, <1>7, SeqEqual
<1>9. QED
  BY <1>1, <1>3, <1>8 DEF longer

LEMMA OneSkipped ==
  ASSUME NEW S, NEW c \in S, c \in Skipped
  PROVE  <<c>> \in Seq(S) /\ Squeezed(<<c>>) = <<>>
<1>1. <<c>> \in Seq(S) /\ Len(<<c>>) = 1 /\ <<c>>[1] = c
  OBVIOUS
<1>2. \A i \in 1..Len(<<c>>) : <<c>>[i] \in Skipped
  BY <1>1
<1>3. QED
  BY <1>1, <1>2, NothingLeft

\* A line is added to the buffer whole, but for its end.
LEMMA BufferedKeeps ==
  ASSUME typed \in Seq(Pieces), buffer \in Seq(Pieces)
  PROVE  /\ Buffered \in Seq(Pieces)
         /\ Squeezed(Buffered) = Squeezed(buffer) \o Squeezed(typed)
<1>. DEFINE line == StripRight(typed, {"\n"})
            end == <<"\n">>
<1>1. line \in Seq(Pieces) /\ Squeezed(line) = Squeezed(typed)
  <2>1. {"\n"} \subseteq Skipped
    BY DEF Skipped, Blanks
  <2>2. QED
    BY <2>1, StripRightKeeps
<1>2. end \in Seq(Pieces) /\ Squeezed(end) = <<>>
  <2>1. "\n" \in Pieces
    BY DEF Pieces, Blanks
  <2>2. "\n" \in Skipped
    BY DEF Skipped, Blanks
  <2>3. QED
    BY <2>1, <2>2, OneSkipped, Zenon
<1>3. Squeezed(buffer) \in Seq(Pieces) /\ Squeezed(line) \in Seq(Pieces)
  BY <1>1, SqueezedType
<1>. HIDE DEF line, end
<1>4. CASE buffer = <<>>
  <2>1. Buffered = <<>> \o line
    BY <1>4 DEF Buffered, line
  <2>2. Buffered = line
    BY <1>1, <2>1, ConcatEmptySeq
  <2>3. Squeezed(buffer) = <<>>
    BY <1>4, SqueezedNothing
  <2>4. QED
    BY <1>1, <1>3, <2>2, <2>3, ConcatEmptySeq
<1>5. CASE buffer # <<>>
  <2>1. Buffered = (buffer \o end) \o line
    BY <1>5 DEF Buffered, line, end
  <2>2. buffer \o end \in Seq(Pieces)
    BY <1>2, ConcatProperties
  <2>3. Buffered \in Seq(Pieces)
    BY <1>1, <2>1, <2>2, ConcatProperties
  <2>4. Squeezed(Buffered) = Squeezed(buffer \o end) \o Squeezed(line)
    BY <1>1, <2>1, <2>2, SqueezedConcat
  <2>5. Squeezed(buffer \o end) = Squeezed(buffer) \o Squeezed(end)
    BY <1>2, SqueezedConcat
  <2>6. Squeezed(buffer \o end) = Squeezed(buffer)
    BY <1>2, <1>3, <2>5, ConcatEmptySeq
  <2>7. QED
    BY <1>1, <2>3, <2>4, <2>6
<1>6. QED
  BY <1>4, <1>5

\* A line of a statement.
LEMMA BufferLineReads ==
  ASSUME ReadInv, BufferLine
  PROVE  ReadInv'
<1>. DEFINE all == AllSqueezed(StatementTexts)
<1>1. /\ Mode = "repl" /\ session' = session /\ typed' = <<>>
      /\ lines' = lines \o typed /\ buffer' = Buffered
      /\ UNCHANGED <<pending, history, status>>
  BY DEF BufferLine, ReadLine
<1>2. Buffered \in Seq(Pieces) /\ Squeezed(Buffered) = Squeezed(buffer) \o Squeezed(typed)
  BY BufferedKeeps DEF ReadInv
<1>3. lines' \in Seq(Pieces) /\ Squeezed(lines') = Squeezed(lines) \o Squeezed(typed)
  BY <1>1, ConcatProperties, SqueezedConcat DEF ReadInv
<1>4. Squeezed(lines) = all \o Squeezed(buffer)
  BY DEF ReadInv, StatementsAreReadOnce
<1>5. /\ all \in Seq(Pieces) /\ Squeezed(buffer) \in Seq(Pieces)
      /\ Squeezed(typed) \in Seq(Pieces)
  <2>1. Executed \in Seq(Seq(Pieces)) /\ pending \in Seq(Seq(Pieces))
    BY ExecutedType DEF ReadInv
  <2>2. StatementTexts \in Seq(Seq(Pieces))
    BY <2>1, ConcatProperties DEF StatementTexts, Executed
  <2>3. QED
    BY <2>2, AllType, SqueezedType DEF ReadInv
<1>6. StatementTexts' = StatementTexts
  BY <1>1 DEF StatementTexts
<1>7. Squeezed(lines') = all \o Squeezed(Buffered)
  <2>. DEFINE b == Squeezed(buffer)
              c == Squeezed(typed)
  <2>1. all \in Seq(Pieces) /\ b \in Seq(Pieces) /\ c \in Seq(Pieces)
    BY <1>5
  <2>2. Squeezed(lines') = (all \o b) \o c /\ Squeezed(Buffered) = b \o c
    BY <1>2, <1>3, <1>4
  <2>. HIDE DEF all, b, c
  <2>3. (all \o b) \o c = all \o (b \o c)
    BY <2>1
  <2>4. QED
    BY <2>2, <2>3
<1>8. StatementsAreReadOnce'
  BY <1>1, <1>6, <1>7 DEF StatementsAreReadOnce
<1>9. HistoryOK' /\ Mode' = Mode
  BY <1>1 DEF ReadInv, HistoryOK, Mode
<1>10. QED
  BY <1>1, <1>2, <1>3, <1>8, <1>9 DEF ReadInv

\* The last line of a statement.
LEMMA RunStatementReads ==
  ASSUME ReadInv, RunStatement
  PROVE  ReadInv'
<1>. DEFINE all == AllSqueezed(StatementTexts)
            sql == Strip(StripRight(Buffered, {";"}))
<1>1. /\ Mode = "repl" /\ session' = session /\ typed' = <<>>
      /\ lines' = lines \o typed /\ buffer' = <<>> /\ pending' = pending
  BY DEF RunStatement, ReadLine
<1>2. PICK e : history' = Append(history, e) /\ e.sql = sql
  <2>1. PICK r : Record(Buffered, sql, r)
    BY DEF RunStatement
  <2>. HIDE DEF sql
  <2>2. QED
    BY <2>1 DEF Record
<1>3. Buffered \in Seq(Pieces) /\ Squeezed(Buffered) = Squeezed(buffer) \o Squeezed(typed)
  BY BufferedKeeps DEF ReadInv
<1>4. sql \in Seq(Pieces) /\ Squeezed(sql) = Squeezed(Buffered)
  <2>1. {";"} \subseteq Skipped
    BY DEF Skipped
  <2>2. /\ StripRight(Buffered, {";"}) \in Seq(Pieces)
        /\ Squeezed(StripRight(Buffered, {";"})) = Squeezed(Buffered)
    BY <1>3, <2>1, StripRightKeeps
  <2>3. QED
    BY <2>2, StripKeeps
<1>. HIDE DEF sql
<1>5. lines' \in Seq(Pieces) /\ Squeezed(lines') = Squeezed(lines) \o Squeezed(typed)
  BY <1>1, ConcatProperties, SqueezedConcat DEF ReadInv
<1>6. Squeezed(lines) = all \o Squeezed(buffer)
  BY DEF ReadInv, StatementsAreReadOnce
<1>7. pending = <<>>
  BY <1>1 DEF ReadInv
<1>8. Executed \in Seq(Seq(Pieces))
  BY ExecutedType DEF ReadInv
<1>9. /\ HistoryOK' /\ \A i \in DOMAIN history' : history'[i].sql \in Seq(Pieces)
      /\ Executed' = Append(Executed, sql)
  BY <1>2, <1>4, ExecutedAppend DEF ReadInv
<1>10. StatementTexts = Executed /\ StatementTexts' = Append(Executed, sql)
  <2>1. Append(Executed, sql) \in Seq(Seq(Pieces))
    BY <1>4, <1>8, AppendProperties
  <2>2. StatementTexts = Executed \o <<>>
    BY <1>7 DEF StatementTexts, Executed
  <2>3. StatementTexts' = Executed' \o <<>>
    BY <1>1, <1>7 DEF StatementTexts, Executed
  <2>4. QED
    BY <1>8, <1>9, <2>1, <2>2, <2>3, ConcatEmptySeq
<1>11. /\ all \in Seq(Pieces) /\ Squeezed(buffer) \in Seq(Pieces)
       /\ Squeezed(typed) \in Seq(Pieces)
  BY <1>8, <1>10, AllType, SqueezedType DEF ReadInv
<1>12. AllSqueezed(StatementTexts)' = all \o Squeezed(sql)
  BY <1>4, <1>8, <1>10, AllAppend
<1>13. Squeezed(lines') = AllSqueezed(StatementTexts)' \o Squeezed(buffer')
  <2>. DEFINE b == Squeezed(buffer)
              c == Squeezed(typed)
  <2>1. all \in Seq(Pieces) /\ b \in Seq(Pieces) /\ c \in Seq(Pieces)
    BY <1>11
  <2>2. Squeezed(lines') = (all \o b) \o c /\ AllSqueezed(StatementTexts)' = all \o (b \o c)
    BY <1>3, <1>4, <1>5, <1>6, <1>12
  <2>3. Squeezed(buffer') = <<>>
    BY <1>1, SqueezedNothing
  <2>. HIDE DEF all, b, c
  <2>4. (all \o b) \o c = all \o (b \o c) /\ all \o (b \o c) \in Seq(Pieces)
    BY <2>1
  <2>5. (all \o (b \o c)) \o <<>> = all \o (b \o c)
    BY <2>4, ConcatEmptySeq
  <2>6. QED
    BY <2>2, <2>3, <2>4, <2>5
<1>14. StatementsAreReadOnce'
  BY <1>13 DEF StatementsAreReadOnce
<1>15. Mode' = Mode /\ buffer' \in Seq(Pieces) /\ typed' \in Seq(Pieces)
  BY <1>1 DEF Mode
<1>16. QED
  BY <1>1, <1>5, <1>9, <1>14, <1>15 DEF ReadInv

\* The input of --script or --execute.
LEMMA ReadStatementsReads ==
  ASSUME ReadInv, ReadStatements
  PROVE  ReadInv' /\ StatementTexts' = pending'
<1>1. /\ Mode # "repl" /\ status = "reading" /\ status' = "executing"
      /\ lines' = typed
      /\ pending' = IF Mode = "script" THEN SplitScript(typed) ELSE <<typed>>
      /\ UNCHANGED <<session, typed, buffer, history>>
  BY DEF ReadStatements, input
<1>2. typed \in Seq(Pieces) /\ buffer = <<>> /\ history = <<>>
  BY <1>1 DEF ReadInv
<1>3. pending' \in Seq(Seq(Pieces)) /\ AllSqueezed(pending') = Squeezed(typed)
  <2>1. CASE Mode = "script"
    BY <1>1, <1>2, <2>1, SplitKeeps
  <2>2. CASE Mode # "script"
    <3>1. <<typed>> = Append(<<>>, typed) /\ <<>> \in Seq(Seq(Pieces))
      BY EmptySeq
    <3>2. AllSqueezed(<<typed>>) = <<>> \o Squeezed(typed)
      BY <1>2, <3>1, AllAppend, AllNothing
    <3>3. <<typed>> \in Seq(Seq(Pieces))
      BY <1>2
    <3>4. Squeezed(typed) \in Seq(Pieces)
      BY <1>2, SqueezedType
    <3>5. QED
      BY <1>1, <2>2, <3>2, <3>3, <3>4, ConcatEmptySeq
  <2>3. QED
    BY <2>1, <2>2
<1>4. HistoryOK' /\ DOMAIN history' = {}
  BY <1>1, <1>2, EmptyHistory DEF HistoryOK
<1>5. Executed' = <<>>
  BY <1>4 DEF Executed
<1>6. StatementTexts' = pending'
  <2>1. StatementTexts' = Executed' \o pending'
    BY DEF StatementTexts, Executed
  <2>2. QED
    BY <1>3, <1>5, <2>1, ConcatEmptySeq
<1>7. Squeezed(buffer') = <<>>
  BY <1>1, <1>2, SqueezedNothing
<1>8. Squeezed(typed) \o <<>> = Squeezed(typed)
  BY <1>2, SqueezedType, ConcatEmptySeq
<1>9. StatementsAreReadOnce'
  BY <1>1, <1>3, <1>6, <1>7, <1>8 DEF StatementsAreReadOnce
<1>10. Mode' = Mode
  BY <1>1 DEF Mode
<1>11. QED
  BY <1>1, <1>2, <1>3, <1>4, <1>6, <1>9, <1>10 DEF ReadInv

\* The next statement of a script.
LEMMA ExecuteNextReads ==
  ASSUME ReadInv, ExecuteNext
  PROVE  ReadInv' /\ StatementTexts' = StatementTexts
<1>. DEFINE sql == Head(pending)
<1>1. /\ status = "executing" /\ pending # <<>> /\ pending' = Tail(pending)
      /\ UNCHANGED <<session, typed, lines, buffer>>
  BY DEF ExecuteNext, input
<1>2. status' # "reading"
  BY <1>1 DEF ExecuteNext
<1>3. PICK e : history' = Append(history, e) /\ e.sql = sql
  <2>1. PICK r : Record(sql, sql, r)
    BY DEF ExecuteNext
  <2>. HIDE DEF sql
  <2>2. QED
    BY <2>1 DEF Record
<1>4. sql \in Seq(Pieces) /\ pending' \in Seq(Seq(Pieces)) /\ pending \in Seq(Seq(Pieces))
  BY <1>1, HeadTailProperties DEF ReadInv
<1>5. pending = <<sql>> \o pending'
  BY <1>1, <1>4
<1>. HIDE DEF sql
<1>6. Executed \in Seq(Seq(Pieces))
  BY ExecutedType DEF ReadInv
<1>7. /\ HistoryOK' /\ \A i \in DOMAIN history' : history'[i].sql \in Seq(Pieces)
      /\ Executed' = Append(Executed, sql)
  BY <1>3, <1>4, ExecutedAppend DEF ReadInv
<1>8. Append(Executed, sql) \o pending' = Executed \o (<<sql>> \o pending')
  <2>. DEFINE rest == pending'
              done == Executed
  <2>1. rest \in Seq(Seq(Pieces)) /\ done \in Seq(Seq(Pieces)) /\ sql \in Seq(Pieces)
    BY <1>4, <1>6
  <2>. HIDE DEF rest, done
  <2>2. Append(done, sql) \o rest = done \o (<<sql>> \o rest)
    BY <2>1
  <2>3. QED
    BY <2>2 DEF rest, done
<1>9. StatementTexts' = StatementTexts
  <2>1. StatementTexts' = Executed' \o pending' /\ StatementTexts = Executed \o pending
    BY DEF StatementTexts, Executed
  <2>2. QED
    BY <1>5, <1>7, <1>8, <2>1
<1>10. StatementsAreReadOnce'
  BY <1>1, <1>9 DEF ReadInv, StatementsAreReadOnce
<1>11. Mode' = Mode /\ Mode # "repl"
  BY <1>1 DEF ReadInv, Mode
<1>12. QED
  BY <1>1, <1>2, <1>4, <1>7, <1>9, <1>10, <1>11 DEF ReadInv

\* Nothing has been read when the program starts.
LEMMA ReadInit ==
  ASSUME Init
  PROVE  ReadInv /\ StatementTexts = <<>>
<1>1. /\ session \in DOMAIN Sessions /\ typed = Sessions[session].start
      /\ lines = <<>> /\ buffer = <<>> /\ pending = <<>> /\ history = <<>>
  BY DEF Init
<1>2. /\ typed \in Seq(Pieces) /\ <<>> \in Seq(Pieces) /\ <<>> \in Seq(Seq(Pieces))
  BY <1>1, SessionsAssumption
<1>3. HistoryOK /\ DOMAIN history = {}
  BY <1>1, EmptyHistory
<1>4. Executed = <<>>
  BY <1>3 DEF Executed
<1>5. <<>> \o <<>> = <<>>
  BY <1>2, ConcatEmptySeq
<1>6. StatementTexts = <<>>
  BY <1>1, <1>4, <1>5 DEF StatementTexts, Executed
<1>7. StatementsAreReadOnce
  BY <1>1, <1>5, <1>6, SqueezedNothing, AllNothing DEF StatementsAreReadOnce
<1>8. QED
  BY <1>1, <1>2, <1>3, <1>6, <1>7 DEF ReadInv

LEMMA ReadStep ==
  ASSUME ReadInv, [Next]_vars
  PROVE  ReadInv'
<1>1. ASSUME UNCHANGED <<session, lines, buffer, pending, history>>, typed' \in Seq(Pieces),
             status' = status \/ status' # "reading"
      PROVE  ReadInv'
  <2>1. Mode' = Mode /\ HistoryOK' /\ StatementsAreReadOnce'
    BY <1>1 DEF ReadInv, Mode, HistoryOK, StatementsAreReadOnce, StatementTexts
  <2>2. QED
    BY <1>1, <2>1 DEF ReadInv
<1>2. <<>> \in Seq(Pieces) /\ typed \in Seq(Pieces)
  BY DEF ReadInv
<1>3. CASE UNCHANGED vars \/ Stay \/ EndInput
  BY <1>1, <1>2, <1>3 DEF vars, Stay, EndInput
<1>4. CASE \E phrase \in Sessions[session].phrases : Type(phrase)
  <2>1. PICK phrase \in Sessions[session].phrases : Type(phrase)
    BY <1>4
  <2>2. phrase \in Seq(Pieces)
    BY <2>1, SessionsAssumption DEF ReadInv
  <2>3. typed' \in Seq(Pieces)
    BY <1>2, <2>1, <2>2, ConcatProperties DEF Type
  <2>4. QED
    BY <1>1, <2>1, <2>3 DEF Type
<1>5. CASE RunCommand \/ Quit \/ SkipLine
  BY <1>1, <1>2, <1>5 DEF RunCommand, Quit, SkipLine, ReadLine
<1>6. CASE EndRepl \/ FinishStatements
  BY <1>1, <1>2, <1>6 DEF EndRepl, FinishStatements, input
<1>7. QED
  BY <1>3, <1>4, <1>5, <1>6, BufferLineReads, RunStatementReads, ReadStatementsReads,
     ExecuteNextReads DEF Next

\* Whatever is typed, in however many lines and with whatever commands between them, every
\* word of it is in exactly one statement: the statements that the program has executed,
\* those of the script that are still to run and the buffer of the REPL are, in this
\* order, all that was read, but for blanks and semicolons.
THEOREM ReadOnceTheorem == Spec => []StatementsAreReadOnce
<1>1. Init => ReadInv
  BY ReadInit
<1>2. ReadInv => StatementsAreReadOnce
  BY DEF ReadInv
<1>3. QED
  BY <1>1, <1>2, ReadStep, PTL DEF Spec

-----------------------------------------------------------------------------
(* Tokens *)

MarkChars == {",", ".", "(", ")", "*", ";"}
MarkClasses == {"COMMA", "DOT", "LPAREN", "RPAREN", "STAR", "SEMICOLON"}

Others == {"SEMICOLON", "BLANK", "QUOTE", "ERROR"}

Classes == Keywords \union Comparisons \union MarkClasses \union
           {"BOOLEAN", "NULL", "IDENTIFIER", "INTEGER", "DECIMAL", "STRING"} \union Others

\* SMT cannot read this string, nor a comma or a blank.
Semicolon == ";"

\* What the signs are.
LEMMA SignsRule ==
  /\ Semicolon \in MarkChars /\ "." \in MarkChars /\ "'" \in Signs /\ "end" \in Signs
  /\ Blanks \subseteq Signs /\ MarkChars \subseteq Signs
  /\ {"!", "<", ">", "="} \subseteq Signs
  /\ \A c \in Blanks \union MarkChars : c \notin {"'", "end", "!", "<", ">", "="}
  /\ \A c \in Blanks : c \notin MarkChars
  /\ Semicolon # "."
BY Zenon DEF Signs, Blanks, MarkChars, Semicolon

\* The marks.
LEMMA MarksRule ==
  /\ DOMAIN Marks = MarkChars
  /\ Marks[Semicolon] = "SEMICOLON"
  /\ \A c \in MarkChars : Marks[c] \in MarkClasses
  /\ \A c \in MarkChars \ {Semicolon} : Marks[c] \notin Others
BY DEF Marks, MarkChars, MarkClasses, Others, Semicolon

\* The operators of two characters.
LEMMA OperatorsRule ==
  /\ \A two \in DOMAIN TwoCharOperators :
        two[1] \in {"!", "<", ">"} /\ two[2] = "=" /\ two = <<two[1], "=">>
  /\ \A c \in {"!", "<", ">"} : <<c, "=">> \in DOMAIN TwoCharOperators
  /\ \A two \in DOMAIN TwoCharOperators : TwoCharOperators[two] \in {"!=", "<=", ">="}
BY DEF TwoCharOperators

\* Keywords are words, and no other classes of tokens.
LEMMA KeywordsRule == \A c \in Keywords : c \notin Others /\ c \notin Signs
<1>1. \A c \in Types \union Aggregates \union UnsupportedJoins : c \notin Others \union Signs
  BY DEF Types, Aggregates, UnsupportedJoins, Others, Signs
<1>2. \A c \in {"ALTER", "AND", "AS", "ASC", "BEGIN", "BY", "COMMIT", "CREATE", "DELETE",
                "DESC", "DROP", "FOREIGN", "FROM", "GROUP", "INSERT", "INNER", "INTO",
                "JOIN", "KEY", "LIMIT"} : c \notin Others \union Signs
  BY DEF Others, Signs
<1>3. \A c \in {"NOT", "OFFSET", "ON", "OR", "ORDER", "OUTER", "PRIMARY", "ROLLBACK",
                "SELECT", "SET", "TABLE", "TRIGGER", "UNIQUE", "UPDATE", "VALUES", "VIEW",
                "WHERE"} : c \notin Others \union Signs
  BY DEF Others, Signs
<1>4. SUFFICES ASSUME NEW c \in Keywords PROVE c \notin Others \union Signs
  OBVIOUS
<1>5. QED
  BY <1>1, <1>2, <1>3, Zenon DEF Keywords

\* A word is a token of a class of its own.
LEMMA WordsRule ==
  /\ \A c \in Words : WordClass(c) \in Classes /\ WordClass(c) \notin Others
  /\ \A c \in Words \union Numbers : c \notin Signs
  /\ \A c \in Words : c \notin Numbers
<1>1. \A c \in Booleans \union {"NULL"} : c \notin Signs
  BY DEF Booleans, Signs
<1>2. \A c \in Words : WordClass(c) \in Classes /\ WordClass(c) \notin Others
  <2>1. SUFFICES ASSUME NEW c \in Words
                 PROVE  WordClass(c) \in Classes /\ WordClass(c) \notin Others
    OBVIOUS
  <2>2. WordClass(c) \in Keywords \union {"BOOLEAN", "NULL", "IDENTIFIER"}
    BY DEF WordClass
  <2>3. {"BOOLEAN", "NULL", "IDENTIFIER"} \intersect Others = {}
    BY DEF Others
  <2>4. Keywords \union {"BOOLEAN", "NULL", "IDENTIFIER"} \subseteq Classes
    BY DEF Classes
  <2>5. QED
    BY <2>2, <2>3, <2>4, KeywordsRule
<1>3. \A c \in Names \union Numbers : c \notin Signs
  BY NamesAssumption
<1>4. QED
  BY <1>1, <1>2, <1>3, KeywordsRule, NamesAssumption DEF Words

Operator(c, d) == <<c, d>> \in DOMAIN TwoCharOperators

\* A token is told by its first piece c and the two that follow it, d and e.
IsToken(class, last, c, d, e, i, n) ==
    /\ c \in Blanks => class = "BLANK" /\ last = i
    /\ c \in Words => class = WordClass(c) /\ last = i
    /\ c \in Numbers /\ d # "." => class = "INTEGER" /\ last = i
    /\ c \in Numbers /\ d = "." /\ e \in Numbers => class = "DECIMAL" /\ last = i + 2
    /\ c \in Numbers /\ d = "." /\ e \notin Numbers => class = "ERROR" /\ last = n
    /\ c = "'" => class = "QUOTE" /\ last = i
    /\ c \in MarkChars => class = Marks[c] /\ last = i
    /\ Operator(c, d) => class = TwoCharOperators[<<c, d>>] /\ last = i + 1
    /\ c \in {"<", ">", "="} /\ ~Operator(c, d) => class = c /\ last = i
    /\ /\ c \notin Blanks \union Words \union Numbers \union {"'"} \union MarkChars
       /\ c \notin {"<", ">", "="} /\ ~Operator(c, d)
       => class = "ERROR" /\ last = n

\* Each case of TokenAt() is the only one.
LEMMA TokenAtCases ==
  ASSUME NEW text, NEW i
  PROVE  IsToken(TokenAt(text, i).class, TokenAt(text, i).last,
                 text[i], PieceAt(text, i + 1), PieceAt(text, i + 2), i, Len(text))
<1>. DEFINE t == TokenAt(text, i)
            c == text[i]
            d == PieceAt(text, i + 1)
            e == PieceAt(text, i + 2)
            n == Len(text)
            Is(class, last) == [class |-> class, last |-> last]
<1>1. t = CASE c \in Blanks -> Is("BLANK", i)
         [] c \in Words -> Is(WordClass(c), i)
         [] c \in Numbers /\ d # "." -> Is("INTEGER", i)
         [] c \in Numbers /\ d = "." /\ e \in Numbers -> Is("DECIMAL", i + 2)
         [] c = "'" -> Is("QUOTE", i)
         [] c \in MarkChars -> Is(Marks[c], i)
         [] Operator(c, d) -> Is(TwoCharOperators[<<c, d>>], i + 1)
         [] c \in {"<", ">", "="} /\ ~Operator(c, d) -> Is(c, i)
         [] OTHER -> Is("ERROR", n)
  BY MarksRule, Zenon DEF TokenAt, Operator
<1>2. Operator(c, d) => c \in {"!", "<", ">"}
  BY OperatorsRule DEF Operator
<1>. SUFFICES IsToken(t.class, t.last, c, d, e, i, n)
  OBVIOUS
<1>. HIDE DEF t, c, d, e, n, Is
<1>3. \A x, y : t = Is(x, y) => t.class = x /\ t.last = y
  BY DEF Is
<1>4. /\ c \in Blanks \union MarkChars \union {"'"} => c \notin {"!", "<", ">", "="}
      /\ c \in Blanks => c \notin MarkChars /\ c # "'"
      /\ c \in MarkChars => c # "'"
      /\ c \in Words \union Numbers =>
           c \notin Blanks \union MarkChars \union {"'", "!", "<", ">", "="}
      /\ c \in Words => c \notin Numbers
  BY WordsRule, SignsRule
<1>5. c \in Blanks => t = Is("BLANK", i)
  BY <1>1, <1>2, <1>4
<1>6. c \in Words => t = Is(WordClass(c), i)
  BY <1>1, <1>2, <1>4
<1>7. /\ c \in Numbers /\ d # "." => t = Is("INTEGER", i)
      /\ c \in Numbers /\ d = "." /\ e \in Numbers => t = Is("DECIMAL", i + 2)
      /\ c \in Numbers /\ d = "." /\ e \notin Numbers => t = Is("ERROR", n)
  BY <1>1, <1>2, <1>4
<1>8. /\ c = "'" => t = Is("QUOTE", i)
      /\ c \in MarkChars => t = Is(Marks[c], i)
  BY <1>1, <1>2, <1>4
<1>9. /\ Operator(c, d) => t = Is(TwoCharOperators[<<c, d>>], i + 1)
      /\ c \in {"<", ">", "="} /\ ~Operator(c, d) => t = Is(c, i)
  BY <1>1, <1>2, <1>4
<1>10. /\ c \notin Blanks \union Words \union Numbers \union {"'"} \union MarkChars
       /\ c \notin {"<", ">", "="} /\ ~Operator(c, d)
       => t = Is("ERROR", n)
  BY <1>1
<1>11. QED
  BY <1>3, <1>5, <1>6, <1>7, <1>8, <1>9, <1>10 DEF IsToken

\* What every token is.
IsTokenAt(class, last, text, i) ==
    /\ class \in Classes /\ last \in i..Len(text)
    /\ class = "SEMICOLON" <=> text[i] = Semicolon
    /\ class = "QUOTE" <=> text[i] = "'"
    /\ class = "BLANK" <=> text[i] \in Blanks
    /\ class \in {"SEMICOLON", "QUOTE", "BLANK"} => last = i
    /\ class # "ERROR" => \A j \in (i + 1)..last : text[j] \notin {"'", Semicolon}
    /\ class = "ERROR" => last = Len(text)

\* TokenAt() gives a token, wherever it is asked for one.
LEMMA TokenAtRule ==
  ASSUME NEW S, NEW text \in Seq(S), NEW i \in 1..Len(text)
  PROVE  IsTokenAt(TokenAt(text, i).class, TokenAt(text, i).last, text, i)
<1>. DEFINE class == TokenAt(text, i).class
            last == TokenAt(text, i).last
            c == text[i]
            d == PieceAt(text, i + 1)
            e == PieceAt(text, i + 2)
            n == Len(text)
<1>1. n \in Nat /\ DOMAIN text = 1..n /\ i \in 1..n /\ (i + 1)..i = {}
  BY LenProperties
<1>2. /\ d # "end" => i + 1 <= n /\ text[i + 1] = d
      /\ e # "end" => i + 2 <= n /\ text[i + 2] = e
  BY <1>1 DEF PieceAt
<1>3. IsToken(class, last, c, d, e, i, n)
  BY TokenAtCases
<1>4. Operator(c, d) => c \in {"!", "<", ">"} /\ d = "="
  BY OperatorsRule DEF Operator
<1>5. c = text[i] /\ n = Len(text)
  OBVIOUS
<1>. SUFFICES IsTokenAt(class, last, text, i)
  OBVIOUS
<1>. HIDE DEF class, last, c, d, e, n
<1>6. \A w \in Words \union Numbers : w \notin Signs
  BY WordsRule
<1>7. /\ "BLANK" \in Classes /\ "QUOTE" \in Classes /\ "ERROR" \in Classes
      /\ "INTEGER" \in Classes /\ "DECIMAL" \in Classes
      /\ MarkClasses \subseteq Classes /\ Comparisons \subseteq Classes
      /\ Others = {"SEMICOLON", "BLANK", "QUOTE", "ERROR"}
      /\ Comparisons \intersect Others = {}
  BY DEF Classes, Others, Comparisons
<1>8. /\ Semicolon \in Signs /\ "'" \in Signs /\ "end" \in Signs /\ "." \in Signs
      /\ Blanks \subseteq Signs /\ MarkChars \subseteq Signs
      /\ {Semicolon, "'"} \intersect Blanks = {} /\ MarkChars \intersect Blanks = {}
      /\ Semicolon \in MarkChars /\ Semicolon # "'" /\ Semicolon # "." /\ Semicolon # "="
  BY SignsRule
<1>9. /\ c \in Blanks \union MarkChars \union {"'"} => c \notin {"!", "<", ">", "="}
      /\ c \in Blanks => c \notin MarkChars /\ c # "'"
      /\ c \in MarkChars => c # "'"
      /\ c \in Words \union Numbers =>
           c \notin Blanks \union MarkChars \union {"'", "!", "<", ">", "="}
      /\ c \in Words => c \notin Numbers
  BY WordsRule, SignsRule
<1>10. ASSUME class \in Classes, class \notin Others, c \notin Blanks, c # Semicolon, c # "'",
              last \in i..n, \A j \in (i + 1)..last : text[j] \notin {"'", Semicolon}
       PROVE  IsTokenAt(class, last, text, i)
  <2>1. class # "SEMICOLON" /\ class # "QUOTE" /\ class # "BLANK" /\ class # "ERROR"
    BY <1>7, <1>10
  <2>2. QED
    BY <1>5, <1>10, <2>1 DEF IsTokenAt
<1>11. i \in i..n /\ (last = i => \A j \in (i + 1)..last : text[j] \notin {"'", Semicolon})
  <2>1. i \in i..n
    BY <1>1
  <2>2. \A j \in (i + 1)..i : FALSE
    BY <1>1
  <2>3. QED
    BY <2>1, <2>2
<1>12. CASE c \in Blanks
  <2>1. class = "BLANK" /\ last = i
    BY <1>3, <1>4, <1>9, <1>12 DEF IsToken
  <2>2. c \notin {Semicolon, "'"}
    BY <1>8, <1>12
  <2>3. QED
    BY <1>1, <1>7, <1>5, <1>12, <2>1, <2>2 DEF IsTokenAt
<1>13. CASE c \in Words
  <2>1. c \notin Blanks /\ c # Semicolon /\ c # "'"
    BY <1>6, <1>8, <1>13
  <2>2. class = WordClass(c) /\ last = i
    BY <1>3, <1>4, <1>9, <1>13 DEF IsToken
  <2>3. class \in Classes /\ class \notin Others
    BY <1>13, <2>2, WordsRule
  <2>4. QED
    BY <1>10, <1>11, <2>1, <2>2, <2>3
<1>14. CASE c \in Numbers /\ c \notin Words
  <2>1. c \notin Signs
    BY <1>6, <1>14
  <2>2. /\ c \notin Blanks /\ c \notin {Semicolon, "'"} /\ c \notin MarkChars
        /\ c \notin {"!", "<", ">", "="}
    BY <1>8, <2>1, SignsRule
  <2>3. ~Operator(c, d)
    BY <1>4, <1>9, <1>14
  <2>4. CASE d # "."
    <3>1. class = "INTEGER" /\ last = i
      BY <1>3, <1>4, <1>9, <1>14, <2>4 DEF IsToken
    <3>2. QED
      BY <1>1, <1>7, <1>5, <2>2, <3>1 DEF IsTokenAt
  <2>5. CASE d = "." /\ e \in Numbers
    <3>1. class = "DECIMAL" /\ last = i + 2
      BY <1>3, <1>4, <1>9, <1>14, <2>5 DEF IsToken
    <3>2. e \notin Signs
      BY <1>6, <2>5
    <3>3. e # "end" /\ e # Semicolon /\ e # "'" /\ d # "end"
      BY <1>8, <2>5, <3>2
    <3>4. text[i + 1] = "." /\ text[i + 2] = e /\ i + 2 <= n
      BY <1>2, <2>5, <3>3
    <3>5. \A j \in (i + 1)..(i + 2) : j = i + 1 \/ j = i + 2
      BY <1>1
    <3>6. \A j \in (i + 1)..(i + 2) : text[j] \notin {"'", Semicolon}
      BY <1>8, <3>3, <3>4, <3>5
    <3>7. i + 2 \in i..n
      BY <1>1, <3>4
    <3>8. QED
      BY <1>7, <1>5, <2>2, <3>1, <3>6, <3>7 DEF IsTokenAt
  <2>6. CASE d = "." /\ e \notin Numbers
    <3>1. class = "ERROR" /\ last = n
      BY <1>3, <1>4, <1>9, <1>14, <2>6 DEF IsToken
    <3>2. QED
      BY <1>1, <1>7, <1>5, <2>2, <3>1 DEF IsTokenAt
  <2>7. QED
    BY <2>4, <2>5, <2>6
<1>15. CASE c = "'"
  <2>1. c \notin Blanks /\ c \notin Words \union Numbers
    BY <1>6, <1>8, <1>15
  <2>2. class = "QUOTE" /\ last = i
    BY <1>3, <1>4, <1>9, <1>15 DEF IsToken
  <2>3. c # Semicolon
    BY <1>8, <1>15
  <2>4. QED
    BY <1>7, <1>5, <1>15, <1>11, <2>1, <2>2, <2>3 DEF IsTokenAt
<1>16. CASE c \in MarkChars
  <2>1. c \notin Blanks /\ c \notin Words \union Numbers /\ c # "'"
    BY <1>6, <1>8, <1>16, <1>9
  <2>2. class = Marks[c] /\ last = i
    BY <1>3, <1>4, <1>9, <1>16 DEF IsToken
  <2>3. /\ Marks[c] \in Classes /\ Marks[Semicolon] = "SEMICOLON"
        /\ c # Semicolon => Marks[c] \notin Others
    BY <1>7, <1>16, MarksRule
  <2>4. /\ class = "SEMICOLON" <=> c = Semicolon
        /\ class \notin {"QUOTE", "BLANK", "ERROR"}
    BY <1>7, <2>2, <2>3
  <2>5. QED
    BY <1>5, <1>11, <2>1, <2>2, <2>3, <2>4 DEF IsTokenAt
<1>17. CASE c \notin Blanks \union Words \union Numbers \union {"'"} \union MarkChars
  <2>1. c # Semicolon /\ c # "'" /\ c \notin Blanks
    BY <1>8, <1>17
  <2>2. CASE Operator(c, d)
    <3>1. class = TwoCharOperators[<<c, d>>] /\ last = i + 1
      BY <1>3, <1>4, <1>9, <1>17, <2>2 DEF IsToken
    <3>2. d = "="
      BY <1>4, <2>2
    <3>3. i + 1 <= n /\ text[i + 1] = "="
      BY <1>2, <3>2
    <3>4. class \in Comparisons
      BY <2>2, <3>1, OperatorsRule DEF Comparisons, Operator
    <3>5. class \in Classes /\ class \notin Others
      BY <1>7, <3>4
    <3>6. \A j \in (i + 1)..(i + 1) : j = i + 1
      BY <1>1
    <3>7. \A j \in (i + 1)..(i + 1) : text[j] \notin {"'", Semicolon}
      BY <1>8, <3>3, <3>6
    <3>8. i + 1 \in i..n
      BY <1>1, <3>3
    <3>9. QED
      BY <1>10, <2>1, <3>1, <3>5, <3>7, <3>8
  <2>3. CASE c \in {"<", ">", "="} /\ ~Operator(c, d)
    <3>1. class = c /\ last = i
      BY <1>3, <1>4, <1>9, <1>17, <2>3 DEF IsToken
    <3>2. class \in Comparisons
      BY <2>3, <3>1 DEF Comparisons
    <3>3. class \in Classes /\ class \notin Others
      BY <1>7, <3>2
    <3>4. QED
      BY <1>10, <1>11, <2>1, <3>1, <3>3
  <2>4. CASE c \notin {"<", ">", "="} /\ ~Operator(c, d)
    <3>1. class = "ERROR" /\ last = n
      BY <1>3, <1>4, <1>9, <1>17, <2>4 DEF IsToken
    <3>2. QED
      BY <1>1, <1>7, <1>5, <2>1, <3>1 DEF IsTokenAt
  <2>5. QED
    BY <2>2, <2>3, <2>4
<1>18. QED
  BY <1>12, <1>13, <1>14, <1>15, <1>16, <1>17

\* No token begins before one of these pieces and goes on with it.
Harmless == Blanks \union {Semicolon, "end"}

Alike(x, y) == x = y \/ {x, y} \subseteq Harmless

\* Which token it is depends on nothing else.
LEMMA TokenAtSame ==
  ASSUME NEW s, NEW t, NEW i \in Nat, NEW j \in Nat, s[i] = t[j],
         Alike(PieceAt(s, i + 1), PieceAt(t, j + 1)),
         PieceAt(s, i + 1) = "." => Alike(PieceAt(s, i + 2), PieceAt(t, j + 2)),
         TokenAt(s, i).class # "ERROR"
  PROVE  /\ TokenAt(t, j).class = TokenAt(s, i).class
         /\ \E k \in 0..2 : TokenAt(s, i).last = i + k /\ TokenAt(t, j).last = j + k
<1>. DEFINE class1 == TokenAt(s, i).class
            class2 == TokenAt(t, j).class
            last1 == TokenAt(s, i).last
            last2 == TokenAt(t, j).last
            c == s[i]
            d1 == PieceAt(s, i + 1)
            d2 == PieceAt(t, j + 1)
            e1 == PieceAt(s, i + 2)
            e2 == PieceAt(t, j + 2)
<1>1. /\ IsToken(class1, last1, c, d1, e1, i, Len(s))
      /\ IsToken(class2, last2, c, d2, e2, j, Len(t))
  BY TokenAtCases
<1>2. Alike(d1, d2) /\ (d1 = "." => Alike(e1, e2)) /\ class1 # "ERROR"
  OBVIOUS
<1>. HIDE DEF class1, class2, last1, last2, c, d1, d2, e1, e2
<1>3. /\ "." \notin Harmless /\ "=" \notin Harmless
      /\ \A w \in Numbers : w \notin Harmless
  <2>1. Harmless \subseteq Signs
    BY SignsRule DEF Harmless
  <2>2. "." \notin Harmless /\ "=" \notin Harmless
    BY SignsRule DEF Harmless
  <2>3. QED
    BY <2>1, <2>2, WordsRule
<1>4. d1 = "." <=> d2 = "."
  BY <1>2, <1>3 DEF Alike
<1>5. d1 = "." => (e1 \in Numbers <=> e2 \in Numbers)
  BY <1>2, <1>3 DEF Alike
<1>6. /\ Operator(c, d1) <=> Operator(c, d2)
      /\ Operator(c, d1) => d1 = "=" /\ d2 = "="
  BY <1>2, <1>3, OperatorsRule DEF Alike, Operator
<1>. SUFFICES /\ class2 = class1
              /\ \E k \in 0..2 : last1 = i + k /\ last2 = j + k
  BY DEF class1, class2, last1, last2
<1>7. ASSUME last1 = i, last2 = j
      PROVE  \E k \in 0..2 : last1 = i + k /\ last2 = j + k
  BY <1>7
<1>8. CASE c \in Blanks
  <2>1. class1 = "BLANK" /\ class2 = "BLANK" /\ last1 = i /\ last2 = j
    BY <1>1, <1>8 DEF IsToken
  <2>2. QED
    BY <1>7, <2>1
<1>9. CASE c \in Words
  <2>1. class1 = WordClass(c) /\ class2 = WordClass(c) /\ last1 = i /\ last2 = j
    BY <1>1, <1>9 DEF IsToken
  <2>2. QED
    BY <1>7, <2>1
<1>10. CASE c \in Numbers
  <2>1. CASE d1 # "."
    <3>1. class1 = "INTEGER" /\ class2 = "INTEGER" /\ last1 = i /\ last2 = j
      BY <1>1, <1>4, <1>10, <2>1 DEF IsToken
    <3>2. QED
      BY <1>7, <3>1
  <2>2. CASE d1 = "."
    <3>1. e1 \in Numbers
      BY <1>1, <1>2, <1>10, <2>2 DEF IsToken
    <3>2. class1 = "DECIMAL" /\ class2 = "DECIMAL" /\ last1 = i + 2 /\ last2 = j + 2
      BY <1>1, <1>4, <1>5, <1>10, <2>2, <3>1 DEF IsToken
    <3>3. QED
      BY <3>2
  <2>3. QED
    BY <2>1, <2>2
<1>11. CASE c = "'" \/ c \in MarkChars
  <2>1. class1 = class2 /\ last1 = i /\ last2 = j
    BY <1>1, <1>11 DEF IsToken
  <2>2. QED
    BY <1>7, <2>1
<1>12. CASE Operator(c, d1)
  <2>1. class1 = class2 /\ last1 = i + 1 /\ last2 = j + 1
    BY <1>1, <1>6, <1>12 DEF IsToken
  <2>2. QED
    BY <2>1
<1>13. CASE /\ c \notin Blanks \union Words \union Numbers \union {"'"} \union MarkChars
            /\ ~Operator(c, d1)
  <2>1. c \in {"<", ">", "="}
    BY <1>1, <1>2, <1>13 DEF IsToken
  <2>2. class1 = class2 /\ last1 = i /\ last2 = j
    BY <1>1, <1>6, <1>13, <2>1 DEF IsToken
  <2>3. QED
    BY <1>7, <2>2
<1>14. QED
  BY <1>8, <1>9, <1>10, <1>11, <1>12, <1>13

-----------------------------------------------------------------------------
(* The two readers of a text *)

LexStart == [tokens |-> <<>>, next |-> 1, string |-> 0]
LexStep(text, i, x) == IF i = 0 THEN LexStart ELSE Lex(x, text, i)
LexRecursion == INSTANCE Recursion WITH Step <- LexStep

Lexes(text, f) == f = [i \in Nat |-> IF i = 0 THEN LexStart ELSE Lex(f[i - 1], text, i)]

\* The tokens when the text has ended.
AtEnd(state, text) ==
    IF state.string = 0 THEN state.tokens
    ELSE WithToken(state, "ERROR", text, state.string, Len(text)).tokens

\* A text is read one piece at a time.
LEMMA TokensRule ==
  ASSUME NEW text
  PROVE  \E f : Lexes(text, f) /\ Tokens(text) = AtEnd(f[Len(text)], text)
<1>1. \E f : Lexes(text, f)
  <2>1. \A x, y : LexStep(text, 0, x) = LexStep(text, 0, y)
    BY DEF LexStep
  <2>2. \E f : f = [h \in Nat |-> LexStep(text, h, f[h - 1])]
    BY <2>1, LexRecursion!RecursionExists
  <2>3. QED
    BY <2>2 DEF LexStep, Lexes
<1>. DEFINE F == CHOOSE f : Lexes(text, f)
<1>2. Lexes(text, F)
  BY <1>1
<1>3. Tokens(text) = AtEnd(F[Len(text)], text)
  BY DEF Tokens, Lexes, LexStart, AtEnd
<1>. HIDE DEF F
<1>4. QED
  BY <1>2, <1>3

QuoteStep(text, i, x) == IF i <= 1 THEN "out" ELSE Quotes(x, text, i - 1)
QuoteRecursion == INSTANCE Recursion WITH Step <- QuoteStep

Quotings(text, q) ==
    q = [i \in Nat |-> IF i <= 1 THEN "out" ELSE Quotes(q[i - 1], text, i - 1)]

\* The loop that looks for the ends of statements takes them one at a time, too.
LEMMA TerminatorsRule ==
  ASSUME NEW text
  PROVE  \E q : /\ Quotings(text, q)
                /\ Terminators(text) =
                     {i \in DOMAIN text : text[i] = Semicolon /\ q[i] = "out"}
<1>1. \E q : Quotings(text, q)
  <2>1. \A x, y : QuoteStep(text, 0, x) = QuoteStep(text, 0, y)
    BY DEF QuoteStep
  <2>2. \E q : q = [h \in Nat |-> QuoteStep(text, h, q[h - 1])]
    BY <2>1, QuoteRecursion!RecursionExists
  <2>3. QED
    BY <2>2 DEF QuoteStep, Quotings
<1>. DEFINE Q == CHOOSE q : Quotings(text, q)
<1>2. Quotings(text, Q)
  BY <1>1
<1>3. Quoting(text) = [i \in DOMAIN text |-> Q[i]]
  BY DEF Quoting, Quotings
<1>. HIDE DEF Q
<1>4. \A i \in DOMAIN text : Quoting(text)[i] = Q[i]
  BY <1>3
<1>5. Terminators(text) = {i \in DOMAIN text : text[i] = Semicolon /\ Q[i] = "out"}
  BY <1>4, Zenon DEF Terminators, Semicolon
<1>6. QED
  BY <1>2, <1>5

GroupStart == [done |-> <<>>, open |-> <<>>]
GroupStep(tokens, i, x) == IF i = 0 THEN GroupStart ELSE Grouped(x, tokens[i])
GroupRecursion == INSTANCE Recursion WITH Step <- GroupStep

GroupsOf(tokens, f) ==
    f = [i \in Nat |-> IF i = 0 THEN GroupStart ELSE Grouped(f[i - 1], tokens[i])]

\* Tokens are grouped one at a time.
LEMMA GroupRule ==
  ASSUME NEW tokens
  PROVE  \E f : GroupsOf(tokens, f) /\ GroupState(tokens) = f[Len(tokens)]
<1>1. \E f : GroupsOf(tokens, f)
  <2>1. \A x, y : GroupStep(tokens, 0, x) = GroupStep(tokens, 0, y)
    BY DEF GroupStep
  <2>2. \E f : f = [h \in Nat |-> GroupStep(tokens, h, f[h - 1])]
    BY <2>1, GroupRecursion!RecursionExists
  <2>3. QED
    BY <2>2 DEF GroupStep, GroupsOf
<1>. DEFINE F == CHOOSE f : GroupsOf(tokens, f)
<1>2. GroupsOf(tokens, F)
  BY <1>1
<1>3. GroupState(tokens) = F[Len(tokens)]
  BY DEF GroupState, GroupsOf, GroupStart
<1>. HIDE DEF F
<1>4. QED
  BY <1>2, <1>3

\* Lists that begin with the same n tokens are grouped the same up to there.
LEMMA GroupsSame ==
  ASSUME NEW s, NEW t, NEW f, NEW g, GroupsOf(s, f), GroupsOf(t, g),
         NEW n \in Nat, \A i \in 1..n : s[i] = t[i]
  PROVE  f[n] = g[n]
<1>. DEFINE T == {m \in Nat : m <= n => f[m] = g[m]}
<1>1. 0 \in T
  BY DEF GroupsOf
<1>2. ASSUME NEW m \in Nat, m \in T PROVE m + 1 \in T
  <2>1. m + 1 \in Nat /\ m + 1 # 0 /\ (m + 1) - 1 = m
    OBVIOUS
  <2>2. SUFFICES ASSUME m + 1 <= n PROVE f[m + 1] = g[m + 1]
    BY <2>1
  <2>3. f[m] = g[m] /\ s[m + 1] = t[m + 1]
    BY <1>2, <2>2
  <2>4. /\ f[m + 1] = Grouped(f[m], s[m + 1])
        /\ g[m + 1] = Grouped(g[m], t[m + 1])
    BY <2>1 DEF GroupsOf
  <2>5. QED
    BY <2>3, <2>4
<1>3. Nat \subseteq T
  <2>. HIDE DEF T
  <2>1. QED
    BY <1>1, <1>2, GroupRecursion!Induction
<1>4. QED
  BY <1>3

\* There are no groups without tokens.
LEMMA NoGroups == GroupState(<<>>) = GroupStart
<1>1. PICK f : GroupsOf(<<>>, f) /\ GroupState(<<>>) = f[Len(<<>>)]
  BY GroupRule
<1>2. Len(<<>>) = 0
  OBVIOUS
<1>3. QED
  BY <1>1, <1>2 DEF GroupsOf

\* One token more.
LEMMA GroupAppend ==
  ASSUME NEW S, NEW tokens \in Seq(S), NEW token \in S
  PROVE  GroupState(Append(tokens, token)) = Grouped(GroupState(tokens), token)
<1>. DEFINE t == Append(tokens, token)
            n == Len(tokens)
<1>1. n \in Nat /\ Len(t) = n + 1 /\ t[n + 1] = token /\ \A i \in 1..n : tokens[i] = t[i]
  BY AppendProperties, LenProperties
<1>2. PICK f : GroupsOf(tokens, f) /\ GroupState(tokens) = f[n]
  BY GroupRule
<1>3. PICK g : GroupsOf(t, g) /\ GroupState(t) = g[Len(t)]
  BY GroupRule
<1>. HIDE DEF t, n
<1>4. f[n] = g[n]
  BY <1>1, <1>2, <1>3, GroupsSame
<1>5. n + 1 \in Nat /\ n + 1 # 0 /\ (n + 1) - 1 = n
  BY <1>1
<1>6. g[n + 1] = Grouped(g[n], t[n + 1])
  BY <1>3, <1>5 DEF GroupsOf
<1>7. GroupState(t) = Grouped(GroupState(tokens), token)
  BY <1>1, <1>2, <1>3, <1>4, <1>6
<1>8. QED
  BY <1>7 DEF t

-----------------------------------------------------------------------------
(* One piece more *)

LexTokens == [class : Classes, value : Seq(Pieces)]

LexStates(text) ==
    [tokens : Seq(LexTokens), next : 1..(Len(text) + 1), string : 0..Len(text)]

\* What both know of the piece behind piece i.
Agree(state, quoting, text, i) ==
    /\ state.string \in 0..i
    /\ state.string = 0 =>
         /\ quoting = "out"
         /\ \A j \in (i + 1)..(state.next - 1) : text[j] \notin {"'", Semicolon}
    /\ state.string # 0 =>
         IF i + 1 < state.next THEN quoting = "second" /\ state.next = i + 2
         ELSE quoting = "in"

\* The text could not be read.
Failed(state, text) ==
    HasError(state.tokens) /\ state.next = Len(text) + 1 /\ state.string = 0

\* What one token more changes.
LEMMA WithTokenRule ==
  ASSUME NEW state, NEW class, NEW text, NEW first, NEW last
  PROVE  LET s == WithToken(state, class, text, first, last)
             token == [class |-> class, value |-> SubSeq(text, first, last)]
         IN /\ s = [tokens |-> Append(state.tokens, token), next |-> last + 1, string |-> 0]
            /\ s.tokens = Append(state.tokens, token) /\ s.next = last + 1 /\ s.string = 0
BY DEF WithToken

\* A part of the text is the value of the token.
LEMMA WithTokenType ==
  ASSUME NEW text \in Seq(Pieces), NEW state \in LexStates(text), NEW class \in Classes,
         NEW first \in 1..Len(text), NEW last \in first..Len(text)
  PROVE  /\ [class |-> class, value |-> SubSeq(text, first, last)] \in LexTokens
         /\ WithToken(state, class, text, first, last) \in LexStates(text)
<1>. DEFINE token == [class |-> class, value |-> SubSeq(text, first, last)]
            n == Len(text)
<1>1. n \in Nat /\ first \in Nat \ {0} /\ last \in Int /\ last <= n /\ last + 1 \in 1..(n + 1)
      /\ 0 \in 0..n
  BY LenProperties
<1>2. SubSeq(text, first, last) \in Seq(Pieces)
  BY <1>1, PartType
<1>3. token \in LexTokens
  BY <1>2 DEF LexTokens
<1>. HIDE DEF token
<1>4. state.tokens \in Seq(LexTokens)
  BY DEF LexStates
<1>5. Append(state.tokens, token) \in Seq(LexTokens)
  BY <1>3, <1>4, AppendProperties
<1>6. [tokens |-> Append(state.tokens, token), next |-> last + 1, string |-> 0]
        \in LexStates(text)
  BY <1>1, <1>5 DEF LexStates
<1>7. WithToken(state, class, text, first, last) \in LexStates(text)
  <2>1. WithToken(state, class, text, first, last) =
          [tokens |-> Append(state.tokens, token), next |-> last + 1, string |-> 0]
    BY DEF WithToken, token
  <2>2. QED
    BY <1>6, <2>1
<1>8. QED
  BY <1>3, <1>7 DEF token

\* What a piece changes.
LEMMA LexCases ==
  ASSUME NEW state, NEW text, NEW i
  PROVE  LET token == TokenAt(text, i)
             s == Lex(state, text, i)
         IN /\ i < state.next => s = state
            /\ ~(i < state.next) /\ state.string # 0 =>
                 /\ text[i] # "'" => s = state
                 /\ text[i] = "'" /\ PieceAt(text, i + 1) = "'" =>
                      s = [state EXCEPT !.next = i + 2]
                 /\ text[i] = "'" /\ PieceAt(text, i + 1) # "'" =>
                      s = WithToken(state, "STRING", text, state.string, i)
            /\ ~(i < state.next) /\ state.string = 0 =>
                 /\ token.class = "BLANK" => s = state
                 /\ token.class = "QUOTE" => s = [state EXCEPT !.string = i]
                 /\ token.class \notin {"BLANK", "QUOTE"} =>
                      s = WithToken(state, token.class, text, i, token.last)
BY DEF Lex, ReadString

\* The cases of Quotes().
LEMMA QuotesCases ==
  ASSUME NEW text, NEW i
  PROVE  /\ Quotes("second", text, i) = "in"
         /\ text[i] # "'" => Quotes("in", text, i) = "in" /\ Quotes("out", text, i) = "out"
         /\ text[i] = "'" =>
              /\ Quotes("out", text, i) = "in"
              /\ Quotes("in", text, i) =
                   IF PieceAt(text, i + 1) = "'" THEN "second" ELSE "out"
BY DEF Quotes

\* There is one more token, or none if no statement ends here.
Reads(before, after, ends, i) ==
    \/ after.tokens = before.tokens /\ ~ends
    \/ \E token \in LexTokens :
         /\ after.tokens = Append(before.tokens, token)
         /\ IsSemicolon(token) <=> ends
         /\ ends => after.string = 0 /\ after.next = i + 1

\* One piece more: the two agree on the piece behind it, and a semicolon is a token if
\* and only if it ends a statement.
LEMMA LexRule ==
  ASSUME NEW text \in Seq(Pieces), NEW i \in 1..Len(text), NEW state \in LexStates(text),
         NEW quoting, Agree(state, quoting, text, i - 1)
  PROVE  LET s == Lex(state, text, i)
             q == Quotes(quoting, text, i)
         IN /\ s \in LexStates(text)
            /\ Failed(s, text) \/ Agree(s, q, text, i)
            /\ Reads(state, s, text[i] = Semicolon /\ quoting = "out", i)
<1>. DEFINE n == Len(text)
            s == Lex(state, text, i)
            q == Quotes(quoting, text, i)
            ends == text[i] = Semicolon /\ quoting = "out"
            first == state.string
            next == state.next
<1>1. /\ n \in Nat /\ i \in 1..n /\ DOMAIN text = 1..n
      /\ first \in 0..n /\ next \in 1..(n + 1) /\ state.tokens \in Seq(LexTokens)
      /\ state = [tokens |-> state.tokens, next |-> next, string |-> first]
  BY LenProperties DEF LexStates
<1>2. /\ first = 0 => /\ quoting = "out"
                      /\ \A j \in i..(next - 1) : text[j] \notin {"'", Semicolon}
      /\ first # 0 => IF i < next THEN quoting = "second" /\ next = i + 1 ELSE quoting = "in"
      /\ first \in 0..(i - 1) /\ first \in 0..i
  BY <1>1 DEF Agree
<1>3. Semicolon # "'" /\ Semicolon \notin Blanks /\ "'" \notin Blanks
  BY SignsRule
<1>. DEFINE Same == s.tokens = state.tokens /\ ~ends
            More == \E token \in LexTokens : /\ s.tokens = Append(state.tokens, token)
                                             /\ IsSemicolon(token) <=> ends
                                             /\ ends => s.string = 0 /\ s.next = i + 1
<1>. SUFFICES /\ s \in LexStates(text) /\ (Failed(s, text) \/ Agree(s, q, text, i))
              /\ Same \/ More
  BY DEF Reads
<1>. HIDE DEF s, q, n, first, next
<1>4. CASE i < next
  <2>1. s = state
    BY <1>4, LexCases DEF s, next
  <2>2. CASE first = 0
    <3>1. text[i] # "'" /\ text[i] # Semicolon
      BY <1>1, <1>2, <1>4, <2>2
    <3>2. q = "out"
      BY <1>2, <2>2, <3>1, QuotesCases DEF q
    <3>3. \A j \in (i + 1)..(next - 1) : text[j] \notin {"'", Semicolon}
      BY <1>1, <1>2, <2>2
    <3>4. Agree(s, q, text, i)
      BY <1>2, <2>1, <2>2, <3>2, <3>3 DEF Agree, first, next
    <3>5. QED
      BY <2>1, <3>1, <3>4
  <2>3. CASE first # 0
    <3>1. quoting = "second" /\ next = i + 1
      BY <1>2, <1>4, <2>3
    <3>2. q = "in"
      BY <3>1, QuotesCases DEF q
    <3>3. ~(i + 1 < next)
      BY <1>1, <3>1
    <3>4. Agree(s, q, text, i)
      BY <1>2, <2>1, <2>3, <3>2, <3>3 DEF Agree, first, next
    <3>5. QED
      BY <2>1, <3>1, <3>4
  <2>4. QED
    BY <2>2, <2>3
<1>5. CASE ~(i < next) /\ first # 0
  <2>1. quoting = "in"
    BY <1>2, <1>5
  <2>2. CASE text[i] # "'"
    <3>1. s = state
      BY <1>5, <2>2, LexCases DEF s, first, next
    <3>2. q = "in" /\ ~(i + 1 < next)
      BY <1>1, <1>5, <2>1, <2>2, QuotesCases DEF q
    <3>3. Agree(s, q, text, i)
      BY <1>2, <1>5, <3>1, <3>2 DEF Agree, first, next
    <3>4. QED
      BY <2>1, <3>1, <3>3
  <2>3. CASE text[i] = "'" /\ PieceAt(text, i + 1) = "'"
    <3>1. s = [state EXCEPT !.next = i + 2]
      BY <1>5, <2>3, LexCases DEF s, first, next
    <3>2. s = [tokens |-> state.tokens, next |-> i + 2, string |-> first]
      BY <1>1, <3>1
    <3>3. s.tokens = state.tokens /\ s.next = i + 2 /\ s.string = first
      BY <3>2
    <3>4. q = "second"
      BY <2>1, <2>3, QuotesCases DEF q
    <3>5. i + 1 < i + 2
      BY <1>1
    <3>6. Agree(s, q, text, i)
      BY <1>2, <1>5, <3>3, <3>4, <3>5 DEF Agree
    <3>7. i + 1 \in DOMAIN text
      BY <2>3 DEF PieceAt
    <3>8. i + 2 \in 1..(n + 1)
      BY <1>1, <3>7
    <3>9. s \in LexStates(text)
      BY <1>1, <3>2, <3>8 DEF LexStates, n
    <3>10. QED
      BY <2>1, <3>3, <3>6, <3>9
  <2>4. CASE text[i] = "'" /\ PieceAt(text, i + 1) # "'"
    <3>. DEFINE token == [class |-> "STRING", value |-> SubSeq(text, first, i)]
    <3>1. s = WithToken(state, "STRING", text, first, i)
      BY <1>5, <2>4, LexCases DEF s, first, next
    <3>2. s.tokens = Append(state.tokens, token) /\ s.next = i + 1 /\ s.string = 0
      BY <3>1, WithTokenRule
    <3>3. first \in 1..n /\ i \in first..n
      BY <1>1, <1>2, <1>5
    <3>4. "STRING" \in Classes /\ "STRING" # "SEMICOLON"
      BY DEF Classes
    <3>5. token \in LexTokens /\ s \in LexStates(text)
      BY <3>1, <3>3, <3>4, WithTokenType DEF n
    <3>6. token.class = "STRING"
      OBVIOUS
    <3>. HIDE DEF token
    <3>7. q = "out"
      BY <2>1, <2>4, QuotesCases DEF q
    <3>8. \A j \in (i + 1)..((i + 1) - 1) : text[j] \notin {"'", Semicolon}
      BY <1>1
    <3>9. 0 \in 0..i
      BY <1>1
    <3>10. Agree(s, q, text, i)
      BY <3>2, <3>7, <3>8, <3>9 DEF Agree
    <3>11. ~IsSemicolon(token) /\ ~ends
      BY <2>1, <3>4, <3>6 DEF IsSemicolon
    <3>12. QED
      BY <3>2, <3>5, <3>10, <3>11
  <2>5. QED
    BY <2>2, <2>3, <2>4
<1>6. CASE ~(i < next) /\ first = 0
  <2>. DEFINE class == TokenAt(text, i).class
              last == TokenAt(text, i).last
  <2>1. quoting = "out"
    BY <1>2, <1>6
  <2>2. IsTokenAt(class, last, text, i)
    BY TokenAtRule DEF n
  <2>3. /\ class = "BLANK" => s = state
        /\ class = "QUOTE" => s = [state EXCEPT !.string = i]
        /\ class \notin {"BLANK", "QUOTE"} => s = WithToken(state, class, text, i, last)
    BY <1>6, LexCases DEF s, first, next
  <2>. HIDE DEF class, last
  <2>4. CASE class = "BLANK"
    <3>1. text[i] \in Blanks
      BY <2>2, <2>4 DEF IsTokenAt
    <3>2. text[i] # "'" /\ text[i] # Semicolon
      BY <1>3, <3>1
    <3>3. q = "out" /\ s = state
      BY <2>1, <2>3, <2>4, <3>2, QuotesCases DEF q
    <3>4. \A j \in (i + 1)..(next - 1) : text[j] \notin {"'", Semicolon}
      BY <1>1, <1>6
    <3>5. Agree(s, q, text, i)
      BY <1>2, <1>6, <3>3, <3>4 DEF Agree, first, next
    <3>6. QED
      BY <3>2, <3>3, <3>5
  <2>5. CASE class = "QUOTE"
    <3>1. text[i] = "'" /\ text[i] # Semicolon
      BY <1>3, <2>2, <2>5 DEF IsTokenAt
    <3>2. s = [tokens |-> state.tokens, next |-> next, string |-> i]
      BY <1>1, <2>3, <2>5
    <3>3. s.tokens = state.tokens /\ s.next = next /\ s.string = i
      BY <3>2
    <3>4. q = "in"
      BY <2>1, <3>1, QuotesCases DEF q
    <3>5. i # 0 /\ ~(i + 1 < next) /\ i \in 0..i /\ i \in 0..n
      BY <1>1, <1>6
    <3>6. Agree(s, q, text, i)
      BY <3>3, <3>4, <3>5 DEF Agree
    <3>7. s \in LexStates(text)
      BY <1>1, <3>2, <3>5 DEF LexStates, n
    <3>8. QED
      BY <3>1, <3>3, <3>6, <3>7
  <2>6. CASE class \notin {"BLANK", "QUOTE"}
    <3>. DEFINE token == [class |-> class, value |-> SubSeq(text, i, last)]
    <3>1. s = WithToken(state, class, text, i, last)
      BY <2>3, <2>6
    <3>2. s.tokens = Append(state.tokens, token) /\ s.next = last + 1 /\ s.string = 0
      BY <3>1, WithTokenRule
    <3>3. class \in Classes /\ last \in i..n /\ i \in 1..n
      BY <1>1, <2>2 DEF IsTokenAt, n
    <3>4. token \in LexTokens /\ s \in LexStates(text)
      BY <3>1, <3>3, WithTokenType DEF n
    <3>5. token.class = class
      OBVIOUS
    <3>. HIDE DEF token
    <3>6. text[i] # "'"
      BY <2>2, <2>6 DEF IsTokenAt
    <3>7. q = "out"
      BY <2>1, <3>6, QuotesCases DEF q
    <3>8. IsSemicolon(token) <=> ends
      BY <2>1, <2>2, <3>5 DEF IsSemicolon, IsTokenAt
    <3>9. ends => last = i
      BY <2>2 DEF IsTokenAt
    <3>10. More
      BY <3>2, <3>4, <3>8, <3>9
    <3>11. ASSUME class # "ERROR" PROVE Agree(s, q, text, i)
      <4>1. \A j \in (i + 1)..last : text[j] \notin {"'", Semicolon}
        BY <2>2, <3>11 DEF IsTokenAt
      <4>2. (last + 1) - 1 = last /\ 0 \in 0..i
        BY <1>1, <3>3
      <4>3. QED
        BY <3>2, <3>7, <4>1, <4>2 DEF Agree
    <3>12. ASSUME class = "ERROR" PROVE Failed(s, text)
      <4>1. last = n
        BY <2>2, <3>12 DEF IsTokenAt, n
      <4>2. /\ Len(s.tokens) = Len(state.tokens) + 1 /\ Len(state.tokens) \in Nat
            /\ s.tokens[Len(state.tokens) + 1] = token
            /\ s.tokens \in Seq(LexTokens)
        BY <1>1, <3>2, <3>4, AppendProperties, LenProperties
      <4>3. Len(state.tokens) + 1 \in DOMAIN s.tokens
        BY <4>2
      <4>4. HasError(s.tokens)
        BY <3>5, <3>12, <4>2, <4>3 DEF HasError
      <4>5. QED
        BY <3>2, <4>1, <4>4 DEF Failed, n
    <3>13. QED
      BY <3>4, <3>10, <3>11, <3>12
  <2>7. QED
    BY <2>4, <2>5, <2>6
<1>7. QED
  BY <1>4, <1>5, <1>6

\* The two agree wherever the text can be read.
LEMMA ReadersAgree ==
  ASSUME NEW text \in Seq(Pieces), NEW f, NEW q, Lexes(text, f), Quotings(text, q)
  PROVE  \A i \in 0..Len(text) :
            /\ f[i] \in LexStates(text)
            /\ Failed(f[i], text) \/ Agree(f[i], q[i + 1], text, i)
<1>. DEFINE n == Len(text)
            T == {i \in Nat : i <= n =>
                    /\ f[i] \in LexStates(text)
                    /\ Failed(f[i], text) \/ Agree(f[i], q[i + 1], text, i)}
<1>1. n \in Nat
  BY LenProperties
<1>2. 0 \in T
  <2>1. f[0] = LexStart /\ q[0 + 1] = "out"
    BY DEF Lexes, Quotings
  <2>2. f[0].tokens = <<>> /\ f[0].next = 1 /\ f[0].string = 0
    BY <2>1 DEF LexStart
  <2>3. <<>> \in Seq(LexTokens) /\ 1 \in 1..(n + 1) /\ 0 \in 0..n /\ 0 \in 0..0
    BY <1>1
  <2>4. f[0] \in LexStates(text)
    BY <2>1, <2>3 DEF LexStart, LexStates
  <2>5. \A j \in (0 + 1)..(1 - 1) : text[j] \notin {"'", Semicolon}
    OBVIOUS
  <2>6. Agree(f[0], q[0 + 1], text, 0)
    BY <2>1, <2>2, <2>3, <2>5 DEF Agree
  <2>7. QED
    BY <2>4, <2>6
<1>3. ASSUME NEW m \in Nat, m \in T PROVE m + 1 \in T
  <2>1. m + 1 \in Nat /\ m + 1 # 0 /\ (m + 1) - 1 = m
    OBVIOUS
  <2>2. SUFFICES ASSUME m + 1 <= n
                 PROVE  /\ f[m + 1] \in LexStates(text)
                        /\ \/ Failed(f[m + 1], text)
                           \/ Agree(f[m + 1], q[(m + 1) + 1], text, m + 1)
    BY <2>1
  <2>3. /\ f[m] \in LexStates(text)
        /\ Failed(f[m], text) \/ Agree(f[m], q[m + 1], text, m)
    BY <1>1, <1>3, <2>2
  <2>4. f[m + 1] = Lex(f[m], text, m + 1)
    BY <2>1 DEF Lexes
  <2>5. q[(m + 1) + 1] = Quotes(q[m + 1], text, m + 1)
    <3>1. (m + 1) + 1 \in Nat /\ ~((m + 1) + 1 <= 1) /\ ((m + 1) + 1) - 1 = m + 1
      OBVIOUS
    <3>2. QED
      BY <3>1 DEF Quotings
  <2>6. CASE Failed(f[m], text)
    <3>1. m + 1 < f[m].next
      BY <1>1, <2>2, <2>6 DEF Failed
    <3>2. f[m + 1] = f[m]
      BY <2>4, <3>1, LexCases
    <3>3. QED
      BY <2>3, <2>6, <3>2
  <2>7. CASE Agree(f[m], q[m + 1], text, m)
    <3>1. m + 1 \in 1..Len(text) /\ Agree(f[m], q[m + 1], text, (m + 1) - 1)
      BY <1>1, <2>1, <2>2, <2>7
    <3>2. /\ Lex(f[m], text, m + 1) \in LexStates(text)
          /\ \/ Failed(Lex(f[m], text, m + 1), text)
             \/ Agree(Lex(f[m], text, m + 1), Quotes(q[m + 1], text, m + 1), text, m + 1)
      BY <2>3, <3>1, LexRule
    <3>3. QED
      BY <2>4, <2>5, <3>2
  <2>8. QED
    BY <2>3, <2>6, <2>7
<1>4. Nat \subseteq T
  <2>. HIDE DEF T
  <2>1. QED
    BY <1>2, <1>3, LexRecursion!Induction
<1>5. QED
  BY <1>1, <1>4

\* A token ends a statement if and only if it is a semicolon.
IsRead(before, after, text, i) ==
    \/ HasError(before.tokens) /\ after = before
    \/ /\ Reads(before, after, i \in Terminators(text), i)
       /\ i \in Terminators(text) => before.string = 0

\* One piece more, of any text.
LEMMA PieceRule ==
  ASSUME NEW text \in Seq(Pieces), NEW f, Lexes(text, f)
  PROVE  /\ \A i \in 0..Len(text) : f[i] \in LexStates(text)
         /\ f[0] = LexStart
         /\ \A i \in 1..Len(text) :
              f[i] = Lex(f[i - 1], text, i) /\ IsRead(f[i - 1], f[i], text, i)
<1>1. PICK q : /\ Quotings(text, q)
               /\ Terminators(text) =
                    {i \in DOMAIN text : text[i] = Semicolon /\ q[i] = "out"}
  BY TerminatorsRule
<1>2. \A i \in 0..Len(text) :
        /\ f[i] \in LexStates(text)
        /\ Failed(f[i], text) \/ Agree(f[i], q[i + 1], text, i)
  BY <1>1, ReadersAgree
<1>3. f[0] = LexStart
  BY DEF Lexes
<1>4. ASSUME NEW i \in 1..Len(text)
      PROVE  f[i] = Lex(f[i - 1], text, i) /\ IsRead(f[i - 1], f[i], text, i)
  <2>1. /\ Len(text) \in Nat /\ DOMAIN text = 1..Len(text) /\ i \in Nat /\ i # 0
        /\ i - 1 \in 0..Len(text) /\ (i - 1) + 1 = i
    BY LenProperties
  <2>2. f[i] = Lex(f[i - 1], text, i)
    BY <2>1 DEF Lexes
  <2>3. f[i - 1] \in LexStates(text)
    BY <1>2, <2>1
  <2>4. i \in Terminators(text) <=> text[i] = Semicolon /\ q[i] = "out"
    BY <1>1, <2>1
  <2>5. CASE Failed(f[i - 1], text)
    <3>1. i < f[i - 1].next
      BY <2>1, <2>5 DEF Failed
    <3>2. f[i] = f[i - 1]
      BY <2>2, <3>1, LexCases
    <3>3. QED
      BY <2>2, <2>5, <3>2 DEF Failed, IsRead
  <2>6. CASE Agree(f[i - 1], q[i], text, i - 1)
    <3>. DEFINE before == f[i - 1]
                s == Lex(before, text, i)
    <3>1. before \in LexStates(text) /\ Agree(before, q[i], text, i - 1)
      BY <2>3, <2>6
    <3>. HIDE DEF before
    <3>. DEFINE ends == text[i] = Semicolon /\ q[i] = "out"
    <3>2. Reads(before, s, ends, i)
      BY <3>1, LexRule
    <3>3. q[i] = "out" => before.string = 0
      BY <3>1 DEF Agree
    <3>4. s = f[i] /\ before = f[i - 1]
      BY <2>2 DEF before
    <3>. HIDE DEF s, ends
    <3>5. ends = (i \in Terminators(text))
      BY <2>4 DEF ends
    <3>6. Reads(before, s, i \in Terminators(text), i)
      BY <3>2, <3>5
    <3>7. QED
      BY <2>2, <2>4, <3>3, <3>4, <3>6 DEF IsRead
  <2>7. QED
    BY <1>2, <2>1, <2>5, <2>6
<1>5. QED
  BY <1>2, <1>3, <1>4

-----------------------------------------------------------------------------
(* The semicolons of a text *)

\* What there is in tokens is in later, too.
Kept(tokens, later) ==
    \A k \in DOMAIN tokens : k \in DOMAIN later /\ later[k] = tokens[k]

\* One token more, and what was there before.
LEMMA AppendKeeps ==
  ASSUME NEW S, NEW tokens \in Seq(S), NEW token \in S
  PROVE  /\ Kept(tokens, Append(tokens, token))
         /\ Len(tokens) + 1 \in DOMAIN Append(tokens, token)
         /\ Append(tokens, token)[Len(tokens) + 1] = token
         /\ \A k \in DOMAIN Append(tokens, token) :
              k \in DOMAIN tokens \/ Append(tokens, token)[k] = token
<1>. DEFINE t == Append(tokens, token)
            n == Len(tokens)
<1>1. /\ n \in Nat /\ DOMAIN tokens = 1..n /\ DOMAIN t = 1..(n + 1) /\ t[n + 1] = token
      /\ \A k \in 1..n : t[k] = tokens[k]
  BY AppendProperties, LenProperties
<1>. HIDE DEF t, n
<1>2. /\ \A k \in DOMAIN tokens : k \in DOMAIN t /\ t[k] = tokens[k]
      /\ n + 1 \in DOMAIN t /\ t[n + 1] = token
  BY <1>1
<1>3. \A k \in DOMAIN t : k \in DOMAIN tokens \/ t[k] = token
  BY <1>1
<1>4. QED
  BY <1>2, <1>3 DEF t, n, Kept

\* What was read stays read.
LEMMA TokensKept ==
  ASSUME NEW text \in Seq(Pieces), NEW f, Lexes(text, f), NEW i \in 0..Len(text)
  PROVE  \A m \in i..Len(text) : Kept(f[i].tokens, f[m].tokens)
<1>. DEFINE n == Len(text)
            T == {d \in Nat : i + d <= n => Kept(f[i].tokens, f[i + d].tokens)}
<1>1. n \in Nat /\ i \in Nat
  BY LenProperties
<1>2. 0 \in T
  <2>1. i + 0 = i
    BY <1>1
  <2>2. QED
    BY <2>1 DEF Kept
<1>3. ASSUME NEW d \in Nat, d \in T PROVE d + 1 \in T
  <2>1. d + 1 \in Nat /\ i + (d + 1) = (i + d) + 1 /\ ((i + d) + 1) - 1 = i + d
    BY <1>1
  <2>2. SUFFICES ASSUME i + (d + 1) <= n PROVE Kept(f[i].tokens, f[i + (d + 1)].tokens)
    BY <2>1
  <2>. DEFINE m == i + d
              before == f[m]
              after == f[m + 1]
  <2>3. Kept(f[i].tokens, before.tokens) /\ m + 1 \in 1..n /\ (m + 1) - 1 = m /\ m \in 0..n
    BY <1>1, <1>3, <2>2
  <2>4. IsRead(f[(m + 1) - 1], f[m + 1], text, m + 1) /\ f[m] \in LexStates(text)
    BY <2>3, PieceRule
  <2>5. IsRead(before, after, text, m + 1) /\ before.tokens \in Seq(LexTokens)
    BY <2>3, <2>4 DEF LexStates
  <2>. HIDE DEF before, after, m
  <2>6. Kept(before.tokens, after.tokens)
    <3>1. CASE after.tokens = before.tokens
      BY <3>1 DEF Kept
    <3>2. CASE \E token \in LexTokens : after.tokens = Append(before.tokens, token)
      BY <2>5, <3>2, AppendKeeps
    <3>3. QED
      BY <2>5, <3>1, <3>2 DEF IsRead, Reads
  <2>7. Kept(f[i].tokens, after.tokens)
    BY <2>3, <2>6 DEF Kept
  <2>8. after = f[i + (d + 1)]
    BY <2>1 DEF after, m
  <2>9. QED
    BY <2>7, <2>8
<1>4. Nat \subseteq T
  <2>. HIDE DEF T
  <2>1. QED
    BY <1>2, <1>3, LexRecursion!Induction
<1>5. SUFFICES ASSUME NEW m \in i..n PROVE Kept(f[i].tokens, f[m].tokens)
  OBVIOUS
<1>6. m - i \in Nat /\ i + (m - i) = m /\ m <= n
  BY <1>1
<1>7. m - i \in T
  BY <1>4, <1>6
<1>8. QED
  BY <1>6, <1>7

\* When the text has ended, there is an error if it ends in a string.
LEMMA AtEndRule ==
  ASSUME NEW text \in Seq(Pieces), NEW state \in LexStates(text)
  PROVE  /\ state.string = 0 => AtEnd(state, text) = state.tokens
         /\ Kept(state.tokens, AtEnd(state, text))
         /\ state.string # 0 => HasError(AtEnd(state, text))
         /\ \A k \in DOMAIN AtEnd(state, text) :
              k \in DOMAIN state.tokens \/ AtEnd(state, text)[k].class = "ERROR"
<1>1. CASE state.string = 0
  <2>1. AtEnd(state, text) = state.tokens
    BY <1>1 DEF AtEnd
  <2>2. QED
    BY <1>1, <2>1 DEF Kept
<1>2. CASE state.string # 0
  <2>. DEFINE token == [class |-> "ERROR",
                        value |-> SubSeq(text, state.string, Len(text))]
              tokens == state.tokens
  <2>1. /\ Len(text) \in Nat /\ state.string \in 1..Len(text)
        /\ Len(text) \in state.string..Len(text) /\ tokens \in Seq(LexTokens)
    BY <1>2, LenProperties DEF LexStates
  <2>2. "ERROR" \in Classes
    BY DEF Classes, Others
  <2>3. token \in LexTokens
    BY <2>1, <2>2, WithTokenType
  <2>4. AtEnd(state, text) = Append(tokens, token)
    BY <1>2, WithTokenRule DEF AtEnd
  <2>5. token.class = "ERROR"
    OBVIOUS
  <2>. HIDE DEF token, tokens
  <2>6. /\ Kept(tokens, Append(tokens, token))
        /\ Len(tokens) + 1 \in DOMAIN Append(tokens, token)
        /\ Append(tokens, token)[Len(tokens) + 1] = token
        /\ \A k \in DOMAIN Append(tokens, token) :
             k \in DOMAIN tokens \/ Append(tokens, token)[k] = token
    BY <2>1, <2>3, AppendKeeps
  <2>7. HasError(Append(tokens, token))
    BY <2>5, <2>6 DEF HasError
  <2>8. \A k \in DOMAIN Append(tokens, token) :
             k \in DOMAIN tokens \/ Append(tokens, token)[k].class = "ERROR"
    BY <2>5, <2>6
  <2>9. QED
    BY <1>2, <2>4, <2>6, <2>7, <2>8 DEF tokens
<1>3. QED
  BY <1>1, <1>2

\* A text in which no statement ends has no semicolon that is a token.
LEMMA NoSemicolon ==
  ASSUME NEW text \in Seq(Pieces), ~IsTerminated(text)
  PROVE  \A k \in DOMAIN Tokens(text) : ~IsSemicolon(Tokens(text)[k])
<1>. DEFINE n == Len(text)
            None(tokens) == \A k \in DOMAIN tokens : ~IsSemicolon(tokens[k])
<1>1. PICK f : Lexes(text, f) /\ Tokens(text) = AtEnd(f[n], text)
  BY TokensRule
<1>2. n \in Nat
  BY LenProperties
<1>3. Terminators(text) = {}
  BY DEF IsTerminated
<1>. DEFINE T == {m \in Nat : m <= n => None(f[m].tokens)}
<1>4. 0 \in T
  <2>1. f[0].tokens = <<>>
    BY <1>1 DEF Lexes, LexStart
  <2>2. DOMAIN <<>> = {}
    OBVIOUS
  <2>3. QED
    BY <2>1, <2>2
<1>5. ASSUME NEW m \in Nat, m \in T PROVE m + 1 \in T
  <2>1. m + 1 \in Nat /\ (m + 1) - 1 = m
    OBVIOUS
  <2>2. SUFFICES ASSUME m + 1 <= n PROVE None(f[m + 1].tokens)
    BY <2>1
  <2>3. m + 1 \in 1..n /\ m \in 0..n /\ None(f[m].tokens)
    BY <1>2, <1>5, <2>2
  <2>4. f[m] \in LexStates(text) /\ IsRead(f[(m + 1) - 1], f[m + 1], text, m + 1)
    BY <1>1, <2>3, PieceRule
  <2>. DEFINE before == f[m]
              after == f[m + 1]
  <2>5. /\ IsRead(before, after, text, m + 1) /\ before.tokens \in Seq(LexTokens)
        /\ None(before.tokens)
    BY <2>1, <2>3, <2>4 DEF LexStates
  <2>. HIDE DEF before, after
  <2>6. None(after.tokens)
    <3>1. CASE after.tokens = before.tokens
      BY <2>5, <3>1
    <3>2. ASSUME NEW token \in LexTokens, after.tokens = Append(before.tokens, token),
                 ~IsSemicolon(token)
          PROVE  None(after.tokens)
      <4>1. /\ Kept(before.tokens, after.tokens)
            /\ \A k \in DOMAIN after.tokens :
                 k \in DOMAIN before.tokens \/ after.tokens[k] = token
        BY <2>5, <3>2, AppendKeeps
      <4>2. QED
        BY <2>5, <3>2, <4>1 DEF Kept
    <3>3. QED
      BY <1>3, <2>5, <3>1, <3>2 DEF IsRead, Reads
  <2>7. QED
    BY <2>6 DEF after
<1>6. Nat \subseteq T
  <2>. HIDE DEF T
  <2>1. QED
    BY <1>4, <1>5, LexRecursion!Induction
<1>7. None(f[n].tokens) /\ f[n] \in LexStates(text)
  <2>1. n \in T /\ n \in 0..n
    BY <1>2, <1>6
  <2>2. QED
    BY <1>1, <2>1, PieceRule
<1>. DEFINE last == f[n]
<1>. HIDE DEF last
<1>8. None(last.tokens) /\ last \in LexStates(text) /\ Tokens(text) = AtEnd(last, text)
  BY <1>1, <1>7 DEF last
<1>9. /\ Kept(last.tokens, AtEnd(last, text))
      /\ \A k \in DOMAIN AtEnd(last, text) :
           k \in DOMAIN last.tokens \/ AtEnd(last, text)[k].class = "ERROR"
  BY <1>8, AtEndRule
<1>10. ASSUME NEW k \in DOMAIN AtEnd(last, text)
       PROVE  ~IsSemicolon(AtEnd(last, text)[k])
  <2>1. CASE k \in DOMAIN last.tokens
    BY <1>8, <1>9, <2>1 DEF Kept
  <2>2. CASE AtEnd(last, text)[k].class = "ERROR"
    BY <2>2 DEF IsSemicolon
  <2>3. QED
    BY <1>9, <2>1, <2>2
<1>11. QED
  BY <1>8, <1>10

\* A text in which a statement ends has one, or cannot be read.
LEMMA SomeSemicolon ==
  ASSUME NEW text \in Seq(Pieces), IsTerminated(text)
  PROVE  \E k \in DOMAIN Tokens(text) : Tokens(text)[k].class \in {"SEMICOLON", "ERROR"}
<1>. DEFINE n == Len(text)
            Some(tokens) == \E k \in DOMAIN tokens : tokens[k].class \in {"SEMICOLON", "ERROR"}
<1>1. PICK f : Lexes(text, f) /\ Tokens(text) = AtEnd(f[n], text)
  BY TokensRule
<1>2. n \in Nat /\ DOMAIN text = 1..n
  BY LenProperties
<1>3. PICK i \in 1..n : i \in Terminators(text)
  BY <1>2 DEF IsTerminated, Terminators
<1>4. /\ f[i - 1] \in LexStates(text) /\ IsRead(f[i - 1], f[i], text, i)
      /\ i \in 0..n /\ n \in i..n /\ f[n] \in LexStates(text)
  <2>1. i - 1 \in 0..n /\ i \in 0..n /\ n \in i..n /\ n \in 0..n
    BY <1>2
  <2>2. QED
    BY <1>1, <2>1, PieceRule
<1>. DEFINE before == f[i - 1]
            after == f[i]
            last == f[n]
<1>5. /\ IsRead(before, after, text, i) /\ before.tokens \in Seq(LexTokens)
      /\ Kept(after.tokens, last.tokens) /\ last \in LexStates(text)
      /\ Tokens(text) = AtEnd(last, text)
  BY <1>1, <1>4, TokensKept DEF LexStates
<1>. HIDE DEF before, after, last
<1>6. Some(after.tokens)
  <2>1. CASE HasError(before.tokens) /\ after = before
    BY <2>1 DEF HasError
  <2>2. ASSUME NEW token \in LexTokens, after.tokens = Append(before.tokens, token),
               IsSemicolon(token)
        PROVE  Some(after.tokens)
    <3>1. Len(before.tokens) + 1 \in DOMAIN after.tokens /\
          after.tokens[Len(before.tokens) + 1] = token
      BY <1>5, <2>2, AppendKeeps
    <3>2. QED
      BY <2>2, <3>1 DEF IsSemicolon
  <2>3. QED
    BY <1>3, <1>5, <2>1, <2>2 DEF IsRead, Reads
<1>7. Some(last.tokens)
  BY <1>5, <1>6 DEF Kept
<1>8. Kept(last.tokens, AtEnd(last, text))
  BY <1>5, AtEndRule
<1>9. Some(AtEnd(last, text))
  BY <1>7, <1>8 DEF Kept
<1>10. QED
  BY <1>5, <1>9

-----------------------------------------------------------------------------
(* A part of a text is read as the text is read there *)

\* The pieces of a part.
LEMMA PartPieces ==
  ASSUME NEW S, NEW text \in Seq(S), NEW a \in 1..Len(text), NEW b \in a..Len(text)
  PROVE  LET u == SubSeq(text, a, b)
         IN /\ u \in Seq(S) /\ Len(u) = (b - a) + 1 /\ DOMAIN u = 1..((b - a) + 1)
            /\ \A k \in 1..((b - a) + 1) : u[k] = text[a + k - 1]
<1>1. Len(text) \in Nat
  BY LenProperties
<1>2. a \in Nat \ {0} /\ b \in Int /\ b <= Len(text) /\ a \in Int /\ a <= b
  BY <1>1
<1>3. \A k \in a..b : k \in 1..Len(text)
  BY <1>1
<1>4. \A k \in a..b : text[k] \in S
  BY <1>3, ElementOfSeq
<1>. DEFINE u == SubSeq(text, a, b)
<1>5. /\ u \in Seq(S) /\ Len(u) = IF a <= b THEN b - a + 1 ELSE 0
      /\ \A k \in 1..(b - a + 1) : u[k] = text[a + k - 1]
  BY <1>2, <1>4, SubSeqProperties
<1>. HIDE DEF u
<1>6. Len(u) = (b - a) + 1
  BY <1>2, <1>5
<1>7. DOMAIN u = 1..((b - a) + 1)
  BY <1>5, <1>6, LenProperties
<1>8. QED
  BY <1>5, <1>6, <1>7 DEF u

\* In a part that ends before a harmless piece, what follows a piece is alike.
LEMMA PartAhead ==
  ASSUME NEW S, NEW text \in Seq(S), NEW a \in 1..Len(text), NEW b \in a..Len(text),
         PieceAt(text, b + 1) \in Harmless, NEW k \in 0..(b - a)
  PROVE  LET u == SubSeq(text, a, b)
         IN /\ u[k + 1] = text[a + k]
            /\ Alike(PieceAt(text, (a + k) + 1), PieceAt(u, (k + 1) + 1))
            /\ PieceAt(text, (a + k) + 1) = "." =>
                 Alike(PieceAt(text, (a + k) + 2), PieceAt(u, (k + 1) + 2))
<1>. DEFINE u == SubSeq(text, a, b)
            m == (b - a) + 1
<1>1. /\ DOMAIN u = 1..m
      /\ \A j \in 1..m : u[j] = text[a + j - 1]
  BY PartPieces
<1>2. /\ Len(text) \in Nat /\ DOMAIN text = 1..Len(text) /\ m \in Nat
      /\ a + m = b + 1
  BY LenProperties
<1>. HIDE DEF u
<1>3. u[k + 1] = text[a + k]
  <2>1. k + 1 \in 1..m /\ a + (k + 1) - 1 = a + k
    BY <1>2
  <2>2. QED
    BY <1>1, <2>1
<1>4. ASSUME NEW j \in 1..m
      PROVE  PieceAt(text, a + (j - 1)) = PieceAt(u, j)
  <2>1. a + j - 1 = a + (j - 1) /\ a + (j - 1) \in 1..Len(text)
    BY <1>2
  <2>2. u[j] = text[a + (j - 1)]
    BY <1>1, <2>1
  <2>3. QED
    BY <1>1, <1>2, <2>1, <2>2 DEF PieceAt
<1>5. PieceAt(u, m + 1) = "end"
  BY <1>1, <1>2 DEF PieceAt
<1>6. PieceAt(text, a + m) \in Harmless /\ "end" \in Harmless
  BY <1>2 DEF Harmless
<1>7. ASSUME NEW j \in 1..(m + 1)
      PROVE  Alike(PieceAt(text, a + (j - 1)), PieceAt(u, j))
  <2>1. CASE j \in 1..m
    BY <1>4, <2>1 DEF Alike
  <2>2. CASE j = m + 1
    <3>1. a + (j - 1) = a + m
      BY <1>2, <2>2
    <3>2. QED
      BY <1>5, <1>6, <2>2, <3>1 DEF Alike
  <2>3. QED
    BY <1>2, <2>1, <2>2
<1>8. Alike(PieceAt(text, (a + k) + 1), PieceAt(u, (k + 1) + 1))
  <2>1. (k + 1) + 1 \in 1..(m + 1) /\ a + (((k + 1) + 1) - 1) = (a + k) + 1
    BY <1>2
  <2>2. QED
    BY <1>7, <2>1
<1>9. ASSUME PieceAt(text, (a + k) + 1) = "."
      PROVE  Alike(PieceAt(text, (a + k) + 2), PieceAt(u, (k + 1) + 2))
  <2>1. "." \notin Harmless
    BY SignsRule DEF Harmless
  <2>2. (a + k) + 1 # a + m
    BY <1>6, <1>9, <2>1
  <2>3. (k + 1) + 2 \in 1..(m + 1) /\ a + (((k + 1) + 2) - 1) = (a + k) + 2
    BY <1>2, <2>2
  <2>4. QED
    BY <1>7, <2>3
<1>10. QED
  BY <1>3, <1>8, <1>9 DEF u

\* What a reader of the part from piece a has after k pieces, and one of the text, who
\* had the tokens of base before.
Embeds(part, state, base, a, k) ==
    /\ state.tokens = base \o part.tokens
    /\ part.string \in 0..k
    /\ part.string = 0 => state.string = 0
    /\ part.string # 0 => state.string = part.string + (a - 1)
    /\ \/ state.next = part.next + (a - 1)
       \/ part.next <= k + 1 /\ state.next <= a + k

\* What is appended to the second is appended to both.
LEMMA AppendConcat ==
  \A s, t \in Seq(LexTokens), token \in LexTokens :
    Append(s \o t, token) = s \o Append(t, token)
OBVIOUS

\* The same token for both.
LEMMA EmbedToken ==
  ASSUME NEW text \in Seq(Pieces), NEW a \in 1..Len(text), NEW b \in a..Len(text),
         NEW part \in LexStates(SubSeq(text, a, b)), NEW state \in LexStates(text),
         NEW base \in Seq(LexTokens), state.tokens = base \o part.tokens,
         NEW class \in Classes, NEW k \in Nat, NEW first \in 1..((b - a) + 1),
         NEW last \in first..((b - a) + 1)
  PROVE  Embeds(WithToken(part, class, SubSeq(text, a, b), first, last),
                WithToken(state, class, text, first + (a - 1), last + (a - 1)), base, a, k)
<1>. DEFINE u == SubSeq(text, a, b)
            n == Len(text)
            value == SubSeq(u, first, last)
            token == [class |-> class, value |-> value]
<1>1. /\ n \in Nat /\ a \in 1..n /\ b \in 1..n
      /\ first \in 1..(b - a + 1) /\ last \in 1..(b - a + 1)
      /\ a + first - 1 = first + (a - 1) /\ a + last - 1 = last + (a - 1)
  BY LenProperties
<1>2. value = SubSeq(text, a + first - 1, a + last - 1)
  BY <1>1, SubSeqOfSubSeq
<1>3. value = SubSeq(text, first + (a - 1), last + (a - 1))
  BY <1>1, <1>2
<1>4. u \in Seq(Pieces) /\ Len(u) = (b - a) + 1
  BY PartPieces
<1>5. token \in LexTokens /\ part.tokens \in Seq(LexTokens)
  BY <1>4, WithTokenType DEF LexStates
<1>. DEFINE p == WithToken(part, class, u, first, last)
            s == WithToken(state, class, text, first + (a - 1), last + (a - 1))
<1>6. p.tokens = Append(part.tokens, token) /\ p.next = last + 1 /\ p.string = 0
  BY DEF WithToken
<1>7. /\ s.tokens = Append(state.tokens, token) /\ s.next = (last + (a - 1)) + 1
      /\ s.string = 0
  <2>1. s = [tokens |-> Append(state.tokens, token), next |-> (last + (a - 1)) + 1,
             string |-> 0]
    BY <1>3 DEF WithToken
  <2>. HIDE DEF s, token
  <2>2. QED
    BY <2>1
<1>. HIDE DEF p, s, token
<1>8. Append(base \o part.tokens, token) = base \o Append(part.tokens, token)
  BY <1>5, AppendConcat
<1>9. (last + (a - 1)) + 1 = (last + 1) + (a - 1) /\ 0 \in 0..k
  BY <1>1
<1>10. Embeds(p, s, base, a, k)
  BY <1>6, <1>7, <1>8, <1>9 DEF Embeds
<1>11. QED
  BY <1>10 DEF p, s

\* The same piece for both: what the text has behind the part makes no difference.
LEMMA EmbedStep ==
  ASSUME NEW text \in Seq(Pieces), NEW a \in 1..Len(text), NEW b \in a..Len(text),
         PieceAt(text, b + 1) \in Harmless,
         NEW part \in LexStates(SubSeq(text, a, b)), NEW state \in LexStates(text),
         NEW base \in Seq(LexTokens), NEW k \in 0..(b - a), Embeds(part, state, base, a, k),
         ~HasError(Lex(state, text, a + k).tokens)
  PROVE  Embeds(Lex(part, SubSeq(text, a, b), k + 1), Lex(state, text, a + k), base, a, k + 1)
<1>. DEFINE u == SubSeq(text, a, b)
            m == (b - a) + 1
            i == a + k
            j == k + 1
            p == Lex(part, u, j)
            s == Lex(state, text, i)
<1>1. /\ Len(text) \in Nat /\ i \in 1..Len(text) /\ j \in 1..m /\ i = j + (a - 1) /\ a \in Nat
      /\ j \in Nat /\ i \in Nat /\ m \in Nat /\ a - 1 \in Nat
  BY LenProperties
<1>2. u \in Seq(Pieces) /\ Len(u) = m
  BY PartPieces
<1>3. /\ u[j] = text[i]
      /\ Alike(PieceAt(text, i + 1), PieceAt(u, j + 1))
      /\ PieceAt(text, i + 1) = "." => Alike(PieceAt(text, i + 2), PieceAt(u, j + 2))
  BY PartAhead
<1>4. /\ part.tokens \in Seq(LexTokens) /\ part.next \in 1..(m + 1) /\ part.string \in 0..m
      /\ state.tokens \in Seq(LexTokens) /\ state.next \in 1..(Len(text) + 1)
      /\ state.string \in 0..Len(text)
      /\ part = [tokens |-> part.tokens, next |-> part.next, string |-> part.string]
      /\ state = [tokens |-> state.tokens, next |-> state.next, string |-> state.string]
  BY <1>2 DEF LexStates
<1>5. /\ state.tokens = base \o part.tokens
      /\ part.string \in 0..k
      /\ part.string = 0 => state.string = 0
      /\ part.string # 0 => state.string = part.string + (a - 1)
      /\ \/ state.next = part.next + (a - 1)
         \/ part.next <= j /\ state.next <= i
  BY DEF Embeds
<1>. HIDE DEF u, m, i, j, p, s
<1>. DEFINE pn == part.next
            sn == state.next
            ps == part.string
            ss == state.string
<1>6. /\ pn \in Nat /\ sn \in Nat /\ ps \in 0..m /\ ss \in Nat /\ ps \in 0..k
      /\ ps # 0 => ss = ps + (a - 1)
      /\ sn = pn + (a - 1) \/ (pn <= j /\ sn <= i)
  <2>1. pn \in 1..(m + 1) /\ sn \in 1..(Len(text) + 1) /\ ss \in 0..Len(text)
    BY <1>4
  <2>. HIDE DEF pn, sn, ss
  <2>2. pn \in Nat /\ sn \in Nat /\ ss \in Nat
    BY <1>1, <2>1
  <2>3. QED
    BY <1>4, <1>5, <2>2 DEF pn, sn, ss
<1>. HIDE DEF pn, sn, ps, ss
<1>7. /\ i < sn <=> j < pn
      /\ i < sn => sn = pn + (a - 1)
      /\ sn = pn + (a - 1) \/ (pn <= j + 1 /\ sn <= a + j)
  <2>1. a + j = i + 1
    BY <1>1
  <2>2. QED
    BY <1>1, <1>6, <2>1
<1>8. /\ i < state.next <=> j < part.next
      /\ i < state.next => state.next = part.next + (a - 1)
      /\ \/ state.next = part.next + (a - 1)
         \/ part.next <= j + 1 /\ state.next <= a + j
  BY <1>7 DEF sn, pn
<1>9. /\ ps # 0 => ss # 0
      /\ ps # 0 => ps \in 1..m /\ j \in ps..m
      /\ ps \in 0..j
  BY <1>1, <1>6 DEF j
<1>10. part.string # 0 <=> state.string # 0
  BY <1>5, <1>9 DEF ps, ss
<1>11. ~HasError(s.tokens)
  BY DEF s, i
<1>. SUFFICES Embeds(p, s, base, a, j)
  BY DEF p, s, u, i, j
<1>12. ASSUME p = part, s = state PROVE Embeds(p, s, base, a, j)
  <2>1. part.string \in 0..j
    BY <1>9 DEF ps
  <2>2. QED
    BY <1>5, <1>8, <1>12, <2>1 DEF Embeds
<1>13. CASE i < state.next
  <2>1. s = state /\ p = part
    BY <1>8, <1>13, LexCases DEF s, p
  <2>2. QED
    BY <1>12, <2>1
<1>14. CASE ~(i < state.next) /\ state.string # 0
  <2>1. ~(j < part.next) /\ part.string # 0
    BY <1>8, <1>10, <1>14
  <2>2. CASE text[i] # "'"
    <3>1. s = state /\ p = part
      BY <1>3, <1>14, <2>1, <2>2, LexCases DEF s, p
    <3>2. QED
      BY <1>12, <3>1
  <2>3. PieceAt(text, i + 1) = "'" <=> PieceAt(u, j + 1) = "'"
    <3>1. "'" \notin Harmless
      BY SignsRule DEF Harmless
    <3>2. QED
      BY <1>3, <3>1 DEF Alike
  <2>4. CASE text[i] = "'" /\ PieceAt(text, i + 1) = "'"
    <3>1. s = [state EXCEPT !.next = i + 2] /\ p = [part EXCEPT !.next = j + 2]
      BY <1>3, <1>14, <2>1, <2>3, <2>4, LexCases DEF s, p
    <3>2. /\ s = [tokens |-> state.tokens, next |-> i + 2, string |-> state.string]
          /\ p = [tokens |-> part.tokens, next |-> j + 2, string |-> part.string]
      BY <1>4, <3>1
    <3>3. /\ s.tokens = state.tokens /\ s.next = i + 2 /\ s.string = state.string
          /\ p.tokens = part.tokens /\ p.next = j + 2 /\ p.string = part.string
      BY <3>2
    <3>4. i + 2 = (j + 2) + (a - 1) /\ part.string \in 0..j
      BY <1>1, <1>5 DEF j
    <3>5. QED
      BY <1>5, <3>3, <3>4 DEF Embeds
  <2>5. CASE text[i] = "'" /\ PieceAt(text, i + 1) # "'"
    <3>. DEFINE first == part.string
    <3>1. s = WithToken(state, "STRING", text, state.string, i)
      BY <1>14, <2>5, LexCases DEF s
    <3>2. p = WithToken(part, "STRING", u, first, j)
      BY <1>3, <2>1, <2>3, <2>5, LexCases DEF p
    <3>3. state.string = first + (a - 1) /\ first \in 1..m /\ j \in first..m
      BY <1>5, <1>9, <2>1 DEF ps
    <3>4. "STRING" \in Classes
      BY DEF Classes
    <3>. HIDE DEF first
    <3>5. s = WithToken(state, "STRING", text, first + (a - 1), j + (a - 1))
      BY <1>1, <3>1, <3>3
    <3>6. Embeds(WithToken(part, "STRING", u, first, j),
                 WithToken(state, "STRING", text, first + (a - 1), j + (a - 1)), base, a, j)
      BY <1>1, <1>5, <3>3, <3>4, EmbedToken DEF u, m
    <3>7. QED
      BY <3>2, <3>5, <3>6
  <2>6. QED
    BY <2>2, <2>4, <2>5
<1>15. CASE ~(i < state.next) /\ state.string = 0
  <2>1. ~(j < part.next) /\ part.string = 0
    BY <1>8, <1>10, <1>15
  <2>. DEFINE class == TokenAt(text, i).class
              last == TokenAt(u, j).last
              stop == TokenAt(text, i).last
  <2>2. /\ class = "BLANK" => s = state
        /\ class = "QUOTE" => s = [state EXCEPT !.string = i]
        /\ class \notin {"BLANK", "QUOTE"} => s = WithToken(state, class, text, i, stop)
    BY <1>15, LexCases DEF s
  <2>3. class # "ERROR"
    <3>1. SUFFICES ASSUME class = "ERROR" PROVE FALSE
      OBVIOUS
    <3>. DEFINE token == [class |-> class, value |-> SubSeq(text, i, stop)]
    <3>2. s = WithToken(state, class, text, i, stop)
      BY <2>2, <3>1
    <3>3. s.tokens = Append(state.tokens, token)
      BY <3>2, WithTokenRule
    <3>4. IsTokenAt(class, stop, text, i)
      BY <1>1, TokenAtRule
    <3>5. token \in LexTokens
      <4>1. class \in Classes /\ stop \in i..Len(text)
        BY <3>4 DEF IsTokenAt
      <4>. HIDE DEF class, stop
      <4>2. QED
        BY <1>1, <4>1, WithTokenType
    <3>6. token.class = "ERROR"
      BY <3>1
    <3>. HIDE DEF token
    <3>7. /\ Len(state.tokens) + 1 \in DOMAIN s.tokens
          /\ s.tokens[Len(state.tokens) + 1] = token
      BY <1>4, <3>3, <3>5, AppendKeeps
    <3>8. QED
      BY <1>11, <3>6, <3>7 DEF HasError
  <2>4. /\ TokenAt(u, j).class = class
        /\ \E d \in 0..2 : stop = i + d /\ last = j + d
    BY <1>1, <1>3, <2>3, TokenAtSame
  <2>5. /\ class = "BLANK" => p = part
        /\ class = "QUOTE" => p = [part EXCEPT !.string = j]
        /\ class \notin {"BLANK", "QUOTE"} => p = WithToken(part, class, u, j, last)
    BY <2>1, <2>4, LexCases DEF p
  <2>6. IsTokenAt(TokenAt(u, j).class, last, u, j)
    BY <1>1, <1>2, TokenAtRule
  <2>7. class \in Classes /\ last \in j..m
    BY <1>2, <2>4, <2>6 DEF IsTokenAt
  <2>8. stop = last + (a - 1)
    BY <1>1, <2>4
  <2>. HIDE DEF class, last, stop
  <2>9. CASE class = "BLANK"
    BY <1>12, <2>2, <2>5, <2>9
  <2>10. CASE class = "QUOTE"
    <3>1. /\ s = [tokens |-> state.tokens, next |-> state.next, string |-> i]
          /\ p = [tokens |-> part.tokens, next |-> part.next, string |-> j]
      BY <1>4, <2>2, <2>5, <2>10
    <3>2. /\ s.tokens = state.tokens /\ s.next = state.next /\ s.string = i
          /\ p.tokens = part.tokens /\ p.next = part.next /\ p.string = j
      BY <3>1
    <3>3. j \in 0..j /\ j # 0 /\ i = j + (a - 1)
      BY <1>1
    <3>4. QED
      BY <1>5, <1>8, <3>2, <3>3 DEF Embeds
  <2>11. CASE class \notin {"BLANK", "QUOTE"}
    <3>1. p = WithToken(part, class, u, j, last)
      BY <2>5, <2>11
    <3>2. s = WithToken(state, class, text, j + (a - 1), last + (a - 1))
      BY <1>1, <2>2, <2>8, <2>11
    <3>3. Embeds(WithToken(part, class, u, j, last),
                 WithToken(state, class, text, j + (a - 1), last + (a - 1)), base, a, j)
      BY <1>1, <1>5, <2>7, EmbedToken DEF u, m
    <3>4. QED
      BY <3>1, <3>2, <3>3
  <2>12. QED
    BY <2>9, <2>10, <2>11
<1>16. QED
  BY <1>13, <1>14, <1>15

\* What was wrong stays wrong.
LEMMA ErrorKept ==
  ASSUME NEW tokens, NEW later, Kept(tokens, later), HasError(tokens)
  PROVE  HasError(later)
BY DEF Kept, HasError

\* A part of a text that is read without an error gives the same tokens.
LEMMA Embedded ==
  ASSUME NEW text \in Seq(Pieces), NEW f, Lexes(text, f),
         NEW a \in 1..Len(text), NEW b \in a..Len(text),
         NEW g, Lexes(SubSeq(text, a, b), g),
         f[a - 1].string = 0, f[a - 1].next <= a,
         PieceAt(text, b + 1) \in Harmless, ~HasError(f[b].tokens)
  PROVE  Embeds(g[(b - a) + 1], f[b], f[a - 1].tokens, a, (b - a) + 1)
<1>. DEFINE u == SubSeq(text, a, b)
            m == (b - a) + 1
            base == f[a - 1].tokens
            T == {k \in Nat : k <= m => Embeds(g[k], f[(a - 1) + k], base, a, k)}
<1>1. /\ Len(text) \in Nat /\ a \in Nat /\ m \in Nat /\ a - 1 \in Nat /\ a - 1 \in 0..Len(text)
      /\ (a - 1) + 0 = a - 1 /\ (a - 1) + m = b /\ m \in 0..m
  BY LenProperties
<1>2. u \in Seq(Pieces) /\ Len(u) = m
  BY PartPieces
<1>3. \A i \in 0..Len(text) : f[i] \in LexStates(text)
  BY PieceRule
<1>4. (\A k \in 0..m : g[k] \in LexStates(u)) /\ g[0] = LexStart
  BY <1>2, PieceRule
<1>5. base \in Seq(LexTokens)
  BY <1>1, <1>3 DEF LexStates
<1>. HIDE DEF m, base
<1>6. 0 \in T
  <2>1. g[0].tokens = <<>> /\ g[0].string = 0 /\ g[0].next = 1
    BY <1>4 DEF LexStart
  <2>2. base \o <<>> = base
    BY <1>5, ConcatEmptySeq
  <2>. DEFINE state == f[a - 1]
  <2>3. state.tokens = base /\ state.string = 0 /\ state.next <= a
    BY DEF base
  <2>. HIDE DEF state
  <2>4. 0 \in 0..0 /\ 1 <= 0 + 1 /\ a + 0 = a
    BY <1>1
  <2>5. Embeds(g[0], state, base, a, 0)
    BY <2>1, <2>2, <2>3, <2>4 DEF Embeds
  <2>6. QED
    BY <1>1, <2>5 DEF state
<1>7. ASSUME NEW k \in Nat, k \in T PROVE k + 1 \in T
  <2>1. k + 1 \in Nat /\ k + 1 # 0 /\ (k + 1) - 1 = k
    OBVIOUS
  <2>2. SUFFICES ASSUME k + 1 <= m
                 PROVE  Embeds(g[k + 1], f[(a - 1) + (k + 1)], base, a, k + 1)
    BY <2>1
  <2>3. /\ k \in 0..m /\ k \in 0..(b - a) /\ (a - 1) + (k + 1) = a + k
        /\ a + k \in Nat /\ a + k # 0 /\ (a + k) - 1 = (a - 1) + k
        /\ (a - 1) + k \in 0..Len(text) /\ a + k \in 0..Len(text) /\ b \in (a + k)..Len(text)
    BY <1>1, <2>2 DEF m
  <2>4. Embeds(g[k], f[(a - 1) + k], base, a, k)
    BY <1>1, <1>7, <2>2, <2>3
  <2>5. f[a + k] = Lex(f[(a - 1) + k], text, a + k)
    BY <2>3 DEF Lexes
  <2>6. g[k + 1] = Lex(g[k], u, k + 1)
    BY <2>1 DEF Lexes
  <2>7. Kept(f[a + k].tokens, f[b].tokens)
    BY <2>3, TokensKept
  <2>8. ~HasError(f[a + k].tokens)
    BY <2>7, ErrorKept
  <2>9. g[k] \in LexStates(u) /\ f[(a - 1) + k] \in LexStates(text)
    BY <1>3, <1>4, <2>3
  <2>. DEFINE part == g[k]
              state == f[(a - 1) + k]
  <2>10. /\ part \in LexStates(u) /\ state \in LexStates(text)
         /\ Embeds(part, state, base, a, k) /\ ~HasError(Lex(state, text, a + k).tokens)
    BY <2>4, <2>5, <2>8, <2>9
  <2>. HIDE DEF part, state
  <2>11. Embeds(Lex(part, u, k + 1), Lex(state, text, a + k), base, a, k + 1)
    BY <1>5, <2>3, <2>10, EmbedStep
  <2>12. QED
    BY <2>3, <2>5, <2>6, <2>11 DEF part, state
<1>8. Nat \subseteq T
  <2>. HIDE DEF T
  <2>1. QED
    BY <1>6, <1>7, LexRecursion!Induction
<1>9. Embeds(g[m], f[(a - 1) + m], base, a, m)
  BY <1>1, <1>8
<1>10. QED
  BY <1>1, <1>9 DEF m, base

\* Blanks are skipped, or in a string.
LEMMA BlankRule ==
  ASSUME NEW text \in Seq(Pieces), NEW i \in 1..Len(text), text[i] \in Blanks, NEW state
  PROVE  Lex(state, text, i) = state
<1>1. IsTokenAt(TokenAt(text, i).class, TokenAt(text, i).last, text, i)
  BY TokenAtRule
<1>2. TokenAt(text, i).class = "BLANK"
  BY <1>1 DEF IsTokenAt
<1>3. text[i] # "'"
  BY SignsRule
<1>4. QED
  BY <1>2, <1>3, LexCases

\* Any number of blanks.
LEMMA BlanksRule ==
  ASSUME NEW text \in Seq(Pieces), NEW f, Lexes(text, f), NEW i \in 0..Len(text),
         NEW j \in i..Len(text), \A k \in (i + 1)..j : text[k] \in Blanks
  PROVE  f[j] = f[i]
<1>. DEFINE T == {d \in Nat : i + d <= j => f[i + d] = f[i]}
<1>1. Len(text) \in Nat /\ i \in Nat /\ j \in Nat
  BY LenProperties
<1>2. 0 \in T
  BY <1>1
<1>3. ASSUME NEW d \in Nat, d \in T PROVE d + 1 \in T
  <2>1. d + 1 \in Nat /\ i + (d + 1) = (i + d) + 1 /\ ((i + d) + 1) - 1 = i + d
        /\ (i + d) + 1 \in Nat /\ (i + d) + 1 # 0
    BY <1>1
  <2>2. SUFFICES ASSUME i + (d + 1) <= j PROVE f[i + (d + 1)] = f[i]
    BY <2>1
  <2>3. f[i + d] = f[i] /\ (i + d) + 1 \in 1..Len(text) /\ (i + d) + 1 \in (i + 1)..j
    BY <1>1, <1>3, <2>2
  <2>4. f[(i + d) + 1] = Lex(f[i + d], text, (i + d) + 1)
    BY <2>1 DEF Lexes
  <2>5. text[(i + d) + 1] \in Blanks
    BY <2>3
  <2>6. QED
    BY <2>1, <2>3, <2>4, <2>5, BlankRule
<1>4. Nat \subseteq T
  <2>. HIDE DEF T
  <2>1. QED
    BY <1>2, <1>3, LexRecursion!Induction
<1>5. j - i \in Nat /\ i + (j - i) = j /\ j <= j
  BY <1>1
<1>6. j - i \in T
  BY <1>4, <1>5
<1>7. QED
  BY <1>5, <1>6

\* A text that does not begin with a blank has a token, or begins a string.
LEMMA SomethingIsRead ==
  ASSUME NEW text \in Seq(Pieces), NEW f, Lexes(text, f),
         Len(text) # 0, text[1] \notin Blanks
  PROVE  f[Len(text)].tokens # <<>> \/ f[Len(text)].string # 0
<1>. DEFINE n == Len(text)
            Some(s) == s.tokens # <<>> \/ s.string # 0
            T == {d \in Nat : d + 1 <= n => Some(f[d + 1])}
<1>1. n \in Nat /\ 1 \in 1..n /\ 0 \in 0..n /\ 0 + 1 = 1
  BY LenProperties
<1>2. /\ \A i \in 0..n : f[i] \in LexStates(text)
      /\ f[0] = LexStart
  BY PieceRule
<1>3. ASSUME NEW state \in LexStates(text), NEW class, NEW first, NEW last
      PROVE  Some(WithToken(state, class, text, first, last))
  <2>. DEFINE token == [class |-> class, value |-> SubSeq(text, first, last)]
              tokens == state.tokens
  <2>1. WithToken(state, class, text, first, last).tokens = Append(tokens, token)
    BY WithTokenRule
  <2>2. tokens \in Seq(LexTokens)
    BY DEF LexStates
  <2>. HIDE DEF token, tokens
  <2>3. Append(tokens, token) # <<>>
    BY <2>2
  <2>4. QED
    BY <2>1, <2>3
<1>. HIDE DEF Some
<1>4. 0 \in T
  <2>. DEFINE class == TokenAt(text, 1).class
              last == TokenAt(text, 1).last
              s == Lex(LexStart, text, 1)
  <2>1. IsTokenAt(class, last, text, 1)
    BY <1>1, TokenAtRule
  <2>2. class # "BLANK"
    BY <2>1 DEF IsTokenAt
  <2>3. LexStart.next = 1 /\ LexStart.string = 0 /\ ~(1 < 1)
    BY DEF LexStart
  <2>4. /\ class = "QUOTE" => s = [LexStart EXCEPT !.string = 1]
        /\ class \notin {"BLANK", "QUOTE"} => s = WithToken(LexStart, class, text, 1, last)
    BY <2>3, LexCases
  <2>5. LexStart \in LexStates(text)
    BY <1>1, <1>2
  <2>6. s = f[0 + 1]
    <3>1. 1 \in Nat /\ 1 # 0 /\ 1 - 1 = 0
      OBVIOUS
    <3>2. f[1] = Lex(f[0], text, 1)
      BY <3>1 DEF Lexes
    <3>3. QED
      BY <1>1, <1>2, <3>2
  <2>7. Some([LexStart EXCEPT !.string = 1])
    BY DEF Some, LexStart
  <2>. HIDE DEF class, last, s
  <2>8. Some(s)
    BY <1>3, <2>2, <2>4, <2>5, <2>7
  <2>9. QED
    BY <2>6, <2>8
<1>5. ASSUME NEW d \in Nat, d \in T PROVE d + 1 \in T
  <2>. DEFINE i == (d + 1) + 1
  <2>1. d + 1 \in Nat /\ i \in Nat /\ i # 0 /\ i - 1 = d + 1
    OBVIOUS
  <2>2. SUFFICES ASSUME i <= n PROVE Some(f[i])
    BY <2>1
  <2>3. Some(f[d + 1]) /\ i \in 1..n /\ d + 1 \in 0..n
    BY <1>1, <1>5, <2>1, <2>2
  <2>. DEFINE state == f[d + 1]
              class == TokenAt(text, i).class
              last == TokenAt(text, i).last
              s == Lex(state, text, i)
  <2>4. f[i] = s
    BY <2>1 DEF Lexes
  <2>5. state \in LexStates(text) /\ Some(state)
    BY <1>2, <2>3
  <2>6. \/ s = state
        \/ s = [state EXCEPT !.next = i + 2]
        \/ s = [state EXCEPT !.string = i]
        \/ \E c, first, end : s = WithToken(state, c, text, first, end)
    BY LexCases
  <2>7. /\ i # 0
        /\ state = [tokens |-> state.tokens, next |-> state.next, string |-> state.string]
    BY <2>1, <2>5 DEF LexStates
  <2>. HIDE DEF i, state, s
  <2>8. Some([state EXCEPT !.next = i + 2]) /\ Some([state EXCEPT !.string = i])
    <3>1. /\ [state EXCEPT !.next = i + 2] =
               [tokens |-> state.tokens, next |-> i + 2, string |-> state.string]
          /\ [state EXCEPT !.string = i] =
               [tokens |-> state.tokens, next |-> state.next, string |-> i]
      BY <2>7
    <3>2. QED
      BY <2>5, <2>7, <3>1 DEF Some
  <2>9. QED
    BY <1>3, <2>4, <2>5, <2>6, <2>8
<1>6. Nat \subseteq T
  <2>. HIDE DEF T
  <2>1. QED
    BY <1>4, <1>5, LexRecursion!Induction
<1>7. n - 1 \in Nat /\ (n - 1) + 1 = n /\ n <= n
  BY <1>1
<1>8. n - 1 \in T
  BY <1>6, <1>7
<1>9. QED
  BY <1>7, <1>8 DEF Some

\* The tokens of a stripped part of a text are those that the text has there.
LEMMA SegmentTokens ==
  ASSUME NEW text \in Seq(Pieces), NEW f, Lexes(text, f),
         NEW start \in 1..(Len(text) + 1), NEW stop \in (start - 1)..Len(text),
         f[start - 1].string = 0, f[start - 1].next <= start, f[stop].string = 0,
         PieceAt(text, stop + 1) \in Harmless, ~HasError(f[stop].tokens)
  PROVE  LET part == Strip(SubSeq(text, start, stop))
         IN /\ part = <<>> => f[stop].tokens = f[start - 1].tokens
            /\ part # <<>> => /\ Tokens(part) \in Seq(LexTokens) /\ Tokens(part) # <<>>
                              /\ f[stop].tokens = f[start - 1].tokens \o Tokens(part)
<1>. DEFINE s == SubSeq(text, start, stop)
            n == (stop - start) + 1
            part == Strip(s)
<1>1. /\ Len(text) \in Nat /\ DOMAIN text = 1..Len(text) /\ n \in Nat /\ start \in Nat \ {0}
      /\ stop \in Nat /\ start - 1 \in 0..Len(text) /\ stop \in 0..Len(text)
      /\ stop \in Int /\ start \in Int
  BY LenProperties
<1>2. s \in Seq(Pieces) /\ Len(s) = n /\ \A i \in 1..n : s[i] = text[start + i - 1]
  <2>1. s \in Seq(Pieces)
    BY <1>1, PartType
  <2>2. CASE start <= stop
    <3>1. start \in 1..Len(text) /\ stop \in start..Len(text)
      BY <1>1, <2>2
    <3>2. QED
      BY <3>1, PartPieces
  <2>3. CASE stop < start
    <3>1. s = <<>>
      BY <1>1, <2>3, SubSeqEmpty
    <3>2. n = 0 /\ Len(<<>>) = 0
      BY <1>1, <2>3
    <3>. HIDE DEF s, n
    <3>3. QED
      BY <2>1, <3>1, <3>2
  <2>4. QED
    BY <1>1, <2>2, <2>3
<1>. HIDE DEF s
<1>3. PICK x \in 1..(n + 1) : \E y \in (x - 1)..n : IsStripped(s, x, y)
  <2>1. \E x \in 1..(Len(s) + 1) : \E y \in (x - 1)..Len(s) : IsStripped(s, x, y)
    BY <1>2, StripIs
  <2>. HIDE DEF n
  <2>2. QED
    BY <1>2, <2>1
<1>4. PICK y \in (x - 1)..n : IsStripped(s, x, y)
  BY <1>3
<1>5. /\ part = SubSeq(s, x, y)
      /\ \A i \in 1..(x - 1) : s[i] \in Blanks
      /\ \A i \in (y + 1)..n : s[i] \in Blanks
      /\ x <= y => s[x] \notin Blanks
  <2>. HIDE DEF n
  <2>1. QED
    BY <1>2, <1>4 DEF IsStripped
<1>. DEFINE a == start + (x - 1)
            b == start + (y - 1)
<1>6. /\ x \in Nat /\ y \in Int /\ a - 1 \in (start - 1)..stop /\ b \in (a - 1)..stop
      /\ b \in 0..Len(text) /\ a - 1 \in 0..Len(text) /\ a - 1 \in (start - 1)..Len(text)
      /\ stop \in b..Len(text) /\ (start - 1) + 1 = start /\ a \in Nat
      /\ x - 1 <= n /\ x - 1 <= y /\ y <= n /\ n = (stop - start) + 1
      /\ a = start + (x - 1) /\ b = start + (y - 1) /\ b \in Int
  <2>1. /\ x \in Nat /\ y \in Int /\ 1 <= x /\ x <= n + 1 /\ x - 1 <= y /\ y <= n
        /\ n \in Nat /\ n = (stop - start) + 1 /\ a = start + (x - 1) /\ b = start + (y - 1)
    BY <1>1
  <2>2. Len(text) \in Nat /\ 1 <= start /\ start <= Len(text) + 1 /\ start - 1 <= stop
        /\ stop <= Len(text) /\ start \in Nat /\ stop \in Nat
    BY <1>1
  <2>. HIDE DEF n, a, b
  <2>3. a \in Nat /\ b \in Int /\ a - 1 \in Nat /\ b \in Nat /\ start - 1 <= a - 1
        /\ a - 1 <= b /\ b <= stop
    BY <2>1, <2>2
  <2>4. QED
    BY <2>1, <2>2, <2>3
<1>. HIDE DEF n, a, b
<1>7. ASSUME NEW k \in start..(a - 1) PROVE text[k] \in Blanks
  <2>. DEFINE i == (k - start) + 1
  <2>1. k \in Int /\ start <= k /\ k <= a - 1
    BY <1>1, <1>6
  <2>2. i \in 1..(x - 1) /\ i \in 1..n /\ start + i - 1 = k
    BY <1>1, <1>6, <2>1
  <2>. HIDE DEF i
  <2>3. s[i] \in Blanks /\ s[i] = text[k]
    BY <1>2, <1>5, <2>2
  <2>4. QED
    BY <2>3
<1>8. ASSUME NEW k \in (b + 1)..stop PROVE text[k] \in Blanks
  <2>. DEFINE i == (k - start) + 1
  <2>1. k \in Int /\ b + 1 <= k /\ k <= stop
    BY <1>1, <1>6
  <2>2. i \in (y + 1)..n /\ i \in 1..n /\ start + i - 1 = k
    BY <1>1, <1>6, <2>1
  <2>. HIDE DEF i
  <2>3. s[i] \in Blanks /\ s[i] = text[k]
    BY <1>2, <1>5, <2>2
  <2>4. QED
    BY <2>3
<1>9. f[a - 1] = f[start - 1]
  <2>1. \A k \in ((start - 1) + 1)..(a - 1) : text[k] \in Blanks
    BY <1>6, <1>7
  <2>. DEFINE i == start - 1
              j == a - 1
  <2>2. i \in 0..Len(text) /\ j \in i..Len(text) /\ \A k \in (i + 1)..j : text[k] \in Blanks
    BY <1>1, <1>6, <2>1
  <2>. HIDE DEF i, j
  <2>3. f[j] = f[i]
    BY <2>2, BlanksRule
  <2>4. QED
    BY <2>3 DEF i, j
<1>10. f[stop] = f[b]
  <2>1. QED
    BY <1>1, <1>6, <1>8, BlanksRule
<1>11. CASE y < x
  <2>1. part = <<>>
    BY <1>5, <1>6, <1>11, SubSeqEmpty
  <2>2. b = a - 1
    BY <1>6, <1>11
  <2>3. f[stop].tokens = f[start - 1].tokens
    BY <1>9, <1>10, <2>2
  <2>4. QED
    BY <2>1, <2>3 DEF s
<1>12. CASE x <= y
  <2>1. /\ a \in 1..Len(text) /\ b \in a..Len(text) /\ x \in 1..n /\ y \in x..n
        /\ start \in 1..Len(text) /\ stop \in 1..Len(text) /\ y \in 1..n
        /\ start + x - 1 = a /\ start + y - 1 = b /\ n = stop - start + 1
        /\ (b - a) + 1 = (y - x) + 1 /\ (b - a) + 1 \in Nat /\ (b - a) + 1 # 0
        /\ 1 \in 1..((b - a) + 1) /\ a + 1 - 1 = a
    BY <1>1, <1>6, <1>12
  <2>2. part = SubSeq(text, a, b)
    <3>1. SubSeq(SubSeq(text, start, stop), x, y) = SubSeq(text, start + x - 1, start + y - 1)
      <4>1. x \in 1..(stop - start + 1) /\ y \in 1..(stop - start + 1)
        BY <2>1
      <4>2. QED
        BY <2>1, <4>1, SubSeqOfSubSeq
    <3>2. QED
      BY <1>5, <2>1, <3>1 DEF s
  <2>. HIDE DEF part
  <2>. DEFINE u == SubSeq(text, a, b)
              m == (b - a) + 1
  <2>3. u \in Seq(Pieces) /\ Len(u) = m /\ u[1] = text[a]
    <3>1. /\ u \in Seq(Pieces) /\ Len(u) = (b - a) + 1
          /\ \A k \in 1..((b - a) + 1) : u[k] = text[a + k - 1]
      BY <2>1, PartPieces
    <3>. HIDE DEF u
    <3>2. u[1] = text[a + 1 - 1]
      BY <2>1, <3>1
    <3>3. QED
      BY <2>1, <3>1, <3>2
  <2>4. text[a] \notin Blanks
    BY <1>2, <1>5, <1>12, <2>1
  <2>5. PICK g : Lexes(u, g) /\ Tokens(u) = AtEnd(g[m], u)
    BY <2>3, TokensRule
  <2>6. PieceAt(text, b + 1) \in Harmless
    <3>1. CASE b = stop
      BY <3>1
    <3>2. CASE b # stop
      <4>1. b + 1 \in (b + 1)..stop /\ b + 1 \in 1..Len(text)
        BY <1>1, <1>6, <3>2
      <4>2. text[b + 1] \in Blanks
        BY <1>8, <4>1
      <4>3. QED
        BY <1>1, <4>1, <4>2 DEF PieceAt, Harmless
    <3>3. QED
      BY <3>1, <3>2
  <2>7. /\ f[a - 1].string = 0 /\ f[a - 1].next <= a /\ ~HasError(f[b].tokens)
        /\ f[b].string = 0
    <3>. DEFINE next == f[start - 1].next
    <3>1. next \in Nat /\ next <= start /\ start <= a
      <4>1. f[start - 1] \in LexStates(text)
        BY <1>1, PieceRule
      <4>2. next \in 1..(Len(text) + 1)
        BY <4>1 DEF LexStates
      <4>3. next <= start
        OBVIOUS
      <4>. HIDE DEF next
      <4>4. QED
        BY <1>1, <1>6, <4>2, <4>3
    <3>. HIDE DEF next
    <3>2. next <= a
      BY <1>1, <1>6, <3>1
    <3>3. QED
      BY <1>9, <1>10, <3>2 DEF next
  <2>8. Embeds(g[m], f[b], f[a - 1].tokens, a, m)
    BY <2>1, <2>5, <2>6, <2>7, Embedded
  <2>9. g[m] \in LexStates(u)
    <3>1. m \in 0..m
      BY <2>1
    <3>. HIDE DEF m
    <3>2. QED
      BY <2>3, <2>5, <3>1, PieceRule
  <2>10. g[m].tokens # <<>> \/ g[m].string # 0
    BY <2>1, <2>3, <2>4, <2>5, SomethingIsRead
  <2>. DEFINE end == g[m]
              later == f[b]
  <2>11. /\ end \in LexStates(u) /\ Embeds(end, later, f[a - 1].tokens, a, m)
         /\ end.tokens # <<>> \/ end.string # 0
         /\ later.string = 0
    BY <2>7, <2>8, <2>9, <2>10
  <2>12. Tokens(u) = AtEnd(end, u)
    BY <2>5
  <2>. HIDE DEF end, later
  <2>. DEFINE string == end.string
  <2>13. string = 0
    <3>1. string \in 0..m /\ (string # 0 => later.string = string + (a - 1))
      BY <2>11 DEF Embeds
    <3>2. string # 0 => 0 = string + (a - 1)
      BY <2>11, <3>1
    <3>. HIDE DEF string
    <3>3. QED
      BY <2>1, <3>1, <3>2
  <2>14. Tokens(u) = end.tokens /\ end.tokens # <<>> /\ end.tokens \in Seq(LexTokens)
    BY <2>3, <2>11, <2>12, <2>13, AtEndRule DEF LexStates
  <2>15. later.tokens = f[a - 1].tokens \o Tokens(u)
    BY <2>11, <2>14 DEF Embeds
  <2>16. part = u /\ u # <<>>
    <3>1. Len(<<>>) = 0 /\ m # 0
      BY <2>1
    <3>. HIDE DEF u, m
    <3>2. QED
      BY <2>2, <2>3, <3>1 DEF u
  <2>17. f[stop].tokens = f[start - 1].tokens \o Tokens(u)
    BY <1>9, <1>10, <2>15 DEF later
  <2>18. QED
    BY <2>14, <2>16, <2>17 DEF part, s
<1>13. y < x \/ x <= y
  <2>1. x \in Int /\ y \in Int
    BY <1>6
  <2>2. QED
    BY <2>1
<1>14. QED
  BY <1>11, <1>12, <1>13

-----------------------------------------------------------------------------
(* A script *)

\* The tokens of statements.
Readings(statements) == [k \in DOMAIN statements |-> Tokens(statements[k])]

\* One statement more.
LEMMA ReadingsAppend ==
  ASSUME NEW S, NEW statements \in Seq(S), NEW text \in S
  PROVE  Readings(Append(statements, text)) = Append(Readings(statements), Tokens(text))
<1>. DEFINE t == Append(statements, text)
            r == Readings(statements)
            n == Len(statements)
            V == {Tokens(s) : s \in S}
<1>1. /\ n \in Nat /\ DOMAIN statements = 1..n /\ Len(t) = n + 1 /\ DOMAIN t = 1..(n + 1)
      /\ t[n + 1] = text /\ \A k \in 1..n : t[k] = statements[k] /\ statements[k] \in S
  BY AppendProperties, LenProperties, ElementOfSeq
<1>2. r \in Seq(V) /\ Len(r) = n /\ \A k \in 1..n : r[k] = Tokens(statements[k])
  <2>1. r = [k \in 1..n |-> Tokens(statements[k])]
    BY <1>1 DEF Readings
  <2>2. \A k \in 1..n : Tokens(statements[k]) \in V
    BY <1>1
  <2>. HIDE DEF r, V, n
  <2>3. r \in [1..n -> V]
    BY <2>1, <2>2
  <2>4. QED
    BY <1>1, <2>1, <2>3
<1>3. Tokens(text) \in V
  OBVIOUS
<1>. DEFINE a == Append(r, Tokens(text))
            b == Readings(t)
<1>4. b = [k \in 1..(n + 1) |-> Tokens(t[k])]
  BY <1>1 DEF Readings
<1>. HIDE DEF r, t, n, V, b
<1>5. /\ a \in Seq(V) /\ Len(a) = n + 1 /\ a[n + 1] = Tokens(text)
      /\ \A k \in 1..n : a[k] = r[k]
  BY <1>2, <1>3, AppendProperties
<1>. HIDE DEF a
<1>6. \A k \in 1..(n + 1) : k \in 1..n \/ k = n + 1
  BY <1>1
<1>7. \A k \in 1..(n + 1) : a[k] = Tokens(t[k])
  BY <1>1, <1>2, <1>5, <1>6
<1>8. a = [k \in 1..(n + 1) |-> a[k]]
  BY <1>5
<1>9. a = b
  BY <1>4, <1>7, <1>8
<1>10. QED
  BY <1>9 DEF a, b, t, r

\* What follows the same is the same.
LEMMA CancelLeft ==
  \A s, t, v \in Seq(LexTokens) : s \o t = s \o v => t = v
BY ConcatSimplifications, Zenon

\* A part of a text whose tokens are those of open, and which is read on its own.
IsSegment(text, f, start, stop, open) ==
    /\ start \in 1..(Len(text) + 1) /\ stop \in (start - 1)..Len(text)
    /\ f[start - 1].string = 0 /\ f[start - 1].next <= start /\ f[stop].string = 0
    /\ PieceAt(text, stop + 1) \in Harmless /\ ~HasError(f[stop].tokens)
    /\ open \in Seq(LexTokens) /\ f[stop].tokens = f[start - 1].tokens \o open

\* A statement more for the one is a group more for the other.
LEMMA SegmentGroup ==
  ASSUME NEW text \in Seq(Pieces), NEW f, Lexes(text, f),
         NEW start, NEW stop, NEW open, IsSegment(text, f, start, stop, open),
         NEW statements \in Seq(Seq(Pieces))
  PROVE  /\ WithStatement(statements, SubSeq(text, start, stop)) \in Seq(Seq(Pieces))
         /\ Readings(WithStatement(statements, SubSeq(text, start, stop))) =
              WithGroup(Readings(statements), open)
<1>. DEFINE seg == SubSeq(text, start, stop)
            part == Strip(seg)
            base == f[start - 1].tokens
            new == WithStatement(statements, seg)
<1>. USE DEF IsSegment
<1>1. Len(text) \in Nat /\ start \in Nat \ {0} /\ stop \in Int /\ stop <= Len(text)
      /\ start - 1 \in 0..Len(text) /\ open \in Seq(LexTokens)
  BY LenProperties
<1>2. seg \in Seq(Pieces)
  BY <1>1, PartType
<1>3. part \in Seq(Pieces)
  BY <1>2, StripKeeps
<1>4. base \in Seq(LexTokens)
  <2>1. f[start - 1] \in LexStates(text)
    BY <1>1, PieceRule
  <2>2. QED
    BY <2>1 DEF LexStates
<1>5. /\ part = <<>> => f[stop].tokens = base
      /\ part # <<>> => /\ Tokens(part) \in Seq(LexTokens) /\ Tokens(part) # <<>>
                        /\ f[stop].tokens = base \o Tokens(part)
  BY SegmentTokens
<1>6. f[stop].tokens = base \o open
  OBVIOUS
<1>7. /\ part = <<>> => new = statements
      /\ part # <<>> => new = Append(statements, part)
  BY DEF WithStatement
<1>. HIDE DEF base, part, new, seg
<1>8. CASE part = <<>>
  <2>1. open = <<>>
    BY <1>1, <1>4, <1>5, <1>6, <1>8, ConcatEqualIffEmpty
  <2>2. WithGroup(Readings(statements), open) = Readings(statements)
    BY <2>1 DEF WithGroup
  <2>3. QED
    BY <1>7, <1>8, <2>2 DEF new, seg
<1>9. CASE part # <<>>
  <2>1. open = Tokens(part)
    <3>1. base \o open = base \o Tokens(part)
      BY <1>5, <1>6, <1>9
    <3>. DEFINE tokens == Tokens(part)
    <3>2. tokens \in Seq(LexTokens) /\ base \o open = base \o tokens
      BY <1>5, <1>9, <3>1
    <3>. HIDE DEF tokens
    <3>3. open = tokens
      BY <1>1, <1>4, <3>2, CancelLeft
    <3>4. QED
      BY <3>3 DEF tokens
  <2>2. WithGroup(Readings(statements), open) = Append(Readings(statements), Tokens(part))
    BY <1>5, <1>9, <2>1 DEF WithGroup
  <2>3. Readings(new) = Append(Readings(statements), Tokens(part))
    BY <1>3, <1>7, <1>9, ReadingsAppend
  <2>4. new \in Seq(Seq(Pieces))
    <3>1. Append(statements, part) \in Seq(Seq(Pieces))
      BY <1>3, AppendProperties
    <3>2. QED
      BY <1>7, <1>9, <3>1
  <2>5. QED
    BY <2>2, <2>3, <2>4 DEF new, seg
<1>10. QED
  BY <1>8, <1>9

\* The script is cut where the groups of its tokens end.
CutAs(split, f, i) ==
    /\ split.start \in 1..(i + 1)
    /\ split.statements \in Seq(Seq(Pieces))
    /\ f[split.start - 1].string = 0 /\ f[split.start - 1].next <= split.start
    /\ \E open \in Seq(LexTokens) :
         /\ GroupState(f[i].tokens) = [done |-> Readings(split.statements), open |-> open]
         /\ f[i].tokens = f[split.start - 1].tokens \o open

\* One piece more of the script.
LEMMA CutStep ==
  ASSUME NEW text \in Seq(Pieces), NEW f, Lexes(text, f), NEW i \in 1..Len(text),
         NEW split, CutAs(split, f, i - 1), ~HasError(f[i].tokens)
  PROVE  CutAs(SplitAt(split, text, i), f, i)
<1>. DEFINE start == split.start
            statements == split.statements
            base == f[start - 1].tokens
<1>1. /\ Len(text) \in Nat /\ i \in Nat /\ i - 1 \in 0..Len(text) /\ (i - 1) + 1 = i
      /\ i \in (i - 1)..Len(text) /\ i \in 0..Len(text)
  BY LenProperties
<1>2. /\ start \in 1..((i - 1) + 1) /\ statements \in Seq(Seq(Pieces))
      /\ f[start - 1].string = 0 /\ f[start - 1].next <= start
  BY DEF CutAs
<1>3. PICK open \in Seq(LexTokens) :
         /\ GroupState(f[i - 1].tokens) = [done |-> Readings(statements), open |-> open]
         /\ f[i - 1].tokens = base \o open
  BY DEF CutAs
<1>. HIDE DEF start, statements
<1>4. /\ start \in 1..(Len(text) + 1) /\ i - 1 \in (start - 1)..Len(text)
      /\ start \in 1..(i + 1) /\ start - 1 \in 0..Len(text)
  BY <1>1, <1>2
<1>5. /\ f[i - 1] \in LexStates(text) /\ f[i] \in LexStates(text)
      /\ f[start - 1] \in LexStates(text) /\ IsRead(f[i - 1], f[i], text, i)
  BY <1>1, <1>4, PieceRule
<1>6. base \in Seq(LexTokens) /\ f[i - 1].tokens \in Seq(LexTokens)
  BY <1>5 DEF LexStates
<1>7. ~HasError(f[i - 1].tokens)
  <2>. DEFINE j == i - 1
  <2>1. j \in 0..Len(text) /\ i \in j..Len(text)
    BY <1>1
  <2>2. Kept(f[j].tokens, f[i].tokens)
    <3>. HIDE DEF j
    <3>1. QED
      BY <2>1, TokensKept
  <2>3. QED
    BY <2>2, ErrorKept
<1>. DEFINE before == f[i - 1].tokens
            after == f[i].tokens
<1>8. \/ after = before /\ i \notin Terminators(text)
      \/ \E token \in LexTokens :
           /\ after = Append(before, token)
           /\ IsSemicolon(token) <=> i \in Terminators(text)
           /\ i \in Terminators(text) =>
                f[i].string = 0 /\ f[i].next = i + 1 /\ f[i - 1].string = 0
  BY <1>5, <1>7 DEF IsRead, Reads
<1>9. /\ before = base \o open /\ before \in Seq(LexTokens)
      /\ GroupState(before) = [done |-> Readings(statements), open |-> open]
  BY <1>3, <1>6
<1>10. ASSUME i \notin Terminators(text), NEW new \in Seq(LexTokens),
              GroupState(after) = [done |-> Readings(statements), open |-> new],
              after = base \o new
       PROVE  CutAs(SplitAt(split, text, i), f, i)
  <2>1. SplitAt(split, text, i) = split
    BY <1>10 DEF SplitAt
  <2>2. \E o \in Seq(LexTokens) :
         /\ GroupState(f[i].tokens) = [done |-> Readings(statements), open |-> o]
         /\ f[i].tokens = f[start - 1].tokens \o o
    BY <1>10
  <2>3. QED
    BY <1>2, <1>4, <2>1, <2>2 DEF CutAs, start, statements
<1>11. CASE after = before /\ i \notin Terminators(text)
  BY <1>9, <1>10, <1>11
<1>12. ASSUME NEW token \in LexTokens, after = Append(before, token), ~IsSemicolon(token),
              i \notin Terminators(text)
       PROVE  CutAs(SplitAt(split, text, i), f, i)
  <2>. HIDE DEF before, after, base
  <2>1. GroupState(after) = Grouped(GroupState(before), token)
    BY <1>9, <1>12, GroupAppend
  <2>2. GroupState(after) = [done |-> Readings(statements), open |-> Append(open, token)]
    BY <1>9, <1>12, <2>1 DEF Grouped
  <2>3. Append(open, token) \in Seq(LexTokens)
    BY <1>12, AppendProperties
  <2>4. after = base \o Append(open, token)
    BY <1>6, <1>9, <1>12, AppendConcat
  <2>5. QED
    BY <1>10, <1>12, <2>2, <2>3, <2>4
<1>13. ASSUME NEW token \in LexTokens, after = Append(before, token), IsSemicolon(token),
              i \in Terminators(text), f[i].string = 0, f[i].next = i + 1,
              f[i - 1].string = 0
       PROVE  CutAs(SplitAt(split, text, i), f, i)
  <2>. DEFINE new == WithStatement(statements, SubSeq(text, start, i - 1))
              next == [statements |-> new, start |-> i + 1]
  <2>1. SplitAt(split, text, i) = next
    BY <1>13 DEF SplitAt, start, statements
  <2>2. PieceAt(text, (i - 1) + 1) \in Harmless
    <3>1. text[i] = Semicolon /\ i \in DOMAIN text
      <4>1. PICK q : Terminators(text) =
                       {j \in DOMAIN text : text[j] = Semicolon /\ q[j] = "out"}
        BY TerminatorsRule
      <4>2. QED
        BY <1>13, <4>1
    <3>2. QED
      BY <1>1, <3>1 DEF PieceAt, Harmless
  <2>3. new \in Seq(Seq(Pieces)) /\ Readings(new) = WithGroup(Readings(statements), open)
    <3>. DEFINE stop == i - 1
    <3>1. IsSegment(text, f, start, stop, open)
      BY <1>2, <1>3, <1>4, <1>7, <1>13, <2>2 DEF IsSegment
    <3>. HIDE DEF stop
    <3>2. /\ WithStatement(statements, SubSeq(text, start, stop)) \in Seq(Seq(Pieces))
          /\ Readings(WithStatement(statements, SubSeq(text, start, stop))) =
               WithGroup(Readings(statements), open)
      BY <1>2, <1>4, <3>1, SegmentGroup
    <3>3. QED
      BY <3>2 DEF stop
  <2>4. GroupState(after) = [done |-> Readings(new), open |-> <<>>]
    <3>. HIDE DEF before, after, new
    <3>1. GroupState(after) = Grouped(GroupState(before), token)
      BY <1>9, <1>13, GroupAppend
    <3>2. QED
      BY <1>9, <1>13, <2>3, <3>1 DEF Grouped
  <2>5. after = after \o <<>> /\ <<>> \in Seq(LexTokens)
    <3>1. after \in Seq(LexTokens)
      BY <1>5 DEF LexStates
    <3>. HIDE DEF after
    <3>2. QED
      BY <3>1, ConcatEmptySeq
  <2>6. (i + 1) - 1 = i /\ i + 1 \in 1..(i + 1) /\ i + 1 <= i + 1
    BY <1>1
  <2>7. next.start = i + 1 /\ next.statements = new
    OBVIOUS
  <2>. HIDE DEF next, new
  <2>8. f[next.start - 1] = f[i]
    BY <2>6, <2>7
  <2>9. f[next.start - 1].string = 0 /\ f[next.start - 1].next <= next.start
    BY <1>13, <2>6, <2>7, <2>8
  <2>10. \E o \in Seq(LexTokens) :
         /\ GroupState(f[i].tokens) = [done |-> Readings(next.statements), open |-> o]
         /\ f[i].tokens = f[next.start - 1].tokens \o o
    BY <2>4, <2>5, <2>7, <2>8
  <2>11. CutAs(next, f, i)
    BY <2>3, <2>6, <2>7, <2>9, <2>10 DEF CutAs
  <2>12. QED
    BY <2>1, <2>11
<1>14. QED
  BY <1>8, <1>11, <1>12, <1>13

\* The statements of a script are the groups of its tokens.
LEMMA ScriptRule ==
  ASSUME NEW text \in Seq(Pieces), ~HasError(Tokens(text))
  PROVE  Readings(SplitScript(text)) = Groups(Tokens(text))
<1>. DEFINE n == Len(text)
<1>1. n \in Nat /\ n \in 0..n /\ DOMAIN text = 1..n
  BY LenProperties
<1>2. PICK f : Lexes(text, f) /\ Tokens(text) = AtEnd(f[n], text)
  BY TokensRule
<1>3. PICK split : /\ Splits(text, split)
                   /\ SplitScript(text) =
                        WithStatement(split[n].statements,
                                      SubSeq(text, split[n].start, n))
  BY SplitRule
<1>. DEFINE end == f[n]
<1>4. end \in LexStates(text) /\ Tokens(text) = AtEnd(end, text)
  BY <1>1, <1>2, PieceRule
<1>5. end.string = 0 /\ Tokens(text) = end.tokens /\ ~HasError(end.tokens)
  <2>. HIDE DEF end
  <2>1. QED
    BY <1>4, AtEndRule
<1>6. \A i \in 0..n : ~HasError(f[i].tokens)
  <2>1. SUFFICES ASSUME NEW i \in 0..n PROVE ~HasError(f[i].tokens)
    OBVIOUS
  <2>2. n \in i..n
    BY <1>1
  <2>3. Kept(f[i].tokens, f[n].tokens)
    BY <1>2, <2>2, TokensKept
  <2>4. QED
    BY <1>5, <2>3, ErrorKept
<1>. DEFINE T == {m \in Nat : m <= n => CutAs(split[m], f, m)}
<1>7. 0 \in T
  <2>1. split[0] = [statements |-> <<>>, start |-> 1]
    BY <1>3 DEF Splits
  <2>2. split[0].statements = <<>> /\ split[0].start = 1
    BY <2>1
  <2>3. f[0] = LexStart
    BY <1>2, PieceRule
  <2>4. f[0].tokens = <<>> /\ f[0].string = 0 /\ f[0].next = 1
    BY <2>3 DEF LexStart
  <2>5. Readings(<<>>) = <<>>
    BY DEF Readings
  <2>6. GroupState(f[0].tokens) = [done |-> Readings(split[0].statements), open |-> <<>>]
    BY <2>2, <2>4, <2>5, NoGroups DEF GroupStart
  <2>7. 1 - 1 = 0 /\ 1 \in 1..(0 + 1) /\ 1 <= 1 /\ <<>> \o <<>> = <<>>
        /\ <<>> \in Seq(LexTokens) /\ <<>> \in Seq(Seq(Pieces))
    BY ConcatEmptySeq
  <2>8. CutAs(split[0], f, 0)
    BY <2>2, <2>4, <2>6, <2>7 DEF CutAs
  <2>9. QED
    BY <2>8
<1>8. ASSUME NEW m \in Nat, m \in T PROVE m + 1 \in T
  <2>1. m + 1 \in Nat /\ m + 1 # 0 /\ (m + 1) - 1 = m
    OBVIOUS
  <2>2. SUFFICES ASSUME m + 1 <= n PROVE CutAs(split[m + 1], f, m + 1)
    BY <2>1
  <2>3. CutAs(split[m], f, m) /\ m + 1 \in 1..n /\ m + 1 \in 0..n
    BY <1>1, <1>8, <2>2
  <2>4. split[m + 1] = SplitAt(split[m], text, m + 1)
    BY <1>3, <2>1 DEF Splits
  <2>. DEFINE i == m + 1
  <2>5. i \in 1..n /\ CutAs(split[m], f, i - 1) /\ ~HasError(f[i].tokens)
    BY <1>6, <2>1, <2>3
  <2>. HIDE DEF i
  <2>6. CutAs(SplitAt(split[m], text, i), f, i)
    BY <1>2, <2>5, CutStep
  <2>7. QED
    BY <2>4, <2>6 DEF i
<1>9. Nat \subseteq T
  <2>. HIDE DEF T
  <2>1. QED
    BY <1>7, <1>8, LexRecursion!Induction
<1>. DEFINE last == split[n]
            start == last.start
<1>10. CutAs(last, f, n)
  BY <1>1, <1>9
<1>. HIDE DEF last
<1>11. PICK open \in Seq(LexTokens) :
         /\ GroupState(f[n].tokens) = [done |-> Readings(last.statements), open |-> open]
         /\ f[n].tokens = f[start - 1].tokens \o open
  BY <1>10 DEF CutAs
<1>12. /\ start \in 1..(n + 1) /\ last.statements \in Seq(Seq(Pieces))
       /\ f[start - 1].string = 0 /\ f[start - 1].next <= start
  BY <1>10 DEF CutAs
<1>13. PieceAt(text, n + 1) \in Harmless
  BY <1>1 DEF PieceAt, Harmless
<1>14. Readings(SplitScript(text)) = WithGroup(Readings(last.statements), open)
  <2>. HIDE DEF start
  <2>1. n \in (start - 1)..n
    BY <1>1, <1>12
  <2>2. Readings(WithStatement(last.statements, SubSeq(text, start, n))) =
          WithGroup(Readings(last.statements), open)
    <3>1. IsSegment(text, f, start, n, open)
      BY <1>1, <1>5, <1>11, <1>12, <1>13, <2>1 DEF IsSegment, start
    <3>2. QED
      BY <1>2, <1>12, <3>1, SegmentGroup
  <2>3. QED
    BY <1>3, <2>2 DEF last, start
<1>15. Groups(Tokens(text)) = WithGroup(Readings(last.statements), open)
  BY <1>5, <1>11 DEF Groups
<1>16. QED
  BY <1>14, <1>15

-----------------------------------------------------------------------------
(* The semicolons that end statements *)

\* Every step keeps the inductive invariant.
LEMMA CutInvStep ==
  ASSUME CutInv, [Next]_vars
  PROVE  CutInv'
<1>1. ReadInv /\ ReadInv'
  BY ReadStep DEF CutInv
<1>2. session' = session /\ Mode' = Mode
  BY DEF Next, vars, Stay, EndInput, Type, RunCommand, Quit, SkipLine, BufferLine,
     RunStatement, ReadLine, EndRepl, ReadStatements, ExecuteNext, FinishStatements, input,
     Mode
<1>3. ASSUME UNCHANGED <<lines, buffer, history>>, StatementTexts' = StatementTexts
      PROVE  CutInv'
  BY <1>1, <1>2, <1>3 DEF CutInv
<1>4. ASSUME UNCHANGED <<lines, buffer, pending, history>> PROVE CutInv'
  BY <1>3, <1>4 DEF StatementTexts
<1>5. CASE \/ UNCHANGED vars \/ Stay \/ EndInput
           \/ \E phrase \in Sessions[session].phrases : Type(phrase)
  BY <1>4, <1>5 DEF vars, Stay, EndInput, Type
<1>6. CASE RunCommand \/ Quit \/ SkipLine
  BY <1>4, <1>6 DEF RunCommand, Quit, SkipLine, ReadLine
<1>7. CASE EndRepl \/ FinishStatements
  BY <1>4, <1>7 DEF EndRepl, FinishStatements, input
<1>8. CASE BufferLine
  <2>1. Mode = "repl" /\ ~IsTerminated(Buffered) /\ buffer' = Buffered /\ history' = history
    BY <1>8 DEF BufferLine, ReadLine
  <2>2. Mode' = "repl" /\ Mode' # "script"
    BY <1>2, <2>1
  <2>3. ~IsTerminated(buffer')
    BY <2>1
  <2>4. QED
    BY <1>1, <2>1, <2>2, <2>3 DEF CutInv
<1>9. CASE RunStatement
  <2>1. Mode = "repl" /\ IsTerminated(Buffered) /\ buffer' = <<>>
    BY <1>9 DEF RunStatement, ReadLine
  <2>2. PICK e : history' = Append(history, e) /\ e.raw = Buffered
    <3>. DEFINE sql == Strip(StripRight(Buffered, {";"}))
    <3>1. PICK r : Record(Buffered, sql, r)
      BY <1>9 DEF RunStatement
    <3>. HIDE DEF sql
    <3>2. QED
      BY <3>1 DEF Record
  <2>3. Buffered \in Seq(Pieces)
    BY <1>1, BufferedKeeps DEF ReadInv
  <2>4. Mode' = "repl" /\ Mode' # "script"
    BY <1>2, <2>1
  <2>5. ~IsTerminated(buffer')
    <3>1. DOMAIN <<>> = {}
      OBVIOUS
    <3>2. QED
      BY <2>1, <3>1, Zenon DEF IsTerminated, Terminators
  <2>6. /\ Len(history) \in Nat /\ DOMAIN history = 1..Len(history)
        /\ DOMAIN history' = 1..(Len(history) + 1) /\ history'[Len(history) + 1] = e
        /\ \A i \in 1..Len(history) : history'[i] = history[i]
    BY <1>1, <2>2, LongerHistory DEF ReadInv
  <2>7. ASSUME NEW i \in DOMAIN history'
        PROVE  history'[i].raw \in Seq(Pieces) /\ IsTerminated(history'[i].raw)
    <3>1. CASE i \in DOMAIN history
      BY <2>1, <2>6, <3>1 DEF CutInv
    <3>2. CASE i = Len(history) + 1
      BY <2>1, <2>2, <2>3, <2>6, <3>2
    <3>3. QED
      BY <2>6, <3>1, <3>2
  <2>8. QED
    BY <1>1, <2>4, <2>5, <2>7 DEF CutInv
<1>10. CASE ReadStatements
  <2>1. /\ Mode # "repl" /\ lines' = typed
        /\ pending' = IF Mode = "script" THEN SplitScript(typed) ELSE <<typed>>
    BY <1>10 DEF ReadStatements
  <2>2. StatementTexts' = pending'
    BY <1>1, <1>10, ReadStatementsReads
  <2>3. Mode = "script" => StatementTexts' = SplitScript(lines')
    BY <2>1, <2>2
  <2>4. QED
    BY <1>1, <1>2, <2>1, <2>3 DEF CutInv
<1>11. CASE ExecuteNext
  <2>1. lines' = lines /\ buffer' = buffer /\ status = "executing" /\ pending # <<>>
    BY <1>11 DEF ExecuteNext
  <2>2. StatementTexts' = StatementTexts
    BY <1>1, <1>11, ExecuteNextReads
  <2>3. Mode # "repl"
    BY <1>1, <2>1 DEF ReadInv
  <2>4. QED
    BY <1>1, <1>2, <2>1, <2>2, <2>3 DEF CutInv
<1>12. QED
  BY <1>5, <1>6, <1>7, <1>8, <1>9, <1>10, <1>11 DEF Next

\* Whatever is typed, the two loops of the command line that look for semicolons find those
\* that the lexer reads as tokens: the statements of a script have the tokens that its text
\* has between semicolons, the statement that the REPL is still reading has no semicolon,
\* and each that it ran has one, or cannot be read.
THEOREM SemicolonsTheorem == Spec => []SemicolonsAreTheLexers
<1>1. Init => CutInv
  <2>1. SUFFICES ASSUME Init PROVE CutInv
    OBVIOUS
  <2>2. ReadInv /\ StatementTexts = <<>>
    BY <2>1, ReadInit
  <2>3. lines = <<>> /\ buffer = <<>> /\ history = <<>>
    BY <2>1 DEF Init
  <2>4. SplitScript(<<>>) = <<>>
    <3>1. PICK f : /\ Splits(<<>>, f)
                   /\ SplitScript(<<>>) = WithStatement(f[Len(<<>>)].statements,
                                    SubSeq(<<>>, f[Len(<<>>)].start, Len(<<>>)))
      BY SplitRule
    <3>2. Len(<<>>) = 0
      OBVIOUS
    <3>3. f[0] = [statements |-> <<>>, start |-> 1]
      BY <3>1 DEF Splits
    <3>4. f[0].statements = <<>> /\ f[0].start = 1
      BY <3>3
    <3>5. SubSeq(<<>>, 1, 0) = <<>>
      BY SubSeqEmpty
    <3>6. SplitScript(<<>>) = WithStatement(<<>>, <<>>)
      BY <3>1, <3>2, <3>4, <3>5
    <3>7. Strip(<<>>) = <<>>
      <4>1. <<>> \in Seq(Pieces) /\ Len(<<>>) = 0
        OBVIOUS
      <4>2. Squeezed(Strip(<<>>)) = Squeezed(<<>>) /\ Strip(<<>>) \in Seq(Pieces)
        BY <4>1, StripKeeps
      <4>3. PICK x \in 1..(Len(<<>>) + 1) :
              \E y \in (x - 1)..Len(<<>>) : IsStripped(<<>>, x, y)
        BY <4>1, StripIs
      <4>4. PICK y \in (x - 1)..Len(<<>>) : IsStripped(<<>>, x, y)
        BY <4>3
      <4>5. Strip(<<>>) = SubSeq(<<>>, x, y)
        BY <4>4 DEF IsStripped
      <4>6. x \in Int /\ y \in Int /\ y < x
        BY <4>1
      <4>7. QED
        BY <4>5, <4>6, SubSeqEmpty
    <3>8. QED
      BY <3>6, <3>7 DEF WithStatement
  <2>5. ~IsTerminated(<<>>)
    <3>1. DOMAIN <<>> = {}
      OBVIOUS
    <3>2. QED
      BY <3>1, Zenon DEF IsTerminated, Terminators
  <2>6. DOMAIN history = {}
    BY <2>3, EmptyHistory
  <2>7. QED
    BY <2>2, <2>3, <2>4, <2>5, <2>6 DEF CutInv
<1>2. CutInv => SemicolonsAreTheLexers
  <2>1. SUFFICES ASSUME CutInv PROVE SemicolonsAreTheLexers
    OBVIOUS
  <2>2. lines \in Seq(Pieces) /\ buffer \in Seq(Pieces)
    BY <2>1 DEF CutInv, ReadInv
  <2>3. Mode = "script" /\ ~HasError(Tokens(lines)) =>
            [i \in DOMAIN StatementTexts |-> Tokens(StatementTexts[i])] = Groups(Tokens(lines))
    <3>1. SUFFICES ASSUME Mode = "script", ~HasError(Tokens(lines))
                   PROVE  Readings(StatementTexts) = Groups(Tokens(lines))
      BY DEF Readings
    <3>2. StatementTexts = SplitScript(lines)
      BY <2>1, <3>1 DEF CutInv
    <3>3. QED
      BY <2>2, <3>1, <3>2, ScriptRule
  <2>4. Mode = "repl" => \A i \in DOMAIN Tokens(buffer) : ~IsSemicolon(Tokens(buffer)[i])
    BY <2>1, <2>2, NoSemicolon DEF CutInv
  <2>5. Mode = "repl" => \A i \in DOMAIN history :
            \E k \in DOMAIN Tokens(history[i].raw) :
               Tokens(history[i].raw)[k].class \in {"SEMICOLON", "ERROR"}
    BY <2>1, SomeSemicolon DEF CutInv
  <2>6. QED
    BY <2>3, <2>4, <2>5 DEF SemicolonsAreTheLexers
<1>3. QED
  BY <1>1, <1>2, CutInvStep, PTL DEF Spec
=============================================================================
