------------------------------ MODULE Migrate ------------------------------
(***************************************************************************)
(* Open (internal/db): what happens to the schema when the server and      *)
(* setpassword start, stop and crash.  A migration file is executed        *)
(* statement by statement, each committed by itself, and recorded in       *)
(* schema_migrations by one more statement.                                *)
(***************************************************************************)
EXTENDS Naturals, FiniteSets, SequencesExt

CONSTANTS
  Processes,       \* the programs that open the database
  Files,           \* the migrations in lexicographic order, none twice
  StatementsOf,    \* the statements of a file
  Once,            \* the statements that fail when they are in effect already
  MaxStops         \* bound: how often processes stop or die

Statements == UNION {ToSet(StatementsOf[f]) : f \in ToSet(Files)}

\* The script all the files make together: its k-th statement of the i-th file
\* stands at <<i, k>>.
Positions == UNION {{i} \X DOMAIN StatementsOf[Files[i]] : i \in DOMAIN Files}
StatementAt(at) == StatementsOf[Files[at[1]]][at[2]]
Before(at, to) == at[1] < to[1] \/ (at[1] = to[1] /\ at[2] < to[2])

ASSUME MigrateAssumption ==
  /\ Files \in Seq(ToSet(Files))
  /\ Files # <<>> /\ IsInjective(Files)      \* no .sql file: Open returns an error
  /\ DOMAIN StatementsOf = ToSet(Files)
  /\ \A f \in ToSet(Files) :
       StatementsOf[f] # <<>> /\ StatementsOf[f] \in Seq(ToSet(StatementsOf[f]))
  /\ \A a, b \in Positions : StatementAt(a) = StatementAt(b) => a = b
  /\ Once \subseteq Statements
  /\ MaxStops \in Nat

VARIABLES
  schema,          \* the statements in effect
  recorded,        \* schema_migrations
  proc,            \* where each process is: its file and statement
  stops            \* how often a process has stopped

vars == <<schema, recorded, proc, stops>>

Down == [pc |-> "down"]
Up == [pc |-> "open"]
Opening == [pc : {"check", "exec", "record"}, file : DOMAIN Files, next : Nat \ {0}]

TypeOK ==
  /\ schema \subseteq Statements /\ recorded \subseteq ToSet(Files)
  /\ proc \in [Processes -> {Down, Up} \cup Opening]
  /\ stops \in 0 .. MaxStops
  /\ \A p \in Processes : proc[p].pc = "exec"
       => proc[p].next \in DOMAIN StatementsOf[Files[proc[p].file]]

At(p, pc) == proc[p].pc = pc
File(p) == Files[proc[p].file]
Statement(p) == StatementsOf[File(p)][proc[p].next]
Goto(p, to) == proc' = [proc EXCEPT ![p] = to]
Checking(i) == [pc |-> "check", file |-> i, next |-> 1]

-----------------------------------------------------------------------------
Start(p) ==
  /\ At(p, "down")
  /\ Goto(p, Checking(1))
  /\ UNCHANGED <<schema, recorded, stops>>

\* This file is done with: on to the next one, and at the end Open returns.
NextFile(p) ==
  Goto(p, IF proc[p].file = Len(Files) THEN Up ELSE Checking(proc[p].file + 1))

\* MUTANT: the first file recorded stands for all of them.
CheckOnce(p) ==
  /\ At(p, "check")
  /\ IF recorded # {}
     THEN NextFile(p)
     ELSE Goto(p, [proc[p] EXCEPT !.pc = "exec"])
  /\ UNCHANGED <<schema, recorded, stops>>

\* MUTANT: a file is recorded before it is executed.
CheckRecords(p) ==
  /\ At(p, "check")
  /\ IF File(p) \in recorded
     THEN NextFile(p)
     ELSE Goto(p, [proc[p] EXCEPT !.pc = "exec"])
  /\ recorded' = recorded \cup {File(p)}
  /\ UNCHANGED <<schema, stops>>

Check(p) ==
  /\ At(p, "check")
  /\ IF File(p) \in recorded
     THEN NextFile(p)
     ELSE Goto(p, [proc[p] EXCEPT !.pc = "exec"])
  /\ UNCHANGED <<schema, recorded, stops>>

\* Open fails, and the program exits.
OpenFails(p) == Goto(p, Down)

\* MUTANT: no file says IF NOT EXISTS.
ExecAllOnce(p) ==
  /\ At(p, "exec")
  /\ schema' = schema \cup {Statement(p)}
  /\ IF Statement(p) \in schema
     THEN OpenFails(p)
     ELSE Goto(p, [proc[p] EXCEPT !.pc = IF proc[p].next = Len(StatementsOf[File(p)])
                                         THEN "record" ELSE "exec",
                                  !.next = @ + 1])
  /\ UNCHANGED <<recorded, stops>>

Exec(p) ==
  /\ At(p, "exec")
  /\ schema' = schema \cup {Statement(p)}
  /\ IF Statement(p) \in schema \cap Once
     THEN OpenFails(p)
     ELSE Goto(p, [proc[p] EXCEPT !.pc = IF proc[p].next = Len(StatementsOf[File(p)])
                                         THEN "record" ELSE "exec",
                                  !.next = @ + 1])
  /\ UNCHANGED <<recorded, stops>>

\* The name is the primary key: another process may have recorded it.
Record(p) ==
  /\ At(p, "record")
  /\ IF File(p) \in recorded THEN OpenFails(p) ELSE NextFile(p)
  /\ recorded' = recorded \cup {File(p)}
  /\ UNCHANGED <<schema, stops>>

\* The process ends or dies, or a query fails: the database is locked by the
\* other process, the disk is full.
Stop(p) ==
  /\ ~At(p, "down")
  /\ stops < MaxStops
  /\ stops' = stops + 1
  /\ Goto(p, Down)
  /\ UNCHANGED <<schema, recorded>>

-----------------------------------------------------------------------------
Init ==
  /\ schema = {}
  /\ recorded = {}
  /\ proc = [p \in Processes |-> Down]
  /\ stops = 0

OpenStep(p) == Check(p) \/ Exec(p) \/ Record(p)

Next == \E p \in Processes : Start(p) \/ OpenStep(p) \/ Stop(p)

Spec == Init /\ [][Next]_vars

\* Open runs on, and a program that is down is started again.
FairSpec == Spec /\ \A p \in Processes : WF_vars(OpenStep(p)) /\ WF_vars(Start(p))

-----------------------------------------------------------------------------
\* A file is recorded only when all of it is in effect, wherever processes died
\* (applyMigrations), so that a file that is skipped is not missed.
RecordedMeansApplied ==
  \A f \in recorded : ToSet(StatementsOf[f]) \subseteq schema

\* "Open ... applies *.sql files from migrationsDir" (db.go): when Open returns, the
\* whole schema is in effect, whoever executed it.
OpenMeansMigrated == \A p \in Processes : At(p, "open") => schema = Statements

\* "in lexicographic order" (db.go): no statement is in effect before all that
\* come before it, also when two processes execute the files together.
InOrder ==
  \A a, b \in Positions :
    Before(a, b) /\ StatementAt(b) \in schema => StatementAt(a) \in schema

\* What holds of the database and the processes at every moment, whoever crashed:
\* the two together say how far a half migrated database can be out of step
\* with its records (applyMigrations).
MigrateInv == TypeOK /\ RecordedMeansApplied /\ InOrder

\* A file died between a statement that cannot be repeated and its record.
Torn(f) == f \notin recorded /\ Once \cap ToSet(StatementsOf[f]) \cap schema # {}

\* Opening again works (db_more_test.go, "Re-open same file: CREATE IF NOT EXISTS
\* must succeed"): once the processes stop dying, every one that is started has
\* the database open sooner or later.
EventuallyOpen == <>[](\A p \in Processes : At(p, "open"))

\* So it does, whatever the processes do to each other, unless a file is torn.
OpensUnlessTorn ==
  <>[](\A p \in Processes : At(p, "open")) \/ <>[](\E f \in ToSet(Files) : Torn(f))
=============================================================================
