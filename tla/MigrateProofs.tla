---------------------------- MODULE MigrateProofs ----------------------------
(***************************************************************************)
(* Safety of the migrations for any number of processes, files and         *)
(* statements, wherever the processes die.  MigrateInv is not inductive:   *)
(* it does not say what a process that is opening the database has behind  *)
(* it.  The inductive invariant adds that everything before the statement  *)
(* a process is at is in effect, whichever process executed it.            *)
(***************************************************************************)
EXTENDS Migrate, TLAPS

IsOpening(p) == ~At(p, "down") /\ ~At(p, "open")

\* Where a file starts and ends.
PlaceSound ==
  \A p \in Processes :
    /\ At(p, "check") => proc[p].next = 1
    /\ At(p, "record") => proc[p].next = Len(StatementsOf[File(p)]) + 1

\* All before a position is in effect.
AppliedBefore(S, to) == \A a \in Positions : Before(a, to) => StatementAt(a) \in S

BehindIsApplied ==
  \A p \in Processes :
    IsOpening(p) => AppliedBefore(schema, <<proc[p].file, proc[p].next>>)

IInv == MigrateInv /\ OpenMeansMigrated /\ PlaceSound /\ BehindIsApplied

-----------------------------------------------------------------------------
(* Lemmas about the files and the states of a process. *)

LEMMA FileTypes ==
  /\ Len(Files) \in Nat \ {0} /\ DOMAIN Files = 1 .. Len(Files)
  /\ \A i \in DOMAIN Files :
       /\ Files[i] \in ToSet(Files)
       /\ Len(StatementsOf[Files[i]]) \in Nat \ {0}
       /\ DOMAIN StatementsOf[Files[i]] = 1 .. Len(StatementsOf[Files[i]])
  /\ \A f \in ToSet(Files) : \E i \in DOMAIN Files : f = Files[i]
<1>1. Len(Files) \in Nat \ {0} /\ DOMAIN Files = 1 .. Len(Files)
  BY MigrateAssumption
<1>2. \A i \in DOMAIN Files : Files[i] \in ToSet(Files)
  BY DEF ToSet
<1>3. ASSUME NEW f \in ToSet(Files)
      PROVE  /\ Len(StatementsOf[f]) \in Nat \ {0}
             /\ DOMAIN StatementsOf[f] = 1 .. Len(StatementsOf[f])
  BY MigrateAssumption
<1> QED BY <1>1, <1>2, <1>3 DEF ToSet

LEMMA PositionIs ==
  ASSUME NEW a
  PROVE  a \in Positions <=> \E i \in DOMAIN Files : \E k \in DOMAIN StatementsOf[Files[i]] :
                               a = <<i, k>>
BY DEF Positions

\* The statements are those that stand at the positions.
LEMMA StatementsStand ==
  /\ \A a \in Positions : StatementAt(a) \in Statements
  /\ \A s \in Statements : \E a \in Positions : s = StatementAt(a)
  /\ \A f \in ToSet(Files) : ToSet(StatementsOf[f]) \subseteq Statements
<1>1. ASSUME NEW a \in Positions
      PROVE  StatementAt(a) \in Statements
  <2>1a. PICK i \in DOMAIN Files : \E k \in DOMAIN StatementsOf[Files[i]] : a = <<i, k>>
    BY PositionIs
  <2>1. PICK k \in DOMAIN StatementsOf[Files[i]] : a = <<i, k>>
    BY <2>1a
  <2>2. StatementAt(a) \in ToSet(StatementsOf[Files[i]])
    BY <2>1 DEF StatementAt, ToSet
  <2> QED BY <2>2, FileTypes DEF Statements
<1>2. ASSUME NEW s \in Statements
      PROVE  \E a \in Positions : s = StatementAt(a)
  <2>1. PICK f \in ToSet(Files) : s \in ToSet(StatementsOf[f])
    BY DEF Statements
  <2>2. PICK i \in DOMAIN Files : f = Files[i]
    BY FileTypes
  <2>3. PICK k \in DOMAIN StatementsOf[Files[i]] : s = StatementsOf[Files[i]][k]
    BY <2>1, <2>2 DEF ToSet
  <2>4. <<i, k>> \in Positions
    BY PositionIs
  <2>5. s = StatementAt(<<i, k>>)
    BY <2>3 DEF StatementAt
  <2> QED BY <2>4, <2>5
<1> QED BY <1>1, <1>2 DEF Statements

LEMMA ProcKinds ==
  ASSUME NEW r \in {Down, Up} \cup Opening
  PROVE  /\ r.pc \in {"down", "open", "check", "exec", "record"}
         /\ r.pc = "down" <=> r = Down
         /\ r.pc = "open" <=> r = Up
         /\ r.pc \in {"check", "exec", "record"}
              => r \in Opening /\ r.file \in DOMAIN Files /\ r.next \in Nat \ {0}
BY DEF Down, Up, Opening

\* q is the process r one statement on.
GoesOn(q, r, pc) ==
  q \in Opening /\ q.pc = pc /\ q.file = r.file /\ q.next = r.next + 1

LEMMA OpeningGoesOn ==
  ASSUME NEW r \in Opening, NEW pc \in {"check", "exec", "record"}
  PROVE  /\ [r EXCEPT !.pc = pc] \in Opening
         /\ GoesOn([r EXCEPT !.pc = pc, !.next = @ + 1], r, pc)
<1>1. r.next + 1 \in Nat \ {0}
  BY DEF Opening
<1>2. [r EXCEPT !.pc = pc] \in Opening
  BY DEF Opening
<1>3. GoesOn([r EXCEPT !.pc = pc, !.next = @ + 1], r, pc)
  BY <1>1 DEF Opening, GoesOn
<1> QED BY <1>2, <1>3

LEMMA CheckingIs ==
  ASSUME NEW i \in DOMAIN Files
  PROVE  /\ Checking(i) \in Opening /\ Checking(i).pc = "check"
         /\ Checking(i).file = i /\ Checking(i).next = 1
BY DEF Checking, Opening

\* With a file whole and all before it, everything up to the next file is in
\* effect, and after the last one everything is.
LEMMA FileDone ==
  ASSUME NEW S, NEW i \in DOMAIN Files,
         AppliedBefore(S, <<i, 1>>), ToSet(StatementsOf[Files[i]]) \subseteq S
  PROVE  /\ AppliedBefore(S, <<i + 1, 1>>)
         /\ i = Len(Files) => Statements \subseteq S
<1>1. ASSUME NEW j \in DOMAIN Files, NEW k \in DOMAIN StatementsOf[Files[j]], j <= i
      PROVE  StatementAt(<<j, k>>) \in S
  <2>1. CASE j < i
    BY <2>1, PositionIs DEF AppliedBefore, Before
  <2>2. CASE j = i
    BY <2>2 DEF StatementAt, ToSet
  <2> QED BY <1>1, <2>1, <2>2, FileTypes
<1>2. AppliedBefore(S, <<i + 1, 1>>)
  <2> SUFFICES ASSUME NEW a \in Positions, Before(a, <<i + 1, 1>>)
               PROVE  StatementAt(a) \in S
    BY DEF AppliedBefore
  <2>1a. PICK j \in DOMAIN Files : \E k \in DOMAIN StatementsOf[Files[j]] : a = <<j, k>>
    BY PositionIs
  <2>1. PICK k \in DOMAIN StatementsOf[Files[j]] : a = <<j, k>>
    BY <2>1a
  <2>2. j <= i
    BY <2>1, FileTypes DEF Before
  <2> QED BY <2>1, <2>2, <1>1
<1>3. ASSUME i = Len(Files), NEW s \in Statements
      PROVE  s \in S
  <2>1. PICK a \in Positions : s = StatementAt(a)
    BY StatementsStand
  <2>2a. PICK j \in DOMAIN Files : \E k \in DOMAIN StatementsOf[Files[j]] : a = <<j, k>>
    BY PositionIs
  <2>2. PICK k \in DOMAIN StatementsOf[Files[j]] : a = <<j, k>>
    BY <2>2a
  <2>3. j <= i
    BY <1>3, FileTypes
  <2> QED BY <2>1, <2>2, <2>3, <1>1
<1> QED BY <1>2, <1>3

\* A file is whole when all before the place after its last statement is.
LEMMA WholeFile ==
  ASSUME NEW S, NEW i \in DOMAIN Files,
         AppliedBefore(S, <<i, Len(StatementsOf[Files[i]]) + 1>>)
  PROVE  /\ ToSet(StatementsOf[Files[i]]) \subseteq S
         /\ AppliedBefore(S, <<i, 1>>)
<1>1. ASSUME NEW k \in DOMAIN StatementsOf[Files[i]]
      PROVE  StatementsOf[Files[i]][k] \in S
  <2>1. <<i, k>> \in Positions
    BY PositionIs
  <2>2. Before(<<i, k>>, <<i, Len(StatementsOf[Files[i]]) + 1>>)
    BY FileTypes DEF Before
  <2> QED BY <2>1, <2>2 DEF AppliedBefore, StatementAt
<1>2. ASSUME NEW a \in Positions, Before(a, <<i, 1>>)
      PROVE  Before(a, <<i, Len(StatementsOf[Files[i]]) + 1>>)
  <2>1a. PICK j \in DOMAIN Files : \E k \in DOMAIN StatementsOf[Files[j]] : a = <<j, k>>
    BY PositionIs
  <2>1. PICK k \in DOMAIN StatementsOf[Files[j]] : a = <<j, k>>
    BY <2>1a
  <2> QED BY <1>2, <2>1, FileTypes DEF Before
<1> QED BY <1>1, <1>2 DEF AppliedBefore, ToSet

\* One statement more.
LEMMA OneMore ==
  ASSUME NEW S, NEW i \in DOMAIN Files, NEW k \in DOMAIN StatementsOf[Files[i]],
         AppliedBefore(S, <<i, k>>)
  PROVE  AppliedBefore(S \cup {StatementsOf[Files[i]][k]}, <<i, k + 1>>)
<1> SUFFICES ASSUME NEW a \in Positions, Before(a, <<i, k + 1>>)
             PROVE  StatementAt(a) \in S \cup {StatementsOf[Files[i]][k]}
  BY DEF AppliedBefore
<1>1a. PICK j \in DOMAIN Files : \E l \in DOMAIN StatementsOf[Files[j]] : a = <<j, l>>
  BY PositionIs
<1>1. PICK l \in DOMAIN StatementsOf[Files[j]] : a = <<j, l>>
  BY <1>1a
<1>2. CASE j = i /\ l = k
  BY <1>1, <1>2 DEF StatementAt
<1>3. CASE ~(j = i /\ l = k)
  <2>1. Before(a, <<i, k>>)
    BY <1>1, <1>3, FileTypes DEF Before
  <2> QED BY <2>1 DEF AppliedBefore
<1> QED BY <1>2, <1>3

-----------------------------------------------------------------------------
(* The inductive invariant. *)

LEMMA InitIInv == Init => IInv
<1> SUFFICES ASSUME Init
             PROVE  IInv
  OBVIOUS
<1>1. \A p \in Processes : proc[p] = Down /\ Down.pc = "down"
  BY DEF Init, Down
<1>2. TypeOK
  BY <1>1, MigrateAssumption DEF Init, TypeOK
<1>3. RecordedMeansApplied /\ InOrder
  BY DEF Init, RecordedMeansApplied, InOrder
<1>4. OpenMeansMigrated /\ PlaceSound /\ BehindIsApplied
  BY <1>1 DEF OpenMeansMigrated, PlaceSound, BehindIsApplied, IsOpening, At
<1> QED BY <1>2, <1>3, <1>4 DEF IInv, MigrateInv

\* What a process brings to its place, when it alone moves and nothing is lost.
Fits(r, S) ==
  /\ r.pc = "open" => S = Statements
  /\ r.pc = "check" => r.next = 1
  /\ r.pc = "exec" => r.next \in DOMAIN StatementsOf[Files[r.file]]
  /\ r.pc = "record" => r.next = Len(StatementsOf[Files[r.file]]) + 1
  /\ r.pc \in {"check", "exec", "record"} => AppliedBefore(S, <<r.file, r.next>>)

LEMMA Moves ==
  ASSUME IInv, NEW p \in Processes, NEW r \in {Down, Up} \cup Opening, Goto(p, r),
         schema \subseteq schema', schema' \subseteq Statements, Fits(r, schema'),
         stops' \in 0 .. MaxStops, recorded' \subseteq ToSet(Files),
         RecordedMeansApplied', InOrder'
  PROVE  IInv'
<1> USE DEF IInv, MigrateInv, TypeOK
<1>1. proc' = [proc EXCEPT ![p] = r] /\ proc \in [Processes -> {Down, Up} \cup Opening]
  BY DEF Goto
<1>2. \A q \in Processes : proc'[q] = IF q = p THEN r ELSE proc[q]
  BY <1>1
<1>3. \A q \in Processes : Fits(proc[q], schema)
  BY ProcKinds DEF Fits, OpenMeansMigrated, PlaceSound, BehindIsApplied, IsOpening, At, File
<1>4. ASSUME NEW q \in Processes
      PROVE  Fits(proc'[q], schema')
  <2>1. CASE q = p
    BY <2>1, <1>2
  <2>2. CASE q # p
    <3>1. proc'[q] = proc[q] /\ Fits(proc[q], schema)
      BY <2>2, <1>2, <1>3
    <3> QED BY <3>1 DEF Fits, AppliedBefore
  <2> QED BY <2>1, <2>2
<1>5. proc' \in [Processes -> {Down, Up} \cup Opening]
  BY <1>1
<1>6. TypeOK'
  BY <1>4, <1>5 DEF Fits, At
<1>7. OpenMeansMigrated' /\ PlaceSound'
  BY <1>4 DEF Fits, OpenMeansMigrated, PlaceSound, At, File
<1>8. BehindIsApplied'
  BY <1>4, <1>5, ProcKinds DEF Fits, BehindIsApplied, IsOpening, At
<1> QED BY <1>6, <1>7, <1>8

\* On to the next file, once this one is done with.
LEMMA NextFileFits ==
  ASSUME IInv, NEW p \in Processes, IsOpening(p),
         NextFile(p), ToSet(StatementsOf[File(p)]) \subseteq schema,
         AppliedBefore(schema, <<proc[p].file, 1>>)
  PROVE  \E r \in {Down, Up} \cup Opening : Goto(p, r) /\ Fits(r, schema)
<1>1. proc[p].file \in DOMAIN Files /\ schema \subseteq Statements
  BY ProcKinds DEF IInv, MigrateInv, TypeOK, IsOpening, At
<1>2. PICK i \in DOMAIN Files : i = proc[p].file
  BY <1>1
<1>3. AppliedBefore(schema, <<i + 1, 1>>) /\ (i = Len(Files) => schema = Statements)
  BY <1>1, <1>2, FileDone DEF File
<1>4. CASE i = Len(Files)
  <2>1. Goto(p, Up) /\ Up.pc = "open"
    BY <1>4, <1>2 DEF NextFile, Up
  <2>2. Fits(Up, schema)
    BY <2>1, <1>3, <1>4 DEF Fits
  <2> QED BY <2>1, <2>2
<1>5. CASE i # Len(Files)
  <2>1. i + 1 \in DOMAIN Files
    BY <1>5, FileTypes
  <2>2. Goto(p, Checking(i + 1))
    BY <1>5, <1>2 DEF NextFile
  <2>3. Fits(Checking(i + 1), schema)
    BY <2>1, <1>3, CheckingIs DEF Fits
  <2> QED BY <2>1, <2>2, <2>3, CheckingIs
<1> QED BY <1>4, <1>5

LEMMA DownFits == Down.pc = "down" /\ \A S : Fits(Down, S)
BY DEF Down, Fits

LEMMA StartKeeps ==
  ASSUME IInv, NEW p \in Processes, Start(p)
  PROVE  IInv'
<1>1. 1 \in DOMAIN Files
  BY FileTypes
<1>2. AppliedBefore(schema, <<1, 1>>)
  BY PositionIs, FileTypes DEF AppliedBefore, Before
<1>3. Fits(Checking(1), schema)
  BY <1>1, <1>2, CheckingIs DEF Fits
<1> QED BY <1>1, <1>3, CheckingIs, Moves
        DEF Start, IInv, MigrateInv, TypeOK, RecordedMeansApplied, InOrder

LEMMA CheckKeeps ==
  ASSUME IInv, NEW p \in Processes, Check(p)
  PROVE  IInv'
<1> USE DEF IInv, MigrateInv, TypeOK
<1>1. At(p, "check") /\ proc[p].next = 1 /\ IsOpening(p)
  BY DEF Check, PlaceSound, IsOpening, At
<1>2. /\ proc[p] \in Opening /\ proc[p].file \in DOMAIN Files
      /\ AppliedBefore(schema, <<proc[p].file, 1>>)
  BY <1>1, ProcKinds DEF BehindIsApplied, At
<1>3. \E r \in {Down, Up} \cup Opening : Goto(p, r) /\ Fits(r, schema)
  <2>1. CASE File(p) \in recorded
    BY <2>1, <1>1, <1>2, NextFileFits DEF Check, RecordedMeansApplied
  <2>2. CASE File(p) \notin recorded
    <3> DEFINE r == [proc[p] EXCEPT !.pc = "exec"]
    <3>1. /\ r \in Opening /\ r.pc = "exec"
          /\ r.file = proc[p].file /\ r.next = 1
      BY <1>1, <1>2, OpeningGoesOn DEF Opening, At
    <3>2. Goto(p, r)
      BY <2>2 DEF Check
    <3> HIDE DEF r
    <3>3. Fits(r, schema)
      BY <3>1, <1>2, FileTypes DEF Fits
    <3> QED BY <3>1, <3>2, <3>3
  <2> QED BY <2>1, <2>2
<1> QED BY <1>3, Moves DEF Check, RecordedMeansApplied, InOrder

LEMMA ExecKeeps ==
  ASSUME IInv, NEW p \in Processes, Exec(p)
  PROVE  IInv'
<1> USE DEF IInv, MigrateInv, TypeOK
<1>1. At(p, "exec") /\ IsOpening(p)
  BY DEF Exec, IsOpening, At
<1>2. /\ proc[p] \in Opening /\ proc[p].file \in DOMAIN Files
      /\ proc[p].next \in DOMAIN StatementsOf[File(p)]
  BY <1>1, ProcKinds DEF At, File
<1>3. PICK i \in DOMAIN Files : i = proc[p].file
  BY <1>2
<1>4. PICK k \in DOMAIN StatementsOf[Files[i]] : k = proc[p].next
  BY <1>2, <1>3 DEF File
<1>5. AppliedBefore(schema, <<i, k>>)
  BY <1>1, <1>3, <1>4 DEF BehindIsApplied
<1>6. <<i, k>> \in Positions /\ StatementAt(<<i, k>>) = StatementsOf[Files[i]][k]
  BY PositionIs DEF StatementAt
<1>7. schema' = schema \cup {StatementsOf[Files[i]][k]} /\ schema' \subseteq Statements
  BY <1>3, <1>4, <1>6, StatementsStand DEF Exec, Statement, File
<1>8. InOrder'
  <2> SUFFICES ASSUME NEW a \in Positions, NEW b \in Positions,
                      Before(a, b), StatementAt(b) \in schema'
               PROVE  StatementAt(a) \in schema'
    BY DEF InOrder
  <2>1. CASE StatementAt(b) \in schema
    BY <2>1, <1>7 DEF InOrder
  <2>2. CASE StatementAt(b) = StatementsOf[Files[i]][k]
    <3>1. b = <<i, k>>
      BY <2>2, <1>6, MigrateAssumption
    <3> QED BY <3>1, <1>5, <1>7 DEF AppliedBefore
  <2> QED BY <2>1, <2>2, <1>7
<1>9. \E r \in {Down, Up} \cup Opening : Goto(p, r) /\ Fits(r, schema')
  <2>1. CASE Statement(p) \in schema \cap Once
    BY <2>1, DownFits DEF Exec, OpenFails
  <2>2. CASE Statement(p) \notin schema \cap Once
    <3>0. PICK pc \in {"check", "exec", "record"} :
            pc = IF k = Len(StatementsOf[Files[i]]) THEN "record" ELSE "exec"
      BY ONLY TRUE
    <3> DEFINE r == [proc[p] EXCEPT !.pc = pc, !.next = @ + 1]
    <3>1. /\ r \in Opening /\ r.pc = pc /\ r.file = i /\ r.next = k + 1
      <4>1. GoesOn(r, proc[p], pc)
        BY <1>2, OpeningGoesOn
      <4> HIDE DEF r
      <4>2. r \in Opening /\ r.pc = pc /\ r.file = proc[p].file /\ r.next = proc[p].next + 1
        BY ONLY <4>1 DEF GoesOn
      <4>3. k + 1 = proc[p].next + 1
        BY ONLY <1>4
      <4> QED BY ONLY <4>2, <4>3, <1>3, Zenon
    <3>2. Goto(p, r)
      BY <2>2, <3>0, <1>3, <1>4 DEF Exec, File
    <3>3. AppliedBefore(schema', <<i, k + 1>>)
      BY <1>5, <1>7, OneMore
    <3>4. Len(StatementsOf[Files[i]]) \in Nat /\ k \in 1 .. Len(StatementsOf[Files[i]])
          /\ DOMAIN StatementsOf[Files[i]] = 1 .. Len(StatementsOf[Files[i]])
      BY FileTypes
    <3> HIDE DEF r
    <3>5. Fits(r, schema')
      BY <3>0, <3>1, <3>3, <3>4 DEF Fits
    <3> QED BY <3>1, <3>2, <3>5
  <2> QED BY <2>1, <2>2
<1>10. RecordedMeansApplied' /\ recorded' \subseteq ToSet(Files) /\ stops' \in 0 .. MaxStops
  BY <1>7 DEF Exec, RecordedMeansApplied
<1> QED BY <1>7, <1>8, <1>9, <1>10, Moves

LEMMA RecordKeeps ==
  ASSUME IInv, NEW p \in Processes, Record(p)
  PROVE  IInv'
<1> USE DEF IInv, MigrateInv, TypeOK
<1>1. At(p, "record") /\ IsOpening(p)
  BY DEF Record, IsOpening, At
<1>2. /\ proc[p].file \in DOMAIN Files
      /\ proc[p].next = Len(StatementsOf[File(p)]) + 1
      /\ AppliedBefore(schema, <<proc[p].file, proc[p].next>>)
  BY <1>1, ProcKinds DEF BehindIsApplied, PlaceSound, At
<1>3. PICK i \in DOMAIN Files : i = proc[p].file
  BY <1>2
<1>4. /\ ToSet(StatementsOf[File(p)]) \subseteq schema
      /\ AppliedBefore(schema, <<proc[p].file, 1>>)
  BY <1>2, <1>3, WholeFile DEF File
<1>5. \E r \in {Down, Up} \cup Opening : Goto(p, r) /\ Fits(r, schema)
  <2>1. CASE File(p) \in recorded
    BY <2>1, DownFits DEF Record, OpenFails
  <2>2. CASE File(p) \notin recorded
    BY <2>2, <1>1, <1>4, NextFileFits DEF Record
  <2> QED BY <2>1, <2>2
<1>6. recorded' = recorded \cup {File(p)} /\ schema' = schema /\ stops' = stops
  BY DEF Record
<1>7. File(p) \in ToSet(Files)
  BY <1>2, FileTypes DEF File
<1>8. RecordedMeansApplied'
  BY <1>4, <1>6 DEF RecordedMeansApplied
<1>9. InOrder'
  BY <1>6 DEF InOrder
<1> QED BY <1>5, <1>6, <1>7, <1>8, <1>9, Moves

LEMMA StopKeeps ==
  ASSUME IInv, NEW p \in Processes, Stop(p)
  PROVE  IInv'
<1>1. stops' \in 0 .. MaxStops
  BY MigrateAssumption DEF Stop, IInv, MigrateInv, TypeOK
<1> QED BY <1>1, DownFits, Moves
        DEF Stop, IInv, MigrateInv, TypeOK, RecordedMeansApplied, InOrder

LEMMA StepIInv == IInv /\ [Next]_vars => IInv'
<1> SUFFICES ASSUME IInv, [Next]_vars
             PROVE  IInv'
  OBVIOUS
<1>1. CASE UNCHANGED vars
  <2>1. schema' = schema /\ recorded' = recorded /\ proc' = proc /\ stops' = stops
    BY <1>1 DEF vars
  <2> QED BY <2>1
          DEF IInv, MigrateInv, TypeOK, RecordedMeansApplied, InOrder, OpenMeansMigrated,
              PlaceSound, BehindIsApplied, IsOpening, At, File
<1>2. ASSUME NEW p \in Processes, Start(p)
      PROVE  IInv'
  BY <1>2, StartKeeps
<1>3. ASSUME NEW p \in Processes, OpenStep(p)
      PROVE  IInv'
  BY <1>3, CheckKeeps, ExecKeeps, RecordKeeps DEF OpenStep
<1>4. ASSUME NEW p \in Processes, Stop(p)
      PROVE  IInv'
  BY <1>4, StopKeeps
<1> QED BY <1>1, <1>2, <1>3, <1>4 DEF Next

LEMMA Inductive == Spec => []IInv
BY InitIInv, StepIInv, PTL DEF Spec

-----------------------------------------------------------------------------
\* Wherever processes die, a recorded migration is whole and statements take
\* effect only in the files' order (applyMigrations).
THEOREM MigrationsInOrder == Spec => []MigrateInv
<1>1. IInv => MigrateInv
  BY DEF IInv
<1> QED BY Inductive, <1>1, PTL

\* When Open returns, the whole schema is in effect, whichever processes
\* executed it and died over it (Open).
THEOREM OpenIsMigrated == Spec => []OpenMeansMigrated
<1>1. IInv => OpenMeansMigrated
  BY DEF IInv
<1> QED BY Inductive, <1>1, PTL
=============================================================================
