---------------------------- MODULE ReviewProofs ----------------------------
(***************************************************************************)
(* Safety of the Review loop for any number of tabs, words, sentences and  *)
(* limits, and of the numbers read while it runs.  In order:               *)
(*   - what a tab may be holding, a form of an existing card whose token   *)
(*     was issued, and that an answer is graded at most once (IInv);       *)
(*   - the rows of reviews, and that they replay to the cards (LogInv,     *)
(*     Replays);                                                           *)
(*   - the caps of a day (CapsInv);                                        *)
(*   - the numbers of the cards, and what one tab alone is answered        *)
(*     (AloneInv);                                                         *)
(*   - Snapshot: the tables while grades, taps and scrapes commit          *)
(*     (TablesInv), and a request on its way through them (ViewInv).       *)
(***************************************************************************)
EXTENDS Snapshot, ScheduleProofs, FiniteSetTheorems, WellFoundedInduction

HoldsForm == \A t \in Tabs : At(t, "grade") => IsForm(page[t])
Building == {"build", "sentence"}
Real(r) == /\ r.pc \in Building => r.pick \in Existing
           /\ r.pc = "sentence" => r.token <= cards[r.pick].updated
PicksReal == \A t \in Tabs : Real(req[t])
TokensIssued ==
  \A t \in Tabs : IsForm(page[t]) =>
    page[t].word \in Existing /\ page[t].token <= cards[page[t].word].updated

Held == HoldsForm /\ PicksReal /\ TokensIssued
IInv == TypeOK /\ Held

-----------------------------------------------------------------------------
(* Lemmas about the operators. *)

LEMMA PageKinds ==
  /\ ~IsForm(NoPage) /\ ~IsForm(EmptyPage)
  /\ \A p \in Forms : IsForm(p)
  /\ \A p \in {NoPage, EmptyPage} \cup Forms : IsForm(p) => p \in Forms
BY DEF IsForm, NoPage, EmptyPage, Forms

LEMMA RequestKinds ==
  ASSUME NEW r \in {Idle} \cup Posting \cup Asking
  PROVE  /\ r.pc = "grade" => r \in Posting
         /\ r.pc \in {"count", "due", "introduced", "new", "build", "sentence"} => r \in Asking
         /\ r.pc # "idle" => r.now \in Nat
BY DEF Idle, Posting, Asking

LEMMA AskType ==
  ASSUME NEW now \in Nat
  PROVE  Ask(now) \in Asking
BY DEF Ask, Asking

\* The token moves forward, even within a millisecond.
LEMMA NextTokenGrows ==
  ASSUME NEW old \in Nat, NEW now \in Nat
  PROVE  NextToken(old, now) \in Nat /\ NextToken(old, now) > old
<1>1. now * TickMillis \in Nat
  BY ProductNat, ReviewAssumption
<1> QED BY <1>1 DEF NextToken

LEMMA NewCardType ==
  ASSUME NEW id \in Nat, NEW now \in Nat
  PROVE  NewCard(id, now) \in CardRows
<1>1. now * TickMillis \in Nat
  BY ProductNat, ReviewAssumption
<1> QED BY <1>1, NewStateType DEF NewCard, CardRows

LEMMA GradedType ==
  ASSUME NEW w \in Existing, cards[w] \in CardRows, NEW g \in Grades, NEW now \in Nat
  PROVE  /\ Graded(w, g, now) \in CardRows
         /\ Graded(w, g, now).updated > cards[w].updated
         /\ Graded(w, g, now).sched.phase # "new"
<1>1. cards[w].sched \in States /\ cards[w].updated \in Nat
  BY DEF CardRows
<1>2. Apply(cards[w].sched, g, now) \in States
  BY <1>1, ApplyType
<1>3. /\ NextToken(cards[w].updated, now) \in Nat
      /\ NextToken(cards[w].updated, now) > cards[w].updated
  BY <1>1, NextTokenGrows
<1>4. Apply(cards[w].sched, g, now).phase # "new"
  BY <1>1, ApplyNotNew
<1> QED BY <1>2, <1>3, <1>4 DEF Graded, CardRows

LEMMA IdOfType ==
  ASSUME TypeOK, NEW s \in Sentences, NEW w \in Words
  PROVE  IdOf(w, CandidatesOf[s]) \in Nat
<1>1. CandidatesOf[s] \in Seq(Words)
  BY ReviewAssumption
<1>2. UpTo(w, CandidatesOf[s]) \subseteq Words
  BY <1>1 DEF UpTo
<1>3. IsFiniteSet(Existing) /\ IsFiniteSet(UpTo(w, CandidatesOf[s]) \ Existing)
  BY <1>2, FS_Subset, ReviewAssumption DEF TypeOK, Existing
<1> QED BY <1>3, FS_CardinalityType DEF IdOf

LEMMA BatchType ==
  ASSUME TypeOK
  PROVE  Cardinality(extracted) + 1 \in Nat
<1>1. IsFiniteSet(extracted)
  BY FS_Subset, ReviewAssumption DEF TypeOK
<1> QED BY <1>1, FS_CardinalityType

\* What Extract does to cards: old ones stay, the others are new.
LEMMA ExtractCards ==
  ASSUME TypeOK, NEW s \in Sentences, NEW now \in Nat, Extract(s, now)
  PROVE  /\ Existing \subseteq Existing' /\ Existing' \subseteq Words
         /\ \A w \in Existing : cards'[w] = cards[w]
         /\ \A w \in Existing' \ Existing :
              \E id \in Nat : cards'[w] = NewCard(id, now)
         /\ \A w \in Existing' : cards'[w] \in CardRows
<1> DEFINE words == CandidatesOf[s]
           wanted == {words[i] : i \in DOMAIN words}
<1>1. words \in Seq(Words)
  BY ReviewAssumption
<1>2. wanted \subseteq Words
  BY <1>1
<1>3. cards' = [w \in Existing \cup wanted |->
                  IF w \in Existing THEN cards[w] ELSE NewCard(IdOf(w, words), now)]
  BY DEF Extract
<1> HIDE DEF wanted
<1>4. Existing' = Existing \cup wanted
  BY <1>3 DEF Existing
<1>5. Existing \subseteq Words /\ \A w \in Existing : cards[w] \in CardRows
  BY DEF TypeOK, Existing
<1>6. \A w \in Existing : cards'[w] = cards[w]
  BY <1>3
<1>7. ASSUME NEW w \in Existing' \ Existing
      PROVE  \E id \in Nat : cards'[w] = NewCard(id, now)
  <2>1. w \in wanted /\ w \in Words
    BY <1>2, <1>4
  <2>2. IdOf(w, words) \in Nat
    BY <2>1, IdOfType
  <2>3. cards'[w] = NewCard(IdOf(w, words), now)
    BY <1>3, <2>1
  <2> QED BY <2>2, <2>3
<1>8. ASSUME NEW w \in Existing' PROVE cards'[w] \in CardRows
  <2>1. CASE w \in Existing
    BY <1>5, <1>6, <2>1
  <2>2. CASE w \notin Existing
    <3>1. PICK id \in Nat : cards'[w] = NewCard(id, now)
      BY <1>7, <2>2
    <3> QED BY <1>5, <3>1, NewCardType
  <2> QED BY <2>1, <2>2
<1> QED BY <1>2, <1>4, <1>5, <1>6, <1>7, <1>8

-----------------------------------------------------------------------------
(* Every step keeps the types. *)

LEMMA RequestOf ==
  ASSUME TypeOK, NEW t \in Tabs
  PROVE  /\ req[t] \in {Idle} \cup Posting \cup Asking
         /\ At(t, "grade") => req[t] \in Posting
         /\ req[t].pc \in {"count", "due", "introduced", "new", "build", "sentence"} => req[t] \in Asking
         /\ ~At(t, "idle") => req[t].now \in Nat
BY RequestKinds DEF TypeOK, At

\* Grade's transaction, when it goes through.
LEMMA GradeEffect ==
  ASSUME TypeOK, HoldsForm, NEW t \in Tabs, NEW htmx \in BOOLEAN, GradeTx(t, htmx),
         Accepts(page[t], req[t].grade, req[t].sentence)
  PROVE  /\ page[t] \in Forms
         /\ page[t].word \in Existing
         /\ page[t].token = cards[page[t].word].updated
         /\ req[t] \in Posting
         /\ req[t].grade \in Grades
         /\ cards' = [cards EXCEPT ![page[t].word] =
                        Graded(page[t].word, req[t].grade, req[t].now)]
         /\ reviews' = Append(reviews, [word |-> page[t].word, sentence |-> req[t].sentence,
                                        grade |-> req[t].grade, at |-> req[t].now])
         /\ Graded(page[t].word, req[t].grade, req[t].now) \in CardRows
         /\ Graded(page[t].word, req[t].grade, req[t].now).updated
              > cards[page[t].word].updated
         /\ Graded(page[t].word, req[t].grade, req[t].now).sched.phase # "new"
<1>1. At(t, "grade")
  BY DEF GradeTx
<1>2. page[t] \in Forms
  BY <1>1, PageKinds DEF HoldsForm, TypeOK
<1>3. req[t] \in Posting
  BY <1>1, RequestOf
<1>4. /\ page[t].word \in Existing /\ req[t].grade \in Grades
      /\ page[t].token = cards[page[t].word].updated
  BY DEF Accepts
<1>5. /\ cards' = [cards EXCEPT ![page[t].word] =
                     Graded(page[t].word, req[t].grade, req[t].now)]
      /\ reviews' = Append(reviews, [word |-> page[t].word, sentence |-> req[t].sentence,
                                     grade |-> req[t].grade, at |-> req[t].now])
  BY DEF GradeTx
<1>6. cards[page[t].word] \in CardRows /\ req[t].now \in Nat
  BY <1>3, <1>4 DEF TypeOK, Existing, Posting
<1> QED BY <1>2, <1>3, <1>4, <1>5, <1>6, GradedType

LEMMA GradeTxType ==
  ASSUME IInv, NEW t \in Tabs, NEW htmx \in BOOLEAN, GradeTx(t, htmx)
  PROVE  TypeOK'
<1> USE DEF IInv, Held
<1>1. req' \in [Tabs -> {Idle} \cup Posting \cup Asking]
  <2>1. req[t].now \in Nat
    BY RequestOf DEF GradeTx, At
  <2>2. Ask(req[t].now) \in Asking
    BY <2>1, AskType
  <2>3. req' = [req EXCEPT ![t] = IF htmx THEN Ask(req[t].now) ELSE Idle]
    BY DEF GradeTx
  <2> QED BY <2>2, <2>3 DEF TypeOK
<1>2. UNCHANGED <<clock, extracted, occ, page>>
  BY DEF GradeTx
<1>3. CASE Accepts(page[t], req[t].grade, req[t].sentence)
  <2> DEFINE w == page[t].word
             row == [word |-> w, sentence |-> req[t].sentence,
                     grade |-> req[t].grade, at |-> req[t].now]
  <2>1. w \in Existing /\ w \in Words /\ row \in ReviewRows
    BY <1>3, GradeEffect DEF Forms, Posting, ReviewRows
  <2>2. reviews' \in Seq(ReviewRows)
    <3>1. reviews' = Append(reviews, row)
      BY <1>3, GradeEffect
    <3> QED BY <2>1, <3>1 DEF TypeOK
  <2>3. DOMAIN cards' \subseteq Words /\ \A v \in DOMAIN cards' : cards'[v] \in CardRows
    BY <1>3, <2>1, GradeEffect DEF TypeOK, Existing
  <2> QED BY <1>1, <1>2, <2>2, <2>3 DEF TypeOK
<1>4. CASE ~Accepts(page[t], req[t].grade, req[t].sentence)
  <2>1. UNCHANGED <<cards, reviews>>
    BY <1>4 DEF GradeTx
  <2> QED BY <1>1, <1>2, <2>1 DEF TypeOK
<1> QED BY <1>3, <1>4

\* The ways a query of Next ends: an answer, empty or a form; or the handler
\* goes on, to its next query or with a card picked.
LEMMA NextStepShape ==
  ASSUME IInv, NEW t \in Tabs, NextStep(t)
  PROVE  /\ UNCHANGED <<clock, db>>
         /\ \/ Answer(t, EmptyPage)
            \/ /\ At(t, "sentence")
               /\ \E o \in occ : Answer(t, Item(req[t].pick, req[t].token, o))
            \/ page' = page /\ \E r \in Asking : Real(r) /\ req' = [req EXCEPT ![t] = r]
<1>1. req[t] \in Asking
  <2>1. req[t].pc \in {"count", "due", "introduced", "new", "build", "sentence"}
    BY DEF NextStep, NextCount, NextDue, NextIntroduced, NextNew, NextLoad, NextPresent,
           NextSkip, BuildFails, At
  <2> QED BY <2>1, RequestOf DEF IInv
<1>2. ASSUME NEW pc \in {"due", "introduced", "new"}, Goto(t, pc)
      PROVE  \E r \in Asking : Real(r) /\ req' = [req EXCEPT ![t] = r]
  <2> DEFINE r == [req[t] EXCEPT !.pc = pc]
  <2>1. r \in Asking /\ r.pc \notin Building /\ r.pc # "sentence"
    BY <1>1 DEF Asking, Building
  <2>2. req' = [req EXCEPT ![t] = r]
    BY <1>2 DEF Goto
  <2> QED BY <2>1, <2>2 DEF Real
<1>3. ASSUME NEW w \in Existing, Picked(t, w)
      PROVE  \E r \in Asking : Real(r) /\ req' = [req EXCEPT ![t] = r]
  <2> DEFINE r == [req[t] EXCEPT !.pc = "build", !.pick = w]
  <2>1. w \in Words
    BY DEF IInv, TypeOK, Existing
  <2>2. r \in Asking /\ r.pick = w /\ r.pc = "build"
    BY <1>1, <2>1 DEF Asking
  <2>3. req' = [req EXCEPT ![t] = r]
    BY <1>3 DEF Picked, IInv, TypeOK
  <2> QED BY <2>1, <2>2, <2>3 DEF Real
<1>4. CASE NextCount(t)
  BY <1>2, <1>4 DEF NextCount
<1>5. CASE NextDue(t)
  BY <1>2, <1>3, <1>5 DEF NextDue, DueCards
<1>6. CASE NextIntroduced(t)
  BY <1>2, <1>6 DEF NextIntroduced
<1>7. CASE NextNew(t)
  BY <1>3, <1>7 DEF NextNew, NewCards
<1>8. CASE NextLoad(t)
  <2> DEFINE r == [req[t] EXCEPT !.pc = "sentence", !.token = cards[req[t].pick].updated]
  <2>1. req[t].pick \in Existing
    BY <1>8 DEF NextLoad, At, IInv, Held, PicksReal, Real, Building
  <2>2. cards[req[t].pick].updated \in Nat
    BY <2>1 DEF IInv, TypeOK, Existing, CardRows
  <2>3. /\ r \in Asking /\ r.pick = req[t].pick
        /\ r.token = cards[req[t].pick].updated
    BY <1>1, <2>2 DEF Asking
  <2>4. req' = [req EXCEPT ![t] = r] /\ UNCHANGED <<clock, db, page>>
    BY <1>8 DEF NextLoad, IInv, TypeOK
  <2> HIDE DEF r
  <2>5. Real(r)
    BY <2>1, <2>2, <2>3 DEF Real
  <2> QED BY <2>3, <2>4, <2>5 DEF db
<1>10. CASE NextPresent(t)
  BY <1>10 DEF NextPresent
<1>9. CASE NextSkip(t)
  <2>1. CASE req[t].tries + 1 = MaxNextSkips
    BY <1>9, <2>1 DEF NextSkip
  <2>2. CASE req[t].tries + 1 # MaxNextSkips
    <3> DEFINE r == [req[t] EXCEPT !.pc = "due", !.skip = req[t].skip \cup {req[t].pick},
                                   !.tries = req[t].tries + 1, !.token = 0]
    <3>1. req[t].pick \in Words
      BY <1>9 DEF NextSkip, BuildFails, At, IInv, Held, PicksReal, Real, Building, TypeOK, Existing
    <3>2. r \in Asking /\ r.pc \notin Building /\ r.pc # "sentence"
      <4>1. req[t].skip \cup {req[t].pick} \in SUBSET Words /\ req[t].tries + 1 \in Nat
        BY <1>1, <3>1 DEF Asking
      <4> QED BY <1>1, <4>1 DEF Asking, Building
    <3>3. req' = [req EXCEPT ![t] = r] /\ page' = page
      BY <1>9, <2>2 DEF NextSkip, IInv, TypeOK
    <3> QED BY <1>9, <3>2, <3>3 DEF NextSkip, Real
  <2> QED BY <2>1, <2>2
<1> QED BY <1>4, <1>5, <1>6, <1>7, <1>8, <1>9, <1>10 DEF NextStep

LEMMA NextStepType ==
  ASSUME IInv, NEW t \in Tabs, NextStep(t)
  PROVE  TypeOK'
<1> USE DEF IInv
<1>1. UNCHANGED <<clock, cards, extracted, occ, reviews>>
  BY NextStepShape DEF db
<1>2. ASSUME NEW p \in {NoPage, EmptyPage} \cup Forms, Answer(t, p)
      PROVE  TypeOK'
  BY <1>1, <1>2 DEF Answer, TypeOK
<1>3. CASE At(t, "sentence") /\ \E o \in occ : Answer(t, Item(req[t].pick, req[t].token, o))
  <2>1. PICK o \in occ : Answer(t, Item(req[t].pick, req[t].token, o))
    BY <1>3
  <2>2. req[t].pick \in Words /\ req[t].token \in Nat
    <3>1. req[t].pick \in Words
      BY <1>3 DEF At, Held, PicksReal, Real, Building, TypeOK, Existing
    <3>2. req[t] \in Asking
      BY <1>3, RequestOf DEF At
    <3> QED BY <3>1, <3>2 DEF Asking
  <2>3. Item(req[t].pick, req[t].token, o) \in Forms
    BY <2>2 DEF Item, Forms, TypeOK, OccRows
  <2> QED BY <1>2, <2>1, <2>3
<1>4. CASE page' = page /\ \E r \in Asking : req' = [req EXCEPT ![t] = r]
  BY <1>1, <1>4 DEF TypeOK
<1> QED BY <1>2, <1>3, <1>4, NextStepShape

LEMMA TypeStep == IInv /\ [Next]_vars => TypeOK'
<1> SUFFICES ASSUME IInv, [Next]_vars
             PROVE  TypeOK'
  OBVIOUS
<1> USE DEF IInv
<1>1. CASE Tick
  BY <1>1 DEF Tick, TypeOK, db
<1>2. ASSUME NEW s \in Sentences, NEW now \in 0 .. clock, Extract(s, now)
      PROVE  TypeOK'
  <2>0. now \in Nat
    BY DEF TypeOK
  <2>1. DOMAIN cards' \subseteq Words /\ \A w \in DOMAIN cards' : cards'[w] \in CardRows
    BY <1>2, <2>0, ExtractCards DEF Existing
  <2>2. occ' \subseteq OccRows
    <3> DEFINE wanted == {CandidatesOf[s][i] : i \in DOMAIN CandidatesOf[s]}
    <3>1. wanted \subseteq Words
      BY ReviewAssumption
    <3>2. occ' = occ \cup [sentence : {s}, word : wanted, at : {now},
                           batch : {Cardinality(extracted) + 1}]
      BY <1>2 DEF Extract
    <3> HIDE DEF wanted
    <3> QED BY <2>0, <3>1, <3>2, BatchType DEF TypeOK, OccRows
  <2>3. extracted' \subseteq Sentences /\ UNCHANGED <<clock, reviews, req, page>>
    BY <1>2 DEF Extract, TypeOK
  <2> QED BY <2>1, <2>2, <2>3 DEF TypeOK
<1>3. ASSUME NEW w \in Orphans, LoseOccurrences(w)
      PROVE  TypeOK'
  BY <1>3 DEF LoseOccurrences, TypeOK
<1>4. ASSUME NEW t \in Tabs, User(t)
      PROVE  TypeOK'
  <2>1. CASE HandleReviewGet(t)
    <3>1. Ask(clock) \in Asking
      BY AskType DEF TypeOK
    <3> QED BY <2>1, <3>1 DEF HandleReviewGet, TypeOK, db
  <2>2. ASSUME NEW g \in GradeInputs, NEW s \in Sentences, HandleReviewPost(t, g, s)
        PROVE  TypeOK'
    <3>1. [pc |-> "grade", now |-> clock, grade |-> g, sentence |-> s] \in Posting
      BY DEF Posting, TypeOK
    <3> QED BY <2>2, <3>1 DEF HandleReviewPost, TypeOK, db
  <2> QED BY <1>4, <2>1, <2>2 DEF User
<1>5. ASSUME NEW t \in Tabs, Handler(t)
      PROVE  TypeOK'
  <2>1. CASE NextStep(t)
    BY <2>1, NextStepType
  <2>2. ASSUME NEW htmx \in BOOLEAN, GradeTx(t, htmx)
        PROVE  TypeOK'
    BY <2>2, GradeTxType
  <2> QED BY <1>5, <2>1, <2>2 DEF Handler
<1>6. ASSUME NEW t \in Tabs, Fail(t)
      PROVE  TypeOK'
  BY <1>6 DEF Fail, TypeOK, db
<1>7. CASE UNCHANGED vars
  BY <1>7 DEF vars, TypeOK
<1> QED BY <1>1, <1>2, <1>3, <1>4, <1>5, <1>6, <1>7 DEF Next

-----------------------------------------------------------------------------
(* Every step keeps what the tabs hold. *)

\* Held survives a step that keeps pages and never lowers a token, and whose
\* requests still hold what they need.
LEMMA HeldKept ==
  ASSUME IInv, TypeOK', page' = page,
         Existing \subseteq Existing',
         \A w \in Existing : cards'[w].updated >= cards[w].updated,
         \A t \in Tabs : At(t, "grade")' => IsForm(page[t]),
         \A t \in Tabs : Real(req'[t])
  PROVE  Held'
<1>1. HoldsForm'
  BY DEF HoldsForm
<1>2. ASSUME NEW t \in Tabs
      PROVE  /\ req'[t].pc \in Building => req'[t].pick \in Existing'
             /\ req'[t].pc = "sentence" => req'[t].token <= cards'[req'[t].pick].updated
  <2>1. req'[t].pc \in Building => req'[t].pick \in Existing
    BY DEF Real
  <2>2. CASE req'[t].pc = "sentence"
    <3> DEFINE w == req'[t].pick
    <3>1. w \in Existing /\ req'[t].token <= cards[w].updated
      BY <2>2 DEF Real, Building
    <3>2. cards'[w].updated >= cards[w].updated /\ w \in Existing'
      BY <3>1
    <3>3. req'[t] \in Asking
      BY <2>2, RequestKinds DEF TypeOK
    <3>4. req'[t].token \in Nat /\ cards[w].updated \in Nat /\ cards'[w].updated \in Nat
      BY <3>1, <3>2, <3>3 DEF IInv, TypeOK, Asking, Existing, CardRows
    <3> QED BY <2>1, <3>1, <3>2, <3>4
  <2> QED BY <2>1, <2>2
<1>5. PicksReal'
  BY <1>2 DEF PicksReal, Real
<1>3. ASSUME NEW t \in Tabs, IsForm(page'[t])
      PROVE  page'[t].word \in Existing' /\ page'[t].token <= cards'[page'[t].word].updated
  <2> DEFINE w == page[t].word
  <2>1. page'[t] = page[t] /\ w \in Existing /\ page[t].token <= cards[w].updated
    BY <1>3 DEF IInv, Held, TokensIssued
  <2>2. w \in Existing' /\ cards'[w].updated >= cards[w].updated
    BY <2>1
  <2>3. page[t] \in Forms
    BY <1>3, PageKinds DEF IInv, TypeOK
  <2>4. page[t].token \in Nat /\ cards[w].updated \in Nat /\ cards'[w].updated \in Nat
    BY <2>1, <2>2, <2>3 DEF IInv, TypeOK, Forms, Existing, CardRows
  <2> QED BY <2>1, <2>2, <2>4
<1>4. TokensIssued'
  BY <1>3 DEF TokensIssued
<1> QED BY <1>1, <1>4, <1>5 DEF Held

LEMMA CardTokens ==
  ASSUME TypeOK
  PROVE  \A w \in Existing : cards[w].updated \in Nat
BY DEF TypeOK, Existing, CardRows

LEMMA GradeTxHeld ==
  ASSUME IInv, TypeOK', NEW t \in Tabs, NEW htmx \in BOOLEAN, GradeTx(t, htmx)
  PROVE  Held'
<1> USE DEF IInv, Held
<1>1. page' = page /\ req' = [req EXCEPT ![t] = IF htmx THEN Ask(req[t].now) ELSE Idle]
  BY DEF GradeTx
<1>2. \A u \in Tabs : /\ At(u, "grade")' => At(u, "grade")
                      /\ req'[u].pc \in Building => req'[u] = req[u]
  BY <1>1 DEF At, Ask, Idle, Building, TypeOK
<1>3. /\ Existing' = Existing
      /\ \A w \in Existing : cards'[w].updated >= cards[w].updated
  <2>1. CASE Accepts(page[t], req[t].grade, req[t].sentence)
    <3> DEFINE v == page[t].word
               c == Graded(v, req[t].grade, req[t].now)
    <3>1. /\ v \in Existing /\ cards' = [cards EXCEPT ![v] = c]
          /\ c \in CardRows /\ c.updated > cards[v].updated
      BY <2>1, GradeEffect
    <3> HIDE DEF c
    <3>2. c.updated \in Nat /\ \A w \in Existing : cards[w].updated \in Nat
      BY <3>1, CardTokens DEF CardRows
    <3> QED BY <3>1, <3>2 DEF Existing
  <2>2. CASE ~Accepts(page[t], req[t].grade, req[t].sentence)
    <3>1. cards' = cards
      BY <2>2 DEF GradeTx
    <3> QED BY <3>1, CardTokens DEF Existing
  <2> QED BY <2>1, <2>2
<1>4. \A u \in Tabs : At(u, "grade")' => IsForm(page[u])
  BY <1>2 DEF HoldsForm
<1>5. \A u \in Tabs : Real(req'[u])
  BY <1>2 DEF PicksReal, Real, Building
<1> QED BY <1>1, <1>3, <1>4, <1>5, HeldKept

LEMMA NextStepHeld ==
  ASSUME IInv, TypeOK', NEW t \in Tabs, NextStep(t)
  PROVE  Held'
<1> USE DEF IInv, Held
<1>1. cards' = cards /\ Existing' = Existing
  BY NextStepShape DEF db, Existing
<1>2. \A w \in Existing : cards'[w].updated >= cards[w].updated
  BY <1>1, CardTokens
<1>3. CASE page' = page /\ \E r \in Asking : Real(r) /\ req' = [req EXCEPT ![t] = r]
  <2>1. PICK r \in Asking : Real(r) /\ req' = [req EXCEPT ![t] = r]
    BY <1>3
  <2>2. \A u \in Tabs : At(u, "grade")' => IsForm(page[u])
    BY <2>1 DEF At, Asking, TypeOK, HoldsForm
  <2>3. \A u \in Tabs : Real(req'[u])
    BY <2>1 DEF TypeOK, PicksReal
  <2> QED BY <1>1, <1>2, <1>3, <2>2, <2>3, HeldKept
<1>4. ASSUME NEW p, Answer(t, p),
             IsForm(p) => p.word \in Existing /\ p.token <= cards[p.word].updated
      PROVE  Held'
  <2>1. /\ req' = [req EXCEPT ![t] = Idle]
        /\ page' = [page EXCEPT ![t] = p]
    BY <1>4 DEF Answer
  <2>2. \A u \in Tabs : /\ At(u, "grade")' => u # t /\ At(u, "grade")
                        /\ req'[u].pc \in Building => req'[u] = req[u]
    BY <2>1 DEF At, Idle, Building, TypeOK
  <2>3. HoldsForm'
    BY <2>1, <2>2 DEF HoldsForm, TypeOK
  <2>4. PicksReal'
    BY <1>1, <2>2 DEF PicksReal, Real, Building
  <2>5. TokensIssued'
    BY <1>1, <1>4, <2>1 DEF TokensIssued, TypeOK
  <2> QED BY <2>3, <2>4, <2>5
<1>5. CASE Answer(t, EmptyPage)
  BY <1>4, <1>5, PageKinds
<1>6. CASE At(t, "sentence") /\ \E o \in occ : Answer(t, Item(req[t].pick, req[t].token, o))
  <2>1. PICK o \in occ : Answer(t, Item(req[t].pick, req[t].token, o))
    BY <1>6
  <2>2. req[t].pick \in Existing /\ req[t].token <= cards[req[t].pick].updated
    BY <1>6 DEF At, PicksReal, Real, Building
  <2>3. /\ Item(req[t].pick, req[t].token, o).word = req[t].pick
        /\ Item(req[t].pick, req[t].token, o).token = req[t].token
    BY DEF Item
  <2> QED BY <1>4, <2>1, <2>2, <2>3
<1> QED BY <1>3, <1>5, <1>6, NextStepShape

LEMMA InvStep == IInv /\ [Next]_vars => IInv'
<1> SUFFICES ASSUME IInv, [Next]_vars
             PROVE  IInv'
  OBVIOUS
<1>0. TypeOK'
  BY TypeStep
<1> USE DEF IInv, Held
<1>1. CASE Tick \/ \E w \in Orphans : LoseOccurrences(w)
  <2>1. UNCHANGED <<cards, req, page>>
    BY <1>1 DEF Tick, LoseOccurrences, db
  <2> QED BY <1>0, <2>1 DEF HoldsForm, PicksReal, Real, TokensIssued, At, Existing
<1>2. ASSUME NEW s \in Sentences, NEW now \in 0 .. clock, Extract(s, now)
      PROVE  Held'
  <2>0. now \in Nat
    BY DEF TypeOK
  <2>1. UNCHANGED <<req, page>>
    BY <1>2 DEF Extract
  <2>2. Existing \subseteq Existing' /\ \A w \in Existing : cards'[w].updated >= cards[w].updated
    BY <1>2, <2>0, ExtractCards, CardTokens
  <2>3. \A t \in Tabs : At(t, "grade")' => IsForm(page[t])
    BY <2>1 DEF HoldsForm, At
  <2>4. \A t \in Tabs : Real(req'[t])
    BY <2>1 DEF PicksReal
  <2> QED BY <1>0, <2>1, <2>2, <2>3, <2>4, HeldKept
<1>3. ASSUME NEW t \in Tabs, User(t)
      PROVE  Held'
  <2>1. UNCHANGED <<cards, page>> /\ Existing' = Existing
    BY <1>3 DEF User, HandleReviewGet, HandleReviewPost, db, Existing
  <2>2. /\ \A u \in Tabs \ {t} : req'[u] = req[u]
        /\ req'[t].pc = "grade" => IsForm(page[t])
        /\ req'[t].pc \notin Building /\ req'[t].pc # "sentence"
    BY <1>3 DEF User, HandleReviewGet, HandleReviewPost, Ask, Building, TypeOK
  <2>3. \A u \in Tabs : At(u, "grade")' => IsForm(page[u])
    BY <2>2 DEF HoldsForm, At
  <2>4. \A u \in Tabs : Real(req'[u])
    BY <2>2 DEF PicksReal, Real
  <2>5. \A w \in Existing : cards'[w].updated >= cards[w].updated
    BY <2>1, CardTokens
  <2> QED BY <1>0, <2>1, <2>3, <2>4, <2>5, HeldKept
<1>4. ASSUME NEW t \in Tabs, Handler(t)
      PROVE  Held'
  <2>1. CASE NextStep(t)
    BY <1>0, <2>1, NextStepHeld
  <2>2. ASSUME NEW htmx \in BOOLEAN, GradeTx(t, htmx)
        PROVE  Held'
    BY <1>0, <2>2, GradeTxHeld
  <2> QED BY <1>4, <2>1, <2>2 DEF Handler
<1>5. ASSUME NEW t \in Tabs, Fail(t)
      PROVE  Held'
  <2>1. UNCHANGED <<cards, page>> /\ req' = [req EXCEPT ![t] = Idle] /\ Existing' = Existing
    BY <1>5 DEF Fail, db, Existing
  <2>2. \A u \in Tabs : /\ At(u, "grade")' => At(u, "grade")
                        /\ req'[u].pc \in Building => req'[u] = req[u]
    BY <2>1 DEF At, Idle, Building, TypeOK
  <2>3. \A u \in Tabs : At(u, "grade")' => IsForm(page[u])
    BY <2>2 DEF HoldsForm
  <2>4. \A u \in Tabs : Real(req'[u])
    BY <2>2 DEF PicksReal, Real, Building
  <2>5. \A w \in Existing : cards'[w].updated >= cards[w].updated
    BY <2>1, CardTokens
  <2> QED BY <1>0, <2>1, <2>3, <2>4, <2>5, HeldKept
<1>6. CASE UNCHANGED vars
  BY <1>0, <1>6 DEF vars, HoldsForm, PicksReal, Real, TokensIssued, At, Existing
<1> QED BY <1>0, <1>1, <1>2, <1>3, <1>4, <1>5, <1>6 DEF Next

LEMMA InvInit == Init => IInv
<1> SUFFICES ASSUME Init
             PROVE  IInv
  OBVIOUS
<1>1. TypeOK
  BY DEF Init, TypeOK
<1>2. Held
  BY PageKinds DEF Init, Held, HoldsForm, PicksReal, Real, Building, TokensIssued, At, Idle
<1> QED BY <1>1, <1>2 DEF IInv

LEMMA Invariance == Spec => []IInv
BY InvInit, InvStep, PTL DEF Spec

\* Every variable keeps its type: each card is a state of the scheduler with a
\* token, each row a grade of a known card, each tab's page a form or a notice.
THEOREM TypeCorrect == Spec => []TypeOK
BY Invariance, PTL DEF IInv

-----------------------------------------------------------------------------
(* A presentation is graded at most once. *)

\* Only an accepted grade writes to reviews.
LEMMA ReviewsWriter ==
  ASSUME IInv, [Next]_vars, reviews' # reviews
  PROVE  \E t \in Tabs, htmx \in BOOLEAN :
           GradeTx(t, htmx) /\ Accepts(page[t], req[t].grade, req[t].sentence)
<1>1. ~Tick /\ ~UNCHANGED vars
  BY DEF Tick, db, vars
<1>2. \A s \in Sentences, now \in 0 .. clock : ~Extract(s, now)
  BY DEF Extract
<1>3. \A w \in Orphans : ~LoseOccurrences(w)
  BY DEF LoseOccurrences
<1>4. ASSUME NEW t \in Tabs
      PROVE  ~User(t) /\ ~Fail(t) /\ ~NextStep(t)
  <2>1. ~User(t) /\ ~Fail(t)
    BY DEF User, HandleReviewGet, HandleReviewPost, Fail, db
  <2>2. ~NextStep(t)
    BY NextStepShape DEF db
  <2> QED BY <2>1, <2>2
<1>5. PICK t \in Tabs, htmx \in BOOLEAN : GradeTx(t, htmx)
  BY <1>1, <1>2, <1>3, <1>4 DEF Next, Handler
<1>6. Accepts(page[t], req[t].grade, req[t].sentence)
  BY <1>5 DEF GradeTx
<1> QED BY <1>5, <1>6

LEMMA GradeOnceHolds ==
  ASSUME IInv, [Next]_vars
  PROVE  GradeOnceStep
<1> SUFFICES ASSUME reviews' # reviews
             PROVE  \E w \in Existing :
      /\ Len(reviews') = Len(reviews) + 1 /\ reviews'[Len(reviews')].word = w
      /\ \E t \in Tabs : IsForm(page[t]) /\ page[t].word = w
                           /\ page[t].token = cards[w].updated
      /\ \A t \in Tabs : IsForm(page'[t]) /\ page'[t].word = w
                           => page'[t].token # cards'[w].updated
  BY DEF GradeOnceStep
<1> USE DEF IInv, Held
<1>1. PICK t \in Tabs, htmx \in BOOLEAN :
        GradeTx(t, htmx) /\ Accepts(page[t], req[t].grade, req[t].sentence)
  BY ReviewsWriter
<1> DEFINE w == page[t].word
           c == Graded(w, req[t].grade, req[t].now)
           row == [word |-> w, sentence |-> req[t].sentence,
                   grade |-> req[t].grade, at |-> req[t].now]
<1>2. /\ page[t] \in Forms /\ w \in Existing
      /\ page[t].token = cards[w].updated
      /\ cards' = [cards EXCEPT ![w] = c]
      /\ reviews' = Append(reviews, row)
      /\ c \in CardRows /\ c.updated > cards[w].updated
  BY <1>1, GradeEffect
<1>3. page' = page
  BY <1>1 DEF GradeTx
<1>4. Len(reviews') = Len(reviews) + 1 /\ reviews'[Len(reviews')].word = w
  BY <1>2 DEF TypeOK
<1> HIDE DEF c
<1>5. cards'[w].updated = c.updated /\ c.updated \in Nat /\ cards[w].updated \in Nat
  BY <1>2, CardTokens DEF CardRows, Existing
<1>6. ASSUME NEW u \in Tabs, IsForm(page'[u]), page'[u].word = w
      PROVE  page'[u].token # cards'[w].updated
  <2>1. page[u].token <= cards[w].updated /\ page[u].token \in Nat
    BY <1>3, <1>6, PageKinds DEF TokensIssued, TypeOK, Forms
  <2> QED BY <1>2, <1>3, <1>5, <2>1
<1>7. IsForm(page[t])
  BY <1>2, PageKinds
<1> QED BY <1>2, <1>4, <1>6, <1>7

\* A presentation is graded at most once, for any number of tabs: an accepted
\* grade leaves every form of its card stale (the optimistic lock of Grade).
THEOREM GradedAtMostOnce == Spec => GradeOnce
<1>1. IInv /\ [Next]_vars => GradeOnceStep
  BY GradeOnceHolds
<1> QED BY <1>1, Invariance, PTL DEF Spec, GradeOnce

-----------------------------------------------------------------------------
(* The rows of reviews: which cards they are of, and in which order.       *)

\* Rows are of existing cards and not from the future.
RowsKnown == \A i \in DOMAIN reviews :
  reviews[i].word \in Existing /\ reviews[i].at <= clock

\* A grade that can still be accepted is not older than any row of its card:
\* had a later one come in between, the form's token would be gone.
NotOvertaken ==
  \A t \in Tabs : At(t, "grade") =>
    /\ req[t].now <= clock
    /\ page[t].token = cards[page[t].word].updated
         => \A i \in DOMAIN reviews :
              reviews[i].word = page[t].word => reviews[i].at <= req[t].now

LogInv == RowsKnown /\ NewIffUnreviewed /\ NotOvertaken /\ RowsInOrder

LEMMA RowTypes ==
  ASSUME TypeOK
  PROVE  /\ Len(reviews) \in Nat /\ DOMAIN reviews = 1 .. Len(reviews)
         /\ \A i \in DOMAIN reviews : reviews[i] \in ReviewRows /\ reviews[i].at \in Nat
<1>1. \A i \in DOMAIN reviews : reviews[i] \in ReviewRows
  BY DEF TypeOK
<1> QED BY <1>1 DEF TypeOK, ReviewRows

\* LogInv survives a step that writes no row.
LEMMA LogKept ==
  ASSUME IInv, LogInv, clock' \in Nat, clock' >= clock, reviews' = reviews,
         Existing \subseteq Existing',
         \A w \in Existing : /\ cards'[w].sched = cards[w].sched
                             /\ cards'[w].updated = cards[w].updated,
         \A w \in Existing' \ Existing : cards'[w].sched.phase = "new",
         \A t \in Tabs : At(t, "grade")' =>
           /\ page'[t] = page[t]
           /\ \/ At(t, "grade") /\ req'[t].now = req[t].now
              \/ IsForm(page[t]) /\ req'[t].now = clock
  PROVE  LogInv'
<1> USE DEF LogInv
<1>1. \A i \in DOMAIN reviews : reviews[i].at \in Nat /\ clock \in Nat
  BY RowTypes DEF IInv, TypeOK
<1>2. RowsKnown'
  BY <1>1 DEF RowsKnown
<1>3. NewIffUnreviewed'
  <2>1. ASSUME NEW w \in Existing'
        PROVE  IsNew(w)' <=> RowsOf(w)' = {}
    <3>1. CASE w \in Existing
      BY <3>1 DEF NewIffUnreviewed, IsNew, RowsOf
    <3>2. CASE w \notin Existing
      BY <3>2 DEF IsNew, RowsOf, RowsKnown
    <3> QED BY <3>1, <3>2
  <2> QED BY <2>1 DEF NewIffUnreviewed
<1>4. RowsInOrder'
  BY DEF RowsInOrder
<1>5. ASSUME NEW t \in Tabs, At(t, "grade")'
      PROVE  /\ req'[t].now <= clock'
             /\ page'[t].token = cards'[page'[t].word].updated
                  => \A i \in DOMAIN reviews' :
                       reviews'[i].word = page'[t].word => reviews'[i].at <= req'[t].now
  <2>1. page'[t] = page[t] /\ IsForm(page[t]) /\ page[t].word \in Existing
    BY <1>5 DEF IInv, Held, HoldsForm, TokensIssued
  <2>2. page'[t].token = cards'[page'[t].word].updated
          => page[t].token = cards[page[t].word].updated
    BY <2>1
  <2>3. CASE At(t, "grade") /\ req'[t].now = req[t].now
    <3>1. req[t].now \in Nat
      BY <2>3, RequestOf DEF IInv, At
    <3> QED BY <1>1, <2>1, <2>2, <2>3, <3>1 DEF NotOvertaken, IInv, TypeOK
  <2>4. CASE req'[t].now = clock
    BY <1>1, <2>1, <2>4 DEF RowsKnown, IInv, TypeOK
  <2> QED BY <1>5, <2>3, <2>4
<1> QED BY <1>2, <1>3, <1>4, <1>5 DEF NotOvertaken

LEMMA GradeTxLog ==
  ASSUME IInv, LogInv, NEW t \in Tabs, NEW htmx \in BOOLEAN, GradeTx(t, htmx),
         Accepts(page[t], req[t].grade, req[t].sentence)
  PROVE  LogInv'
<1> USE DEF IInv, Held, LogInv
<1>0. PICK w : w = page[t].word
  OBVIOUS
<1> DEFINE c == Graded(w, req[t].grade, req[t].now)
           row == [word |-> w, sentence |-> req[t].sentence,
                   grade |-> req[t].grade, at |-> req[t].now]
           n == Len(reviews)
<1>1. /\ page[t] \in Forms /\ w \in Existing
      /\ page[t].token = cards[w].updated
      /\ cards' = [cards EXCEPT ![w] = c]
      /\ reviews' = Append(reviews, row)
      /\ c \in CardRows /\ c.updated > cards[w].updated /\ c.sched.phase # "new"
  BY <1>0, GradeEffect
<1>2. clock' = clock /\ page' = page
  BY DEF GradeTx
<1>3. At(t, "grade")
  BY DEF GradeTx
<1>4. req[t].now \in Nat /\ req[t].now <= clock /\ clock \in Nat
  <2>1. req[t].now \in Nat
    BY <1>3, RequestOf DEF At
  <2> QED BY <1>3, <2>1 DEF NotOvertaken, TypeOK
<1> HIDE DEF c
<1>5. /\ n \in Nat /\ DOMAIN reviews = 1 .. n /\ DOMAIN reviews' = 1 .. n + 1
      /\ \A i \in 1 .. n : reviews'[i] = reviews[i] /\ reviews[i].at \in Nat
      /\ reviews'[n + 1] = row
  BY <1>1, RowTypes DEF TypeOK
<1>6. Existing' = Existing
  BY <1>1 DEF Existing
<1>7. /\ cards'[w] = c
      /\ \A v \in Existing : v # w => cards'[v] = cards[v]
  BY <1>1 DEF Existing
<1>8. RowsKnown'
  BY <1>1, <1>2, <1>4, <1>5, <1>6 DEF RowsKnown
<1>9. NewIffUnreviewed'
  <2>1. ASSUME NEW v \in Existing, v # w
        PROVE  IsNew(v)' <=> RowsOf(v)' = {}
    <3>1. RowsOf(v)' = RowsOf(v)
      BY <1>5, <2>1 DEF RowsOf
    <3> QED BY <1>7, <2>1, <3>1 DEF NewIffUnreviewed, IsNew
  <2>2. ~IsNew(w)'
    BY <1>1, <1>7 DEF IsNew
  <2>3. n + 1 \in RowsOf(w)'
    BY <1>5 DEF RowsOf
  <2> QED BY <1>6, <2>1, <2>2, <2>3 DEF NewIffUnreviewed
<1>10. \A i \in 1 .. n : reviews[i].word = w => reviews[i].at <= req[t].now
  BY <1>0, <1>1, <1>3, <1>5 DEF NotOvertaken
<1>11. RowsInOrder'
  <2>1. ASSUME NEW i \in DOMAIN reviews', NEW j \in DOMAIN reviews',
               reviews'[i].word = reviews'[j].word, i <= j
        PROVE  reviews'[i].at <= reviews'[j].at
    <3>1. CASE j \in 1 .. n
      BY <1>5, <2>1, <3>1 DEF RowsInOrder
    <3>2. CASE j = n + 1 /\ i \in 1 .. n
      BY <1>5, <1>10, <2>1, <3>2
    <3>3. CASE j = n + 1 /\ i = n + 1
      BY <1>4, <1>5, <3>3
    <3> QED BY <1>5, <3>1, <3>2, <3>3
  <2> QED BY <2>1 DEF RowsInOrder
<1>12. ASSUME NEW u \in Tabs, At(u, "grade")'
       PROVE  /\ req'[u].now <= clock'
              /\ page'[u].token = cards'[page'[u].word].updated
                   => \A i \in DOMAIN reviews' :
                        reviews'[i].word = page'[u].word => reviews'[i].at <= req'[u].now
  <2>1. u # t /\ req'[u] = req[u] /\ At(u, "grade")
    BY <1>12 DEF GradeTx, At, Ask, Idle, TypeOK
  <2>2. req[u].now <= clock
    BY <2>1 DEF NotOvertaken
  <2>3. page[u] \in Forms /\ page[u].word \in Existing
        /\ page[u].token <= cards[page[u].word].updated
    BY <2>1, PageKinds DEF HoldsForm, TokensIssued, TypeOK
  <2>4. CASE page[u].word = w
    <3>1. page[u].token \in Nat /\ c.updated \in Nat /\ cards[w].updated \in Nat
      BY <1>1, <2>3, CardTokens DEF Forms, CardRows
    <3>2. page'[u].token # cards'[page'[u].word].updated
      BY <1>1, <1>2, <1>7, <2>3, <2>4, <3>1
    <3> QED BY <1>2, <2>1, <2>2, <3>2
  <2>5. CASE page[u].word # w
    <3>1. cards'[page[u].word] = cards[page[u].word]
      BY <1>7, <2>3, <2>5
    <3>2. page[u].token = cards[page[u].word].updated
            => \A i \in 1 .. n : reviews[i].word = page[u].word => reviews[i].at <= req[u].now
      BY <1>5, <2>1 DEF NotOvertaken
    <3>3. row.word = w
      OBVIOUS
    <3> QED BY <1>2, <1>5, <2>1, <2>2, <2>5, <3>1, <3>2, <3>3
  <2> QED BY <2>4, <2>5
<1> QED BY <1>8, <1>9, <1>11, <1>12 DEF NotOvertaken

\* A step that writes no row keeps every card; a card that comes is a new one.
LEMMA TabsLeaveCards ==
  ASSUME IInv, NEW t \in Tabs, User(t) \/ Handler(t) \/ Fail(t), reviews' = reviews
  PROVE  cards' = cards
<1>1. NextStep(t) => cards' = cards
  BY NextStepShape DEF db
<1>2. ASSUME NEW htmx \in BOOLEAN, GradeTx(t, htmx)
      PROVE  cards' = cards
  <2>1. CASE Accepts(page[t], req[t].grade, req[t].sentence)
    <3>1. PICK row : reviews' = Append(reviews, row)
      BY <1>2, <2>1, GradeEffect DEF IInv, Held
    <3> QED BY <3>1 DEF IInv, TypeOK
  <2>2. CASE ~Accepts(page[t], req[t].grade, req[t].sentence)
    BY <1>2, <2>2 DEF GradeTx
  <2> QED BY <2>1, <2>2
<1> QED BY <1>1, <1>2 DEF User, HandleReviewGet, HandleReviewPost, Handler, Fail, db

LEMMA CardsOrExtract ==
  ASSUME IInv, [Next]_vars, reviews' = reviews,
         ~\E s \in Sentences, now \in 0 .. clock : Extract(s, now)
  PROVE  cards' = cards
BY TabsLeaveCards DEF Next, Tick, LoseOccurrences, vars, db

LEMMA CardsStay ==
  ASSUME IInv, [Next]_vars, reviews' = reviews
  PROVE  /\ Existing \subseteq Existing'
         /\ \A w \in Existing : cards'[w] = cards[w]
         /\ \A w \in Existing' \ Existing : \E id, now \in Nat : cards'[w] = NewCard(id, now)
<1>1. CASE \E s \in Sentences, now \in 0 .. clock : Extract(s, now)
  <2>1. PICK s \in Sentences, now \in 0 .. clock : Extract(s, now)
    BY <1>1
  <2>2. now \in Nat
    BY DEF IInv, TypeOK
  <2>3. /\ Existing \subseteq Existing'
        /\ \A w \in Existing : cards'[w] = cards[w]
        /\ \A w \in Existing' \ Existing : \E id \in Nat : cards'[w] = NewCard(id, now)
    BY <2>1, <2>2, ExtractCards DEF IInv
  <2> HIDE DEF Existing
  <2> QED BY ONLY <2>2, <2>3
<1>2. CASE ~\E s \in Sentences, now \in 0 .. clock : Extract(s, now)
  <2>1. cards' = cards
    BY <1>2, CardsOrExtract
  <2> QED BY <2>1 DEF Existing
<1> QED BY <1>1, <1>2

LEMMA ClockMoves ==
  ASSUME IInv, [Next]_vars
  PROVE  clock \in Nat /\ clock' \in Nat /\ clock <= clock'
<1>1. clock' = clock \/ clock' = clock + 1
  <2>1. \A t \in Tabs : NextStep(t) => clock' = clock
    BY NextStepShape
  <2> QED BY <2>1 DEF Next, Tick, Extract, LoseOccurrences, User, HandleReviewGet,
                     HandleReviewPost, Handler, GradeTx, Fail, vars
<1> QED BY <1>1 DEF IInv, TypeOK

LEMMA LogStep == IInv /\ LogInv /\ [Next]_vars => LogInv'
<1> SUFFICES ASSUME IInv, LogInv, [Next]_vars
             PROVE  LogInv'
  OBVIOUS
<1>1. CASE reviews' # reviews
  BY <1>1, ReviewsWriter, GradeTxLog
<1>2. CASE reviews' = reviews
  <2>1. clock \in Nat /\ clock' \in Nat /\ clock' >= clock
    BY ClockMoves
  <2>2. /\ Existing \subseteq Existing'
        /\ \A w \in Existing : cards'[w] = cards[w]
        /\ \A w \in Existing' \ Existing : cards'[w].sched.phase = "new"
    <3>1. \A id, now : NewCard(id, now).sched.phase = "new"
      BY DEF NewCard, NewState
    <3>2. \A w \in Existing' \ Existing : \E id, now \in Nat : cards'[w] = NewCard(id, now)
      BY <1>2, CardsStay
    <3>3. Existing \subseteq Existing' /\ \A w \in Existing : cards'[w] = cards[w]
      BY <1>2, CardsStay
    <3> QED BY <3>1, <3>2, <3>3
  <2>3. ASSUME NEW u \in Tabs, At(u, "grade")'
        PROVE  /\ page'[u] = page[u]
               /\ \/ At(u, "grade") /\ req'[u].now = req[u].now
                  \/ IsForm(page[u]) /\ req'[u].now = clock
    <3>1. CASE UNCHANGED <<req, page>>
      BY <2>3, <3>1 DEF At
    <3>2. ASSUME NEW t \in Tabs, User(t)
          PROVE  /\ page'[u] = page[u]
                 /\ \/ At(u, "grade") /\ req'[u].now = req[u].now
                    \/ IsForm(page[u]) /\ req'[u].now = clock
      BY <2>3, <3>2 DEF User, HandleReviewGet, HandleReviewPost, Ask, At, IInv, TypeOK
    <3>3. ASSUME NEW t \in Tabs, NextStep(t)
          PROVE  page'[u] = page[u] /\ At(u, "grade") /\ req'[u] = req[u]
      BY <2>3, <3>3, NextStepShape DEF Answer, At, Idle, Asking, IInv, TypeOK
    <3>4. ASSUME NEW t \in Tabs, Fail(t) \/ \E htmx \in BOOLEAN : GradeTx(t, htmx)
          PROVE  page'[u] = page[u] /\ At(u, "grade") /\ req'[u] = req[u]
      BY <2>3, <3>4 DEF Fail, GradeTx, Ask, At, Idle, IInv, TypeOK
    <3>5. CASE Next /\ ~UNCHANGED <<req, page>>
      BY <3>2, <3>3, <3>4, <3>5 DEF Next, Tick, Extract, LoseOccurrences, Handler
    <3> QED BY <3>1, <3>5 DEF vars
  <2> QED BY <1>2, <2>1, <2>2, <2>3, LogKept
<1> QED BY <1>1, <1>2

LEMMA LogInvariance == Spec => []LogInv
<1>1. Init => LogInv
  BY DEF Init, LogInv, RowsKnown, NewIffUnreviewed, NotOvertaken, RowsInOrder, Existing,
         At, Idle
<1> QED BY <1>1, LogStep, Invariance, PTL DEF Spec

\* The two reads behind the cap on new cards agree for ever: a card's phase is
\* new exactly while reviews has no row of it.
THEOREM NewMeansUnreviewed == Spec => []NewIffUnreviewed
BY LogInvariance, PTL DEF LogInv

\* The rows of a card are dated in the order they were written, though now is
\* read before the transaction and tabs race for it.
THEOREM RowsDatedInOrder == Spec => []RowsInOrder
BY LogInvariance, PTL DEF LogInv

-----------------------------------------------------------------------------
(* The schedule of a card is what its rows make of it.  The invariant says  *)
(* that there is a replay which ends there; Replayed then can be no other.  *)

\* What the n-th row makes of the state f has after those before it.
Replay(f, base, w, rows, n) ==
  IF n = 0 THEN base
  ELSE IF rows[n].word = w THEN Apply(f[n - 1], rows[n].grade, rows[n].at)
  ELSE f[n - 1]

IsReplay(f, base, w, rows) ==
  f = [n \in 0 .. Len(rows) |-> Replay(f, base, w, rows, n)]

EndsIn(f, rows, sched) == f[Len(rows)] = sched

CanReplay(base, w, rows, sched) ==
  \E f : IsReplay(f, base, w, rows) /\ EndsIn(f, rows, sched)

Replays == \A w \in Existing :
  CanReplay(NewState(cards[w].created), w, reviews, cards[w].sched)

LEMMA LeastOf ==
  ASSUME NEW S \in SUBSET Nat, S # {}
  PROVE  \E n \in S : \A m \in S : n <= m
<1> DEFINE R == {p \in Nat \X Nat : p[1] < p[2]}
<1>1. IsWellFoundedOn(R, Nat)
  <2>1. R = OpToRel(<, Nat)
    BY DEF OpToRel
  <2> QED BY <2>1, NatLessThanWellFounded, Zenon
<1> HIDE DEF R
<1>2. \E n \in S : \A m \in S : ~(<<m, n>> \in R)
  BY <1>1, WFMin
<1>3. ASSUME NEW n \in S, NEW m \in S, ~(<<m, n>> \in R) PROVE n <= m
  <2>1. <<m, n>> \in Nat \X Nat /\ <<m, n>>[1] = m /\ <<m, n>>[2] = n
    OBVIOUS
  <2>2. ~(m < n)
    BY <1>3, <2>1 DEF R
  <2> QED BY <2>1, <2>2
<1> QED BY <1>2, <1>3

\* Two replays are the same: there is no first row at which they differ.
LEMMA OneReplay ==
  ASSUME NEW f, NEW g, NEW base, NEW w, NEW rows, Len(rows) \in Nat,
         IsReplay(f, base, w, rows), IsReplay(g, base, w, rows)
  PROVE  f = g
<1> DEFINE differ == {n \in 0 .. Len(rows) : f[n] # g[n]}
<1>1. \A n \in 0 .. Len(rows) : /\ f[n] = Replay(f, base, w, rows, n)
                                /\ g[n] = Replay(g, base, w, rows, n)
  BY DEF IsReplay
<1>2. differ = {}
  <2> SUFFICES ASSUME differ # {} PROVE FALSE
    OBVIOUS
  <2>1. PICK n \in differ : \A m \in differ : n <= m
    <3>1. differ \in SUBSET Nat
      OBVIOUS
    <3> QED BY <3>1, LeastOf
  <2>2. n \in 0 .. Len(rows) /\ f[n] # g[n]
    OBVIOUS
  <2>3. n # 0
    BY <1>1, <2>2 DEF Replay
  <2>4. n - 1 \in 0 .. Len(rows) /\ n - 1 \notin differ
    BY <2>1, <2>2, <2>3
  <2>5. f[n - 1] = g[n - 1]
    BY <2>4
  <2>6. Replay(f, base, w, rows, n) = Replay(g, base, w, rows, n)
    BY <2>5 DEF Replay
  <2> QED BY <1>1, <2>2, <2>6
<1>3. \A n \in 0 .. Len(rows) : f[n] = g[n]
  BY <1>2
<1>4. /\ f = [n \in 0 .. Len(rows) |-> f[n]]
      /\ g = [n \in 0 .. Len(rows) |-> g[n]]
  BY DEF IsReplay
<1> QED BY <1>3, <1>4

\* So the recursive function is the replay, if there is one.
LEMMA ReplayOfIs ==
  ASSUME NEW w, NEW created, NEW rows, Len(rows) \in Nat, NEW f,
         IsReplay(f, NewState(created), w, rows)
  PROVE  ReplayOf(w, created, rows) = f
<1> DEFINE base == NewState(created)
           state == CHOOSE h : h = [n \in 0 .. Len(rows) |->
                      IF n = 0 THEN NewState(created)
                      ELSE IF rows[n].word = w
                           THEN Apply(h[n - 1], rows[n].grade, rows[n].at)
                           ELSE h[n - 1]]
<1>1. ReplayOf(w, created, rows) = state
  BY DEF ReplayOf
<1>2. IsReplay(state, base, w, rows)
  BY DEF IsReplay, Replay
<1> HIDE DEF state, base
<1>3. IsReplay(f, base, w, rows)
  BY DEF base
<1>4. state = f
  BY <1>2, <1>3, OneReplay
<1> QED BY <1>1, <1>4

LEMMA ReplayedIs ==
  ASSUME TypeOK, NEW w \in Existing,
         CanReplay(NewState(cards[w].created), w, reviews, cards[w].sched)
  PROVE  cards[w].sched = Replayed(w)
<1>1. PICK f : /\ IsReplay(f, NewState(cards[w].created), w, reviews)
               /\ EndsIn(f, reviews, cards[w].sched)
  BY DEF CanReplay
<1>2. ReplayOf(w, cards[w].created, reviews) = f
  BY <1>1, ReplayOfIs DEF TypeOK
<1> QED BY <1>1, <1>2 DEF Replayed, EndsIn

\* The replay of a card without rows stays at its start.
LEMMA NoRowsReplay ==
  ASSUME NEW base, NEW w, NEW rows, Len(rows) \in Nat,
         \A i \in 1 .. Len(rows) : rows[i].word # w
  PROVE  CanReplay(base, w, rows, base)
<1> DEFINE f == [n \in 0 .. Len(rows) |-> base]
<1>1. ASSUME NEW n \in 0 .. Len(rows)
      PROVE  Replay(f, base, w, rows, n) = base
  <2>1. CASE n = 0
    BY <2>1 DEF Replay
  <2>2. CASE n # 0
    <3>1. n \in 1 .. Len(rows) /\ n - 1 \in 0 .. Len(rows)
      BY <2>2
    <3> QED BY <2>2, <3>1 DEF Replay
  <2> QED BY <2>1, <2>2
<1>2. IsReplay(f, base, w, rows)
  BY <1>1 DEF IsReplay
<1>3. EndsIn(f, rows, base)
  BY DEF EndsIn
<1> HIDE DEF f
<1> QED BY <1>2, <1>3 DEF CanReplay

\* One more row moves the replay on by Apply, or not at all.
Prolongs(g, f, base, w, more, n) ==
  /\ IsReplay(g, base, w, more)
  /\ \A i \in 0 .. n : g[i] = f[i]
  /\ g[n + 1] = IF more[n + 1].word = w THEN Apply(f[n], more[n + 1].grade, more[n + 1].at)
                                       ELSE f[n]

LEMMA LongerReplay ==
  ASSUME NEW base, NEW w, NEW rows, NEW more, NEW f, NEW n \in Nat,
         Len(rows) = n, Len(more) = n + 1,
         \A i \in 1 .. n : more[i] = rows[i],
         IsReplay(f, base, w, rows)
  PROVE  \E g : Prolongs(g, f, base, w, more, n)
<1>1. PICK row : row = more[n + 1]
  OBVIOUS
<1>2. f = [i \in 0 .. n |-> Replay(f, base, w, rows, i)]
  BY DEF IsReplay
<1>3. PICK last : last = IF row.word = w THEN Apply(f[n], row.grade, row.at) ELSE f[n]
  OBVIOUS
<1> DEFINE g == [i \in 0 .. n + 1 |-> IF i = n + 1 THEN last ELSE f[i]]
<1>4. g[n + 1] = last /\ \A i \in 0 .. n : g[i] = f[i]
  OBVIOUS
<1>5. ASSUME NEW i \in 0 .. n + 1
      PROVE  g[i] = Replay(g, base, w, more, i)
  <2>1. CASE i = 0
    <3>1. g[0] = f[0] /\ f[0] = Replay(f, base, w, rows, 0)
      BY <1>2, <1>4
    <3> QED BY <2>1, <3>1 DEF Replay
  <2>2. CASE i \in 1 .. n
    <3>1. i # 0 /\ i \in 0 .. n /\ i - 1 \in 0 .. n
      BY <2>2
    <3>2. g[i] = f[i] /\ g[i - 1] = f[i - 1] /\ more[i] = rows[i]
      BY <1>4, <2>2, <3>1
    <3>3. f[i] = Replay(f, base, w, rows, i)
      BY <1>2, <3>1
    <3> HIDE DEF g
    <3>4. Replay(f, base, w, rows, i) = Replay(g, base, w, more, i)
      BY <3>1, <3>2 DEF Replay
    <3> QED BY <3>2, <3>3, <3>4
  <2>3. CASE i = n + 1
    <3>1. n + 1 # 0 /\ n + 1 - 1 = n /\ g[n] = f[n]
      BY <1>4
    <3> HIDE DEF g
    <3> QED BY <1>1, <1>3, <1>4, <2>3, <3>1 DEF Replay
  <2> QED BY <2>1, <2>2, <2>3
<1>6. IsReplay(g, base, w, more)
  BY <1>5 DEF IsReplay
<1> HIDE DEF g
<1> QED BY <1>1, <1>3, <1>4, <1>6 DEF Prolongs

LEMMA OneMoreRow ==
  ASSUME NEW base, NEW w, NEW rows, NEW more, NEW sched, NEW n \in Nat, NEW row,
         Len(rows) = n, Len(more) = n + 1,
         \A i \in 1 .. n : more[i] = rows[i],
         more[n + 1] = row,
         CanReplay(base, w, rows, sched)
  PROVE  CanReplay(base, w, more,
                   IF row.word = w THEN Apply(sched, row.grade, row.at) ELSE sched)
<1>1. PICK f : IsReplay(f, base, w, rows) /\ EndsIn(f, rows, sched)
  BY DEF CanReplay
<1>2. PICK g : Prolongs(g, f, base, w, more, n)
  BY <1>1, LongerReplay
<1> QED BY <1>1, <1>2 DEF Prolongs, EndsIn, CanReplay

\* A row and the grade it is of keep every card at the end of its replay.
RowWritten(w, g, now, row) ==
  /\ row.word = w /\ row.grade = g /\ row.at = now
  /\ cards' = [cards EXCEPT ![w] = Graded(w, g, now)]
  /\ reviews' = Append(reviews, row)

LEMMA RowReplays ==
  ASSUME TypeOK, Replays, NEW w \in Existing, NEW g, NEW now, NEW row,
         RowWritten(w, g, now, row)
  PROVE  Replays'
<1>0. /\ row.word = w /\ row.grade = g /\ row.at = now
      /\ cards' = [cards EXCEPT ![w] = Graded(w, g, now)]
      /\ reviews' = Append(reviews, row)
  BY DEF RowWritten
<1>1. Existing' = Existing /\ \A v \in Existing : v # w => cards'[v] = cards[v]
  BY <1>0 DEF Existing
<1>2. /\ cards'[w].created = cards[w].created
      /\ cards'[w].sched = Apply(cards[w].sched, g, now)
  <2>1. cards[w] \in CardRows /\ cards'[w] = Graded(w, g, now)
    BY <1>0 DEF TypeOK, Existing
  <2> QED BY <2>1 DEF Graded, CardRows
<1>3. PICK n \in Nat : n = Len(reviews)
  BY DEF TypeOK
<1>4. /\ Len(reviews') = n + 1
      /\ \A i \in 1 .. n : reviews'[i] = reviews[i]
      /\ reviews'[n + 1] = row
  BY <1>0, <1>3 DEF TypeOK
<1>5. ASSUME NEW v \in Existing
      PROVE  CanReplay(NewState(cards'[v].created), v, reviews', cards'[v].sched)
  <2>1. PICK base : base = NewState(cards[v].created)
    OBVIOUS
  <2>2. PICK sched : sched = cards[v].sched
    OBVIOUS
  <2>3. CanReplay(base, v, reviews, sched)
    BY <2>1, <2>2 DEF Replays
  <2>4. CanReplay(base, v, reviews',
                  IF row.word = v THEN Apply(sched, row.grade, row.at) ELSE sched)
    BY <1>3, <1>4, <2>3, OneMoreRow
  <2>5. /\ base = NewState(cards'[v].created)
        /\ cards'[v].sched = IF row.word = v THEN Apply(sched, row.grade, row.at) ELSE sched
    BY <1>0, <1>1, <1>2, <2>1, <2>2
  <2> QED BY <2>4, <2>5
<1> QED BY <1>1, <1>5 DEF Replays

LEMMA NewCardsReplay ==
  ASSUME TypeOK, RowsKnown, Replays, reviews' = reviews,
         \A w \in Existing : cards'[w] = cards[w],
         \A w \in Existing' \ Existing : \E id, now \in Nat : cards'[w] = NewCard(id, now)
  PROVE  Replays'
<1>1. ASSUME NEW w \in Existing'
      PROVE  CanReplay(NewState(cards'[w].created), w, reviews', cards'[w].sched)
  <2>1. CASE w \in Existing
    BY <2>1 DEF Replays
  <2>2. CASE w \notin Existing
    <3>1. cards'[w].sched = NewState(cards'[w].created)
      <4>1. PICK id \in Nat, now \in Nat : cards'[w] = NewCard(id, now)
        BY <2>2
      <4>2. NewCard(id, now).sched = NewState(NewCard(id, now).created)
        BY DEF NewCard
      <4> QED BY <4>1, <4>2
    <3>2. Len(reviews) \in Nat /\ \A i \in 1 .. Len(reviews) : reviews[i].word # w
      BY <2>2, RowTypes DEF RowsKnown
    <3>3. PICK base : base = NewState(cards'[w].created)
      OBVIOUS
    <3>4. CanReplay(base, w, reviews, base)
      BY <3>2, NoRowsReplay
    <3> QED BY <3>1, <3>3, <3>4
  <2> QED BY <2>1, <2>2
<1> QED BY <1>1 DEF Replays

LEMMA GradeTxReplays ==
  ASSUME IInv, Replays, NEW t \in Tabs, NEW htmx \in BOOLEAN, GradeTx(t, htmx),
         Accepts(page[t], req[t].grade, req[t].sentence)
  PROVE  Replays'
<1>1. PICK w, g, now : w = page[t].word /\ g = req[t].grade /\ now = req[t].now
  OBVIOUS
<1>2. PICK row : row = [word |-> w, sentence |-> req[t].sentence, grade |-> g, at |-> now]
  OBVIOUS
<1>3. row.word = w /\ row.grade = g /\ row.at = now
  BY <1>2
<1>4. /\ w \in Existing /\ cards' = [cards EXCEPT ![w] = Graded(w, g, now)]
      /\ reviews' = Append(reviews, row)
  BY <1>1, <1>2, GradeEffect DEF IInv, Held
<1>5. RowWritten(w, g, now, row)
  BY <1>3, <1>4 DEF RowWritten
<1> QED BY <1>4, <1>5, RowReplays DEF IInv

LEMMA ReplaysStep == IInv /\ LogInv /\ Replays /\ [Next]_vars => Replays'
<1> SUFFICES ASSUME IInv, LogInv, Replays, [Next]_vars
             PROVE  Replays'
  OBVIOUS
<1>1. CASE reviews' # reviews
  BY <1>1, ReviewsWriter, GradeTxReplays
<1>2. CASE reviews' = reviews
  <2>1. /\ \A w \in Existing : cards'[w] = cards[w]
        /\ \A w \in Existing' \ Existing : \E id, now \in Nat : cards'[w] = NewCard(id, now)
    BY <1>2, CardsStay
  <2> QED BY <1>2, <2>1, NewCardsReplay DEF IInv, LogInv
<1> QED BY <1>1, <1>2

\* The schedule of every card is what replaying its rows gives, for any number
\* of tabs and grades: Grade's transaction reads the state it writes over.
THEOREM HistoryAlwaysReplays == Spec => []HistoryReplays
<1>1. Init => Replays
  BY DEF Init, Replays, Existing
<1>2. IInv /\ Replays => HistoryReplays
  BY ReplayedIs DEF IInv, Replays, HistoryReplays
<1> QED BY <1>1, <1>2, ReplaysStep, LogInvariance, Invariance, PTL DEF Spec

-----------------------------------------------------------------------------
(* The caps: who may still write a row that its day's count did not see.   *)

\* A grade of the form that t shows would be accepted; it would introduce a card.
Open(t) == IsForm(page[t]) /\ page[t].token = cards[page[t].word].updated
OpenNew(t) == Open(t) /\ IsNew(page[t].word)

\* The request of t is past the check of the cap, and may end in such a form.
Counted(t) == req[t].pc \in {"due", "introduced", "new", "build", "sentence"}
CountedNew(t) == At(t, "new") \/ (req[t].pc \in Building /\ IsNew(req[t].pick))

\* A tab may yet write a row of the day d: it is grading with a now of that day; or
\* the day is not over and it shows a form, or is past the check, or will check
\* an earlier day, its request being older.
Armed(t, d, open, counted) ==
  \/ At(t, "grade") /\ Day(req[t].now) = d /\ open
  \/ /\ Day(clock) <= d
     /\ open \/ counted \/ (~At(t, "idle") /\ Day(req[t].now) < d)

MayReview(d) == {t \in Tabs : Armed(t, d, Open(t), Counted(t))}
MayIntroduce(d) == {t \in Tabs : Armed(t, d, OpenNew(t), CountedNew(t))}

\* A day that has reached its limit has room for the tabs in A, but for one: the
\* row that reached the limit was one tab's own.
Slack(n, A, limit) ==
  n > 0 /\ n >= limit => n + Cardinality(A) <= limit + Cardinality(Tabs) - 1

SlackLeft(d) == /\ Slack(ReviewsOn(d), MayReview(d), SessionLimit)
                /\ Slack(IntroducedOn(d), MayIntroduce(d), NewPerDay)

\* With a cap of zero nothing is ever shown.
NoneAtZero ==
  SessionLimit = 0 \/ NewPerDay = 0 =>
    /\ reviews = <<>>
    /\ \A t \in Tabs : /\ ~IsForm(page[t])
                       /\ req[t].pc \notin {"new", "build", "sentence"}
                       /\ SessionLimit = 0 => ~Counted(t)

NowPast == \A t \in Tabs : ~At(t, "idle") => req[t].now <= clock

CapsInv == NowPast /\ NoneAtZero /\ \A d \in Nat : SlackLeft(d)

LEMMA DayOrder ==
  ASSUME NEW a \in Nat, NEW b \in Nat, a <= b
  PROVE  Day(a) \in Nat /\ Day(b) \in Nat /\ Day(a) <= Day(b)
<1>1. DayTicks \in Nat \ {0}
  BY ParamsAssumption
<1>2. ASSUME NEW n \in Nat
      PROVE  /\ Day(n) \in Nat
             /\ Day(n) * DayTicks <= n /\ n < (Day(n) + 1) * DayTicks
  BY <1>1 DEF Day
<1>3. Day(a) * DayTicks < (Day(b) + 1) * DayTicks
  <2>1. Day(a) * DayTicks \in Nat /\ (Day(b) + 1) * DayTicks \in Nat
    BY <1>1, <1>2
  <2> QED BY <1>2, <2>1
<1>4. PICK p \in Nat, q \in Nat : p = Day(a) /\ q = Day(b)
  BY <1>2
<1>5. p * DayTicks < (q + 1) * DayTicks
  BY <1>3, <1>4
<1>6. ~(q + 1 <= p)
  <2> SUFFICES ASSUME q + 1 <= p PROVE FALSE
    OBVIOUS
  <2>1. (q + 1) * DayTicks <= p * DayTicks
    BY <1>1
  <2>2. p * DayTicks \in Nat /\ (q + 1) * DayTicks \in Nat
    BY <1>1
  <2> QED BY <1>5, <2>1, <2>2
<1>7. p <= q
  BY <1>6
<1> QED BY <1>2, <1>4, <1>7

\* No step takes a card away, sets a token back or makes a card new again.
NewNext(w) == cards'[w].sched.phase = "new"
CardsGoOn ==
  /\ Existing \subseteq Existing'
  /\ \A w \in Existing : /\ cards'[w].updated >= cards[w].updated
                         /\ NewNext(w) => IsNew(w)

LEMMA CardsMove ==
  ASSUME IInv, [Next]_vars
  PROVE  CardsGoOn
<1>1. CASE reviews' = reviews
  <2>1. Existing \subseteq Existing' /\ \A w \in Existing : cards'[w] = cards[w]
    BY <1>1, CardsStay
  <2> QED BY <2>1, CardTokens DEF CardsGoOn, NewNext, IsNew, IInv
<1>2. CASE reviews' # reviews
  <2>1. PICK t \in Tabs, htmx \in BOOLEAN :
          GradeTx(t, htmx) /\ Accepts(page[t], req[t].grade, req[t].sentence)
    BY <1>2, ReviewsWriter
  <2>2. PICK w, c : w = page[t].word /\ c = Graded(w, req[t].grade, req[t].now)
    OBVIOUS
  <2>3. /\ w \in Existing /\ cards' = [cards EXCEPT ![w] = c]
        /\ c \in CardRows /\ c.updated > cards[w].updated /\ c.sched.phase # "new"
    BY <2>1, <2>2, GradeEffect DEF IInv, Held
  <2>4. c.updated \in Nat /\ \A v \in Existing : cards[v].updated \in Nat
    BY <2>3, CardTokens DEF CardRows, IInv
  <2>5. Existing' = Existing
    BY <2>3 DEF Existing
  <2> QED BY <2>3, <2>4, <2>5 DEF CardsGoOn, NewNext, IsNew, Existing
<1> QED BY <1>1, <1>2

\* What one step may do to a tab: begin a request now; change what it shows;
\* pass a check.
Began(t) == req'[t].now = clock
SameNow(t) == ~At(t, "idle") /\ req'[t].now = req[t].now

RequestMoves(t) ==
  /\ At(t, "grade")' => page'[t] = page[t] /\ (Began(t) \/ (At(t, "grade") /\ SameNow(t)))
  /\ ~At(t, "idle")' => Began(t) \/ SameNow(t)

PageMoves(t) ==
  \/ page'[t] = page[t] \/ ~IsForm(page'[t])
  \/ At(t, "sentence") /\ page'[t].word = req[t].pick /\ cards' = cards

ChecksMove(t) ==
  /\ Counted(t)' => Counted(t) \/ (At(t, "count") /\ ReviewsOn(Day(req[t].now)) < SessionLimit)
  /\ At(t, "new")' =>
       At(t, "new") \/ (At(t, "introduced") /\ IntroducedOn(Day(req[t].now)) < NewPerDay)

PickMoves(t) ==
  req'[t].pc \in Building =>
    \/ req[t].pc \in Building /\ req'[t].pick = req[t].pick
    \/ At(t, "due") /\ req'[t].pick \in DueCards(req[t].now) /\ cards' = cards
    \/ At(t, "new") /\ cards' = cards

TabMoves(t) == RequestMoves(t) /\ PageMoves(t) /\ ChecksMove(t) /\ PickMoves(t)

LEMMA TabRests ==
  ASSUME NEW t \in Tabs, req'[t] = req[t], page'[t] = page[t]
  PROVE  TabMoves(t)
BY DEF TabMoves, RequestMoves, PageMoves, ChecksMove, PickMoves, Began, SameNow, At, Counted

\* The steps that concern no tab, or another tab.
LEMMA OtherTabs ==
  ASSUME IInv, [Next]_vars, NEW t \in Tabs
  PROVE  \/ req'[t] = req[t] /\ page'[t] = page[t]
         \/ User(t) \/ Handler(t) \/ Fail(t)
<1>1. ASSUME NEW u \in Tabs, u # t, User(u) \/ Fail(u)
      PROVE  req'[t] = req[t] /\ page'[t] = page[t]
  BY <1>1 DEF User, HandleReviewGet, HandleReviewPost, Fail, IInv, TypeOK
<1>2. ASSUME NEW u \in Tabs, u # t, NEW htmx \in BOOLEAN, GradeTx(u, htmx)
      PROVE  req'[t] = req[t] /\ page'[t] = page[t]
  BY <1>2 DEF GradeTx, IInv, TypeOK
<1>3. ASSUME NEW u \in Tabs, u # t, NextStep(u)
      PROVE  req'[t] = req[t] /\ page'[t] = page[t]
  BY <1>3, NextStepShape DEF Answer, IInv, TypeOK
<1>4. CASE UNCHANGED <<req, page>>
  BY <1>4
<1>5. CASE \E u \in Tabs : User(u) \/ Handler(u) \/ Fail(u)
  BY <1>1, <1>2, <1>3, <1>5 DEF Handler
<1> QED BY <1>4, <1>5 DEF Next, Tick, Extract, LoseOccurrences, vars

\* The requests that begin or end, and those that only change their place.
LEMMA Begins ==
  ASSUME TypeOK, NEW t \in Tabs, page' = page, NEW r,
         req' = [req EXCEPT ![t] = r],
         r.pc \in {"idle", "count", "grade"}, r.pc = "grade" => r.now = clock,
         r.pc = "count" => r.now = clock \/ (~At(t, "idle") /\ r.now = req[t].now)
  PROVE  TabMoves(t)
<1>1. req'[t] = r
  BY DEF TypeOK
<1>2. RequestMoves(t)
  BY <1>1 DEF RequestMoves, Began, SameNow, At
<1>3. PageMoves(t) /\ ChecksMove(t) /\ PickMoves(t)
  BY <1>1 DEF PageMoves, ChecksMove, PickMoves, Counted, Building, At
<1> QED BY <1>2, <1>3 DEF TabMoves

LEMMA Ends ==
  ASSUME TypeOK, NEW t \in Tabs, NEW p, Answer(t, p),
         IsForm(p) => At(t, "sentence") /\ p.word = req[t].pick /\ cards' = cards
  PROVE  TabMoves(t)
<1>1. req'[t] = Idle /\ page'[t] = p
  BY DEF Answer, TypeOK
<1> QED BY <1>1 DEF TabMoves, RequestMoves, PageMoves, ChecksMove, PickMoves, Counted,
                    Building, At, Idle

\* From one query of Next to another.
LEMMA GoesOnTo ==
  ASSUME TypeOK, NEW t \in Tabs, page' = page, NEW r, req' = [req EXCEPT ![t] = r],
         ~At(t, "idle"), r.now = req[t].now,
         r.pc \notin {"idle", "grade"},
         Counted(t) \/ (At(t, "count") /\ ReviewsOn(Day(req[t].now)) < SessionLimit),
         r.pc = "new" => At(t, "introduced") /\ IntroducedOn(Day(req[t].now)) < NewPerDay,
         r.pc \in Building =>
           \/ req[t].pc \in Building /\ r.pick = req[t].pick
           \/ At(t, "due") /\ r.pick \in DueCards(req[t].now) /\ cards' = cards
           \/ At(t, "new") /\ cards' = cards
  PROVE  TabMoves(t)
<1>1. req'[t] = r
  BY DEF TypeOK
<1>2. RequestMoves(t) /\ PageMoves(t)
  BY <1>1 DEF RequestMoves, PageMoves, SameNow, At
<1>3. ChecksMove(t) /\ PickMoves(t)
  BY <1>1 DEF ChecksMove, PickMoves, Counted, At
<1> QED BY <1>2, <1>3 DEF TabMoves

LEMMA CountsAre ==
  ASSUME TypeOK
  PROVE  /\ \A d : IsFiniteSet(RowsOn(d)) /\ IsFiniteSet(Introduced(d))
         /\ \A d : ReviewsOn(d) \in Nat /\ IntroducedOn(d) \in Nat
<1>1. ASSUME NEW d
      PROVE  IsFiniteSet(RowsOn(d)) /\ IsFiniteSet(Introduced(d))
  <2>1. IsFiniteSet(DOMAIN reviews)
    <3>1. Len(reviews) \in Nat /\ DOMAIN reviews = 1 .. Len(reviews) /\ 1 \in Int
      BY RowTypes
    <3> QED BY <3>1, FS_Interval
  <2>2. RowsOn(d) \subseteq DOMAIN reviews /\ Introduced(d) \subseteq Words
    BY DEF RowsOn, Introduced, Existing, TypeOK
  <2> QED BY <2>1, <2>2, ReviewAssumption, FS_Subset
<1> QED BY <1>1, FS_CardinalityType DEF ReviewsOn, IntroducedOn

CountsTyped == \A d : ReviewsOn(d) \in Nat /\ IntroducedOn(d) \in Nat

LEMMA CountsNext == TypeOK' => CountsTyped'
<1>1. TypeOK => CountsTyped
  BY CountsAre DEF CountsTyped
<1> QED BY <1>1, PTL

LEMMA NextStepMoves ==
  ASSUME IInv, NEW t \in Tabs, NextStep(t)
  PROVE  TabMoves(t)
<1> USE DEF IInv
<1>0. ~IsForm(EmptyPage)
  BY PageKinds
<1>1. req[t] \in Asking
  <2>1. req[t].pc \in {"count", "due", "introduced", "new", "build", "sentence"}
    BY DEF NextStep, NextCount, NextDue, NextIntroduced, NextNew, NextLoad, NextPresent,
           NextSkip, BuildFails, At
  <2> QED BY <2>1, RequestOf
<1>2. ~At(t, "idle")
  BY <1>1 DEF Asking, At
<1>3. CASE Answer(t, EmptyPage)
  BY <1>0, <1>3, Ends
<1>4. CASE NextCount(t) /\ ~Answer(t, EmptyPage)
  <2>1. /\ At(t, "count") /\ page' = page /\ Goto(t, "due")
        /\ ~(ReviewsOn(Day(req[t].now)) >= SessionLimit)
    BY <1>4 DEF NextCount
  <2>2. ReviewsOn(Day(req[t].now)) < SessionLimit
    BY <2>1, CountsAre, ReviewAssumption
  <2> DEFINE r == [req[t] EXCEPT !.pc = "due"]
  <2>3. r.pc = "due" /\ r.now = req[t].now /\ req' = [req EXCEPT ![t] = r]
    BY <1>1, <2>1 DEF Goto, Asking
  <2> HIDE DEF r
  <2> QED BY <1>2, <2>1, <2>2, <2>3, GoesOnTo DEF Building
<1>5. CASE NextDue(t)
  <2>1. At(t, "due") /\ page' = page /\ cards' = cards /\ Counted(t)
    BY <1>5 DEF NextDue, db, Counted, At
  <2>2. CASE Goto(t, "introduced")
    <3> DEFINE r == [req[t] EXCEPT !.pc = "introduced"]
    <3>1. r.pc = "introduced" /\ r.now = req[t].now /\ req' = [req EXCEPT ![t] = r]
      BY <1>1, <2>2 DEF Goto, Asking
    <3> HIDE DEF r
    <3> QED BY <1>2, <2>1, <3>1, GoesOnTo DEF Building
  <2>3. ASSUME NEW w \in DueCards(req[t].now), Picked(t, w)
        PROVE  TabMoves(t)
    <3> DEFINE r == [req[t] EXCEPT !.pc = "build", !.pick = w]
    <3>1. r.pc = "build" /\ r.pick = w /\ r.now = req[t].now /\ req' = [req EXCEPT ![t] = r]
      BY <1>1, <2>3 DEF Picked, Asking, TypeOK
    <3> HIDE DEF r
    <3> QED BY <1>2, <2>1, <3>1, GoesOnTo
  <2> QED BY <1>5, <2>2, <2>3 DEF NextDue
<1>6. CASE NextIntroduced(t) /\ ~Answer(t, EmptyPage)
  <2>1. /\ At(t, "introduced") /\ page' = page /\ Goto(t, "new") /\ Counted(t)
        /\ ~(IntroducedOn(Day(req[t].now)) >= NewPerDay)
    BY <1>6 DEF NextIntroduced, Counted, At
  <2>2. IntroducedOn(Day(req[t].now)) < NewPerDay
    BY <2>1, CountsAre, ReviewAssumption
  <2> DEFINE r == [req[t] EXCEPT !.pc = "new"]
  <2>3. r.pc = "new" /\ r.now = req[t].now /\ req' = [req EXCEPT ![t] = r]
    BY <1>1, <2>1 DEF Goto, Asking
  <2> HIDE DEF r
  <2> QED BY <1>2, <2>1, <2>2, <2>3, GoesOnTo DEF Building
<1>7. CASE NextNew(t) /\ ~Answer(t, EmptyPage)
  <2>1. At(t, "new") /\ page' = page /\ cards' = cards /\ Counted(t)
    BY <1>7 DEF NextNew, db, Counted, At
  <2>2. PICK w \in NewCards : Picked(t, w)
    BY <1>7 DEF NextNew
  <2> DEFINE r == [req[t] EXCEPT !.pc = "build", !.pick = w]
  <2>3. r.pc = "build" /\ r.pick = w /\ r.now = req[t].now /\ req' = [req EXCEPT ![t] = r]
    BY <1>1, <2>2 DEF Picked, Asking, TypeOK
  <2> HIDE DEF r
  <2> QED BY <1>2, <2>1, <2>3, GoesOnTo
<1>8. CASE NextLoad(t)
  <2>1. At(t, "build") /\ page' = page /\ Counted(t) /\ req[t].pc \in Building
    BY <1>8 DEF NextLoad, Counted, At, Building
  <2> DEFINE r == [req[t] EXCEPT !.pc = "sentence", !.token = cards[req[t].pick].updated]
  <2>2. /\ r.pc = "sentence" /\ r.pick = req[t].pick /\ r.now = req[t].now
        /\ req' = [req EXCEPT ![t] = r]
    BY <1>1, <1>8 DEF NextLoad, Asking, TypeOK
  <2> HIDE DEF r
  <2> QED BY <1>2, <2>1, <2>2, GoesOnTo
<1>9. CASE NextPresent(t)
  <2>1. At(t, "sentence") /\ cards' = cards
    BY <1>9 DEF NextPresent, db
  <2>2. PICK o \in occ : Answer(t, Item(req[t].pick, req[t].token, o))
    BY <1>9 DEF NextPresent
  <2> QED BY <2>1, <2>2, Ends DEF Item
<1>10. CASE NextSkip(t) /\ ~Answer(t, EmptyPage)
  <2>1. page' = page /\ Counted(t)
    BY <1>10 DEF NextSkip, BuildFails, Counted, At
  <2> DEFINE r == [req[t] EXCEPT !.pc = "due", !.skip = req[t].skip \cup {req[t].pick},
                                 !.tries = req[t].tries + 1, !.token = 0]
  <2>2. req' = [req EXCEPT ![t] = r]
    BY <1>10 DEF NextSkip, TypeOK
  <2>3. r.pc = "due" /\ r.now = req[t].now
    BY <1>1 DEF Asking
  <2> HIDE DEF r
  <2> QED BY <1>2, <2>1, <2>2, <2>3, GoesOnTo DEF Building
<1> QED BY <1>3, <1>4, <1>5, <1>6, <1>7, <1>8, <1>9, <1>10 DEF NextStep

LEMMA EveryTabMoves ==
  ASSUME IInv, [Next]_vars, NEW t \in Tabs
  PROVE  TabMoves(t)
<1> USE DEF IInv
<1>1. CASE User(t)
  <2>1. page' = page /\ At(t, "idle")
    BY <1>1 DEF User, HandleReviewGet, HandleReviewPost
  <2>2. CASE HandleReviewGet(t)
    <3>1. PICK r : r = Ask(clock)
      OBVIOUS
    <3>2. r.pc = "count" /\ r.now = clock /\ req' = [req EXCEPT ![t] = r]
      BY <2>2, <3>1 DEF HandleReviewGet, Ask
    <3> QED BY <2>1, <3>2, Begins
  <2>3. ASSUME NEW g \in GradeInputs, NEW s \in Sentences, HandleReviewPost(t, g, s)
        PROVE  TabMoves(t)
    <3>1. PICK r : r = [pc |-> "grade", now |-> clock, grade |-> g, sentence |-> s]
      OBVIOUS
    <3>2. r.pc = "grade" /\ r.now = clock /\ req' = [req EXCEPT ![t] = r]
      BY <2>3, <3>1 DEF HandleReviewPost
    <3> QED BY <2>1, <3>2, Begins
  <2> QED BY <1>1, <2>2, <2>3 DEF User
<1>2. CASE NextStep(t)
  BY <1>2, NextStepMoves
<1>3. ASSUME NEW htmx \in BOOLEAN, GradeTx(t, htmx)
      PROVE  TabMoves(t)
  <2>1. page' = page /\ ~At(t, "idle")
    BY <1>3 DEF GradeTx, At
  <2>2. PICK r : r = IF htmx THEN Ask(req[t].now) ELSE Idle
    OBVIOUS
  <2>3. /\ r.pc \in {"idle", "count"} /\ (r.pc = "count" => r.now = req[t].now)
        /\ req' = [req EXCEPT ![t] = r]
    BY <1>3, <2>2 DEF GradeTx, Ask, Idle
  <2> QED BY <2>1, <2>3, Begins
<1>4. CASE Fail(t)
  <2>1. PICK r : r = Idle
    OBVIOUS
  <2>2. r.pc = "idle" /\ page' = page /\ req' = [req EXCEPT ![t] = r]
    BY <1>4, <2>1 DEF Fail, Idle
  <2> QED BY <2>2, Begins
<1> QED BY <1>1, <1>2, <1>3, <1>4, OtherTabs, TabRests DEF Handler

\* A form that is open after a step was open, or its request was past the check.
LEMMA OpenMoves ==
  ASSUME IInv, [Next]_vars, NEW t \in Tabs
  PROVE  /\ Open(t)' => IF page'[t] = page[t] THEN Open(t) ELSE Counted(t)
         /\ OpenNew(t)' => IF page'[t] = page[t] THEN OpenNew(t) ELSE CountedNew(t)
<1> USE DEF IInv, Held
<1>0. PICK w, token : w = page'[t].word /\ token = page'[t].token
  OBVIOUS
<1>1. /\ Open(t)' <=> IsForm(page'[t]) /\ token = cards'[w].updated
      /\ OpenNew(t)' <=> Open(t)' /\ NewNext(w)
  BY <1>0 DEF Open, OpenNew, IsForm, IsNew, NewNext
<1>2. CASE page'[t] = page[t]
  <2> SUFFICES ASSUME IsForm(page[t]), token = cards'[w].updated
               PROVE  Open(t) /\ (NewNext(w) => OpenNew(t))
    BY <1>1, <1>2
  <2>3. w \in Existing /\ token <= cards[w].updated
    BY <1>0, <1>2 DEF TokensIssued
  <2>4. token \in Nat /\ cards[w].updated \in Nat
    BY <1>0, <1>2, <2>3, PageKinds, CardTokens DEF TypeOK, Forms
  <2>5. cards'[w].updated >= cards[w].updated /\ (NewNext(w) => IsNew(w))
    BY <2>3, CardsMove DEF CardsGoOn
  <2>6. token = cards[w].updated
    BY <2>3, <2>4, <2>5
  <2> QED BY <1>0, <1>2, <2>5, <2>6 DEF Open, OpenNew
<1>3. CASE page'[t] # page[t]
  <2> SUFFICES ASSUME IsForm(page'[t])
               PROVE  Counted(t) /\ (NewNext(w) => CountedNew(t))
    BY <1>1, <1>3
  <2>1. At(t, "sentence") /\ page'[t].word = req[t].pick /\ cards' = cards
    BY <1>3, EveryTabMoves DEF TabMoves, PageMoves
  <2>2. Counted(t)
    BY <2>1 DEF Counted, At
  <2>3. NewNext(w) => IsNew(req[t].pick)
    BY <1>0, <2>1 DEF NewNext, IsNew
  <2>4. req[t].pc \in Building
    BY <2>1 DEF At, Building
  <2> QED BY <2>2, <2>3, <2>4 DEF CountedNew
<1> QED BY <1>2, <1>3

\* A request that is past the check of new cards, or has picked one, was so
\* before or has just passed it.
LEMMA CountedNewMoves ==
  ASSUME IInv, [Next]_vars, NEW t \in Tabs, CountedNew(t)'
  PROVE  \/ CountedNew(t)
         \/ At(t, "introduced") /\ IntroducedOn(Day(req[t].now)) < NewPerDay
<1> USE DEF IInv, Held
<1>0. PICK w : w = req'[t].pick
  OBVIOUS
<1>1. CASE At(t, "new")'
  <2>1. At(t, "new") \/ (At(t, "introduced") /\ IntroducedOn(Day(req[t].now)) < NewPerDay)
    BY <1>1, EveryTabMoves DEF TabMoves, ChecksMove
  <2> QED BY <2>1 DEF CountedNew
<1>2. CASE req'[t].pc \in Building /\ NewNext(w)
  <2>1. CASE req[t].pc \in Building /\ w = req[t].pick
    <3>1. w \in Existing
      BY <2>1 DEF PicksReal, Real
    <3>2. IsNew(w)
      BY <1>2, <3>1, CardsMove DEF CardsGoOn
    <3> QED BY <2>1, <3>2 DEF CountedNew
  <2>2. CASE w \in DueCards(req[t].now) /\ cards' = cards
    BY <1>2, <2>2 DEF DueCards, IsDue, NewNext
  <2>3. CASE At(t, "new")
    BY <2>3 DEF CountedNew
  <2>4. PickMoves(t)
    BY EveryTabMoves DEF TabMoves
  <2> QED BY <1>0, <1>2, <2>1, <2>2, <2>3, <2>4 DEF PickMoves
<1>3. At(t, "new")' \/ (req'[t].pc \in Building /\ NewNext(w))
  BY <1>0 DEF CountedNew, IsNew, NewNext, At
<1> QED BY <1>1, <1>2, <1>3

\* No tab is armed for a day that has begun by a step, unless it is let past
\* the check on that day.
LEMMA ArmedStays ==
  ASSUME IInv, NowPast, [Next]_vars, NEW t \in Tabs, NEW d \in Nat, d <= Day(clock),
         NEW open \in BOOLEAN, NEW counted \in BOOLEAN, NEW opens \in BOOLEAN, NEW counts \in BOOLEAN,
         opens => IF page'[t] = page[t] THEN open ELSE counted,
         counts => counted \/ (~At(t, "idle") /\ Day(req[t].now) # d),
         Armed(t, d, opens, counts)'
  PROVE  Armed(t, d, open, counted)
<1>1. /\ clock \in Nat /\ clock' \in Nat
      /\ Day(clock) \in Nat /\ Day(clock') \in Nat /\ Day(clock) <= Day(clock')
  BY ClockMoves, DayOrder
<1>2. ~At(t, "idle") => Day(req[t].now) \in Nat /\ Day(req[t].now) <= Day(clock)
  <2> SUFFICES ASSUME ~At(t, "idle") PROVE Day(req[t].now) \in Nat /\ Day(req[t].now) <= Day(clock)
    OBVIOUS
  <2>1. req[t].now \in Nat /\ req[t].now <= clock
    BY RequestOf DEF IInv, NowPast
  <2> QED BY <1>1, <2>1, DayOrder
<1>3. RequestMoves(t)
  BY EveryTabMoves DEF TabMoves
<1>4. CASE At(t, "grade")' /\ Day(req'[t].now) = d /\ opens
  <2>1. page'[t] = page[t] /\ open
    BY <1>3, <1>4 DEF RequestMoves
  <2>2. CASE Began(t)
    <3>1. Day(clock) = d
      BY <1>4, <2>2 DEF Began
    <3> QED BY <1>1, <2>1, <3>1 DEF Armed
  <2>3. CASE At(t, "grade") /\ SameNow(t)
    BY <1>4, <2>1, <2>3 DEF Armed, SameNow
  <2> QED BY <1>3, <1>4, <2>2, <2>3 DEF RequestMoves
<1>5. CASE /\ Day(clock') <= d
           /\ opens \/ counts \/ (~At(t, "idle")' /\ Day(req'[t].now) < d)
  <2>1. Day(clock) = d
    BY <1>1, <1>5
  <2>2. CASE opens
    BY <1>1, <2>1, <2>2 DEF Armed
  <2>3. CASE counts /\ ~counted
    BY <1>1, <1>2, <2>1, <2>3 DEF Armed
  <2>4. CASE counted
    BY <1>1, <2>1, <2>4 DEF Armed
  <2>5. CASE ~At(t, "idle")' /\ Day(req'[t].now) < d
    <3>1. ~Began(t)
      BY <1>1, <2>1, <2>5 DEF Began
    <3>2. SameNow(t)
      BY <1>3, <2>5, <3>1 DEF RequestMoves
    <3> QED BY <1>1, <2>1, <2>5, <3>2 DEF SameNow, Armed
  <2> QED BY <1>5, <2>2, <2>3, <2>4, <2>5
<1> QED BY <1>4, <1>5 DEF Armed, At

\* A day at its limit arms nobody.
LEMMA NobodyElse ==
  ASSUME IInv, NowPast, [Next]_vars, NEW d \in Nat, d <= Day(clock)
  PROVE  /\ ReviewsOn(d) >= SessionLimit => MayReview(d)' \subseteq MayReview(d)
         /\ IntroducedOn(d) >= NewPerDay => MayIntroduce(d)' \subseteq MayIntroduce(d)
<1>0. /\ \A e : ReviewsOn(e) \in Nat /\ IntroducedOn(e) \in Nat
      /\ SessionLimit \in Nat /\ NewPerDay \in Nat
  BY CountsAre, ReviewAssumption DEF IInv
<1>1. ASSUME ReviewsOn(d) >= SessionLimit, NEW t \in Tabs, t \in MayReview(d)'
      PROVE  t \in MayReview(d)
  <2>0. /\ Open(t) \in BOOLEAN /\ Counted(t) \in BOOLEAN
        /\ Open(t)' \in BOOLEAN /\ Counted(t)' \in BOOLEAN
    BY DEF Open, Counted
  <2>1. PICK open \in BOOLEAN, counted \in BOOLEAN : open = Open(t) /\ counted = Counted(t)
    BY <2>0
  <2>2. PICK opens \in BOOLEAN, counts \in BOOLEAN : opens = Open(t)' /\ counts = Counted(t)'
    BY <2>0
  <2>3. Armed(t, d, opens, counts)'
    BY <1>1, <2>2 DEF MayReview, Armed, At
  <2>4. opens => IF page'[t] = page[t] THEN open ELSE counted
    BY <2>1, <2>2, OpenMoves
  <2>5. counts => counted \/ (~At(t, "idle") /\ Day(req[t].now) # d)
    <3>1. Counted(t)' => Counted(t) \/ (At(t, "count") /\ ReviewsOn(Day(req[t].now)) < SessionLimit)
      BY EveryTabMoves DEF TabMoves, ChecksMove
    <3>2. At(t, "count") => ~At(t, "idle")
      BY DEF At
    <3>3. ReviewsOn(Day(req[t].now)) < SessionLimit => Day(req[t].now) # d
      BY <1>0, <1>1
    <3> QED BY <2>1, <2>2, <3>1, <3>2, <3>3
  <2>6. Armed(t, d, open, counted)
    BY <2>3, <2>4, <2>5, ArmedStays
  <2> QED BY <2>1, <2>6 DEF MayReview
<1>2. ASSUME IntroducedOn(d) >= NewPerDay, NEW t \in Tabs, t \in MayIntroduce(d)'
      PROVE  t \in MayIntroduce(d)
  <2>0. /\ OpenNew(t) \in BOOLEAN /\ CountedNew(t) \in BOOLEAN
        /\ OpenNew(t)' \in BOOLEAN /\ CountedNew(t)' \in BOOLEAN
    BY DEF OpenNew, CountedNew, Open, IsNew, At
  <2>1. PICK open \in BOOLEAN, counted \in BOOLEAN : open = OpenNew(t) /\ counted = CountedNew(t)
    BY <2>0
  <2>2. PICK opens \in BOOLEAN, counts \in BOOLEAN :
          opens = OpenNew(t)' /\ counts = CountedNew(t)'
    BY <2>0
  <2>3. Armed(t, d, opens, counts)'
    BY <1>2, <2>2 DEF MayIntroduce, Armed, At
  <2>4. opens => IF page'[t] = page[t] THEN open ELSE counted
    BY <2>1, <2>2, OpenMoves
  <2>5. counts => counted \/ (~At(t, "idle") /\ Day(req[t].now) # d)
    <3>1. CountedNew(t)' => \/ CountedNew(t)
                            \/ At(t, "introduced") /\ IntroducedOn(Day(req[t].now)) < NewPerDay
      BY CountedNewMoves
    <3>2. At(t, "introduced") => ~At(t, "idle")
      BY DEF At
    <3>3. IntroducedOn(Day(req[t].now)) < NewPerDay => Day(req[t].now) # d
      BY <1>0, <1>2
    <3> QED BY <2>1, <2>2, <3>1, <3>2, <3>3
  <2>6. Armed(t, d, open, counted)
    BY <2>3, <2>4, <2>5, ArmedStays
  <2> QED BY <2>1, <2>6 DEF MayIntroduce
<1> QED BY <1>1, <1>2 DEF MayReview, MayIntroduce

\* The tab whose grade is accepted was armed for the day of its row, and no
\* longer is: its form is stale, and its request, if it goes on, is of that day.
LEMMA GradeDisarms ==
  ASSUME IInv, NEW t \in Tabs, NEW htmx \in BOOLEAN, GradeTx(t, htmx),
         Accepts(page[t], req[t].grade, req[t].sentence),
         NEW d \in Nat, d = Day(req[t].now)
  PROVE  /\ t \in MayReview(d) /\ t \notin MayReview(d)'
         /\ IsNew(page[t].word) => t \in MayIntroduce(d)
         /\ t \notin MayIntroduce(d)'
<1> USE DEF IInv, Held
<1>1. At(t, "grade") /\ page' = page /\ IsForm(page[t])
  BY DEF GradeTx, HoldsForm
<1>2. Open(t) /\ (IsNew(page[t].word) => OpenNew(t))
  BY <1>1 DEF Accepts, Open, OpenNew
<1>3. t \in MayReview(d) /\ (IsNew(page[t].word) => t \in MayIntroduce(d))
  BY <1>1, <1>2 DEF MayReview, MayIntroduce, Armed
<1>4. PICK r : r = IF htmx THEN Ask(req[t].now) ELSE Idle
  OBVIOUS
<1>5. r.pc \in {"idle", "count"} /\ (r.pc = "count" => r.now = req[t].now) /\ req'[t] = r
  BY <1>4 DEF GradeTx, Ask, Idle, TypeOK
<1>6. ~Open(t)'
  <2>1. PICK w, c : w = page[t].word /\ c = Graded(w, req[t].grade, req[t].now)
    OBVIOUS
  <2>2. /\ w \in Existing /\ page[t].token = cards[w].updated
        /\ cards' = [cards EXCEPT ![w] = c]
        /\ c \in CardRows /\ c.updated > cards[w].updated
    BY <2>1, GradeEffect
  <2>3. c.updated \in Nat /\ cards[w].updated \in Nat /\ cards'[w] = c
    BY <2>2, CardTokens DEF CardRows, Existing
  <2>4. page'[t].token # cards'[page'[t].word].updated
    BY <1>1, <2>1, <2>2, <2>3
  <2> QED BY <2>4 DEF Open
<1>7. ~Counted(t)' /\ ~CountedNew(t)' /\ ~OpenNew(t)' /\ ~At(t, "grade")'
      /\ (~At(t, "idle")' => Day(req'[t].now) = d)
  BY <1>5, <1>6 DEF Counted, CountedNew, OpenNew, Building, At
<1>8. t \notin MayReview(d)' /\ t \notin MayIntroduce(d)'
  BY <1>6, <1>7 DEF MayReview, MayIntroduce, Armed, At
<1> QED BY <1>3, <1>8

\* What a row changes in the counts of the days: its own day has one more, and
\* one more card was introduced on it only if the card was new.
RowAdds(d, w) ==
  /\ RowsOn(d)' = RowsOn(d) \cup {Len(reviews) + 1}
  /\ Introduced(d)' \subseteq Introduced(d) \cup {w}
  /\ ~IsNew(w) => Introduced(d)' \subseteq Introduced(d)

LEMMA RowCounts ==
  ASSUME IInv, LogInv, NEW t \in Tabs, NEW htmx \in BOOLEAN, GradeTx(t, htmx),
         Accepts(page[t], req[t].grade, req[t].sentence),
         NEW d, d = Day(req[t].now), NEW w, w = page[t].word
  PROVE  /\ RowAdds(d, w)
         /\ \A e : e # d => RowsOn(e)' = RowsOn(e) /\ Introduced(e)' \subseteq Introduced(e)
<1> USE DEF IInv, Held, LogInv
<1>1. PICK row, now : row = [word |-> w, sentence |-> req[t].sentence,
                             grade |-> req[t].grade, at |-> req[t].now] /\ now = req[t].now
  OBVIOUS
<1>2. row.word = w /\ row.at = now /\ d = Day(now)
  BY <1>1
<1>3. /\ w \in Existing /\ page[t].token = cards[w].updated
      /\ cards' = [cards EXCEPT ![w] = Graded(w, req[t].grade, req[t].now)]
      /\ reviews' = Append(reviews, row)
  BY <1>1, GradeEffect
<1>4. Existing' = Existing
  BY <1>3 DEF Existing
<1>5. PICK n \in Nat : n = Len(reviews)
  BY RowTypes
<1>6. /\ DOMAIN reviews = 1 .. n /\ DOMAIN reviews' = 1 .. n + 1
      /\ \A i \in 1 .. n : reviews'[i] = reviews[i]
      /\ reviews'[n + 1] = row
  BY <1>3, <1>5, RowTypes DEF TypeOK
<1>7. RowsOn(d)' = RowsOn(d) \cup {n + 1}
  BY <1>2, <1>6 DEF RowsOn
<1>8. \A e : e # d => RowsOn(e)' = RowsOn(e)
  BY <1>2, <1>6 DEF RowsOn
<1>9. RowsOf(w)' = RowsOf(w) \cup {n + 1} /\ \A v : v # w => RowsOf(v)' = RowsOf(v)
  BY <1>2, <1>6 DEF RowsOf
<1>10. \A v : RowsOf(v) \subseteq 1 .. n
  BY <1>6 DEF RowsOf
<1>11. ASSUME NEW e, NEW v \in Introduced(e)', v # w \/ e # d
       PROVE  v \in Introduced(e)
  <2>1. PICK i \in RowsOf(v)' : Day(reviews'[i].at) = e
    BY <1>11 DEF Introduced, Day
  <2>2. /\ v \in Existing
        /\ \A j \in RowsOf(v)' : Day(reviews'[j].at) >= e
    BY <1>4, <1>11 DEF Introduced, Day
  <2>3. RowsOf(v) \subseteq RowsOf(v)' /\ i \in RowsOf(v)
    <3>1. CASE v # w
      BY <1>9, <3>1
    <3>2. CASE v = w /\ e # d
      <4>1. i # n + 1
        BY <1>2, <1>6, <2>1, <3>2
      <4> QED BY <1>9, <2>1, <3>2, <4>1
    <3> QED BY <1>11, <3>1, <3>2
  <2>4. \A j \in RowsOf(v) : reviews'[j] = reviews[j]
    BY <1>6, <1>10
  <2> QED BY <2>1, <2>2, <2>3, <2>4 DEF Introduced
<1>12. ASSUME ~IsNew(w), w \in Introduced(d)'
       PROVE  w \in Introduced(d)
  <2>1. PICK i \in RowsOf(w) : TRUE
    BY <1>3, <1>12 DEF NewIffUnreviewed
  <2>2. /\ \A j \in RowsOf(w)' : Day(reviews'[j].at) >= d
    BY <1>12 DEF Introduced, Day
  <2>3. \A j \in RowsOf(w) : Day(reviews[j].at) >= d
    BY <1>6, <1>9, <1>10, <2>2
  <2>4. reviews[i].at \in Nat /\ now \in Nat /\ reviews[i].at <= now
    <3>1. At(t, "grade")
      BY DEF GradeTx
    <3>2. reviews[i].at <= now
      BY <1>1, <1>3, <2>1, <3>1 DEF NotOvertaken, RowsOf
    <3>3. req[t].now \in Nat
      BY <3>1, RequestOf DEF At
    <3> QED BY <1>1, <2>1, <3>2, <3>3, RowTypes DEF RowsOf
  <2>5. Day(reviews[i].at) <= d /\ Day(reviews[i].at) \in Nat /\ d \in Nat
    BY <1>2, <2>4, DayOrder
  <2>6. Day(reviews[i].at) = d
    BY <2>1, <2>3, <2>5
  <2> QED BY <1>3, <2>1, <2>3, <2>6 DEF Introduced
<1>13. \A e : e # d => Introduced(e)' \subseteq Introduced(e)
  BY <1>11
<1>14. Introduced(d)' \subseteq Introduced(d) \cup {w}
  BY <1>11
<1>15. ~IsNew(w) => Introduced(d)' \subseteq Introduced(d)
  BY <1>12, <1>14
<1>16. RowAdds(d, w)
  BY <1>5, <1>7, <1>14, <1>15 DEF RowAdds
<1> QED BY <1>8, <1>13, <1>16

\* A count with its tabs in step: no more of either, or one more and one tab less.
LEMMA SlackKept ==
  ASSUME NEW n \in Nat, NEW m \in Nat, NEW limit \in Nat \ {0},
         NEW A \in SUBSET Tabs, NEW B \in SUBSET Tabs,
         Slack(n, A, limit), m <= n, n >= limit => B \subseteq A
  PROVE  Slack(m, B, limit)
<1>1. /\ IsFiniteSet(A) /\ IsFiniteSet(B) /\ Cardinality(A) \in Nat /\ Cardinality(B) \in Nat
      /\ Cardinality(Tabs) \in Nat
  BY ReviewAssumption, FS_Subset, FS_CardinalityType
<1>2. B \subseteq A => Cardinality(B) <= Cardinality(A)
  BY <1>1, FS_Subset
<1> QED BY <1>1, <1>2 DEF Slack

LEMMA SlackUsed ==
  ASSUME NEW n \in Nat, NEW m \in Nat, NEW limit \in Nat \ {0},
         NEW A \in SUBSET Tabs, NEW B \in SUBSET Tabs, NEW t \in A, t \notin B,
         Slack(n, A, limit), m <= n + 1, n >= limit => B \subseteq A
  PROVE  Slack(m, B, limit)
<1>1. /\ IsFiniteSet(A) /\ Cardinality(A) \in Nat /\ Cardinality(B) \in Nat
      /\ IsFiniteSet(Tabs) /\ Cardinality(Tabs) \in Nat
  BY ReviewAssumption, FS_Subset, FS_CardinalityType
<1>2. ASSUME NEW C \in SUBSET Tabs, B \subseteq C, t \in C, IsFiniteSet(C)
      PROVE  Cardinality(B) <= Cardinality(C) - 1
  <2>1. B \subseteq C \ {t}
    BY <1>2
  <2>2. IsFiniteSet(C \ {t}) /\ Cardinality(C \ {t}) = Cardinality(C) - 1
    BY <1>2, FS_RemoveElement
  <2> QED BY <2>1, <2>2, FS_Subset
<1>3. Cardinality(B) <= Cardinality(Tabs) - 1
  BY <1>1, <1>2
<1>4. CASE n >= limit
  <2>1. Cardinality(B) <= Cardinality(A) - 1
    BY <1>1, <1>2, <1>4
  <2> QED BY <1>1, <1>4, <2>1 DEF Slack
<1>5. CASE n < limit
  BY <1>1, <1>3, <1>5 DEF Slack
<1> QED BY <1>4, <1>5

LEMMA NowPastStep ==
  ASSUME IInv, NowPast, [Next]_vars
  PROVE  NowPast'
<1>1. clock \in Nat /\ clock' \in Nat /\ clock <= clock'
  BY ClockMoves
<1>2. ASSUME NEW t \in Tabs, ~At(t, "idle")'
      PROVE  req'[t].now <= clock'
  <2>1. Began(t) \/ SameNow(t)
    BY <1>2, EveryTabMoves DEF TabMoves, RequestMoves
  <2>2. CASE Began(t)
    BY <1>1, <2>2 DEF Began
  <2>3. CASE SameNow(t)
    <3>1. req[t].now \in Nat /\ req[t].now <= clock
      BY <2>3, RequestOf DEF SameNow, NowPast, IInv
    <3> QED BY <1>1, <2>3, <3>1 DEF SameNow
  <2> QED BY <2>1, <2>2, <2>3
<1> QED BY <1>2 DEF NowPast, At

LEMMA NoneAtZeroStep ==
  ASSUME IInv, LogInv, NoneAtZero, [Next]_vars
  PROVE  NoneAtZero'
<1> USE DEF IInv, Held
<1> SUFFICES ASSUME SessionLimit = 0 \/ NewPerDay = 0
             PROVE  /\ reviews' = <<>>
                    /\ \A t \in Tabs : /\ ~IsForm(page'[t])
                                       /\ req'[t].pc \notin {"new", "build", "sentence"}
                                       /\ SessionLimit = 0 => ~Counted(t)'
  BY DEF NoneAtZero, IsForm
<1>1. /\ reviews = <<>>
      /\ \A t \in Tabs : /\ ~IsForm(page[t])
                         /\ req[t].pc \notin {"new", "build", "sentence"}
                         /\ SessionLimit = 0 => ~Counted(t)
  BY DEF NoneAtZero
<1>2. \A d : ReviewsOn(d) \in Nat /\ IntroducedOn(d) \in Nat
  BY CountsAre
<1>3. reviews' = <<>>
  <2>1. \A t \in Tabs, htmx \in BOOLEAN : ~GradeTx(t, htmx)
    BY <1>1 DEF GradeTx, HoldsForm
  <2> QED BY <1>1, <2>1, ReviewsWriter
<1>4. ASSUME NEW t \in Tabs
      PROVE  /\ ~IsForm(page'[t])
             /\ req'[t].pc \notin {"new", "build", "sentence"}
             /\ SessionLimit = 0 => ~Counted(t)'
  <2>1. PageMoves(t) /\ ChecksMove(t) /\ PickMoves(t)
    BY EveryTabMoves DEF TabMoves
  <2>2. ~At(t, "sentence") /\ ~At(t, "new") /\ req[t].pc \notin Building
    BY <1>1 DEF At, Building
  <2>3. ~IsForm(page'[t])
    BY <1>1, <2>1, <2>2 DEF PageMoves
  <2>4. SessionLimit = 0 => ~Counted(t)'
    BY <1>1, <1>2, <2>1 DEF ChecksMove
  <2>5. req'[t].pc # "new"
    <3>1. CASE NewPerDay = 0
      BY <1>2, <2>1, <2>2, <3>1 DEF ChecksMove, At
    <3>2. CASE SessionLimit = 0
      <4>1. ~At(t, "introduced")
        BY <1>1, <3>2 DEF Counted, At
      <4> QED BY <2>1, <2>2, <4>1 DEF ChecksMove, At
    <3> QED BY <3>1, <3>2
  <2>6. req'[t].pc \notin Building
    <3>1. \A w \in Existing : IsNew(w)
      BY <1>1 DEF LogInv, NewIffUnreviewed, RowsOf
    <3>2. DueCards(req[t].now) = {}
      BY <3>1 DEF DueCards, IsDue, IsNew
    <3> QED BY <2>1, <2>2, <3>2 DEF PickMoves
  <2> QED BY <2>3, <2>4, <2>5, <2>6 DEF Building
<1> QED BY <1>3, <1>4

\* Only days that have begun have a count.
LEMMA CountedDays ==
  ASSUME IInv, LogInv, NEW d \in Nat, ReviewsOn(d) > 0 \/ IntroducedOn(d) > 0
  PROVE  d <= Day(clock)
<1>1. PICK i \in DOMAIN reviews : Day(reviews[i].at) = d
  <2>1. RowsOn(d) # {} \/ Introduced(d) # {}
    BY FS_EmptySet DEF ReviewsOn, IntroducedOn
  <2> QED BY <2>1 DEF RowsOn, Introduced, RowsOf
<1>2. reviews[i].at \in Nat /\ reviews[i].at <= clock /\ clock \in Nat
  BY RowTypes DEF LogInv, RowsKnown, IInv, TypeOK
<1> QED BY <1>1, <1>2, DayOrder

LEMMA AtMostOneMore ==
  ASSUME NEW S, IsFiniteSet(S), NEW x
  PROVE  /\ IsFiniteSet(S \cup {x}) /\ Cardinality(S \cup {x}) \in Nat
         /\ Cardinality(S \cup {x}) <= Cardinality(S) + 1
<1>1. /\ IsFiniteSet(S \cup {x}) /\ Cardinality(S) \in Nat
      /\ Cardinality(S \cup {x}) \in {Cardinality(S), Cardinality(S) + 1}
  BY FS_AddElement, FS_CardinalityType
<1> QED BY <1>1

LEMMA SlackStep ==
  ASSUME IInv, LogInv, CapsInv, [Next]_vars, NEW d \in Nat
  PROVE  SlackLeft(d)'
<1> USE DEF IInv, CapsInv
<1>0. PICK n \in Nat, m \in Nat, k \in Nat, l \in Nat :
        /\ n = ReviewsOn(d) /\ m = ReviewsOn(d)'
        /\ k = IntroducedOn(d) /\ l = IntroducedOn(d)'
  <2>1. ReviewsOn(d) \in Nat /\ IntroducedOn(d) \in Nat
    BY CountsAre
  <2>2. ReviewsOn(d)' \in Nat /\ IntroducedOn(d)' \in Nat
    BY TypeStep, CountsNext DEF CountsTyped
  <2> QED BY <2>1, <2>2
<1>1. PICK A \in SUBSET Tabs, B \in SUBSET Tabs, C \in SUBSET Tabs, D \in SUBSET Tabs :
        /\ A = MayReview(d) /\ B = MayReview(d)'
        /\ C = MayIntroduce(d) /\ D = MayIntroduce(d)'
  BY DEF MayReview, MayIntroduce
<1>2. Slack(n, A, SessionLimit) /\ Slack(k, C, NewPerDay)
  BY <1>0, <1>1 DEF SlackLeft
<1>3. SUFFICES Slack(m, B, SessionLimit) /\ Slack(l, D, NewPerDay)
  BY <1>0, <1>1 DEF SlackLeft, Slack
<1>4. CASE SessionLimit = 0 \/ NewPerDay = 0
  <2>1. reviews' = <<>>
    BY <1>4, NoneAtZeroStep DEF NoneAtZero
  <2>2. RowsOn(d)' = {} /\ Introduced(d)' = {}
    BY <2>1 DEF RowsOn, Introduced, RowsOf
  <2>3. m = 0 /\ l = 0
    BY <1>0, <2>2, FS_EmptySet DEF ReviewsOn, IntroducedOn
  <2> QED BY <2>3 DEF Slack
<1>5. CASE SessionLimit # 0 /\ NewPerDay # 0
  <2>1. SessionLimit \in Nat \ {0} /\ NewPerDay \in Nat \ {0}
    BY <1>5, ReviewAssumption
  <2>2. (n >= SessionLimit => B \subseteq A) /\ (k >= NewPerDay => D \subseteq C)
    <3>1. n > 0 \/ k > 0 => d <= Day(clock)
      BY <1>0, CountedDays
    <3>2. d <= Day(clock) => /\ n >= SessionLimit => B \subseteq A
                             /\ k >= NewPerDay => D \subseteq C
      BY <1>0, <1>1, NobodyElse
    <3> QED BY <2>1, <3>1, <3>2
  <2>3. ASSUME Introduced(d)' \subseteq Introduced(d)
        PROVE  l <= k
    BY <1>0, <2>3, CountsAre, FS_Subset DEF IntroducedOn
  <2>4. CASE reviews' = reviews
    <3>1. m = n
      BY <1>0, <2>4 DEF ReviewsOn, RowsOn
    <3>2. Introduced(d)' \subseteq Introduced(d)
      BY <2>4 DEF Introduced, RowsOf, LogInv, RowsKnown
    <3>3. m <= n /\ l <= k
      BY <2>3, <3>1, <3>2
    <3> QED BY <1>2, <2>1, <2>2, <3>3, SlackKept
  <2>5. CASE reviews' # reviews
    <3>1. PICK t \in Tabs, htmx \in BOOLEAN :
            GradeTx(t, htmx) /\ Accepts(page[t], req[t].grade, req[t].sentence)
      BY <2>5, ReviewsWriter
    <3>2. PICK e, w : e = Day(req[t].now) /\ w = page[t].word
      OBVIOUS
    <3>3. e \in Nat
      <4>1. req[t].now \in Nat
        BY <3>1, RequestOf DEF GradeTx, At
      <4> QED BY <3>2, <4>1, DayOrder
    <3>4. CASE d # e
      <4>1. RowsOn(d)' = RowsOn(d) /\ Introduced(d)' \subseteq Introduced(d)
        BY <3>1, <3>2, <3>4, RowCounts
      <4>2. m = n /\ l <= k
        BY <1>0, <2>3, <4>1 DEF ReviewsOn
      <4>3. m <= n
        BY <4>2
      <4> QED BY <1>2, <2>1, <2>2, <4>2, <4>3, SlackKept
    <3>5. CASE d = e
      <4>1. /\ RowsOn(d)' = RowsOn(d) \cup {Len(reviews) + 1}
            /\ Introduced(d)' \subseteq Introduced(d) \cup {w}
            /\ ~IsNew(w) => Introduced(d)' \subseteq Introduced(d)
        <5>1. RowAdds(d, w)
          BY <3>1, <3>2, <3>5, RowCounts
        <5> QED BY <5>1 DEF RowAdds
      <4>2. t \in A /\ t \notin B /\ (IsNew(w) => t \in C) /\ t \notin D
        BY <1>1, <3>1, <3>2, <3>3, <3>5, GradeDisarms
      <4>3. m <= n + 1
        <5>1. IsFiniteSet(RowsOn(d))
          BY CountsAre
        <5>2. PICK x : x = Len(reviews) + 1
          OBVIOUS
        <5>3. Cardinality(RowsOn(d) \cup {x}) <= Cardinality(RowsOn(d)) + 1
          BY <5>1, AtMostOneMore
        <5> QED BY <1>0, <4>1, <5>2, <5>3 DEF ReviewsOn
      <4>4. Slack(m, B, SessionLimit)
        BY <1>2, <2>1, <2>2, <4>2, <4>3, SlackUsed
      <4>5. CASE ~IsNew(w)
        <5>1. l <= k
          BY <2>3, <4>1, <4>5
        <5> QED BY <1>2, <2>1, <2>2, <4>4, <5>1, SlackKept
      <4>6. CASE IsNew(w)
        <5>1. l <= k + 1
          <6>1. IsFiniteSet(Introduced(d))
            BY CountsAre
          <6>2. /\ IsFiniteSet(Introduced(d) \cup {w}) /\ Cardinality(Introduced(d) \cup {w}) \in Nat
                /\ Cardinality(Introduced(d) \cup {w}) <= k + 1
            BY <1>0, <6>1, AtMostOneMore DEF IntroducedOn
          <6>3. l <= Cardinality(Introduced(d) \cup {w})
            BY <1>0, <4>1, <6>2, FS_Subset DEF IntroducedOn
          <6> QED BY <6>2, <6>3
        <5>2. t \in C /\ t \notin D
          BY <4>2, <4>6
        <5> QED BY <1>2, <2>1, <2>2, <4>4, <5>1, <5>2, SlackUsed
      <4> QED BY <4>5, <4>6
    <3> QED BY <3>4, <3>5
  <2> QED BY <2>4, <2>5
<1> QED BY <1>4, <1>5

LEMMA CapsStep == IInv /\ LogInv /\ CapsInv /\ [Next]_vars => CapsInv'
<1> SUFFICES ASSUME IInv, LogInv, CapsInv, [Next]_vars
             PROVE  CapsInv'
  OBVIOUS
<1>1. NowPast' /\ NoneAtZero'
  BY NowPastStep, NoneAtZeroStep DEF CapsInv
<1>2. \A d \in Nat : SlackLeft(d)'
  BY SlackStep
<1> QED BY <1>1, <1>2 DEF CapsInv

LEMMA CapsInit == Init => CapsInv
<1> SUFFICES ASSUME Init PROVE CapsInv
  OBVIOUS
<1>1. NowPast /\ NoneAtZero
  BY PageKinds DEF Init, NowPast, NoneAtZero, Counted, At, Idle
<1>2. ASSUME NEW d \in Nat PROVE SlackLeft(d)
  <2>1. RowsOn(d) = {} /\ Introduced(d) = {}
    BY DEF Init, RowsOn, Introduced, RowsOf
  <2>2. ReviewsOn(d) = 0 /\ IntroducedOn(d) = 0
    BY <2>1, FS_EmptySet DEF ReviewsOn, IntroducedOn
  <2> QED BY <2>2 DEF SlackLeft, Slack
<1> QED BY <1>1, <1>2 DEF CapsInv

LEMMA CapsFollow ==
  ASSUME IInv, LogInv, CapsInv
  PROVE  CapsKept
<1> USE DEF IInv
<1>1. ASSUME NEW i \in DOMAIN reviews, NEW d, d = Day(reviews[i].at)
      PROVE  /\ ReviewsOn(d) <= SessionLimit + Cardinality(Tabs) - 1
             /\ IntroducedOn(d) <= NewPerDay + Cardinality(Tabs) - 1
  <2>1. d \in Nat
    BY <1>1, RowTypes, DayOrder
  <2>2. PICK n \in Nat, k \in Nat, a \in Nat, b \in Nat, tabs \in Nat :
          /\ n = ReviewsOn(d) /\ k = IntroducedOn(d) /\ tabs = Cardinality(Tabs)
          /\ a = Cardinality(MayReview(d)) /\ b = Cardinality(MayIntroduce(d))
    <3>1. MayReview(d) \subseteq Tabs /\ MayIntroduce(d) \subseteq Tabs
      BY DEF MayReview, MayIntroduce
    <3>2. /\ Cardinality(Tabs) \in Nat /\ Cardinality(MayReview(d)) \in Nat
          /\ Cardinality(MayIntroduce(d)) \in Nat
      BY <3>1, ReviewAssumption, FS_Subset, FS_CardinalityType
    <3> QED BY <3>2, CountsAre
  <2>3. /\ n > 0 /\ n >= SessionLimit => n + a <= SessionLimit + tabs - 1
        /\ k > 0 /\ k >= NewPerDay => k + b <= NewPerDay + tabs - 1
    BY <2>1, <2>2 DEF CapsInv, SlackLeft, Slack
  <2>4. SessionLimit \in Nat \ {0} /\ NewPerDay \in Nat \ {0}
    <3>1. reviews # <<>>
      BY <1>1
    <3> QED BY <3>1, ReviewAssumption DEF CapsInv, NoneAtZero
  <2> QED BY <2>2, <2>3, <2>4
<1> QED BY <1>1 DEF CapsKept, SessionLimitSlack, NewPerDaySlack

\* The caps of a day are exceeded by at most one row, and one introduced card,
\* for each tab beyond the first, however requests interleave and whenever they
\* began; with one tab they are kept.  Next counts, Grade does not.
THEOREM CapsAlwaysKept == Spec => []CapsKept
<1>1. Spec => []CapsInv
  BY CapsInit, CapsStep, Invariance, LogInvariance, PTL DEF Spec
<1>2. IInv /\ LogInv /\ CapsInv => CapsKept
  BY CapsFollow
<1> QED BY <1>1, <1>2, Invariance, LogInvariance, PTL

-----------------------------------------------------------------------------
(* The numbers of the cards: ids are given in text order, after those there *)
(* are.                                                                     *)

LEMMA DisjointSum ==
  ASSUME NEW S, NEW T, IsFiniteSet(S), IsFiniteSet(T), S \cap T = {}
  PROVE  /\ IsFiniteSet(S \cup T)
         /\ Cardinality(S) \in Nat /\ Cardinality(T) \in Nat
         /\ Cardinality(S \cup T) = Cardinality(S) + Cardinality(T)
<1>1. Cardinality(S) \in Nat /\ Cardinality(T) \in Nat /\ Cardinality(S \cap T) = 0
  BY FS_CardinalityType, FS_EmptySet
<1>2. /\ IsFiniteSet(S \cup T)
      /\ Cardinality(S \cup T) = Cardinality(S) + Cardinality(T) - Cardinality(S \cap T)
  BY FS_Union
<1> QED BY <1>1, <1>2

LEMMA CountsOf ==
  ASSUME TypeOK
  PROVE  /\ IsFiniteSet(Existing) /\ Cardinality(Existing) \in Nat
         /\ \A S \in SUBSET Existing :
              /\ IsFiniteSet(S) /\ Cardinality(S) \in Nat
              /\ Cardinality(S) <= Cardinality(Existing)
<1>1. IsFiniteSet(Existing)
  BY FS_Subset, ReviewAssumption DEF TypeOK, Existing
<1> QED BY <1>1, FS_Subset, FS_CardinalityType

\* Where a word first stands in a sentence; the words up to it are those before.
FirstAt(w, words, k) ==
  k \in DOMAIN words /\ words[k] = w /\ \A j \in 1 .. k - 1 : words[j] # w

LEMMA FirstExists ==
  ASSUME NEW words \in Seq(Words), NEW i \in DOMAIN words
  PROVE  \E k \in DOMAIN words : FirstAt(words[i], words, k)
<1> DEFINE S == {k \in DOMAIN words : words[k] = words[i]}
<1>1. PICK k \in S : \A m \in S : k <= m
  <2>1. S \in SUBSET Nat /\ S # {}
    OBVIOUS
  <2> QED BY <2>1, LeastOf
<1>2. \A j \in 1 .. k - 1 : words[j] # words[i]
  BY <1>1
<1> QED BY <1>2 DEF FirstAt

LEMMA UpToFirst ==
  ASSUME NEW words \in Seq(Words), NEW w, NEW k, FirstAt(w, words, k)
  PROVE  UpTo(w, words) = {words[i] : i \in 1 .. k}
<1>1. k \in DOMAIN words /\ words[k] = w /\ \A j \in 1 .. k - 1 : words[j] # w
  BY DEF FirstAt
<1>2. {i \in DOMAIN words : \A j \in 1 .. i - 1 : words[j] # w} = 1 .. k
  BY <1>1
<1> QED BY <1>2 DEF UpTo

\* How many new cards a sentence has up to a word, and with it.
Rank(w, words, E) == Cardinality(UpTo(w, words) \ E)

\* Cards are numbered in text order: of two words that stand first at different
\* places the earlier gets the lower number, and none more than there are words.
LEMMA EarlierRanksLower ==
  ASSUME NEW words \in Seq(Words), NEW E, NEW v, NEW w, NEW i, NEW k,
         FirstAt(v, words, i), FirstAt(w, words, k), i < k, w \notin E
  PROVE  Rank(v, words, E) < Rank(w, words, E)
<1>1. i \in DOMAIN words /\ k \in DOMAIN words /\ words[k] = w /\ \A j \in 1 .. k - 1 : words[j] # w
  BY DEF FirstAt
<1>2. UpTo(v, words) = {words[j] : j \in 1 .. i} /\ UpTo(w, words) = {words[j] : j \in 1 .. k}
  BY UpToFirst
<1>3. /\ UpTo(v, words) \ E \subseteq UpTo(w, words) \ E
      /\ w \in UpTo(w, words) \ E /\ w \notin UpTo(v, words) \ E
      /\ UpTo(w, words) \subseteq Words
  BY <1>1, <1>2
<1>4. IsFiniteSet(UpTo(w, words) \ E)
  BY <1>3, FS_Subset, ReviewAssumption
<1>5. /\ IsFiniteSet(UpTo(v, words) \ E)
      /\ Rank(v, words, E) <= Rank(w, words, E)
      /\ Rank(v, words, E) # Rank(w, words, E)
  BY <1>3, <1>4, FS_Subset DEF Rank
<1>6. Rank(v, words, E) \in Nat /\ Rank(w, words, E) \in Nat
  BY <1>4, <1>5, FS_CardinalityType DEF Rank
<1> QED BY <1>5, <1>6

NewIn(words, E) == {words[i] : i \in DOMAIN words} \ E

Ranked(new, words, E) ==
  /\ IsFiniteSet(new) /\ Cardinality(new) \in Nat
  /\ \A w \in new : Rank(w, words, E) \in 1 .. Cardinality(new)
  /\ \A v, w \in new : Rank(v, words, E) = Rank(w, words, E) => v = w

LEMMA RanksOf ==
  ASSUME NEW words \in Seq(Words), NEW E, NEW new, new = NewIn(words, E)
  PROVE  Ranked(new, words, E)
<1>0. new = {words[i] : i \in DOMAIN words} \ E
  BY DEF NewIn
<1>1. IsFiniteSet(new) /\ Cardinality(new) \in Nat
  <2>1. new \subseteq Words
    BY <1>0
  <2> QED BY <2>1, FS_Subset, FS_CardinalityType, ReviewAssumption
<1>2. \A w \in new : \E k \in DOMAIN words : FirstAt(w, words, k)
  BY <1>0, FirstExists
<1>3. ASSUME NEW w \in new
      PROVE  Rank(w, words, E) \in 1 .. Cardinality(new)
  <2>1. PICK k \in DOMAIN words : FirstAt(w, words, k)
    BY <1>2
  <2>2. UpTo(w, words) = {words[i] : i \in 1 .. k} /\ words[k] = w
    BY <2>1, UpToFirst DEF FirstAt
  <2>3. PICK up : up = UpTo(w, words) \ E
    OBVIOUS
  <2>4. up \subseteq new /\ w \in up
    BY <1>0, <2>1, <2>2, <2>3
  <2>5. IsFiniteSet(up) /\ Cardinality(up) <= Cardinality(new) /\ Cardinality(up) \in Nat
    BY <1>1, <2>4, FS_Subset, FS_CardinalityType
  <2>6. Cardinality(up) # 0
    BY <2>4, <2>5, FS_EmptySet
  <2> QED BY <1>1, <2>3, <2>5, <2>6 DEF Rank
<1>4. ASSUME NEW v \in new, NEW w \in new, v # w
      PROVE  Rank(v, words, E) # Rank(w, words, E)
  <2>1. PICK i \in DOMAIN words, k \in DOMAIN words : FirstAt(v, words, i) /\ FirstAt(w, words, k)
    BY <1>2
  <2>2. v \notin E /\ w \notin E
    BY <1>0
  <2>3. PICK m \in Int, n \in Int : /\ m = Rank(v, words, E)
                                    /\ n = Rank(w, words, E)
    BY <1>1, <1>3
  <2>4. CASE i < k
    <3>1. Rank(v, words, E) < Rank(w, words, E)
      BY <2>1, <2>2, <2>4, EarlierRanksLower
    <3> QED BY <2>3, <3>1
  <2>5. CASE k < i
    <3>1. Rank(w, words, E) < Rank(v, words, E)
      BY <2>1, <2>2, <2>5, EarlierRanksLower
    <3> QED BY <2>3, <3>1
  <2>6. i # k
    BY <1>4, <2>1 DEF FirstAt
  <2> QED BY <2>1, <2>4, <2>5, <2>6
<1> QED BY <1>1, <1>3, <1>4 DEF Ranked

\* The cards are numbered 1, 2, ... without a gap: as many ids as cards.
IdsUsed ==
  \A v, w \in Existing :
    /\ cards[v].id \in 1 .. Cardinality(Existing)
    /\ cards[v].id = cards[w].id => v = w

LEMMA ExtractIds ==
  ASSUME TypeOK, IdsUsed, NEW s \in Sentences, NEW now \in Nat, Extract(s, now)
  PROVE  /\ IdsUsed'
         /\ \A v \in Existing, w \in Existing' \ Existing : cards[v].id <= cards'[w].id
<1>1. PICK words \in Seq(Words) : words = CandidatesOf[s]
  BY ReviewAssumption
<1>2. PICK E, new : E = Existing /\ new = NewIn(words, E)
  OBVIOUS
<1>3. cards' = [w \in E \cup new |->
                  IF w \in E THEN cards[w] ELSE NewCard(IdOf(w, words), now)]
  BY <1>1, <1>2 DEF Extract, NewIn
<1>4. Ranked(new, words, E)
  BY <1>2, RanksOf
<1>5. /\ IsFiniteSet(new) /\ Cardinality(new) \in Nat
      /\ \A w \in new : Rank(w, words, E) \in 1 .. Cardinality(new)
      /\ \A v, w \in new :
           Rank(v, words, E) = Rank(w, words, E) => v = w
  BY <1>4 DEF Ranked
<1>6. IsFiniteSet(Existing) /\ Cardinality(Existing) \in Nat
  BY CountsOf
<1>7. PICK n \in Nat : n = Cardinality(E)
  BY <1>6, <1>2
<1>8. PICK m \in Nat : m = Cardinality(new)
  BY <1>5
<1>9. n = Cardinality(E) /\ m = Cardinality(new)
  BY <1>7, <1>8
<1>10. Existing' = E \cup new /\ Cardinality(Existing') = n + m
  <2>1. Existing' = E \cup new /\ E \cap new = {}
    BY <1>2, <1>3 DEF Existing, NewIn
  <2> QED BY <1>6, <1>2, <1>5, <1>9, <2>1, DisjointSum
<1>11. \A w \in E : cards'[w].id = cards[w].id /\ cards[w].id \in 1 .. n
  BY <1>2, <1>3, <1>9 DEF IdsUsed
<1>12. \A w \in new : cards'[w].id = n + Rank(w, words, E)
  BY <1>2, <1>3, <1>9 DEF NewCard, IdOf, Rank, NewIn
<1>13. \A v, w \in E : cards[v].id = cards[w].id => v = w
  BY <1>2 DEF IdsUsed
<1>14. ASSUME NEW w \in E \cup new
       PROVE  cards'[w].id \in 1 .. n + m
  <2>1. CASE w \in E
    BY <1>9, <1>11, <2>1
  <2>2. CASE w \in new
    <3>1. PICK k \in 1 .. m : k = Rank(w, words, E)
      BY <1>5, <1>9, <2>2
    <3> QED BY <1>9, <1>12, <2>2, <3>1
  <2> QED BY <2>1, <2>2
<1>15. ASSUME NEW v \in E \cup new, NEW w \in E \cup new, cards'[v].id = cards'[w].id
       PROVE  v = w
  <2>1. CASE v \in E /\ w \in E
    BY <1>11, <1>13, <1>15, <2>1
  <2>2. CASE v \in new /\ w \in new
    BY <1>5, <1>12, <1>15, <2>2
  <2>3. CASE v \in E /\ w \in new
    BY <1>5, <1>11, <1>12, <1>15, <2>3
  <2>4. CASE v \in new /\ w \in E
    BY <1>5, <1>11, <1>12, <1>15, <2>4
  <2> QED BY <2>1, <2>2, <2>3, <2>4
<1>16. ASSUME NEW v \in E, NEW w \in new
       PROVE  cards[v].id <= cards'[w].id
  <2>1. PICK k \in 1 .. m : k = Rank(w, words, E)
    BY <1>5, <1>9
  <2>2. cards'[w].id = n + k
    BY <1>9, <1>12, <2>1
  <2> QED BY <1>11, <2>1, <2>2
<1>17. IdsUsed'
  BY <1>10, <1>14, <1>15 DEF IdsUsed
<1> QED BY <1>2, <1>10, <1>16, <1>17

-----------------------------------------------------------------------------
(* One tab.  While its request runs nobody grades, so what the queries of   *)
(* Next have found stays true until the answer.                             *)

AskingPcs == {"count", "due", "introduced", "new"} \cup Building

\* The card picked is the first of those not skipped, of the due ones if there
\* are any.
PickedFirst(r) ==
  \/ IsFirstDue(r.pick, DueCards(r.now) \ r.skip)
  \/ /\ DueCards(r.now) \subseteq r.skip
     /\ IntroducedOn(Day(r.now)) < NewPerDay
     /\ IsFirstNew(r.pick, NewCards \ r.skip)

StillTrue(r) ==
  /\ r.pc \in AskingPcs => Cardinality(r.skip) = r.tries
  /\ r.pc \in AskingPcs \ {"count"} => ReviewsOn(Day(r.now)) < SessionLimit
  /\ r.pc \in {"introduced", "new"} => DueCards(r.now) \subseteq r.skip
  /\ r.pc = "new" => IntroducedOn(Day(r.now)) < NewPerDay
  /\ r.pc \in Building => r.pick \notin r.skip /\ PickedFirst(r)
  /\ r.pc = "sentence" => r.token = cards[r.pick].updated

AloneInv == IdsUsed /\ \A t \in Tabs : StillTrue(req[t])

\* Without a grade the cards stay as they are, and new ones come after them.
Quiet ==
  /\ reviews' = reviews
  /\ Existing \subseteq Existing'
  /\ \A w \in Existing : cards'[w] = cards[w]
  /\ \A w \in Existing' \ Existing :
       /\ cards'[w].sched.phase = "new"
       /\ \A v \in Existing : cards[v].id <= cards'[w].id

LEMMA IdsStep ==
  ASSUME IInv, IdsUsed, [Next]_vars
  PROVE  /\ IdsUsed'
         /\ reviews' = reviews => Quiet
<1>1. CASE reviews' # reviews
  <2>1. PICK t \in Tabs, htmx \in BOOLEAN :
          GradeTx(t, htmx) /\ Accepts(page[t], req[t].grade, req[t].sentence)
    BY <1>1, ReviewsWriter
  <2>2. PICK w, g, now : w = page[t].word /\ g = req[t].grade /\ now = req[t].now
    OBVIOUS
  <2>3. w \in Existing /\ cards' = [cards EXCEPT ![w] = Graded(w, g, now)]
    BY <2>1, <2>2, GradeEffect DEF IInv, Held
  <2>4. cards[w] \in CardRows
    BY <2>3 DEF IInv, TypeOK, Existing
  <2>5. Graded(w, g, now).id = cards[w].id
    BY <2>4 DEF Graded, CardRows
  <2>6. Existing' = Existing /\ \A v \in Existing : cards'[v].id = cards[v].id
    BY <2>3, <2>5 DEF Existing
  <2> QED BY <1>1, <2>6 DEF IdsUsed
<1>2. CASE reviews' = reviews /\ \E s \in Sentences, now \in 0 .. clock : Extract(s, now)
  <2>1. PICK s \in Sentences, now \in 0 .. clock : Extract(s, now)
    BY <1>2
  <2>2. TypeOK /\ now \in Nat
    BY DEF IInv, TypeOK
  <2>3. /\ IdsUsed'
        /\ \A v \in Existing, w \in Existing' \ Existing : cards[v].id <= cards'[w].id
    BY <2>1, <2>2, ExtractIds
  <2>4. /\ Existing \subseteq Existing' /\ \A w \in Existing : cards'[w] = cards[w]
        /\ \A w \in Existing' \ Existing : \E id \in Nat : cards'[w] = NewCard(id, now)
    BY <2>1, <2>2, ExtractCards
  <2>5. \A id : NewCard(id, now).sched.phase = "new"
    BY DEF NewCard, NewState
  <2> QED BY <1>2, <2>3, <2>4, <2>5 DEF Quiet
<1>3. CASE reviews' = reviews /\ ~\E s \in Sentences, now \in 0 .. clock : Extract(s, now)
  <2>1. cards' = cards
    BY <1>3, CardsOrExtract
  <2> QED BY <1>3, <2>1 DEF IdsUsed, Quiet, Existing
<1> QED BY <1>1, <1>2, <1>3

LEMMA StaysTrue ==
  ASSUME IInv, RowsKnown, Quiet, NEW r, Real(r), StillTrue(r)
  PROVE  StillTrue(r)'
<1>1. /\ reviews' = reviews /\ Existing \subseteq Existing'
      /\ \A w \in Existing : cards'[w] = cards[w]
      /\ \A w \in Existing' \ Existing : cards'[w].sched.phase = "new"
  BY DEF Quiet
<1>2. DueCards(r.now)' = DueCards(r.now)
  BY <1>1 DEF DueCards, IsDue
<1>3. ReviewsOn(Day(r.now))' = ReviewsOn(Day(r.now))
  BY <1>1 DEF ReviewsOn, RowsOn
<1>4. IntroducedOn(Day(r.now))' = IntroducedOn(Day(r.now))
  BY <1>1 DEF IntroducedOn, Introduced, RowsOf, RowsKnown
<1>5. r.pc \in Building => r.pick \in Existing /\ cards'[r.pick] = cards[r.pick]
  BY <1>1 DEF Real
<1>6. ASSUME r.pc \in Building, IsFirstDue(r.pick, DueCards(r.now) \ r.skip)
      PROVE  IsFirstDue(r.pick, DueCards(r.now) \ r.skip)'
  BY <1>1, <1>2, <1>5, <1>6 DEF IsFirstDue, DueBefore, DueCards
<1>7. ASSUME r.pc \in Building, IsFirstNew(r.pick, NewCards \ r.skip)
      PROVE  IsFirstNew(r.pick, NewCards \ r.skip)'
  BY <1>1, <1>5, <1>7 DEF IsFirstNew, NewCards, IsNew, Quiet
<1>8. r.pc \in Building => PickedFirst(r)'
  BY <1>2, <1>4, <1>6, <1>7 DEF PickedFirst, StillTrue
<1>9. r.pc = "sentence" => r.token = cards'[r.pick].updated
  BY <1>5 DEF StillTrue, Building
<1> QED BY <1>2, <1>3, <1>4, <1>8, <1>9 DEF StillTrue

\* Each query of Next adds what it found.
LEMMA NextStepTrue ==
  ASSUME IInv, NEW t \in Tabs, NextStep(t), StillTrue(req[t])
  PROVE  \E r : req'[t] = r /\ StillTrue(r)
<1>1. PICK r : r = req[t]
  OBVIOUS
<1>2. /\ TypeOK /\ r \in Asking /\ StillTrue(r) /\ r.skip \in SUBSET Words /\ r.tries \in Nat
      /\ r.pc \in Building => r.pick \in Existing
  <2>1. r.pc \in {"count", "due", "introduced", "new", "build", "sentence"}
    BY <1>1 DEF NextStep, NextCount, NextDue, NextIntroduced, NextNew, NextLoad, NextPresent,
                NextSkip, BuildFails, At
  <2> QED BY <1>1, <2>1, RequestOf DEF IInv, Held, PicksReal, Real, Asking
<1>3. ReviewsOn(Day(r.now)) \in Nat /\ IntroducedOn(Day(r.now)) \in Nat
      /\ SessionLimit \in Nat /\ NewPerDay \in Nat
  BY <1>2, CountsAre, ReviewAssumption
<1>4. ASSUME NEW p, Answer(t, p)
      PROVE  \E q : req'[t] = q /\ StillTrue(q)
  <2>1. req'[t] = Idle
    BY <1>2, <1>4 DEF Answer, TypeOK
  <2>2. StillTrue(Idle)
    BY DEF StillTrue, Idle, AskingPcs, Building
  <2> QED BY <2>1, <2>2
<1>5. ASSUME NEW pc \in {"due", "introduced", "new"}, Goto(t, pc),
             r.pc \in AskingPcs, ReviewsOn(Day(r.now)) < SessionLimit,
             pc \in {"introduced", "new"} => DueCards(r.now) \subseteq r.skip,
             pc = "new" => IntroducedOn(Day(r.now)) < NewPerDay
      PROVE  \E q : req'[t] = q /\ StillTrue(q)
  <2>1. PICK q : q = [r EXCEPT !.pc = pc]
    OBVIOUS
  <2>2. q.pc = pc /\ q.now = r.now /\ q.skip = r.skip /\ q.tries = r.tries
    BY <1>2, <2>1 DEF Asking
  <2>3. req'[t] = q
    BY <1>1, <1>2, <1>5, <2>1 DEF Goto, TypeOK
  <2>4. StillTrue(q)
    BY <1>2, <1>5, <2>2 DEF StillTrue, Building
  <2> QED BY <2>3, <2>4
<1>6. ASSUME NEW w, Picked(t, w), r.pc \in {"due", "new"}, w \notin r.skip,
             \/ IsFirstDue(w, DueCards(r.now) \ r.skip)
             \/ /\ DueCards(r.now) \subseteq r.skip
                /\ IntroducedOn(Day(r.now)) < NewPerDay
                /\ IsFirstNew(w, NewCards \ r.skip)
      PROVE  \E q : req'[t] = q /\ StillTrue(q)
  <2>1. PICK q : q = [r EXCEPT !.pc = "build", !.pick = w]
    OBVIOUS
  <2>2. q.pc = "build" /\ q.pick = w /\ q.now = r.now /\ q.skip = r.skip /\ q.tries = r.tries
    BY <1>2, <2>1 DEF Asking
  <2>3. req'[t] = q
    BY <1>1, <1>2, <1>6, <2>1 DEF Picked, TypeOK
  <2>4. PickedFirst(q)
    BY <1>6, <2>2 DEF PickedFirst
  <2>5. StillTrue(q)
    BY <1>2, <1>6, <2>2, <2>4 DEF StillTrue, AskingPcs, Building
  <2> QED BY <2>3, <2>5
<1>7. CASE NextCount(t)
  <2>1. r.pc = "count"
    BY <1>1, <1>7 DEF NextCount, At
  <2>2. CASE ReviewsOn(Day(r.now)) >= SessionLimit
    BY <1>1, <1>4, <1>7, <2>2 DEF NextCount
  <2>3. CASE ~(ReviewsOn(Day(r.now)) >= SessionLimit)
    <3>1. Goto(t, "due") /\ ReviewsOn(Day(r.now)) < SessionLimit
      BY <1>1, <1>3, <1>7, <2>3 DEF NextCount
    <3> QED BY <1>5, <2>1, <3>1 DEF AskingPcs
  <2> QED BY <2>2, <2>3
<1>8. CASE NextDue(t)
  <2>1. r.pc = "due" /\ ReviewsOn(Day(r.now)) < SessionLimit
    BY <1>1, <1>2, <1>8 DEF NextDue, At, StillTrue, AskingPcs
  <2>2. CASE DueCards(r.now) \ r.skip = {}
    <3>1. Goto(t, "introduced") /\ DueCards(r.now) \subseteq r.skip
      BY <1>1, <1>8, <2>2 DEF NextDue
    <3> QED BY <1>5, <2>1, <3>1 DEF AskingPcs
  <2>3. CASE DueCards(r.now) \ r.skip # {}
    <3>1. PICK w \in DueCards(r.now) \ r.skip :
            IsFirstDue(w, DueCards(r.now) \ r.skip) /\ Picked(t, w)
      BY <1>1, <1>8, <2>3 DEF NextDue
    <3> QED BY <1>6, <2>1, <3>1
  <2> QED BY <2>2, <2>3
<1>9. CASE NextIntroduced(t)
  <2>1. /\ r.pc = "introduced" /\ ReviewsOn(Day(r.now)) < SessionLimit
        /\ DueCards(r.now) \subseteq r.skip
    BY <1>1, <1>2, <1>9 DEF NextIntroduced, At, StillTrue, AskingPcs
  <2>2. CASE IntroducedOn(Day(r.now)) >= NewPerDay
    BY <1>1, <1>4, <1>9, <2>2 DEF NextIntroduced
  <2>3. CASE ~(IntroducedOn(Day(r.now)) >= NewPerDay)
    <3>1. Goto(t, "new") /\ IntroducedOn(Day(r.now)) < NewPerDay
      BY <1>1, <1>3, <1>9, <2>3 DEF NextIntroduced
    <3> QED BY <1>5, <2>1, <3>1 DEF AskingPcs
  <2> QED BY <2>2, <2>3
<1>10. CASE NextNew(t)
  <2>1. /\ r.pc = "new" /\ IntroducedOn(Day(r.now)) < NewPerDay
        /\ DueCards(r.now) \subseteq r.skip
    BY <1>1, <1>2, <1>10 DEF NextNew, At, StillTrue
  <2>2. CASE NewCards \ r.skip = {}
    BY <1>1, <1>4, <1>10, <2>2 DEF NextNew
  <2>3. CASE NewCards \ r.skip # {}
    <3>1. PICK w \in NewCards \ r.skip :
            IsFirstNew(w, NewCards \ r.skip) /\ Picked(t, w)
      BY <1>1, <1>10, <2>3 DEF NextNew
    <3> QED BY <1>6, <2>1, <3>1
  <2> QED BY <2>2, <2>3
<1>11. CASE NextLoad(t)
  <2>1. PICK token : token = cards[r.pick].updated
    OBVIOUS
  <2>2. PICK q : q = [r EXCEPT !.pc = "sentence", !.token = token]
    OBVIOUS
  <2>3. /\ q.pc = "sentence" /\ q.token = token /\ q.pick = r.pick
        /\ q.now = r.now /\ q.skip = r.skip /\ q.tries = r.tries
    BY <1>2, <2>2 DEF Asking
  <2>4. r.pc = "build" /\ req'[t] = q
    BY <1>1, <1>2, <1>11, <2>1, <2>2 DEF NextLoad, At, TypeOK
  <2>5. PickedFirst(q)
    BY <1>2, <2>3, <2>4 DEF PickedFirst, StillTrue, Building
  <2>6. StillTrue(q)
    BY <1>2, <2>1, <2>3, <2>4, <2>5 DEF StillTrue, AskingPcs, Building
  <2> QED BY <2>4, <2>6
<1>12. CASE NextPresent(t)
  BY <1>4, <1>12 DEF NextPresent
<1>13. CASE NextSkip(t)
  <2>1. r.pc \in Building
    BY <1>1, <1>13 DEF NextSkip, BuildFails, At, Building
  <2>2. CASE r.tries + 1 = MaxNextSkips
    BY <1>1, <1>4, <1>13, <2>2 DEF NextSkip
  <2>3. CASE r.tries + 1 # MaxNextSkips
    <3>1. PICK more : more = r.skip \cup {r.pick}
      OBVIOUS
    <3>2. PICK q : q = [r EXCEPT !.pc = "due", !.skip = more, !.tries = r.tries + 1, !.token = 0]
      OBVIOUS
    <3>3. q.pc = "due" /\ q.now = r.now /\ q.skip = more /\ q.tries = r.tries + 1
      BY <1>2, <3>2 DEF Asking
    <3>4. req'[t] = q
      BY <1>1, <1>2, <1>13, <2>3, <3>1, <3>2 DEF NextSkip, TypeOK
    <3>5. Cardinality(more) = r.tries + 1
      <4>1. IsFiniteSet(r.skip)
        BY <1>2, FS_Subset, ReviewAssumption
      <4>2. r.pick \notin r.skip /\ Cardinality(r.skip) = r.tries
        BY <1>2, <2>1 DEF StillTrue, AskingPcs
      <4> QED BY <3>1, <4>1, <4>2, FS_AddElement
    <3>6. StillTrue(q)
      BY <1>2, <2>1, <3>3, <3>5 DEF StillTrue, AskingPcs, Building
    <3> QED BY <3>4, <3>6
  <2> QED BY <2>2, <2>3
<1> QED BY <1>7, <1>8, <1>9, <1>10, <1>11, <1>12, <1>13 DEF NextStep

LEMMA FreshTrue ==
  ASSUME NEW r, \/ r.pc \in {"idle", "grade"}
                \/ \E now : r = Ask(now)
  PROVE  StillTrue(r)
<1>1. CASE r.pc \in {"idle", "grade"}
  BY <1>1 DEF StillTrue, AskingPcs, Building
<1>2. CASE \E now : r = Ask(now)
  <2>1. r.pc = "count" /\ r.skip = {} /\ r.tries = 0
    BY <1>2 DEF Ask
  <2> QED BY <2>1, FS_EmptySet DEF StillTrue, AskingPcs, Building
<1> QED BY <1>1, <1>2

\* Every other step of a tab begins a request or ends one.
LEMMA TabTrue ==
  ASSUME IInv, NEW t \in Tabs, User(t) \/ Handler(t) \/ Fail(t), StillTrue(req[t])
  PROVE  \E r : req'[t] = r /\ StillTrue(r)
<1>1. CASE NextStep(t)
  BY <1>1, NextStepTrue
<1>2. CASE User(t) \/ Fail(t) \/ \E htmx \in BOOLEAN : GradeTx(t, htmx)
  <2>1. \/ \E now : req' = [req EXCEPT ![t] = Ask(now)]
        \/ req' = [req EXCEPT ![t] = Idle]
        \/ \E g, s : req' = [req EXCEPT ![t] = [pc |-> "grade", now |-> clock, grade |-> g, sentence |-> s]]
    BY <1>2 DEF User, HandleReviewGet, HandleReviewPost, Fail, GradeTx
  <2>2. \/ \E now : req'[t] = Ask(now)
        \/ req'[t].pc \in {"idle", "grade"}
    BY <2>1 DEF IInv, TypeOK, Idle
  <2> QED BY <2>2, FreshTrue
<1> QED BY <1>1, <1>2 DEF Handler

LEMMA AloneStep ==
  ASSUME NEW t, Tabs = {t}, IInv, RowsKnown, AloneInv, [Next]_vars
  PROVE  AloneInv'
<1>1. IdsUsed'
  BY IdsStep DEF AloneInv
<1>2. t \in Tabs /\ StillTrue(req[t]) /\ Real(req[t])
  BY DEF AloneInv, IInv, Held, PicksReal
<1>3. CASE reviews' # reviews
  <2>1. PICK htmx \in BOOLEAN : GradeTx(t, htmx)
    BY <1>3, ReviewsWriter
  <2>2. req'[t] \in {Ask(req[t].now), Idle}
    BY <1>2, <2>1 DEF GradeTx, IInv, TypeOK
  <2>3. PICK r : r = req'[t]
    OBVIOUS
  <2>4. StillTrue(r)'
    <3>1. CASE r = Idle
      BY <3>1 DEF StillTrue, AskingPcs, Building, Idle
    <3>2. CASE r # Idle
      <4>1. r.pc = "count" /\ r.skip = {} /\ r.tries = 0
        BY <2>2, <2>3, <3>2 DEF Ask
      <4> QED BY <4>1, FS_EmptySet DEF StillTrue, AskingPcs, Building
    <3> QED BY <3>1, <3>2
  <2> QED BY <1>1, <2>3, <2>4 DEF AloneInv
<1>4. CASE reviews' = reviews
  <2>1. Quiet
    BY <1>4, IdsStep DEF AloneInv
  <2>2. CASE req'[t] = req[t]
    <3>1. PICK r : r = req[t]
      OBVIOUS
    <3>2. StillTrue(r)'
      BY <1>2, <2>1, <3>1, StaysTrue
    <3> QED BY <1>1, <2>2, <3>1, <3>2 DEF AloneInv
  <2>3. CASE User(t) \/ Handler(t) \/ Fail(t)
    <3>1. PICK r : req'[t] = r /\ StillTrue(r)
      BY <1>2, <2>3, TabTrue
    <3>2. cards' = cards /\ IInv'
      BY <1>2, <1>4, <2>3, TabsLeaveCards, InvStep
    <3>3. Real(r)
      BY <1>2, <3>1, <3>2 DEF IInv, Held, PicksReal, Real, Existing
    <3>4. StillTrue(r)'
      BY <2>1, <3>1, <3>3, StaysTrue
    <3> QED BY <1>1, <3>1, <3>4 DEF AloneInv
  <2> QED BY <1>2, <2>2, <2>3, OtherTabs
<1> QED BY <1>3, <1>4

LEMMA AloneInit == Init => AloneInv
<1> SUFFICES ASSUME Init PROVE AloneInv
  OBVIOUS
<1>1. ASSUME NEW t \in Tabs PROVE StillTrue(req[t])
  BY FreshTrue DEF Init, Idle
<1> QED BY <1>1 DEF AloneInv, IdsUsed, Init, Existing

LEMMA ItemAnswers ==
  ASSUME NEW now, NEW o \in occ, IsNewest(o, o.word), NEW due, NEW new,
         due = {w \in DueCards(now) : Presentable(w)},
         new = {w \in NewCards : Presentable(w)},
         o.word \in IF due # {} THEN {w \in due : IsFirstDue(w, due)}
                                ELSE {w \in new : IsFirstNew(w, new)},
         ~(ReviewsOn(Day(now)) >= SessionLimit),
         ~(due = {} /\ (IntroducedOn(Day(now)) >= NewPerDay \/ new = {}))
  PROVE  Item(o.word, cards[o.word].updated, o) \in NextAnswers(now)
<1> DEFINE d == {w \in DueCards(now) : Presentable(w)}
           n == {w \in NewCards : Presentable(w)}
           first == IF d # {} THEN {w \in d : IsFirstDue(w, d)} ELSE {w \in n : IsFirstNew(w, n)}
<1>1. o.word \in first /\ ~(d = {} /\ (IntroducedOn(Day(now)) >= NewPerDay \/ n = {}))
  OBVIOUS
<1>2. NextAnswers(now) = {Item(p.word, cards[p.word].updated, p) :
                            p \in {q \in occ : q.word \in first /\ IsNewest(q, q.word)}}
  BY <1>1, Zenon DEF NextAnswers
<1> HIDE DEF first
<1> QED BY <1>1, <1>2

\* What a request of the only tab answers, an indivisible Next could have.
LEMMA AnswersTrue ==
  ASSUME IInv, NEW t \in Tabs, NextStep(t), StillTrue(req[t]), page' # page, NEW r, r = req[t],
         ~\E w \in r.skip : Presentable(w)
  PROVE  \/ page'[t] \in NextAnswers(r.now)
         \/ page'[t] = EmptyPage /\ GivesUp(t)
<1>1. /\ TypeOK /\ r \in Asking /\ StillTrue(r)
      /\ r.pc \in Building => r.pick \in Existing
  BY RequestOf DEF IInv, Held, PicksReal, Real, Asking, NextStep, NextCount, NextDue,
       NextIntroduced, NextNew, NextLoad, NextPresent, NextSkip, BuildFails, At
<1>2. ReviewsOn(Day(r.now)) \in Nat /\ IntroducedOn(Day(r.now)) \in Nat
      /\ SessionLimit \in Nat /\ NewPerDay \in Nat
  BY <1>1, CountsAre, ReviewAssumption
<1>3. PICK due, new : /\ due = {w \in DueCards(r.now) : Presentable(w)}
                      /\ new = {w \in NewCards : Presentable(w)}
  OBVIOUS
<1>4. due \subseteq DueCards(r.now) \ r.skip /\ new \subseteq NewCards \ r.skip
  BY <1>3
<1>5. ASSUME \/ ReviewsOn(Day(r.now)) >= SessionLimit
             \/ due = {} /\ (IntroducedOn(Day(r.now)) >= NewPerDay \/ new = {})
      PROVE  NextAnswers(r.now) = {EmptyPage}
  BY <1>3, <1>5 DEF NextAnswers
<1>6. \A p : Answer(t, p) => page'[t] = p
  BY <1>1 DEF Answer, TypeOK
<1>7. CASE NextCount(t)
  BY <1>5, <1>6, <1>7 DEF NextCount
<1>8. CASE NextIntroduced(t)
  <2>1. due = {}
    BY <1>1, <1>4, <1>8 DEF NextIntroduced, At, StillTrue
  <2> QED BY <1>5, <1>6, <1>8, <2>1 DEF NextIntroduced
<1>9. CASE NextNew(t)
  <2>1. due = {}
    BY <1>1, <1>4, <1>9 DEF NextNew, At, StillTrue
  <2>2. NewCards \ r.skip = {} /\ Answer(t, EmptyPage)
    BY <1>9 DEF NextNew
  <2> QED BY <1>4, <1>5, <1>6, <2>1, <2>2
<1>10. CASE NextPresent(t)
  <2>1. PICK o \in occ : IsNewest(o, r.pick) /\ page'[t] = Item(r.pick, r.token, o)
    BY <1>6, <1>10 DEF NextPresent
  <2>2. /\ r.pc = "sentence" /\ r.token = cards[r.pick].updated /\ PickedFirst(r)
        /\ ReviewsOn(Day(r.now)) < SessionLimit
    BY <1>1, <1>10 DEF NextPresent, At, StillTrue, AskingPcs, Building
  <2>3. o.word = r.pick /\ Presentable(r.pick)
    BY <2>1 DEF IsNewest, Occurrences, Presentable
  <2>4. /\ r.pick \in IF due # {} THEN {w \in due : IsFirstDue(w, due)}
                                  ELSE {w \in new : IsFirstNew(w, new)}
        /\ ~(due = {} /\ (IntroducedOn(Day(r.now)) >= NewPerDay \/ new = {}))
    <3>1. CASE IsFirstDue(r.pick, DueCards(r.now) \ r.skip)
      <4>1. r.pick \in due /\ IsFirstDue(r.pick, due)
        BY <1>3, <1>4, <2>3, <3>1 DEF IsFirstDue
      <4> QED BY <4>1
    <3>2. CASE /\ DueCards(r.now) \subseteq r.skip
               /\ IntroducedOn(Day(r.now)) < NewPerDay
               /\ IsFirstNew(r.pick, NewCards \ r.skip)
      <4>1. due = {} /\ r.pick \in new /\ IsFirstNew(r.pick, new)
        BY <1>3, <1>4, <2>3, <3>2 DEF IsFirstNew
      <4>2. ~(IntroducedOn(Day(r.now)) >= NewPerDay)
        BY <1>2, <3>2
      <4> QED BY <4>1, <4>2
    <3> QED BY <2>2, <3>1, <3>2 DEF PickedFirst
  <2>5. ~(ReviewsOn(Day(r.now)) >= SessionLimit)
    BY <1>2, <2>2
  <2>6. Item(o.word, cards[o.word].updated, o) \in NextAnswers(r.now)
    BY <1>3, <2>1, <2>3, <2>4, <2>5, ItemAnswers
  <2> QED BY <2>1, <2>2, <2>3, <2>6
<1>11. CASE NextSkip(t)
  <2>1. BuildFails(t) /\ r.tries + 1 = MaxNextSkips /\ page'[t] = EmptyPage
    BY <1>6, <1>11 DEF NextSkip
  <2>2. r.pick \notin r.skip /\ Cardinality(r.skip) = r.tries
    BY <1>1, <2>1 DEF BuildFails, At, StillTrue, AskingPcs, Building
  <2> QED BY <2>1, <2>2 DEF GivesUp
<1>12. ~NextDue(t) /\ ~NextLoad(t)
  BY DEF NextDue, NextLoad
<1> QED BY <1>7, <1>8, <1>9, <1>10, <1>11, <1>12 DEF NextStep

\* With one tab the loop of queries answers as one query of the tables it ends
\* in would: nothing that can be shown is passed over, and the queue only looks
\* empty when it is or when the turns of the loop are used up.
THEOREM OneTabAnswersAsOneQuery ==
  ASSUME NEW t, Tabs = {t}
  PROVE  Spec => AnswersAsOneQuery
<1>1. Spec => []AloneInv
  BY AloneInit, AloneStep, Invariance, LogInvariance, PTL DEF Spec, LogInv
<1>2. IInv /\ AloneInv /\ [Next]_vars => AnswersStep
  <2> SUFFICES ASSUME IInv, AloneInv, [Next]_vars, page' # page, ~At(t, "idle"),
                      ~\E w \in req[t].skip : Presentable(w)
               PROVE  \/ page'[t] \in NextAnswers(req[t].now)
                      \/ page'[t] = EmptyPage /\ GivesUp(t)
    BY DEF AnswersStep
  <2>1. NextStep(t)
    BY DEF Next, Tick, Extract, LoseOccurrences, User, HandleReviewGet, HandleReviewPost, Handler,
           GradeTx, Fail, vars
  <2> QED BY <2>1, AnswersTrue DEF AloneInv
<1> QED BY <1>1, <1>2, Invariance, PTL DEF Spec, AnswersAsOneQuery

\* "Next returns the next Card for Review: due first, then new" (review.go): with
\* one tab the card that is put on the page is due or new at that moment.
THEOREM OneTabShowsReady ==
  ASSUME NEW t, Tabs = {t}
  PROVE  Spec => ShownIsReady
<1>1. Spec => []AloneInv
  BY AloneInit, AloneStep, Invariance, LogInvariance, PTL DEF Spec, LogInv
<1>2. IInv /\ AloneInv /\ [Next]_vars => ShownIsReadyStep
  <2> SUFFICES ASSUME IInv, AloneInv, [Next]_vars, page'[t] # page[t], IsForm(page'[t])
               PROVE  IsNew(page'[t].word) \/ IsDue(page'[t].word, req[t].now)
    BY DEF ShownIsReadyStep
  <2>1. At(t, "sentence") /\ page'[t].word = req[t].pick
    <3>1. TabMoves(t)
      BY EveryTabMoves
    <3> QED BY <3>1 DEF TabMoves, PageMoves
  <2>2. PickedFirst(req[t])
    BY <2>1 DEF AloneInv, StillTrue, At, Building
  <2> QED BY <2>1, <2>2 DEF PickedFirst, IsFirstDue, IsFirstNew, DueCards, NewCards
<1> QED BY <1>1, <1>2, Invariance, PTL DEF Spec, ShownIsReady

-----------------------------------------------------------------------------
(* Snapshot: what holds of the tables whatever taps, grades and scrapes     *)
(* commit between two queries.                                              *)

AllPresentable == \A w \in Existing : Presentable(w)

FetchedPast ==
  /\ IsFiniteSet(DOMAIN fetched) /\ DOMAIN fetched \subseteq Articles
  /\ \A a \in DOMAIN fetched : fetched[a] \in Nat /\ fetched[a] <= clock

TablesInv == TypeOK /\ RowsKnown /\ Replays /\ IdsUsed /\ AllPresentable /\ FetchedPast

\* What only grows: the cards, those past new, the rows, the articles.
Reviewed == Existing \ NewCards
Longer(rows, more) == rows = more \/ \E row : more = Append(rows, row)
Grown ==
  /\ Existing \subseteq Existing'
  /\ Reviewed \subseteq Reviewed'
  /\ Longer(reviews, reviews')
  /\ DOMAIN fetched \subseteq DOMAIN fetched'

Commit ==
  \/ \E a \in Articles : StoreArticle(a)
  \/ \E s \in Sentences : TapSentence(s)
  \/ \E w \in Existing, g \in GradeInputs \cap Grades, now \in 0 .. clock : GradeCard(w, g, now)
  \/ TimePasses

LEMMA StoreArticleCommits ==
  ASSUME TablesInv, NEW a \in Articles, StoreArticle(a)
  PROVE  TablesInv' /\ Grown
<1>1. UNCHANGED vars
  BY DEF StoreArticle
<1>2. DOMAIN fetched' = DOMAIN fetched \cup {a}
      /\ \A b \in DOMAIN fetched' : fetched'[b] = IF b = a THEN clock ELSE fetched[b]
  BY DEF StoreArticle, With
<1>3. IsFiniteSet(DOMAIN fetched')
  BY <1>2, FS_AddElement DEF TablesInv, FetchedPast
<1>4. clock \in Nat
  BY DEF TablesInv, TypeOK
<1>5. FetchedPast'
  BY <1>1, <1>2, <1>3, <1>4 DEF TablesInv, FetchedPast, vars
<1>6. TypeOK' /\ RowsKnown' /\ Replays' /\ IdsUsed' /\ AllPresentable'
  BY <1>1 DEF TablesInv, vars, TypeOK, RowsKnown, Replays, IdsUsed, AllPresentable, Presentable,
              Occurrences, Existing, At
<1> QED BY <1>1, <1>2, <1>5, <1>6
        DEF TablesInv, Grown, Longer, vars, Reviewed, Existing, NewCards, IsNew

LEMMA TimePassesCommits ==
  ASSUME TablesInv, TimePasses
  PROVE  TablesInv' /\ Grown
<1>1. UNCHANGED <<cards, extracted, occ, reviews, req, page, fetched>> /\ clock' = clock + 1
  BY DEF TimePasses, Tick, db
<1>2. clock \in Nat
  BY DEF TablesInv, TypeOK
<1>3. FetchedPast'
  BY <1>1, <1>2 DEF TablesInv, FetchedPast
<1>4. RowsKnown'
  <2>1. \A i \in DOMAIN reviews : reviews[i].at \in Nat
    BY RowTypes DEF TablesInv
  <2> QED BY <1>1, <1>2, <2>1 DEF TablesInv, RowsKnown, Existing
<1>5. TypeOK' /\ Replays' /\ IdsUsed' /\ AllPresentable'
  BY <1>1, <1>2 DEF TablesInv, TypeOK, Replays, IdsUsed, AllPresentable, Presentable,
              Occurrences, Existing
<1> QED BY <1>1, <1>3, <1>4, <1>5
        DEF TablesInv, Grown, Longer, Reviewed, Existing, NewCards, IsNew

LEMMA TapCommits ==
  ASSUME TablesInv, NEW s \in Sentences, TapSentence(s)
  PROVE  TablesInv' /\ Grown
<1>1. Extract(s, clock) /\ fetched' = fetched
  BY DEF TapSentence
<1>2. TypeOK /\ clock \in Nat
  BY DEF TablesInv, TypeOK
<1>3. /\ Existing \subseteq Existing' /\ Existing' \subseteq Words
      /\ \A w \in Existing : cards'[w] = cards[w]
      /\ \A w \in Existing' \ Existing : \E id \in Nat : cards'[w] = NewCard(id, clock)
      /\ \A w \in Existing' : cards'[w] \in CardRows
  BY <1>1, <1>2, ExtractCards
<1>4. UNCHANGED <<clock, reviews, req, page>>
  BY <1>1 DEF Extract
<1>5. PICK wanted : wanted = {CandidatesOf[s][i] : i \in DOMAIN CandidatesOf[s]}
  OBVIOUS
<1>6. /\ wanted \subseteq Words /\ Existing' = Existing \cup wanted
      /\ occ' = occ \cup [sentence : {s}, word : wanted, at : {clock},
                          batch : {Cardinality(extracted) + 1}]
  BY <1>1, <1>5, ReviewAssumption DEF Extract, Existing
<1>7. TypeOK'
  <2>1. occ' \subseteq OccRows
    BY <1>2, <1>6, BatchType DEF TypeOK, OccRows
  <2>2. extracted' \subseteq Sentences
    BY <1>1, <1>2 DEF Extract, TypeOK
  <2> QED BY <1>2, <1>3, <1>4, <2>1, <2>2 DEF TypeOK, Existing
<1>8. RowsKnown' /\ IdsUsed'
  BY <1>1, <1>2, <1>3, <1>4, ExtractIds DEF TablesInv, RowsKnown
<1>9. Replays'
  <2>1. \A w \in Existing' \ Existing : \E id, now \in Nat : cards'[w] = NewCard(id, now)
    BY <1>2, <1>3
  <2> QED BY <1>2, <1>3, <1>4, <2>1, NewCardsReplay DEF TablesInv
<1>10. AllPresentable'
  <2>1. ASSUME NEW w \in Existing PROVE Presentable(w)'
    BY <1>6, <2>1 DEF TablesInv, AllPresentable, Presentable, Occurrences
  <2>2. ASSUME NEW w \in wanted PROVE Presentable(w)'
    <3>1. PICK o : o = [sentence |-> s, word |-> w, at |-> clock,
                        batch |-> Cardinality(extracted) + 1]
      OBVIOUS
    <3>2. o \in occ' /\ o.word = w
      BY <1>6, <3>1
    <3> QED BY <3>2 DEF Presentable, Occurrences
  <2> QED BY <1>6, <2>1, <2>2 DEF AllPresentable
<1>11. FetchedPast'
  BY <1>1, <1>4 DEF TablesInv, FetchedPast
<1>12. Grown
  BY <1>1, <1>3, <1>4 DEF Grown, Longer, Reviewed, NewCards, IsNew
<1> QED BY <1>7, <1>8, <1>9, <1>10, <1>11, <1>12 DEF TablesInv

LEMMA GradeCommits ==
  ASSUME TablesInv, NEW w \in Existing, NEW g \in GradeInputs \cap Grades, NEW now \in 0 .. clock,
         GradeCard(w, g, now)
  PROVE  TablesInv' /\ Grown
<1>1. PICK s \in Sentences :
        reviews' = Append(reviews, [word |-> w, sentence |-> s, grade |-> g, at |-> now])
  BY DEF GradeCard
<1>2. PICK row : row = [word |-> w, sentence |-> s, grade |-> g, at |-> now]
  OBVIOUS
<1>3. /\ cards' = [cards EXCEPT ![w] = Graded(w, g, now)]
      /\ UNCHANGED <<clock, extracted, occ, req, page, fetched>>
  BY DEF GradeCard
<1>4. TypeOK /\ clock \in Nat /\ now \in Nat /\ now <= clock
  BY DEF TablesInv, TypeOK
<1>5. w \in Words /\ cards[w] \in CardRows /\ g \in Grades
  BY <1>4 DEF TypeOK, Existing
<1>6. PICK c : c = Graded(w, g, now)
  OBVIOUS
<1>7. c \in CardRows /\ c.sched.phase # "new" /\ c.id = cards[w].id
  <2>1. Graded(w, g, now).id = cards[w].id
    BY <1>5 DEF Graded, CardRows
  <2> QED BY <1>4, <1>5, <1>6, <2>1, GradedType
<1>8. row \in ReviewRows /\ row.word = w /\ row.grade = g /\ row.at = now
  BY <1>2, <1>4, <1>5 DEF ReviewRows
<1>9. Existing' = Existing /\ cards'[w] = c /\ \A v \in Existing : v # w => cards'[v] = cards[v]
  BY <1>3, <1>6 DEF Existing
<1>10. PICK n \in Nat : n = Len(reviews)
  BY <1>4 DEF TypeOK
<1>11. /\ reviews' \in Seq(ReviewRows) /\ Len(reviews') = n + 1
       /\ \A i \in 1 .. n : reviews'[i] = reviews[i]
       /\ reviews'[n + 1] = row
  BY <1>1, <1>2, <1>4, <1>8, <1>10 DEF TypeOK
<1>12. TypeOK'
  BY <1>3, <1>4, <1>7, <1>9, <1>11 DEF TypeOK, Existing
<1>13. RowsKnown'
  <2>1. \A i \in 1 .. n : reviews[i].word \in Existing /\ reviews[i].at <= clock
    BY <1>4, <1>10, RowTypes DEF TablesInv, RowsKnown
  <2>2. DOMAIN reviews' = 1 .. n + 1
    BY <1>11
  <2> QED BY <1>3, <1>4, <1>8, <1>9, <1>10, <1>11, <2>1, <2>2 DEF RowsKnown
<1>14. Replays'
  <2>1. RowWritten(w, g, now, row)
    BY <1>1, <1>2, <1>3, <1>8 DEF RowWritten
  <2> QED BY <1>4, <2>1, RowReplays DEF TablesInv
<1>15. IdsUsed'
  <2>1. \A v \in Existing : cards'[v].id = cards[v].id
    BY <1>7, <1>9
  <2> QED BY <1>9, <2>1 DEF TablesInv, IdsUsed
<1>16. AllPresentable' /\ FetchedPast'
  BY <1>3, <1>9 DEF TablesInv, AllPresentable, Presentable, Occurrences, FetchedPast
<1>17. Grown
  BY <1>1, <1>3, <1>7, <1>9 DEF Grown, Longer, Reviewed, NewCards, IsNew
<1> QED BY <1>12, <1>13, <1>14, <1>15, <1>16, <1>17 DEF TablesInv

LEMMA CommitStep ==
  ASSUME TablesInv, Commit
  PROVE  TablesInv' /\ Grown /\ view' = view
<1>1. view' = view
  BY DEF Commit, StoreArticle, TapSentence, GradeCard, TimePasses
<1> QED BY <1>1, StoreArticleCommits, TapCommits, GradeCommits, TimePassesCommits DEF Commit

-----------------------------------------------------------------------------
(* What one query may say of another.                                       *)

\* The counts that later ones are compared with.
LEMMA ReviewedCounts ==
  ASSUME TypeOK, NEW now
  PROVE  /\ Cardinality(DueCards(now)) \in Nat /\ Cardinality(NewCards) \in Nat
         /\ Cardinality(Reviewed) \in Nat
         /\ Cardinality(DueCards(now)) <= Cardinality(Reviewed)
         /\ Cardinality(Reviewed) + Cardinality(NewCards) = Cardinality(Existing)
<1>1. IsFiniteSet(Reviewed) /\ IsFiniteSet(NewCards) /\ IsFiniteSet(DueCards(now))
  BY CountsOf DEF Reviewed, NewCards, DueCards
<1>2. DueCards(now) \subseteq Reviewed /\ Reviewed \cap NewCards = {}
      /\ Reviewed \cup NewCards = Existing
  BY DEF DueCards, IsDue, Reviewed, NewCards, IsNew
<1>3. Cardinality(DueCards(now)) \in Nat /\ Cardinality(DueCards(now)) <= Cardinality(Reviewed)
  BY <1>1, <1>2, FS_Subset, FS_CardinalityType
<1>4. /\ Cardinality(Reviewed) \in Nat /\ Cardinality(NewCards) \in Nat
      /\ Cardinality(Reviewed \cup NewCards) = Cardinality(Reviewed) + Cardinality(NewCards)
  BY <1>1, <1>2, DisjointSum
<1> QED BY <1>2, <1>3, <1>4

PhaseCards(p) == {w \in Existing : cards[w].sched.phase = p}

LEMMA PhasesAddUp ==
  ASSUME TypeOK
  PROVE  /\ \A p \in Phases : ByPhase[p] \in Nat
         /\ Total(ByPhase) = Cardinality(Existing)
<1>1. \A p \in Phases : ByPhase[p] = Cardinality(PhaseCards(p))
  BY DEF ByPhase, PhaseCards
<1>2. \A p \in Phases : IsFiniteSet(PhaseCards(p)) /\ Cardinality(PhaseCards(p)) \in Nat
  BY CountsOf DEF PhaseCards
<1>3. \A w \in Existing : cards[w].sched.phase \in Phases
  BY DEF TypeOK, Existing, CardRows, States
<1>4. PICK n, l, r, k : /\ n = PhaseCards("new") /\ l = PhaseCards("learning")
                        /\ r = PhaseCards("review") /\ k = PhaseCards("relearning")
  OBVIOUS
<1>5. /\ n \cap l = {} /\ (n \cup l) \cap r = {} /\ (n \cup l \cup r) \cap k = {}
      /\ n \cup l \cup r \cup k = Existing
  BY <1>3, <1>4 DEF PhaseCards, Phases
<1>6. IsFiniteSet(n) /\ IsFiniteSet(l) /\ IsFiniteSet(r) /\ IsFiniteSet(k)
  BY <1>2, <1>4 DEF Phases
<1>7. /\ IsFiniteSet(n \cup l) /\ Cardinality(n) \in Nat /\ Cardinality(l) \in Nat
      /\ Cardinality(n \cup l) = Cardinality(n) + Cardinality(l)
  BY <1>5, <1>6, DisjointSum
<1>8. /\ IsFiniteSet(n \cup l \cup r) /\ Cardinality(r) \in Nat
      /\ Cardinality(n \cup l \cup r) = Cardinality(n \cup l) + Cardinality(r)
  BY <1>5, <1>6, <1>7, DisjointSum
<1>9. /\ Cardinality(k) \in Nat
      /\ Cardinality(n \cup l \cup r \cup k) = Cardinality(n \cup l \cup r) + Cardinality(k)
  BY <1>5, <1>6, <1>8, DisjointSum
<1>10. Total(ByPhase) = Cardinality(n) + Cardinality(l) + Cardinality(r) + Cardinality(k)
  BY <1>1, <1>4 DEF Total, Phases
<1> QED BY <1>1, <1>2, <1>5, <1>7, <1>8, <1>9, <1>10

\* No more cards were introduced on a day, nor rows written, than there are rows.
LEMMA RowCountsBounded ==
  ASSUME TypeOK, NEW d
  PROVE  /\ Len(reviews) \in Nat
         /\ ReviewsOn(d) \in Nat /\ ReviewsOn(d) <= Len(reviews)
         /\ IntroducedOn(d) \in Nat /\ IntroducedOn(d) <= Len(reviews)
<1>1. Len(reviews) \in Nat /\ DOMAIN reviews = 1 .. Len(reviews)
  BY RowTypes
<1>2. IsFiniteSet(1 .. Len(reviews)) /\ Cardinality(1 .. Len(reviews)) = Len(reviews)
  <2>1. PICK n \in Nat : n = Len(reviews)
    BY <1>1, Zenon
  <2>2. IsFiniteSet(1 .. n) /\ Cardinality(1 .. n) = n
    BY FS_Interval
  <2> QED BY <2>1, <2>2
<1>3. ReviewsOn(d) \in Nat /\ ReviewsOn(d) <= Len(reviews)
  <2>1. RowsOn(d) \subseteq 1 .. Len(reviews)
    BY <1>1 DEF RowsOn
  <2> QED BY <1>2, <2>1, FS_Subset, FS_CardinalityType DEF ReviewsOn
<1>4. IntroducedOn(d) \in Nat /\ IntroducedOn(d) <= Len(reviews)
  <2> DEFINE f == [w \in Introduced(d) |-> CHOOSE i \in 1 .. Len(reviews) : reviews[i].word = w]
  <2>1. \A w \in Introduced(d) : \E i \in 1 .. Len(reviews) : reviews[i].word = w
    BY <1>1 DEF Introduced, RowsOf
  <2>2. \A w \in Introduced(d) : f[w] \in 1 .. Len(reviews) /\ reviews[f[w]].word = w
    BY <2>1
  <2>3. f \in [Introduced(d) -> 1 .. Len(reviews)]
    BY <2>2
  <2>4. \A v, w \in Introduced(d) : f[v] = f[w] => v = w
    BY <2>2
  <2> HIDE DEF f
  <2>5. f \in Injection(Introduced(d), 1 .. Len(reviews))
    BY <2>3, <2>4 DEF Injection, IsInjective
  <2>6. IsFiniteSet(Introduced(d)) /\ Cardinality(Introduced(d)) <= Len(reviews)
    BY <1>2, <2>5, FS_Injection
  <2> QED BY <2>6, FS_CardinalityType DEF IntroducedOn
<1> QED BY <1>1, <1>3, <1>4

\* Every article has a sentence of its own.
LEMMA ArticlesHaveSentences ==
  ASSUME FetchedPast, NEW stored, stored = UNION {SentencesOf[a] : a \in DOMAIN fetched}
  PROVE  /\ Cardinality(DOMAIN fetched) \in Nat /\ Cardinality(stored) \in Nat
         /\ Cardinality(DOMAIN fetched) <= Cardinality(stored)
<1>1. DOMAIN fetched \subseteq Articles /\ IsFiniteSet(DOMAIN fetched)
  BY DEF FetchedPast
<1>2. stored \subseteq Sentences /\ IsFiniteSet(stored)
  <2>1. \A a \in DOMAIN fetched : SentencesOf[a] \subseteq Sentences
    BY <1>1, SnapshotAssumption
  <2>2. stored \subseteq Sentences
    BY <2>1
  <2> QED BY <2>2, FS_Subset, ReviewAssumption
<1> DEFINE f == [a \in DOMAIN fetched |-> CHOOSE s : s \in SentencesOf[a]]
<1>3. \A a \in DOMAIN fetched : f[a] \in SentencesOf[a]
  BY <1>1, SnapshotAssumption
<1>4. f \in [DOMAIN fetched -> stored]
  BY <1>3
<1>5. \A a, b \in DOMAIN fetched : f[a] = f[b] => a = b
  BY <1>1, <1>3, SnapshotAssumption
<1>6. f \in Injection(DOMAIN fetched, stored)
  BY <1>4, <1>5 DEF Injection, IsInjective
<1> HIDE DEF f
<1> QED BY <1>1, <1>2, <1>6, FS_Injection, FS_CardinalityType

\* A set of numbers that has a bound has a greatest one.
LEMMA GreatestOf ==
  ASSUME NEW S \in SUBSET Nat, S # {}, NEW b \in Nat, \A x \in S : x <= b
  PROVE  \E x \in S : \A y \in S : y <= x
<1> DEFINE bounds == {n \in Nat : \A x \in S : x <= n}
<1>1. PICK n \in bounds : \A m \in bounds : n <= m
  <2>1. bounds \in SUBSET Nat /\ bounds # {}
    OBVIOUS
  <2> QED BY <2>1, LeastOf
<1>2. n \in S
  <2> SUFFICES ASSUME n \notin S PROVE FALSE
    OBVIOUS
  <2>1. \A x \in S : x < n
    OBVIOUS
  <2>2. n \in Nat /\ n - 1 \in Nat
    <3>1. PICK x \in S : x < n
      BY <2>1
    <3>2. x \in Nat /\ n \in Nat
      OBVIOUS
    <3> QED BY <3>1, <3>2
  <2>3. \A x \in S : x <= n - 1
    BY <2>1, <2>2
  <2>4. n - 1 \in bounds
    BY <2>2, <2>3
  <2> QED BY <1>1, <2>2, <2>4
<1> QED BY <1>1, <1>2

\* Where there is an article there is a time it was fetched at.
LEMMA LastFetchedIs ==
  ASSUME FetchedPast, clock \in Nat, DOMAIN fetched # {}
  PROVE  LastArticleFetchedAt # Never
<1> DEFINE times == {fetched[a] : a \in DOMAIN fetched}
<1>1. times \in SUBSET Nat /\ times # {} /\ \A x \in times : x <= clock
  BY DEF FetchedPast
<1> HIDE DEF times
<1>2. PICK x \in times : \A y \in times : y <= x
  BY <1>1, GreatestOf
<1>3. x \in {Never} \cup times /\ \A y \in {Never} \cup times : x >= y
  BY <1>1, <1>2 DEF Never
<1>4. {Never} \cup times \in SUBSET Int
  BY <1>1 DEF Never
<1>5. PICK top : top = Max({Never} \cup times)
  OBVIOUS
<1>6. top \in {Never} \cup times /\ \A y \in {Never} \cup times : top >= y
  BY <1>3, <1>4, <1>5 DEF Max
<1>7. top # Never
  BY <1>1, <1>2, <1>6 DEF Never
<1> QED BY <1>5, <1>7 DEF LastArticleFetchedAt, times

\* The n-th card by id is a card: the ids are 1, 2, ... without a gap.
LEMMA NthCardExists ==
  ASSUME TypeOK, IdsUsed, NEW n \in 1 .. Cardinality(Existing)
  PROVE  NthCard(n) \in Existing
<1>1. PICK m \in Nat : m = Cardinality(Existing)
  BY CountsOf
<1> DEFINE id == [w \in Existing |-> cards[w].id]
<1>2. id \in [Existing -> 1 .. m] /\ \A v, w \in Existing : id[v] = id[w] => v = w
  BY <1>1 DEF IdsUsed
<1>3. IsFiniteSet(1 .. m) /\ Cardinality(1 .. m) = m
  BY FS_Interval
<1>4. \A w \in Existing : id[w] = cards[w].id
  OBVIOUS
<1> HIDE DEF id
<1>5. id \in Injection(Existing, 1 .. m)
  BY <1>2 DEF Injection, IsInjective
<1>6. id \in Surjection(Existing, 1 .. m)
  BY <1>1, <1>3, <1>5, FS_Injection
<1>7. PICK w \in Existing : id[w] = n
  BY <1>1, <1>6 DEF Surjection
<1>8. Cardinality(UpToId(w)) = n
  <2> DEFINE up == UpToId(w)
             below == [v \in up |-> id[v]]
  <2>1. up \subseteq Existing /\ \A v \in Existing : v \in up <=> id[v] <= n
    BY <1>4, <1>7 DEF UpToId
  <2>2. below \in [up -> 1 .. n] /\ \A u, v \in up : below[u] = below[v] => u = v
    BY <1>2, <2>1
  <2>3. \A k \in 1 .. n : \E v \in up : below[v] = k
    <3>1. \A k \in 1 .. n : k \in 1 .. m
      BY <1>1
    <3>2. \A k \in 1 .. m : \E v \in Existing : id[v] = k
      BY <1>6 DEF Surjection
    <3> QED BY <2>1, <3>1, <3>2
  <2> HIDE DEF up, below
  <2>4. below \in Injection(up, 1 .. n)
    BY <2>2 DEF Injection, IsInjective
  <2>5. below \in Surjection(up, 1 .. n)
    BY <2>2, <2>3 DEF Surjection
  <2>6. IsFiniteSet(1 .. n) /\ Cardinality(1 .. n) = n
    BY FS_Interval
  <2>7. Cardinality(up) = Cardinality(1 .. n)
    BY <2>4, <2>5, <2>6, FS_Injection
  <2> QED BY <2>6, <2>7 DEF up
<1> QED BY <1>8 DEF NthCard

-----------------------------------------------------------------------------
(* A request on its way: what it has read is not ahead of the tables, and   *)
(* what it read later is not behind what it read before.                    *)

\* The order of the queries.
Places ==
  view.kind \in Kinds =>
    /\ Asked("due") <=> view.asked >= 1
    /\ Asked("new") <=> view.asked >= 2
    /\ Asked("reviewsToday") <=> view.asked >= 3
    /\ Asked("introducedToday") <=> view.asked >= 4
    /\ Asked("articles") <=> view.asked >= 5
    /\ Asked("sentences") <=> view.asked >= 6
    /\ Asked("words") <=> view.asked >= 7
    /\ Asked("cards") <=> view.asked >= 8
    /\ Asked("reviews") <=> view.asked >= 9
    /\ Asked("byPhase") <=> view.asked >= 11
    /\ Asked("lastFetched") <=> view.kind = "index" /\ view.asked >= 12
    /\ Asked("cardRows") <=> view.kind = "export" /\ view.asked >= 12
    /\ Asked("reviewRows") <=> view.kind = "export" /\ view.asked >= 13

BehindBy(got, reviewed, existing, articles, rows) ==
  /\ Asked("due") => got["due"] \in Nat /\ got["due"] <= reviewed
  /\ Asked("new") => got["new"] \in Nat /\ got["due"] + got["new"] <= existing
  /\ Asked("reviewsToday") => got["reviewsToday"] \in Nat /\ got["reviewsToday"] <= rows
  /\ Asked("introducedToday") => got["introducedToday"] \in Nat /\ got["introducedToday"] <= rows
  /\ Asked("articles") => got["articles"] \in Nat /\ got["articles"] <= articles
  /\ Asked("words") => got["words"] \in Nat /\ got["words"] <= existing
  /\ Asked("cards") => got["cards"] \in Nat /\ got["cards"] <= existing
  /\ Asked("reviews") => got["reviews"] \in Nat /\ got["reviews"] <= rows
  /\ Asked("byPhase") => Total(got["byPhase"]) \in Nat /\ Total(got["byPhase"]) <= existing

Behind == BehindBy(view.got, Cardinality(Reviewed), Cardinality(Existing),
                   Cardinality(DOMAIN fetched), Len(reviews))

\* A part of an export is whole or says that it was cut.
CutAt(part, max, all, before) ==
  IF part.truncated THEN Len(part.rows) = max /\ all > max
                    ELSE before <= Len(part.rows)
Cut ==
  /\ Asked("cardRows") =>
       CutAt(view.got["cardRows"], MaxExportCards, Cardinality(Existing),
             Total(view.got["byPhase"]))
  /\ Asked("reviewRows") =>
       CutAt(view.got["reviewRows"], MaxExportReviews, Len(reviews), view.got["reviews"])

\* The exported cards stand at some place of the history.
StandsAt(row, rows, n) ==
  \E f : IsReplay(f, NewState(row.created), row.word, rows) /\ f[n] = row.sched
LeadTo(cardRows, rows, n) == \A k \in DOMAIN cardRows : StandsAt(cardRows[k], rows, n)
Usable ==
  /\ Asked("cardRows") /\ ~Asked("reviewRows") =>
       \E n \in 0 .. Len(reviews) : LeadTo(view.got["cardRows"].rows, reviews, n)
  /\ BackupReplays

ViewInv == SnapTypeOK /\ Behind /\ NumbersAgree /\ Cut /\ Usable

\* Which query comes when.
InOrder(kind, q, n) ==
  /\ n = (IF kind = "index" THEN 12 ELSE IF kind = "stats" THEN 11 ELSE 13)
  /\ Len(q) = n
  /\ q[1] = "due" /\ q[2] = "new" /\ q[3] = "reviewsToday" /\ q[4] = "introducedToday"
  /\ q[5] = "articles" /\ q[6] = "sentences" /\ q[7] = "words" /\ q[8] = "cards"
  /\ q[9] = "reviews" /\ q[10] = "mature" /\ q[11] = "byPhase"
  /\ kind = "index" => q[12] = "lastFetched"
  /\ kind = "export" => q[12] = "cardRows" /\ q[13] = "reviewRows"

LEMMA OrderOf ==
  ASSUME NEW kind \in Kinds
  PROVE  \E n \in Nat : InOrder(kind, QueriesOf(kind), n)
<1>1. PICK q : q = QueriesOf(kind)
  OBVIOUS
<1>2. CASE kind = "index"
  <2>1. q = (StatsQueries \o LibraryQueries) \o <<"lastFetched">>
    BY <1>1, <1>2 DEF QueriesOf, LoadQueries
  <2>2. InOrder(kind, q, 12)
    BY <1>2, <2>1 DEF StatsQueries, LibraryQueries, InOrder
  <2> QED BY <1>1, <2>2
<1>3. CASE kind = "stats"
  <2>1. q = (StatsQueries \o LibraryQueries) \o <<>>
    BY <1>1, <1>3 DEF QueriesOf, LoadQueries
  <2>2. InOrder(kind, q, 11)
    BY <1>3, <2>1 DEF StatsQueries, LibraryQueries, InOrder
  <2> QED BY <1>1, <2>2
<1>4. CASE kind = "export"
  <2>1. q = (StatsQueries \o LibraryQueries) \o <<"cardRows", "reviewRows">>
    BY <1>1, <1>4 DEF QueriesOf, LoadQueries
  <2>2. InOrder(kind, q, 13)
    BY <1>4, <2>1 DEF StatsQueries, LibraryQueries, InOrder
  <2> QED BY <1>1, <2>2
<1> QED BY <1>2, <1>3, <1>4 DEF Kinds

\* No query is asked twice.
LEMMA AskedOnce ==
  ASSUME NEW kind \in Kinds, NEW q, NEW n, InOrder(kind, q, n)
  PROVE  \A i, j \in 1 .. n : q[i] = q[j] => i = j
<1>1. /\ n \in {11, 12, 13}
      /\ n > 11 => q[12] \in {"lastFetched", "cardRows"}
      /\ n > 12 => q[12] = "cardRows" /\ q[13] = "reviewRows"
  BY DEF InOrder, Kinds
<1>2. /\ q[1] = "due" /\ q[2] = "new" /\ q[3] = "reviewsToday" /\ q[4] = "introducedToday"
      /\ q[5] = "articles" /\ q[6] = "sentences" /\ q[7] = "words" /\ q[8] = "cards"
      /\ q[9] = "reviews" /\ q[10] = "mature" /\ q[11] = "byPhase"
  BY DEF InOrder
<1>3. /\ \A i \in 1 .. n : i \in {1, 2, 3, 4, 5, 6, 7, 8, 9, 10, 11, 12, 13}
      /\ 12 \in 1 .. n => n > 11
      /\ 13 \in 1 .. n => n > 12
  BY <1>1
<1> QED BY <1>1, <1>2, <1>3

LEMMA PlacesOf == SnapTypeOK => Places
<1> SUFFICES ASSUME SnapTypeOK, view.kind \in Kinds PROVE Places
  BY DEF Places
<1>1. PICK kind, q : kind \in Kinds /\ kind = view.kind /\ q = QueriesOf(kind)
  OBVIOUS
<1>2. PICK n \in Nat : InOrder(kind, q, n)
  BY <1>1, OrderOf
<1>3. n = Len(q) /\ n = IF kind = "index" THEN 12 ELSE IF kind = "stats" THEN 11 ELSE 13
  BY <1>2 DEF InOrder
<1>4. /\ view.asked \in Nat /\ view.asked <= n
      /\ \A x : Asked(x) <=> \E i \in 1 .. view.asked : x = q[i]
  BY <1>1, <1>3 DEF SnapTypeOK, NoView, Kinds, Asked
<1>5. \A i, j \in 1 .. n : q[i] = q[j] => i = j
  BY <1>1, <1>2, AskedOnce
<1>6. PICK asked \in Nat : asked = view.asked
  BY <1>4
<1>7. \A k \in 1 .. n : Asked(q[k]) <=> asked >= k
  BY <1>4, <1>5, <1>6
<1>8. /\ \A k \in 1 .. 11 : k \in 1 .. n
      /\ kind \in {"index", "export"} => 12 \in 1 .. n
      /\ kind = "export" => 13 \in 1 .. n
  BY <1>3
<1>9. kind = "index" => ~Asked("cardRows") /\ ~Asked("reviewRows")
  <2>1. \A i \in 1 .. 12 : kind = "index" => q[i] # "cardRows" /\ q[i] # "reviewRows"
    BY <1>2 DEF InOrder
  <2> QED BY <1>3, <1>4, <2>1
<1>10. kind = "stats" => ~Asked("cardRows") /\ ~Asked("reviewRows") /\ ~Asked("lastFetched")
  <2>1. \A i \in 1 .. 11 : q[i] # "cardRows" /\ q[i] # "reviewRows" /\ q[i] # "lastFetched"
    BY <1>2 DEF InOrder
  <2> QED BY <1>3, <1>4, <2>1
<1>11. kind = "export" => ~Asked("lastFetched")
  <2>1. \A i \in 1 .. 13 : kind = "export" => q[i] # "lastFetched"
    BY <1>2 DEF InOrder
  <2> QED BY <1>3, <1>4, <2>1
<1>12. /\ Asked("due") <=> asked >= 1
       /\ Asked("new") <=> asked >= 2
       /\ Asked("reviewsToday") <=> asked >= 3
       /\ Asked("introducedToday") <=> asked >= 4
       /\ Asked("articles") <=> asked >= 5
       /\ Asked("sentences") <=> asked >= 6
       /\ Asked("words") <=> asked >= 7
       /\ Asked("cards") <=> asked >= 8
       /\ Asked("reviews") <=> asked >= 9
       /\ Asked("byPhase") <=> asked >= 11
  BY <1>2, <1>7, <1>8 DEF InOrder
<1>13. /\ kind = "index" => (Asked("lastFetched") <=> asked >= 12)
       /\ kind = "export" => (Asked("cardRows") <=> asked >= 12)
       /\ kind = "export" => (Asked("reviewRows") <=> asked >= 13)
  BY <1>2, <1>7, <1>8 DEF InOrder
<1> QED BY <1>1, <1>6, <1>9, <1>10, <1>11, <1>12, <1>13 DEF Places, Kinds

\* A query adds its answer to those before it.
AddsAnswer(kind, got, more, now, asked) ==
  /\ view.kind = kind /\ view'.kind = kind
  /\ view.now = now /\ view'.now = now
  /\ view.asked = asked /\ view'.asked = asked + 1
  /\ view.got = got /\ view'.got = more
  /\ \A q : Asked(q) => Asked(q)' /\ more[q] = got[q]
  /\ \A q : Asked(q)' /\ ~Asked(q) => more[q] = Result(q, now)

LEMMA QueryAnswers ==
  ASSUME SnapTypeOK, Query
  PROVE  /\ SnapTypeOK' /\ UNCHANGED <<vars, fetched>>
         /\ view.kind \in Kinds /\ view.now \in Nat /\ view.asked \in Nat
         /\ AddsAnswer(view.kind, view.got, view'.got, view.now, view.asked)
<1>1. view # NoView /\ UNCHANGED <<vars, fetched>>
  BY DEF Query
<1>2. PICK kind, now, got, asked : /\ kind = view.kind /\ now = view.now
                                  /\ got = view.got /\ asked = view.asked
  OBVIOUS
<1>3. PICK q : q = QueriesOf(kind)
  OBVIOUS
<1>4. /\ kind \in Kinds /\ now \in Nat /\ asked \in 0 .. Len(q)
      /\ DOMAIN got = {q[i] : i \in 1 .. asked}
  BY <1>1, <1>2, <1>3 DEF SnapTypeOK
<1>5. PICK n \in Nat : InOrder(kind, q, n)
  BY <1>3, <1>4, OrderOf
<1>6. n = Len(q) /\ \A i, j \in 1 .. n : q[i] = q[j] => i = j
  <2>1. \A i, j \in 1 .. n : q[i] = q[j] => i = j
    BY <1>4, <1>5, AskedOnce
  <2> QED BY <1>5, <2>1 DEF InOrder
<1>7. PICK more : more = With(got, q[asked + 1], Result(q[asked + 1], now))
  OBVIOUS
<1>8. asked + 1 \in 1 .. n /\ view' = [kind |-> kind, now |-> now, asked |-> asked + 1, got |-> more]
  BY <1>2, <1>3, <1>4, <1>6, <1>7 DEF Query
<1>9. /\ DOMAIN more = DOMAIN got \cup {q[asked + 1]}
      /\ \A x \in DOMAIN more : more[x] = IF x = q[asked + 1] THEN Result(q[asked + 1], now)
                                                             ELSE got[x]
  BY <1>7 DEF With
<1>10. q[asked + 1] \notin DOMAIN got
  BY <1>4, <1>6, <1>8
<1>11. DOMAIN more = {q[i] : i \in 1 .. asked + 1}
  <2>1. 1 .. asked + 1 = (1 .. asked) \cup {asked + 1}
    BY <1>4
  <2> QED BY <1>4, <1>9, <2>1
<1>12. SnapTypeOK'
  <2>1. TypeOK' /\ DOMAIN fetched' \subseteq Articles /\ \A a \in DOMAIN fetched' : fetched'[a] \in Nat
    BY <1>1 DEF SnapTypeOK, TypeOK, vars, Existing
  <2>2. /\ view'.kind = kind /\ view'.now = now /\ view'.asked = asked + 1
        /\ DOMAIN view'.got = {q[i] : i \in 1 .. asked + 1}
    BY <1>8, <1>11
  <2>3. asked + 1 \in 0 .. Len(q)
    BY <1>4, <1>6, <1>8
  <2> QED BY <1>3, <1>4, <2>1, <2>2, <2>3 DEF SnapTypeOK
<1>13. /\ view.got = got /\ view'.got = more /\ view.kind = kind /\ view'.kind = kind
       /\ view.now = now /\ view'.now = now /\ view.asked = asked /\ view'.asked = asked + 1
  BY <1>2, <1>8
<1>14. AddsAnswer(kind, got, more, now, asked)
  BY <1>4, <1>9, <1>10, <1>13 DEF AddsAnswer, Asked
<1> QED BY <1>1, <1>4, <1>12, <1>13, <1>14

LEMMA ResultsAre ==
  ASSUME NEW now
  PROVE  /\ Result("due", now) = Cardinality(DueCards(now))
         /\ Result("new", now) = Cardinality(NewCards)
         /\ Result("reviewsToday", now) = ReviewsOn(Day(now))
         /\ Result("introducedToday", now) = IntroducedOn(Day(now))
         /\ Result("articles", now) = Cardinality(DOMAIN fetched)
         /\ Result("sentences", now) = Cardinality(UNION {SentencesOf[a] : a \in DOMAIN fetched})
         /\ Result("words", now) = Cardinality(Existing)
         /\ Result("cards", now) = Cardinality(Existing)
         /\ Result("reviews", now) = Len(reviews)
         /\ Result("byPhase", now) = ByPhase
         /\ Result("lastFetched", now) = LastArticleFetchedAt
         /\ Result("cardRows", now) = Capped(CardRowsById, MaxExportCards)
         /\ Result("reviewRows", now) = Capped(ReviewRowsById, MaxExportReviews)
BY DEF Result

LEMMA GrownCounts ==
  ASSUME TablesInv, TablesInv', Grown
  PROVE  /\ Cardinality(Reviewed) \in Nat /\ Cardinality(Reviewed') \in Nat
         /\ Cardinality(Reviewed) <= Cardinality(Reviewed')
         /\ Cardinality(Existing) \in Nat /\ Cardinality(Existing') \in Nat
         /\ Cardinality(Existing) <= Cardinality(Existing')
         /\ Cardinality(DOMAIN fetched) \in Nat /\ Cardinality(DOMAIN fetched') \in Nat
         /\ Cardinality(DOMAIN fetched) <= Cardinality(DOMAIN fetched')
         /\ Len(reviews) \in Nat /\ Len(reviews') \in Nat /\ Len(reviews) <= Len(reviews')
<1>1. IsFiniteSet(Existing) /\ IsFiniteSet(Existing')
  <2>1. TypeOK => IsFiniteSet(Existing)
    BY CountsOf
  <2>2. TypeOK' => IsFiniteSet(Existing')
    BY FS_Subset, ReviewAssumption DEF TypeOK, Existing
  <2> QED BY <2>1, <2>2 DEF TablesInv
<1>2. IsFiniteSet(Reviewed) /\ IsFiniteSet(Reviewed')
  BY <1>1, FS_Subset DEF Reviewed
<1>3. IsFiniteSet(DOMAIN fetched) /\ IsFiniteSet(DOMAIN fetched')
  BY DEF TablesInv, FetchedPast
<1>4. /\ Existing \subseteq Existing' /\ Reviewed \subseteq Reviewed'
      /\ DOMAIN fetched \subseteq DOMAIN fetched' /\ Longer(reviews, reviews')
  BY DEF Grown
<1>5. Len(reviews) \in Nat /\ Len(reviews') \in Nat /\ Len(reviews) <= Len(reviews')
  <2>1. reviews \in Seq(ReviewRows) /\ reviews' \in Seq(ReviewRows)
    BY DEF TablesInv, TypeOK
  <2> QED BY <1>4, <2>1 DEF Longer
<1> QED BY <1>1, <1>2, <1>3, <1>4, <1>5, FS_Subset, FS_CardinalityType

LEMMA BehindMore ==
  ASSUME NEW got, NEW r \in Nat, NEW e \in Nat, NEW a \in Nat, NEW l \in Nat,
         NEW r2 \in Nat, NEW e2 \in Nat, NEW a2 \in Nat, NEW l2 \in Nat,
         r <= r2, e <= e2, a <= a2, l <= l2,
         Asked("new") => Asked("due"), BehindBy(got, r, e, a, l)
  PROVE  BehindBy(got, r2, e2, a2, l2)
BY DEF BehindBy

LEMMA BehindKept ==
  ASSUME TablesInv, TablesInv', Grown, view' = view, SnapTypeOK, Behind
  PROVE  Behind'
<1>1. PICK r0 \in Nat, r1 \in Nat : r0 = Cardinality(Reviewed) /\ r1 = Cardinality(Reviewed') /\ r0 <= r1
  BY GrownCounts
<1>2. PICK e0 \in Nat, e1 \in Nat : e0 = Cardinality(Existing) /\ e1 = Cardinality(Existing') /\ e0 <= e1
  BY GrownCounts
<1>3. PICK a0 \in Nat, a1 \in Nat :
        a0 = Cardinality(DOMAIN fetched) /\ a1 = Cardinality(DOMAIN fetched') /\ a0 <= a1
  BY GrownCounts
<1>4. PICK l0 \in Nat, l1 \in Nat : l0 = Len(reviews) /\ l1 = Len(reviews') /\ l0 <= l1
  BY GrownCounts
<1>5. \A q : Asked(q)' <=> Asked(q)
  BY DEF Asked
<1>6. Asked("new") => Asked("due")
  BY PlacesOf DEF Places, Asked, SnapTypeOK, NoView, Kinds
<1>7. PICK got : got = view.got
  OBVIOUS
<1>8. BehindBy(got, r0, e0, a0, l0)
  BY <1>1, <1>2, <1>3, <1>4, <1>7 DEF Behind
<1>9. BehindBy(got, r1, e1, a1, l1)
  BY <1>1, <1>2, <1>3, <1>4, <1>6, <1>8, BehindMore
<1>10. view'.got = got
  BY <1>7
<1> QED BY <1>1, <1>2, <1>3, <1>4, <1>5, <1>9, <1>10 DEF Behind, BehindBy

\* What each answer is, of what is compared with it.
LEMMA QueryBehind ==
  ASSUME TablesInv, SnapTypeOK, Behind, Query
  PROVE  Behind'
<1>1. /\ UNCHANGED <<vars, fetched>> /\ view.now \in Nat
      /\ AddsAnswer(view.kind, view.got, view'.got, view.now, view.asked)
  BY QueryAnswers
<1>2. PICK kind, got, more, now, asked :
        now = view.now /\ AddsAnswer(kind, got, more, now, asked)
  BY <1>1
<1>3. /\ view.got = got /\ view'.got = more /\ view'.kind = view.kind
      /\ view.asked = asked /\ view'.asked = asked + 1
      /\ \A q : Asked(q) => Asked(q)' /\ more[q] = got[q]
      /\ \A q : Asked(q)' /\ ~Asked(q) => more[q] = Result(q, now)
  BY <1>2 DEF AddsAnswer
<1>4. PICK r, e, a, l : /\ r = Cardinality(Reviewed) /\ e = Cardinality(Existing)
                        /\ a = Cardinality(DOMAIN fetched) /\ l = Len(reviews)
  OBVIOUS
<1>5. /\ r = Cardinality(Reviewed)' /\ e = Cardinality(Existing)'
      /\ a = Cardinality(DOMAIN fetched)' /\ l = Len(reviews)'
  BY <1>1, <1>4 DEF vars, Reviewed, Existing, NewCards, IsNew
<1>6. BehindBy(got, r, e, a, l)
  BY <1>3, <1>4 DEF Behind
<1>7. /\ Asked("new")' => Asked("due")
      /\ Asked("due")' /\ ~Asked("due") => ~Asked("new")'
  <2>1. Places /\ Places'
    BY QueryAnswers, PlacesOf, PTL
  <2>2. view.asked \in Nat /\ view.kind \in Kinds
    BY QueryAnswers
  <2> QED BY <1>3, <2>1, <2>2 DEF Places
<1>8. TypeOK /\ Cardinality(DOMAIN fetched) \in Nat
  BY FS_CardinalityType DEF TablesInv, FetchedPast
<1>9. PICK due, new : due = Cardinality(DueCards(now)) /\ new = Cardinality(NewCards)
  OBVIOUS
<1>10. /\ r \in Nat /\ e \in Nat /\ a \in Nat /\ l \in Nat /\ due \in Nat /\ new \in Nat
       /\ due <= r /\ r + new = e
       /\ ReviewsOn(Day(now)) \in Nat /\ ReviewsOn(Day(now)) <= l
       /\ IntroducedOn(Day(now)) \in Nat /\ IntroducedOn(Day(now)) <= l
       /\ Total(ByPhase) = e
  BY <1>4, <1>8, <1>9, ReviewedCounts, RowCountsBounded, PhasesAddUp, CountsOf
<1>11. /\ Result("due", now) = due /\ Result("new", now) = new
       /\ Result("reviewsToday", now) \in Nat /\ Result("reviewsToday", now) <= l
       /\ Result("introducedToday", now) \in Nat /\ Result("introducedToday", now) <= l
       /\ Result("articles", now) = a /\ Result("words", now) = e
       /\ Result("cards", now) = e /\ Result("reviews", now) = l
       /\ Total(Result("byPhase", now)) = e
  BY <1>4, <1>9, <1>10, ResultsAre
<1>12. BehindBy(more, r, e, a, l)'
  <2>1. Asked("due")' => more["due"] \in Nat /\ more["due"] <= r
    BY <1>3, <1>6, <1>10, <1>11 DEF BehindBy
  <2>2. Asked("new")' => more["new"] \in Nat /\ more["due"] + more["new"] <= e
    BY <1>3, <1>6, <1>7, <1>10, <1>11 DEF BehindBy
  <2>3. Asked("reviewsToday")' => more["reviewsToday"] \in Nat /\ more["reviewsToday"] <= l
    BY <1>3, <1>6, <1>11 DEF BehindBy
  <2>4. Asked("introducedToday")' => more["introducedToday"] \in Nat /\ more["introducedToday"] <= l
    BY <1>3, <1>6, <1>11 DEF BehindBy
  <2>5. Asked("articles")' => more["articles"] \in Nat /\ more["articles"] <= a
    BY <1>3, <1>6, <1>10, <1>11 DEF BehindBy
  <2>6. Asked("words")' => more["words"] \in Nat /\ more["words"] <= e
    BY <1>3, <1>6, <1>10, <1>11 DEF BehindBy
  <2>7. Asked("cards")' => more["cards"] \in Nat /\ more["cards"] <= e
    BY <1>3, <1>6, <1>10, <1>11 DEF BehindBy
  <2>8. Asked("reviews")' => more["reviews"] \in Nat /\ more["reviews"] <= l
    BY <1>3, <1>6, <1>10, <1>11 DEF BehindBy
  <2>9. Asked("byPhase")' => Total(more["byPhase"]) \in Nat /\ Total(more["byPhase"]) <= e
    BY <1>3, <1>6, <1>10, <1>11 DEF BehindBy
  <2> QED BY <2>1, <2>2, <2>3, <2>4, <2>5, <2>6, <2>7, <2>8, <2>9 DEF BehindBy
<1> QED BY <1>3, <1>5, <1>12 DEF Behind

\* When a query is asked, those it is compared with have been.
AskedBefore ==
  /\ Asked("new")' => Asked("due")
  /\ Asked("due")' /\ ~Asked("due") => ~Asked("new")'
  /\ Asked("cards")' => Asked("due") /\ Asked("new") /\ Asked("words")
  /\ Asked("byPhase")' => Asked("cards")
  /\ Asked("reviews")' => Asked("reviewsToday") /\ Asked("introducedToday")
  /\ Asked("sentences")' => Asked("articles")
  /\ Asked("lastFetched")' => Asked("articles")
  /\ Asked("cardRows")' => Asked("byPhase")
  /\ Asked("reviewRows")' => Asked("cardRows") /\ Asked("reviews")

LEMMA AskedInOrder ==
  ASSUME SnapTypeOK, Query
  PROVE  AskedBefore
<1>1. Places /\ Places'
  BY QueryAnswers, PlacesOf, PTL
<1>2. /\ view.asked \in Nat /\ view.kind \in Kinds
      /\ AddsAnswer(view.kind, view.got, view'.got, view.now, view.asked)
  BY QueryAnswers
<1>3. view'.kind = view.kind /\ view'.asked = view.asked + 1
  BY <1>2 DEF AddsAnswer
<1> QED BY <1>1, <1>2, <1>3 DEF Places, AskedBefore

LEMMA QueryAgrees ==
  ASSUME TablesInv, SnapTypeOK, Behind, NumbersAgree, Query
  PROVE  NumbersAgree'
<1>1. PICK kind, got, more, now, asked : AddsAnswer(kind, got, more, now, asked)
  BY QueryAnswers
<1>2. /\ view.got = got /\ view'.got = more
      /\ \A q : Asked(q) => Asked(q)' /\ more[q] = got[q]
      /\ \A q : Asked(q)' /\ ~Asked(q) => more[q] = Result(q, now)
  BY <1>1 DEF AddsAnswer
<1>3. PICK r, e, a, l : /\ r = Cardinality(Reviewed) /\ e = Cardinality(Existing)
                        /\ a = Cardinality(DOMAIN fetched) /\ l = Len(reviews)
  OBVIOUS
<1>4. BehindBy(got, r, e, a, l)
  BY <1>2, <1>3 DEF Behind
<1>5. TypeOK /\ FetchedPast /\ clock \in Nat
  BY DEF TablesInv, TypeOK
<1>6. AskedBefore
  BY AskedInOrder
<1>7. Asked("cards")' => more["due"] + more["new"] <= more["cards"] /\ more["words"] <= more["cards"]
  <2>1. Result("cards", now) = e
    BY <1>3, ResultsAre
  <2>2. CASE Asked("cards")
    BY <1>2, <1>6, <2>2 DEF AskedBefore, NumbersAgree
  <2>3. CASE ~Asked("cards")
    BY <1>2, <1>4, <1>6, <2>1, <2>3 DEF AskedBefore, BehindBy
  <2> QED BY <2>2, <2>3
<1>8. Asked("byPhase")' => more["cards"] <= Total(more["byPhase"])
  <2>1. Total(Result("byPhase", now)) = e
    BY <1>3, <1>5, ResultsAre, PhasesAddUp
  <2>2. CASE Asked("byPhase")
    BY <1>2, <1>6, <2>2 DEF AskedBefore, NumbersAgree
  <2>3. CASE ~Asked("byPhase")
    BY <1>2, <1>4, <1>6, <2>1, <2>3 DEF AskedBefore, BehindBy
  <2> QED BY <2>2, <2>3
<1>9. Asked("reviews")' =>
        more["introducedToday"] <= more["reviews"] /\ more["reviewsToday"] <= more["reviews"]
  <2>1. Result("reviews", now) = l
    BY <1>3, ResultsAre
  <2>2. CASE Asked("reviews")
    BY <1>2, <1>6, <2>2 DEF AskedBefore, NumbersAgree
  <2>3. CASE ~Asked("reviews")
    BY <1>2, <1>4, <1>6, <2>1, <2>3 DEF AskedBefore, BehindBy
  <2> QED BY <2>2, <2>3
<1>10. Asked("sentences")' => more["articles"] <= more["sentences"]
  <2>1. PICK stored : stored = UNION {SentencesOf[b] : b \in DOMAIN fetched}
    OBVIOUS
  <2>2. a \in Nat /\ Cardinality(stored) \in Nat /\ a <= Cardinality(stored)
    BY <1>3, <1>5, <2>1, ArticlesHaveSentences
  <2>3. PICK n \in Nat : n = Cardinality(stored)
    BY <2>2
  <2>4. Result("sentences", now) = n /\ a <= n
    BY <2>1, <2>2, <2>3, ResultsAre
  <2>5. CASE Asked("sentences")
    BY <1>2, <1>6, <2>5 DEF AskedBefore, NumbersAgree
  <2>6. CASE ~Asked("sentences")
    BY <1>2, <1>4, <1>6, <2>2, <2>4, <2>6 DEF AskedBefore, BehindBy
  <2> QED BY <2>5, <2>6
<1>11. Asked("lastFetched")' => (more["articles"] > 0 => more["lastFetched"] # Never)
  <2>1. CASE Asked("lastFetched")
    BY <1>2, <1>6, <2>1 DEF AskedBefore, NumbersAgree
  <2>2. CASE ~Asked("lastFetched") /\ DOMAIN fetched = {}
    <3>1. a = 0
      BY <1>3, <2>2, FS_EmptySet
    <3> QED BY <1>2, <1>4, <1>6, <3>1 DEF AskedBefore, BehindBy
  <2>3. CASE ~Asked("lastFetched") /\ DOMAIN fetched # {}
    <3>1. Result("lastFetched", now) # Never
      BY <1>5, <2>3, LastFetchedIs, ResultsAre
    <3> QED BY <1>2, <2>3, <3>1
  <2> QED BY <2>1, <2>2, <2>3
<1> QED BY <1>2, <1>7, <1>8, <1>9, <1>10, <1>11 DEF NumbersAgree

\* What a cap leaves of the rows.
CapLeaves(part, rows, max) ==
  /\ part.truncated <=> Len(rows) > max
  /\ part.truncated => Len(part.rows) = max
  /\ ~part.truncated => part.rows = rows
  /\ \A k \in DOMAIN part.rows : k \in DOMAIN rows /\ part.rows[k] = rows[k]

LEMMA CappedIs ==
  ASSUME NEW S, NEW rows \in Seq(S), NEW max \in Nat
  PROVE  CapLeaves(Capped(rows, max), rows, max)
<1>1. PICK n \in Nat : n = Len(rows)
  OBVIOUS
<1>2. PICK m \in 0 .. n : m = IF n > max THEN max ELSE n
  BY <1>1
<1>3. PICK kept : kept = SubSeq(rows, 1, m)
  OBVIOUS
<1>4. /\ kept \in Seq(S) /\ Len(kept) = m
      /\ \A k \in 1 .. m : kept[k] = rows[k]
  BY <1>1, <1>3
<1>5. m = n => kept = rows
  BY <1>1, <1>4
<1>6. /\ Capped(rows, max).rows = kept
      /\ Capped(rows, max).truncated <=> n > max
  BY <1>1, <1>2, <1>3 DEF Capped
<1>7. /\ n > max => m = max
      /\ ~(n > max) => m = n
  BY <1>2
<1>8. \A k \in DOMAIN kept : k \in DOMAIN rows /\ kept[k] = rows[k]
  BY <1>1, <1>2, <1>4
<1> QED BY <1>1, <1>4, <1>5, <1>6, <1>7, <1>8 DEF CapLeaves

LEMMA CutKept ==
  ASSUME TablesInv, TablesInv', Grown, view' = view, Cut
  PROVE  Cut'
<1>1. PICK e0 \in Nat, e1 \in Nat : e0 = Cardinality(Existing) /\ e1 = Cardinality(Existing') /\ e0 <= e1
  BY GrownCounts
<1>2. PICK l0 \in Nat, l1 \in Nat : l0 = Len(reviews) /\ l1 = Len(reviews') /\ l0 <= l1
  BY GrownCounts
<1>3. PICK got : got = view.got /\ got = view'.got
  OBVIOUS
<1>4. \A q : Asked(q)' <=> Asked(q)
  BY DEF Asked
<1>5. MaxExportCards \in Nat /\ MaxExportReviews \in Nat
  BY SnapshotAssumption
<1>6. ASSUME NEW part, NEW max \in Nat, NEW n \in Nat, NEW m \in Nat, NEW before, n <= m,
             CutAt(part, max, n, before)
      PROVE  CutAt(part, max, m, before)
  BY <1>6 DEF CutAt
<1>7. /\ Asked("cardRows") => CutAt(got["cardRows"], MaxExportCards, e0, Total(got["byPhase"]))
      /\ Asked("reviewRows") => CutAt(got["reviewRows"], MaxExportReviews, l0, got["reviews"])
  BY <1>1, <1>2, <1>3 DEF Cut
<1>8. /\ Asked("cardRows") => CutAt(got["cardRows"], MaxExportCards, e1, Total(got["byPhase"]))
      /\ Asked("reviewRows") => CutAt(got["reviewRows"], MaxExportReviews, l1, got["reviews"])
  BY <1>1, <1>2, <1>5, <1>6, <1>7
<1> QED BY <1>1, <1>2, <1>3, <1>4, <1>8 DEF Cut

\* The rows of the cards table, by id.
LEMMA CardRowsAre ==
  ASSUME TypeOK, NEW rows, rows = CardRowsById
  PROVE  /\ \E S : rows \in Seq(S)
         /\ Len(rows) = Cardinality(Existing)
         /\ \A k \in DOMAIN rows : k \in 1 .. Cardinality(Existing) /\ rows[k] = CardRow(NthCard(k))
<1>1. PICK m \in Nat : m = Cardinality(Existing)
  BY CountsOf
<1>2. rows = [k \in 1 .. m |-> CardRow(NthCard(k))]
  BY <1>1 DEF CardRowsById
<1>3. rows \in Seq({CardRow(NthCard(k)) : k \in 1 .. m}) /\ Len(rows) = m
  BY <1>2
<1> QED BY <1>1, <1>2, <1>3

LEMMA QueryCut ==
  ASSUME TablesInv, SnapTypeOK, Behind, Cut, Query
  PROVE  Cut'
<1>1. UNCHANGED <<vars, fetched>>
  BY QueryAnswers
<1>2. PICK kind, got, more, now, asked : AddsAnswer(kind, got, more, now, asked)
  BY QueryAnswers
<1>3. /\ view.got = got /\ view'.got = more
      /\ \A q : Asked(q) => Asked(q)' /\ more[q] = got[q]
      /\ \A q : Asked(q)' /\ ~Asked(q) => more[q] = Result(q, now)
  BY <1>2 DEF AddsAnswer
<1>4. PICK r, e, a, l : /\ r = Cardinality(Reviewed) /\ e = Cardinality(Existing)
                        /\ a = Cardinality(DOMAIN fetched) /\ l = Len(reviews)
  OBVIOUS
<1>5. BehindBy(got, r, e, a, l)
  BY <1>3, <1>4 DEF Behind
<1>6. AskedBefore
  BY AskedInOrder
<1>7. /\ Existing' = Existing /\ reviews' = reviews
      /\ MaxExportCards \in Nat /\ MaxExportReviews \in Nat
  BY <1>1, SnapshotAssumption DEF vars, Existing
<1>8. Asked("cardRows")' => CutAt(more["cardRows"], MaxExportCards, e, Total(more["byPhase"]))
  <2>1. CASE Asked("cardRows")
    BY <1>3, <1>4, <1>6, <2>1 DEF AskedBefore, Cut
  <2>2. CASE Asked("cardRows")' /\ ~Asked("cardRows")
    <3>1. PICK part, rows, S : /\ rows = CardRowsById /\ part = Capped(rows, MaxExportCards)
                               /\ rows \in Seq(S)
      BY CardRowsAre DEF TablesInv
    <3>2. Len(rows) = e
      BY <1>4, <3>1, CardRowsAre DEF TablesInv
    <3>3. CapLeaves(part, rows, MaxExportCards)
      BY <1>7, <3>1, CappedIs
    <3>4. more["cardRows"] = part
      BY <1>3, <2>2, <3>1, ResultsAre
    <3>5. Asked("byPhase") /\ more["byPhase"] = got["byPhase"] /\ Total(got["byPhase"]) <= e
      BY <1>3, <1>5, <1>6, <2>2 DEF AskedBefore, BehindBy
    <3> QED BY <3>2, <3>3, <3>4, <3>5 DEF CutAt, CapLeaves
  <2> QED BY <2>1, <2>2
<1>9. Asked("reviewRows")' => CutAt(more["reviewRows"], MaxExportReviews, l, more["reviews"])
  <2>1. CASE Asked("reviewRows")
    BY <1>3, <1>4, <1>6, <2>1 DEF AskedBefore, Cut
  <2>2. CASE Asked("reviewRows")' /\ ~Asked("reviewRows")
    <3>1. PICK part, rows : /\ rows = reviews /\ part = Capped(rows, MaxExportReviews)
                            /\ rows \in Seq(ReviewRows)
      BY DEF TablesInv, TypeOK
    <3>2. Len(rows) = l
      BY <1>4, <3>1
    <3>3. CapLeaves(part, rows, MaxExportReviews)
      BY <1>7, <3>1, CappedIs
    <3>4. more["reviewRows"] = part
      BY <1>3, <2>2, <3>1, ResultsAre DEF ReviewRowsById
    <3>5. Asked("reviews") /\ more["reviews"] = got["reviews"] /\ got["reviews"] <= l
      BY <1>3, <1>5, <1>6, <2>2 DEF AskedBefore, BehindBy
    <3> QED BY <3>2, <3>3, <3>4, <3>5 DEF CutAt, CapLeaves
  <2> QED BY <2>1, <2>2
<1> QED BY <1>3, <1>4, <1>7, <1>8, <1>9 DEF Cut

\* A place in the history stays where it is when rows are added.
LEMMA StandsStill ==
  ASSUME NEW row, NEW rows \in Seq(ReviewRows), NEW more \in Seq(ReviewRows),
         Longer(rows, more), NEW n \in 0 .. Len(rows), StandsAt(row, rows, n)
  PROVE  StandsAt(row, more, n)
<1>1. CASE more = rows
  BY <1>1
<1>2. CASE more # rows
  <2>1. PICK base, w : base = NewState(row.created) /\ w = row.word
    OBVIOUS
  <2>2. PICK f : IsReplay(f, base, w, rows) /\ f[n] = row.sched
    BY <2>1 DEF StandsAt
  <2>3. PICK l \in Nat : l = Len(rows)
    OBVIOUS
  <2>4. PICK last : more = Append(rows, last)
    BY <1>2 DEF Longer
  <2>5. Len(more) = l + 1 /\ \A i \in 1 .. l : more[i] = rows[i]
    BY <2>3, <2>4
  <2>6. PICK g : Prolongs(g, f, base, w, more, l)
    BY <2>2, <2>3, <2>5, LongerReplay
  <2>7. IsReplay(g, base, w, more) /\ g[n] = f[n]
    BY <2>3, <2>6 DEF Prolongs
  <2> QED BY <2>1, <2>2, <2>7 DEF StandsAt
<1> QED BY <1>1, <1>2

LEMMA UsableKept ==
  ASSUME TablesInv, TablesInv', Grown, view' = view, Usable
  PROVE  Usable'
<1>1. PICK got : got = view.got /\ got = view'.got
  OBVIOUS
<1>2. \A q : Asked(q)' <=> Asked(q)
  BY DEF Asked
<1>3. /\ reviews \in Seq(ReviewRows) /\ reviews' \in Seq(ReviewRows) /\ Longer(reviews, reviews')
      /\ Len(reviews) \in Nat /\ Len(reviews') \in Nat /\ Len(reviews) <= Len(reviews')
  BY GrownCounts DEF TablesInv, TypeOK, Grown
<1>4. BackupReplays'
  BY <1>1, <1>2 DEF Usable, BackupReplays
<1>5. ASSUME Asked("cardRows")', ~Asked("reviewRows")'
      PROVE  \E n \in 0 .. Len(reviews') : LeadTo(got["cardRows"].rows, reviews', n)
  <2>1. PICK n \in 0 .. Len(reviews) : LeadTo(got["cardRows"].rows, reviews, n)
    BY <1>1, <1>2, <1>5 DEF Usable
  <2>2. PICK cardRows : cardRows = got["cardRows"].rows
    OBVIOUS
  <2>3. \A k \in DOMAIN cardRows : StandsAt(cardRows[k], reviews, n)
    BY <2>1, <2>2 DEF LeadTo
  <2>4. \A k \in DOMAIN cardRows : StandsAt(cardRows[k], reviews', n)
    BY <1>3, <2>3, StandsStill
  <2>5. n \in 0 .. Len(reviews')
    BY <1>3
  <2> QED BY <2>2, <2>4, <2>5 DEF LeadTo
<1> QED BY <1>1, <1>4, <1>5 DEF Usable

\* The cards of the table all stand at the end of the history.
LEMMA TableStands ==
  ASSUME TablesInv, NEW rows, rows = CardRowsById
  PROVE  LeadTo(rows, reviews, Len(reviews))
<1>1. TypeOK /\ IdsUsed /\ Replays
  BY DEF TablesInv
<1>2. ASSUME NEW k \in DOMAIN rows
      PROVE  StandsAt(rows[k], reviews, Len(reviews))
  <2>1. k \in 1 .. Cardinality(Existing) /\ rows[k] = CardRow(NthCard(k))
    BY <1>1, CardRowsAre
  <2>2. PICK w \in Existing : w = NthCard(k)
    BY <1>1, <2>1, NthCardExists
  <2>3. rows[k].word = w /\ rows[k].created = cards[w].created /\ rows[k].sched = cards[w].sched
    BY <2>1, <2>2 DEF CardRow
  <2>4. PICK f : /\ IsReplay(f, NewState(cards[w].created), w, reviews)
                 /\ EndsIn(f, reviews, cards[w].sched)
    BY <1>1 DEF Replays, CanReplay
  <2> QED BY <2>3, <2>4 DEF StandsAt, EndsIn
<1> QED BY <1>2 DEF LeadTo

LEMMA QueryUsable ==
  ASSUME TablesInv, SnapTypeOK, Usable, Query
  PROVE  Usable'
<1>1. UNCHANGED <<vars, fetched>>
  BY QueryAnswers
<1>2. PICK kind, got, more, now, asked : AddsAnswer(kind, got, more, now, asked)
  BY QueryAnswers
<1>3. /\ view.got = got /\ view'.got = more
      /\ \A q : Asked(q) => Asked(q)' /\ more[q] = got[q]
      /\ \A q : Asked(q)' /\ ~Asked(q) => more[q] = Result(q, now)
  BY <1>2 DEF AddsAnswer
<1>4. AskedBefore
  BY AskedInOrder
<1>5. /\ reviews' = reviews /\ reviews \in Seq(ReviewRows)
      /\ MaxExportCards \in Nat /\ MaxExportReviews \in Nat
  BY <1>1, SnapshotAssumption DEF vars, TablesInv, TypeOK
<1>6. ASSUME Asked("cardRows")', ~Asked("reviewRows")'
      PROVE  \E n \in 0 .. Len(reviews) : LeadTo(more["cardRows"].rows, reviews, n)
  <2>1. CASE Asked("cardRows")
    BY <1>3, <1>6, <2>1 DEF Usable
  <2>2. CASE ~Asked("cardRows")
    <3>1. PICK rows, part, S : /\ rows = CardRowsById /\ part = Capped(rows, MaxExportCards)
                               /\ rows \in Seq(S)
      BY CardRowsAre DEF TablesInv
    <3>2. CapLeaves(part, rows, MaxExportCards)
      BY <1>5, <3>1, CappedIs
    <3>3. more["cardRows"] = part
      BY <1>3, <1>6, <2>2, <3>1, ResultsAre
    <3>4. LeadTo(rows, reviews, Len(reviews))
      BY <3>1, TableStands
    <3>5. LeadTo(part.rows, reviews, Len(reviews))
      BY <3>2, <3>4 DEF LeadTo, CapLeaves
    <3>6. Len(reviews) \in 0 .. Len(reviews)
      BY <1>5
    <3> QED BY <3>3, <3>5, <3>6
  <2> QED BY <2>1, <2>2
<1>7. ASSUME Asked("cardRows")', Asked("reviewRows")'
      PROVE  \/ more["reviewRows"].truncated
             \/ \E n \in 0 .. Len(more["reviewRows"].rows) : \A k \in DOMAIN more["cardRows"].rows :
                  more["cardRows"].rows[k].sched =
                    ReplayOf(more["cardRows"].rows[k].word, more["cardRows"].rows[k].created,
                             more["reviewRows"].rows)[n]
  <2>1. CASE Asked("reviewRows")
    BY <1>3, <1>4, <2>1 DEF AskedBefore, Usable, BackupReplays
  <2>2. CASE ~Asked("reviewRows")
    <3>1. PICK part : part = Capped(reviews, MaxExportReviews)
      OBVIOUS
    <3>2. CapLeaves(part, reviews, MaxExportReviews)
      BY <1>5, <3>1, CappedIs
    <3>3. more["reviewRows"] = part
      BY <1>3, <1>7, <2>2, <3>1, ResultsAre DEF ReviewRowsById
    <3>4. Asked("cardRows") /\ more["cardRows"] = got["cardRows"]
      BY <1>3, <1>4, <1>7 DEF AskedBefore
    <3>5. PICK cardRows : cardRows = got["cardRows"].rows
      OBVIOUS
    <3>6. PICK n \in 0 .. Len(reviews) : LeadTo(cardRows, reviews, n)
      BY <1>3, <2>2, <3>4, <3>5 DEF Usable
    <3>7. ASSUME NEW k \in DOMAIN cardRows
          PROVE  cardRows[k].sched = ReplayOf(cardRows[k].word, cardRows[k].created, reviews)[n]
      <4>1. PICK row : row = cardRows[k]
        OBVIOUS
      <4>2. PICK f : IsReplay(f, NewState(row.created), row.word, reviews) /\ f[n] = row.sched
        BY <3>6, <4>1 DEF LeadTo, StandsAt
      <4>3. ReplayOf(row.word, row.created, reviews) = f
        BY <1>5, <4>2, ReplayOfIs
      <4> QED BY <4>1, <4>2, <4>3
    <3> QED BY <3>2, <3>3, <3>4, <3>5, <3>7 DEF CapLeaves
  <2> QED BY <2>1, <2>2
<1>8. BackupReplays'
  BY <1>3, <1>7 DEF BackupReplays
<1> QED BY <1>3, <1>5, <1>6, <1>8 DEF Usable

-----------------------------------------------------------------------------
(* All of it is kept by every step.                                         *)

LEMMA SnapTypeKept ==
  ASSUME TablesInv', SnapTypeOK, view' = view
  PROVE  SnapTypeOK'
BY DEF TablesInv, FetchedPast, SnapTypeOK

LEMMA CommitKeeps ==
  ASSUME TablesInv, ViewInv, Commit
  PROVE  TablesInv' /\ ViewInv'
<1>1. TablesInv' /\ Grown /\ view' = view
  BY CommitStep
<1>2. SnapTypeOK' /\ Behind' /\ Cut' /\ Usable'
  BY <1>1, SnapTypeKept, BehindKept, CutKept, UsableKept DEF ViewInv
<1>3. NumbersAgree'
  BY <1>1 DEF ViewInv, NumbersAgree, Asked
<1> QED BY <1>1, <1>2, <1>3 DEF ViewInv

LEMMA TablesRest ==
  ASSUME TablesInv, UNCHANGED <<vars, fetched>>
  PROVE  TablesInv'
BY DEF TablesInv, vars, TypeOK, RowsKnown, Replays, IdsUsed, AllPresentable, Presentable,
       Occurrences, Existing, FetchedPast

LEMMA QueryKeeps ==
  ASSUME TablesInv, ViewInv, Query
  PROVE  TablesInv' /\ ViewInv'
<1>1. TablesInv' /\ SnapTypeOK'
  BY QueryAnswers, TablesRest DEF ViewInv
<1> QED BY <1>1, QueryBehind, QueryAgrees, QueryCut, QueryUsable DEF ViewInv

\* A request that has asked nothing yet, or that is over, has said nothing.
LEMMA NothingAsked ==
  ASSUME TablesInv', SnapTypeOK', \A q : ~Asked(q)'
  PROVE  ViewInv'
BY DEF ViewInv, Behind, BehindBy, NumbersAgree, Cut, Usable, BackupReplays

LEMMA BeginKeeps ==
  ASSUME TablesInv, ViewInv, NEW kind \in Kinds, Begin(kind)
  PROVE  TablesInv' /\ ViewInv'
<1>1. TablesInv'
  BY TablesRest DEF Begin
<1>2. view' = [kind |-> kind, now |-> clock, asked |-> 0, got |-> <<>>] /\ clock \in Nat
  BY DEF Begin, TablesInv, TypeOK
<1>3. view'.kind = kind /\ view'.now = clock /\ view'.asked = 0 /\ DOMAIN view'.got = {}
  BY <1>2
<1>4. PICK n \in Nat : n = Len(QueriesOf(kind))
  BY OrderOf DEF InOrder
<1>5. SnapTypeOK'
  BY <1>1, <1>2, <1>3, <1>4 DEF SnapTypeOK, TablesInv, FetchedPast
<1>6. \A q : ~Asked(q)'
  BY <1>3 DEF Asked
<1> QED BY <1>1, <1>5, <1>6, NothingAsked

LEMMA EndKeeps ==
  ASSUME TablesInv, ViewInv, End
  PROVE  TablesInv' /\ ViewInv'
<1>1. TablesInv' /\ view' = NoView
  BY TablesRest DEF End
<1>2. SnapTypeOK'
  BY <1>1 DEF SnapTypeOK, TablesInv, FetchedPast
<1>3. \A q : ~Asked(q)'
  BY <1>1 DEF Asked, NoView, Kinds
<1> QED BY <1>1, <1>2, <1>3, NothingAsked

LEMMA SnapStep == TablesInv /\ ViewInv /\ [SnapNext]_allVars => TablesInv' /\ ViewInv'
<1> SUFFICES ASSUME TablesInv, ViewInv, [SnapNext]_allVars
             PROVE  TablesInv' /\ ViewInv'
  OBVIOUS
<1>1. CASE Commit
  BY <1>1, CommitKeeps
<1>2. CASE \E kind \in Kinds : Begin(kind)
  BY <1>2, BeginKeeps
<1>3. CASE Query
  BY <1>3, QueryKeeps
<1>4. CASE End
  BY <1>4, EndKeeps
<1>5. CASE UNCHANGED allVars
  <2>1. UNCHANGED <<vars, fetched>> /\ view' = view
    BY <1>5 DEF allVars
  <2>2. TablesInv' /\ SnapTypeOK'
    BY <2>1, TablesRest, SnapTypeKept DEF ViewInv
  <2>3. Behind' /\ NumbersAgree' /\ Cut' /\ Usable'
    BY <2>1 DEF ViewInv, Behind, BehindBy, NumbersAgree, Cut, Usable, BackupReplays, Asked, vars,
                Reviewed, Existing, NewCards, IsNew
  <2> QED BY <2>2, <2>3 DEF ViewInv
<1> QED BY <1>1, <1>2, <1>3, <1>4, <1>5 DEF SnapNext, Commit

LEMMA SnapStart == SnapInit => TablesInv /\ ViewInv
<1> SUFFICES ASSUME SnapInit PROVE TablesInv /\ ViewInv
  OBVIOUS
<1>1. Init /\ DOMAIN fetched = {} /\ view = NoView
  BY DEF SnapInit
<1>2. TypeOK /\ Existing = {} /\ DOMAIN reviews = {}
  BY <1>1, InvInit DEF IInv, Init, Existing
<1>3. TablesInv
  BY <1>1, <1>2, FS_EmptySet DEF TablesInv, RowsKnown, Replays, IdsUsed, AllPresentable, FetchedPast
<1>4. \A q : ~Asked(q)
  BY <1>1 DEF Asked, NoView, Kinds
<1>5. SnapTypeOK
  BY <1>1, <1>2 DEF SnapTypeOK
<1> QED BY <1>3, <1>4, <1>5
        DEF ViewInv, Behind, BehindBy, NumbersAgree, Cut, Usable, BackupReplays

LEMMA SnapInvariance == SnapSpec => [](TablesInv /\ ViewInv)
BY SnapStart, SnapStep, PTL DEF SnapSpec

\* However taps, grades and scrapes fall between the queries of one request, its
\* numbers agree: what can only grow is read in the order in which the smaller
\* comes first.
THEOREM NumbersAlwaysAgree == SnapSpec => []SnapInv
<1>1. ViewInv => SnapInv
  BY DEF ViewInv, SnapInv
<1> QED BY <1>1, SnapInvariance, PTL

\* An export says that it was cut exactly when it leaves something out.
THEOREM TruncationAlwaysTold == SnapSpec => []TruncationTold
<1>1. ViewInv => TruncationTold
  <2> SUFFICES ASSUME ViewInv, Asked("cardRows"), Asked("reviewRows")
               PROVE  TruncationTold
    BY DEF TruncationTold
  <2>1. /\ CutAt(view.got["cardRows"], MaxExportCards, Cardinality(Existing),
                 Total(view.got["byPhase"]))
        /\ CutAt(view.got["reviewRows"], MaxExportReviews, Len(reviews), view.got["reviews"])
    BY DEF ViewInv, Cut
  <2> QED BY <2>1 DEF CutAt, TruncationTold, Truncated
<1> QED BY <1>1, SnapInvariance, PTL

\* The rows of an export that are not cut lead to the state of every card in it,
\* whatever was graded between the two queries.
THEOREM BackupAlwaysReplays == SnapSpec => []BackupReplays
<1>1. ViewInv => BackupReplays
  BY DEF ViewInv, Usable
<1> QED BY <1>1, SnapInvariance, PTL

\* The page and the dashboard, each with its own threshold, agree on which words
\* are known.
THEOREM PlainAlwaysMature == SnapSpec => []PlainMeansMature
<1>1. TablesInv => PlainMeansMature
  <2> SUFFICES ASSUME TablesInv, NEW w \in Existing, NEW comfortable \in {0, ComfortableInterval}
               PROVE  ~IsUnfamiliar(comfortable, w, clock)
                        <=> IsMature(comfortable, w) /\ ~IsDue(w, clock)
    BY DEF PlainMeansMature
  <2>1. PICK s \in States : s = cards[w].sched
    BY DEF TablesInv, TypeOK, Existing, CardRows
  <2>2. /\ s.phase \in {"new", "learning", "review", "relearning"}
        /\ s.interval \in Int
    BY <2>1 DEF States, Phases
  <2>3. /\ UnfamiliarThreshold(comfortable) \in Int
        /\ MatureThreshold(comfortable) = UnfamiliarThreshold(comfortable)
    BY SnapshotAssumption DEF UnfamiliarThreshold, MatureThreshold, OneDay
  <2> QED BY <2>1, <2>2, <2>3 DEF IsUnfamiliar, IsMature, IsDue
<1> QED BY <1>1, SnapInvariance, PTL

\* The button of the dashboard and GET /review agree on an empty queue.
THEOREM ButtonAlwaysAgrees == SnapSpec => []ButtonAgreesWithNext
<1>1. TablesInv => ButtonAgreesWithNext
  <2> SUFFICES ASSUME TablesInv, NEW now
               PROVE  /\ QueueReady(now) = 0 => NextAnswers(now) = {EmptyPage}
                      /\ QueueReady(now) > 0 /\ ReviewsOn(Day(now)) < SessionLimit =>
                           EmptyPage \notin NextAnswers(now)
    BY DEF ButtonAgreesWithNext
  <2>1. PICK due, new : due = DueCards(now) /\ new = NewCards
    OBVIOUS
  <2>2. /\ due = {w \in DueCards(now) : Presentable(w)}
        /\ new = {w \in NewCards : Presentable(w)}
    BY <2>1 DEF TablesInv, AllPresentable, DueCards, NewCards
  <2>3. PICK d \in Nat, n \in Nat : d = Cardinality(due) /\ n = Cardinality(new)
    BY <2>1, ReviewedCounts DEF TablesInv
  <2>4. (d = 0 <=> due = {}) /\ (n = 0 <=> new = {})
    <3>1. IsFiniteSet(due) /\ IsFiniteSet(new)
      BY <2>1, CountsOf DEF TablesInv, DueCards, NewCards
    <3> QED BY <2>3, <3>1, FS_EmptySet
  <2>5. PICK i \in Nat, r \in Nat : i = IntroducedOn(Day(now)) /\ r = ReviewsOn(Day(now))
    BY RowCountsBounded DEF TablesInv
  <2>6. NewPerDay \in Nat /\ SessionLimit \in Nat
    BY ReviewAssumption
  <2>7. PICK left \in Nat : left = RemainingNew(n, i) /\ (left = 0 <=> i >= NewPerDay \/ n = 0)
    BY <2>3, <2>5, <2>6 DEF RemainingNew
  <2>8. QueueReady(now) = d + left
    BY <2>1, <2>3, <2>5, <2>7 DEF QueueReady
  <2>9. due = {} /\ (i >= NewPerDay \/ new = {}) => NextAnswers(now) = {EmptyPage}
    BY <2>2, <2>5 DEF NextAnswers
  <2>10. ~(r >= SessionLimit) /\ ~(due = {} /\ (i >= NewPerDay \/ new = {})) =>
           EmptyPage \notin NextAnswers(now)
    <3>1. \A w, token, o : Item(w, token, o).shows = "card"
      BY DEF Item
    <3>2. EmptyPage.shows = "empty"
      BY DEF EmptyPage
    <3>3. \A w, token, o : Item(w, token, o) # EmptyPage
      BY <3>1, <3>2
    <3> QED BY <2>2, <2>5, <3>3 DEF NextAnswers
  <2> QED BY <2>4, <2>5, <2>6, <2>7, <2>8, <2>9, <2>10, <2>3
<1> QED BY <1>1, SnapInvariance, PTL
=============================================================================
