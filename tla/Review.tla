------------------------------- MODULE Review -------------------------------
(***************************************************************************)
(* The Review loop: GET /review and POST /review (internal/http) over      *)
(* Service.Next and Service.Grade (internal/review), with the tap that     *)
(* extracts a Sentence (internal/db) as the source of new Cards.           *)
(*                                                                         *)
(* Fiber serves every request on a goroutine of its own and the database   *)
(* has one connection, so a query or a transaction is atomic and anything  *)
(* may happen between two of them.  Grade is one transaction; Next is a    *)
(* loop of separate queries, one action each.                              *)
(*                                                                         *)
(* One Learner, so a card is named by its word.  Instants are in ticks,    *)
(* tokens (cards.updated_at) in milliseconds.                              *)
(***************************************************************************)
EXTENDS Schedule, FiniteSets, SequencesExt

CONSTANTS
  Tabs,            \* the browser tabs of the Learner
  Words,
  Sentences,
  CandidatesOf,    \* the words of a sentence, in text order
  Orphans,         \* words whose occurrences may be lost
  SessionLimit,    \* grade rows per UTC day
  NewPerDay,       \* cards introduced per UTC day
  MaxNextSkips,    \* maxNextSkips
  GradeInputs,     \* what the form's grade field may hold
  BuildMayFail,    \* whether the queries of buildItem may fail
  TickMillis,      \* milliseconds in a tick
  MaxClock,        \* bound: the last instant
  NoCard

ASSUME ReviewAssumption ==
  /\ IsFiniteSet(Tabs) /\ IsFiniteSet(Words) /\ IsFiniteSet(Sentences)
  /\ CandidatesOf \in [Sentences -> Seq(Words)]
  /\ Orphans \subseteq Words
  /\ SessionLimit \in Nat /\ NewPerDay \in Nat /\ MaxNextSkips \in Nat \ {0}
  /\ BuildMayFail \in BOOLEAN
  /\ TickMillis \in Nat \ {0} /\ MaxClock \in Nat
  /\ NoCard \notin Words

VARIABLES
  clock,           \* time.Now
  cards,           \* cards: word -> [id, created, updated, sched]
  extracted,       \* the sentences whose extracted_at is set
  occ,             \* sentence_words: rows [sentence, word, at, batch]; ids grow with batch
  reviews,         \* reviews: rows [word, sentence, grade, at], by id
  req,             \* the request each tab has in flight: where its handler is
  page             \* what each tab shows: the form of an Item, or no card

vars == <<clock, cards, extracted, occ, reviews, req, page>>
db == <<cards, extracted, occ, reviews>>

NoPage == [shows |-> "nothing"]
EmptyPage == [shows |-> "empty"]
Forms == [shows : {"card"}, word : Words, token : Nat, sentence : Sentences]
CardRows == [id : Nat, created : Nat, updated : Nat, sched : States]
ReviewRows == [word : Words, sentence : Sentences, grade : Grades, at : Nat]
OccRows == [sentence : Sentences, word : Words, at : Nat, batch : Nat]

Idle == [pc |-> "idle"]
Posting == [pc : {"grade"}, now : Nat, grade : GradeInputs, sentence : Sentences]
Asking == [pc : {"count", "due", "introduced", "new", "build", "sentence"}, now : Nat,
           skip : SUBSET Words, tries : Nat, pick : Words \cup {NoCard}, token : Nat]

TypeOK ==
  /\ clock \in Nat
  /\ DOMAIN cards \subseteq Words
  /\ \A w \in DOMAIN cards : cards[w] \in CardRows
  /\ extracted \subseteq Sentences
  /\ occ \subseteq OccRows
  /\ reviews \in Seq(ReviewRows)
  /\ req \in [Tabs -> {Idle} \cup Posting \cup Asking]
  /\ page \in [Tabs -> {NoPage, EmptyPage} \cup Forms]

Existing == DOMAIN cards
IsForm(p) == p.shows = "card"
At(t, pc) == req[t].pc = pc
Goto(t, pc) == req' = [req EXCEPT ![t].pc = pc]

-----------------------------------------------------------------------------
(* What the queries read. *)

Day(at) == at \div DayTicks
RowsOf(w) == {i \in DOMAIN reviews : reviews[i].word = w}
RowsOn(d) == {i \in DOMAIN reviews : Day(reviews[i].at) = d}

\* countReviewsToday
ReviewsOn(d) == Cardinality(RowsOn(d))

\* countNewIntroducedToday: the card's earliest row is on the day.
Introduced(d) ==
  {w \in Existing : /\ \E i \in RowsOf(w) : Day(reviews[i].at) = d
                    /\ \A i \in RowsOf(w) : Day(reviews[i].at) >= d}
IntroducedOn(d) == Cardinality(Introduced(d))

IsDue(w, now) == cards[w].sched.phase # "new" /\ cards[w].sched.due <= now
IsNew(w) == cards[w].sched.phase = "new"

DueCards(now) == {w \in Existing : IsDue(w, now)}
NewCards == {w \in Existing : IsNew(w)}

\* ORDER BY due_at, id and ORDER BY id, with LIMIT 1.
DueBefore(v, w) ==
  \/ cards[v].sched.due < cards[w].sched.due
  \/ cards[v].sched.due = cards[w].sched.due /\ cards[v].id <= cards[w].id
IsFirstDue(w, S) == w \in S /\ \A v \in S : DueBefore(w, v)
IsFirstNew(w, S) == w \in S /\ \A v \in S : cards[w].id <= cards[v].id

Occurrences(w) == {o \in occ : o.word = w}
Presentable(w) == Occurrences(w) # {}
Linked(s, w) == \E o \in Occurrences(w) : o.sentence = s

\* ORDER BY created_at DESC, id DESC LIMIT 1
IsNewest(o, w) ==
  /\ o \in Occurrences(w)
  /\ \A p \in Occurrences(w) : p.at < o.at \/ (p.at = o.at /\ p.batch <= o.batch)

\* The form of buildItem's Item: its card, the card's token, its newest sentence.
Item(w, token, o) ==
  [shows |-> "card", word |-> w, token |-> token, sentence |-> o.sentence]

-----------------------------------------------------------------------------
(* The environment: time passes, taps extract Sentences, words lose their text. *)

Tick == /\ clock < MaxClock
        /\ clock' = clock + 1
        /\ UNCHANGED <<db, req, page>>

NewCard(id, now) ==
  [id |-> id, created |-> now, updated |-> now * TickMillis, sched |-> NewState(now)]

\* The next autoincrement id when the cards of a sentence are inserted in text
\* order: one for each card there is and each new one up to the word's.
UpTo(w, words) == {words[i] : i \in {k \in DOMAIN words : \A j \in 1 .. k - 1 : words[j] # w}}
IdOf(w, words) == Cardinality(Existing) + Cardinality(UpTo(w, words) \ Existing)

\* ExtractSentenceForArticle of a sentence not yet extracted: its occurrences,
\* and a card for each word that has none, in one transaction, dated by the now
\* its request started with.
Extract(s, now) ==
  LET words == CandidatesOf[s]
      wanted == {words[i] : i \in DOMAIN words}
  IN /\ s \notin extracted
     /\ extracted' = extracted \cup {s}
     /\ occ' = occ \cup [sentence : {s}, word : wanted, at : {now},
                          batch : {Cardinality(extracted) + 1}]
     /\ cards' = [w \in Existing \cup wanted |->
                    IF w \in Existing THEN cards[w] ELSE NewCard(IdOf(w, words), now)]
     /\ UNCHANGED <<clock, reviews, req, page>>

\* The bad row Next and Grade guard against: the sentence_words rows of a card's
\* word are deleted (the code keeps the card when it replaces the rows of a
\* sentence; TestNextSkipsCardWithoutSentence deletes them by hand).
LoseOccurrences(w) ==
  /\ Presentable(w)
  /\ occ' = occ \ Occurrences(w)
  /\ UNCHANGED <<clock, cards, extracted, reviews, req, page>>

-----------------------------------------------------------------------------
(* The handlers. *)

\* A request to Next: now is read once, when the handler starts.
Ask(now) == [pc |-> "count", now |-> now, skip |-> {}, tries |-> 0, pick |-> NoCard,
             token |-> 0]

HandleReviewGet(t) ==
  /\ At(t, "idle")
  /\ req' = [req EXCEPT ![t] = Ask(clock)]
  /\ UNCHANGED <<clock, db, page>>

\* The Learner grades what the tab shows; s is the form's sentence_id field.
HandleReviewPost(t, g, s) ==
  /\ At(t, "idle")
  /\ IsForm(page[t])
  /\ req' = [req EXCEPT ![t] = [pc |-> "grade", now |-> clock, grade |-> g, sentence |-> s]]
  /\ UNCHANGED <<clock, db, page>>

\* MUTANT: no optimistic lock.
AcceptsAnyToken(form, grade, s) ==
  grade \in Grades /\ form.word \in Existing /\ Linked(s, form.word)

\* Grade goes through: a known grade, an existing card, the token the card
\* still has, a sentence its word occurs in.  Every refusal changes nothing.
Accepts(form, grade, s) ==
  /\ grade \in Grades
  /\ form.word \in Existing
  /\ cards[form.word].updated = form.token
  /\ Linked(s, form.word)

\* MUTANT: the token is just the time of the grade.
TokenIsNow(old, now) == now * TickMillis

\* The next token: now, or a millisecond past the old one when that is not later.
NextToken(old, now) == IF now * TickMillis > old THEN now * TickMillis ELSE old + 1

\* MUTANT: the card is scheduled from the time of the commit, the row dated by
\* the time of the request.
GradedLate(w, g, now) ==
  [cards[w] EXCEPT !.sched = Apply(cards[w].sched, g, clock),
                   !.updated = NextToken(cards[w].updated, now)]

Graded(w, g, now) ==
  [cards[w] EXCEPT !.sched = Apply(cards[w].sched, g, now),
                   !.updated = NextToken(cards[w].updated, now)]

\* MUTANT: no transaction, and a request that dies between the update and the
\* insert leaves a graded card without its row.
GradeTxTorn(t, htmx) ==
  /\ At(t, "grade")
  /\ LET r == req[t]
         w == page[t].word
     IN /\ IF Accepts(page[t], r.grade, r.sentence)
           THEN /\ cards' = [cards EXCEPT ![w] = Graded(w, r.grade, r.now)]
                /\ reviews' = IF htmx
                              THEN Append(reviews, [word |-> w, sentence |-> r.sentence,
                                                    grade |-> r.grade, at |-> r.now])
                              ELSE reviews
           ELSE UNCHANGED <<cards, reviews>>
        /\ req' = [req EXCEPT ![t] = IF htmx THEN Ask(r.now) ELSE Idle]
  /\ UNCHANGED <<clock, extracted, occ, page>>

\* The transaction of Grade and what the handler does next: an HTMX request
\* goes on to Next with the now it started with, whatever the outcome; a plain
\* one ends in a redirect or an error text.  An answer lost on the way back
\* leaves the tab as the latter does.
GradeTx(t, htmx) ==
  /\ At(t, "grade")
  /\ LET r == req[t]
         w == page[t].word
     IN /\ IF Accepts(page[t], r.grade, r.sentence)
           THEN /\ cards' = [cards EXCEPT ![w] = Graded(w, r.grade, r.now)]
                /\ reviews' = Append(reviews, [word |-> w, sentence |-> r.sentence,
                                               grade |-> r.grade, at |-> r.now])
           ELSE UNCHANGED <<cards, reviews>>
        /\ req' = [req EXCEPT ![t] = IF htmx THEN Ask(r.now) ELSE Idle]
  /\ UNCHANGED <<clock, extracted, occ, page>>

Answer(t, p) ==
  /\ page' = [page EXCEPT ![t] = p]
  /\ req' = [req EXCEPT ![t] = Idle]

\* MUTANT: one grade too many.
NextCountOff(t) ==
  /\ At(t, "count")
  /\ IF ReviewsOn(Day(req[t].now)) > SessionLimit
     THEN Answer(t, EmptyPage)
     ELSE Goto(t, "due") /\ UNCHANGED page
  /\ UNCHANGED <<clock, db>>

NextCount(t) ==
  /\ At(t, "count")
  /\ IF ReviewsOn(Day(req[t].now)) >= SessionLimit
     THEN Answer(t, EmptyPage)
     ELSE Goto(t, "due") /\ UNCHANGED page
  /\ UNCHANGED <<clock, db>>

Picked(t, w) == req' = [req EXCEPT ![t].pc = "build", ![t].pick = w]

\* pickDueCard
NextDue(t) ==
  /\ At(t, "due")
  /\ LET due == DueCards(req[t].now) \ req[t].skip
     IN IF due = {}
        THEN Goto(t, "introduced")
        ELSE \E w \in due : IsFirstDue(w, due) /\ Picked(t, w)
  /\ UNCHANGED <<clock, db, page>>

\* MUTANT: the cap on new cards is not checked.
NextIntroducedUnchecked(t) ==
  /\ At(t, "introduced")
  /\ Goto(t, "new") /\ UNCHANGED page
  /\ UNCHANGED <<clock, db>>

NextIntroduced(t) ==
  /\ At(t, "introduced")
  /\ IF IntroducedOn(Day(req[t].now)) >= NewPerDay
     THEN Answer(t, EmptyPage)
     ELSE Goto(t, "new") /\ UNCHANGED page
  /\ UNCHANGED <<clock, db>>

\* pickNewCard
NextNew(t) ==
  /\ At(t, "new")
  /\ LET new == NewCards \ req[t].skip
     IN IF new = {}
        THEN Answer(t, EmptyPage)
        ELSE /\ \E w \in new : IsFirstNew(w, new) /\ Picked(t, w)
             /\ UNCHANGED page
  /\ UNCHANGED <<clock, db>>

\* The first query of buildItem: the card and its token.
NextLoad(t) ==
  /\ At(t, "build")
  /\ req' = [req EXCEPT ![t].pc = "sentence", ![t].token = cards[req[t].pick].updated]
  /\ UNCHANGED <<clock, db, page>>

\* The second, the newest sentence: the tab gets the card's form.
NextPresent(t) ==
  /\ At(t, "sentence")
  /\ \E o \in occ : /\ IsNewest(o, req[t].pick)
                    /\ Answer(t, Item(req[t].pick, req[t].token, o))
  /\ UNCHANGED <<clock, db>>

\* buildItem fails: its card has no occurrence, or a query went wrong.
BuildFails(t) ==
  \/ At(t, "sentence") /\ ~Presentable(req[t].pick)
  \/ BuildMayFail /\ (At(t, "build") \/ At(t, "sentence"))

\* MUTANT: the loop goes round again without having skipped the card.
NextSkipForever(t) ==
  /\ BuildFails(t)
  /\ req' = [req EXCEPT ![t].pc = "due", ![t].token = 0]
  /\ UNCHANGED <<clock, db, page>>

\* MUTANT: an unpresentable card ends the request.
NextSkipGivesUp(t) ==
  /\ BuildFails(t)
  /\ Answer(t, EmptyPage)
  /\ UNCHANGED <<clock, db>>

\* The next turn of the loop skips the card, until the turns are used up.
NextSkip(t) ==
  /\ BuildFails(t)
  /\ IF req[t].tries + 1 = MaxNextSkips
     THEN Answer(t, EmptyPage)
     ELSE /\ req' = [req EXCEPT ![t].pc = "due",
                                ![t].skip = @ \cup {req[t].pick},
                                ![t].tries = @ + 1,
                                ![t].token = 0]
          /\ UNCHANGED page
  /\ UNCHANGED <<clock, db>>

\* A query outside buildItem fails, the process dies or the answer is lost: the
\* open transaction is rolled back, the tab keeps what it shows.
Fail(t) ==
  /\ ~At(t, "idle")
  /\ req' = [req EXCEPT ![t] = Idle]
  /\ UNCHANGED <<clock, db, page>>

-----------------------------------------------------------------------------
Init ==
  /\ clock = 0
  /\ cards = << >>
  /\ extracted = {}
  /\ occ = {}
  /\ reviews = << >>
  /\ req = [t \in Tabs |-> Idle]
  /\ page = [t \in Tabs |-> NoPage]

\* One query of Next.
NextStep(t) ==
  \/ NextCount(t)
  \/ NextDue(t)
  \/ NextIntroduced(t)
  \/ NextNew(t)
  \/ NextLoad(t)
  \/ NextPresent(t)
  \/ NextSkip(t)

Handler(t) == NextStep(t) \/ \E htmx \in BOOLEAN : GradeTx(t, htmx)

User(t) ==
  \/ HandleReviewGet(t)
  \/ \E g \in GradeInputs, s \in Sentences : HandleReviewPost(t, g, s)

Next ==
  \/ Tick
  \/ \E s \in Sentences, now \in 0 .. clock : Extract(s, now)
  \/ \E w \in Orphans : LoseOccurrences(w)
  \/ \E t \in Tabs : User(t) \/ Handler(t) \/ Fail(t)

Spec == Init /\ [][Next]_vars

\* A goroutine whose query can run gets to run it; nothing else is promised.
FairSpec == Spec /\ \A t \in Tabs : WF_vars(Handler(t))

-----------------------------------------------------------------------------
(* What makes the loop correct. *)

\* What the first n rows make of the card of w, from the new card it was.
ReplayOf(w, created, rows) ==
  LET state[n \in 0 .. Len(rows)] ==
        IF n = 0 THEN NewState(created)
        ELSE IF rows[n].word = w
             THEN Apply(state[n - 1], rows[n].grade, rows[n].at)
             ELSE state[n - 1]
  IN state

Replayed(w) == ReplayOf(w, cards[w].created, reviews)[Len(reviews)]

\* The schedule of a card is what its reviews rows say it is: replaying the
\* rows from the new card gives the stored state, so no grade was lost, applied
\* twice or applied to a state read earlier (the transaction of Grade).
HistoryReplays == \A w \in Existing : cards[w].sched = Replayed(w)

\* A card is new exactly until its first row, which the cap on new cards counts
\* (pickNewCard reads the phase, countNewIntroducedToday the rows).
NewIffUnreviewed == \A w \in Existing : IsNew(w) <=> RowsOf(w) = {}

\* The rows of a card are dated in the order they were written, although a
\* request reads its now before its transaction starts: the token refuses a
\* grade that was overtaken.
RowsInOrder ==
  \A i, j \in DOMAIN reviews :
    reviews[i].word = reviews[j].word /\ i <= j => reviews[i].at <= reviews[j].at

\* A presentation is graded at most once: an accepted grade appends one row, of
\* a card some tab was showing with its current token, and leaves every form of
\* that card stale, whichever tab shows it (double submit, second tab, resend).
GradeOnceStep ==
  reviews' # reviews =>
    \E w \in Existing :
      /\ Len(reviews') = Len(reviews) + 1 /\ reviews'[Len(reviews')].word = w
      /\ \E t \in Tabs : IsForm(page[t]) /\ page[t].word = w
                           /\ page[t].token = cards[w].updated
      /\ \A t \in Tabs : IsForm(page'[t]) /\ page'[t].word = w
                           => page'[t].token # cards'[w].updated
GradeOnce == [][GradeOnceStep]_vars

\* "SessionLimit is the max grade rows per UTC calendar day", "NewPerDay is max
\* Cards whose first review row falls on the UTC calendar day" (schedule.go): with
\* one tab both are kept.  Grade looks at neither, so each further tab can hold one
\* form that was under the limit when it was shown; that is all they exceed it by.
SessionLimitSlack ==
  \A i \in DOMAIN reviews :
    ReviewsOn(Day(reviews[i].at)) <= SessionLimit + Cardinality(Tabs) - 1
NewPerDaySlack ==
  \A i \in DOMAIN reviews :
    IntroducedOn(Day(reviews[i].at)) <= NewPerDay + Cardinality(Tabs) - 1
CapsKept == SessionLimitSlack /\ NewPerDaySlack

\* "Next returns the next Card for Review: due first, then new" (review.go): a
\* card that is put on a page is due or new at that moment.
ShownIsReadyStep ==
  \A t \in Tabs : page'[t] # page[t] /\ IsForm(page'[t])
    => IsNew(page'[t].word) \/ IsDue(page'[t].word, req[t].now)
ShownIsReady == [][ShownIsReadyStep]_vars

\* The answers an indivisible Next could give, looking at presentable cards only.
NextAnswers(now) ==
  LET due == {w \in DueCards(now) : Presentable(w)}
      new == {w \in NewCards : Presentable(w)}
      first == IF due # {} THEN {w \in due : IsFirstDue(w, due)}
                           ELSE {w \in new : IsFirstNew(w, new)}
  IN IF \/ ReviewsOn(Day(now)) >= SessionLimit
        \/ due = {} /\ (IntroducedOn(Day(now)) >= NewPerDay \/ new = {})
     THEN {EmptyPage}
     ELSE {Item(o.word, cards[o.word].updated, o) : o \in {p \in occ : p.word \in first /\ IsNewest(p, p.word)}}

\* Next gives up: maxNextSkips cards, all different, could not be shown.
GivesUp(t) ==
  /\ BuildFails(t) /\ req[t].pick \notin req[t].skip
  /\ Cardinality(req[t].skip) + 1 = MaxNextSkips

\* With no other tab, the loop of queries with its skips answers as the
\* indivisible Next does: unpresentable cards neither hide a card that could be
\* shown nor let one jump the queue, unless a tap gives a skipped card a sentence
\* before the answer.  The queue only looks empty behind a full maxNextSkips of
\* them.
AnswersStep ==
  \A t \in Tabs : At(t, "idle")' /\ ~At(t, "idle") /\ page' # page
    => \/ page'[t] \in NextAnswers(req[t].now)
       \/ \E w \in req[t].skip : Presentable(w)
       \/ page'[t] = EmptyPage /\ GivesUp(t)
AnswersAsOneQuery == [][AnswersStep]_vars

\* Every request is answered: the retry loop ends.
EveryRequestAnswered == \A t \in Tabs : ~At(t, "idle") ~> At(t, "idle")
=============================================================================
