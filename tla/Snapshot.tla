------------------------------ MODULE Snapshot ------------------------------
(***************************************************************************)
(* The numbers of the dashboard, of /api/stats and of /api/export: up to   *)
(* thirteen queries without a transaction (internal/snapshot,              *)
(* review/stats.go, db/counts.go, internal/export), while taps, scrapes    *)
(* and grades commit in between.                                           *)
(*                                                                         *)
(* The tables are those of Review; a grade or a tap is its transaction, a  *)
(* grade dated by any now its request may have read.  What a tab does is   *)
(* of no matter here, so there need not be one.                            *)
(***************************************************************************)
EXTENDS Review

CONSTANTS
  Articles,
  SentencesOf,           \* the sentences of an article
  ComfortableInterval,   \* hundredths of a day; 0: the program's own 21 days
  MaxExportCards,
  MaxExportReviews,
  MaxRows                \* bound: grades in all

ASSUME SnapshotAssumption ==
  /\ SentencesOf \in [Articles -> SUBSET Sentences]
  /\ \A a \in Articles : SentencesOf[a] # {}
  /\ \A a, b \in Articles : a # b => SentencesOf[a] \cap SentencesOf[b] = {}
  /\ ComfortableInterval \in Nat
  /\ MaxExportCards \in Nat /\ MaxExportReviews \in Nat /\ MaxRows \in Nat

VARIABLES
  fetched,               \* articles: article -> fetched_at
  view                   \* the request: its kind, its now, how many queries it
                         \* has asked, what they answered

allVars == <<vars, fetched, view>>

StatsQueries == <<"due", "new", "reviewsToday", "introducedToday">>

LibraryQueries == <<"articles", "sentences", "words", "cards", "reviews", "mature", "byPhase">>

\* MUTANT: new cards are counted before due ones.
NewFirst == <<"new", "due", "reviewsToday", "introducedToday">> \o LibraryQueries

LoadQueries == StatsQueries \o LibraryQueries

\* MUTANT: the export reads the history before the cards.
ReviewsFirst(kind) ==
  LoadQueries \o CASE kind = "index"  -> <<"lastFetched">>
                   [] kind = "stats"  -> <<>>
                   [] kind = "export" -> <<"reviewRows", "cardRows">>

\* The queries of handleIndex, handleStats and handleExport, in order.
QueriesOf(kind) ==
  LoadQueries \o CASE kind = "index"  -> <<"lastFetched">>
                   [] kind = "stats"  -> <<>>
                   [] kind = "export" -> <<"cardRows", "reviewRows">>

Kinds == {"index", "stats", "export"}
NoView == [kind |-> "none"]
Never == -1

-----------------------------------------------------------------------------
(* What the queries answer. *)

\* The threshold of schedule.IsUnfamiliar, with its own fallback.
UnfamiliarThreshold(comfortable) == IF comfortable = 0 THEN 21 * OneDay ELSE comfortable

\* IsUnfamiliar: the word is bold in a shown Sentence.
IsUnfamiliar(comfortable, w, now) ==
  \/ cards[w].sched.phase \in {"new", "learning", "relearning"}
  \/ cards[w].sched.due <= now
  \/ cards[w].sched.phase = "review" /\ cards[w].sched.interval < UnfamiliarThreshold(comfortable)

\* MUTANT: the fallback of the count drifts away to a month.
MatureThresholdDrifted(comfortable) == IF comfortable = 0 THEN 30 * OneDay ELSE comfortable

\* The threshold of LibraryCounts, with a fallback written a second time.
MatureThreshold(comfortable) == IF comfortable = 0 THEN 21 * OneDay ELSE comfortable

\* The rows LibraryCounts counts as mature.
IsMature(comfortable, w) ==
  cards[w].sched.phase = "review" /\ cards[w].sched.interval >= MatureThreshold(comfortable)

ByPhase == [p \in Phases |-> Cardinality({w \in Existing : cards[w].sched.phase = p})]

\* MUTANT: the query asks for no row past the cap.
CappedSilently(rows, max) ==
  [rows |-> SubSeq(rows, 1, IF Len(rows) > max THEN max ELSE Len(rows)),
   truncated |-> FALSE]

\* The rows of an export up to its cap, and whether one more was there.
Capped(rows, max) ==
  [rows |-> SubSeq(rows, 1, IF Len(rows) > max THEN max ELSE Len(rows)),
   truncated |-> Len(rows) > max]

\* ORDER BY id: the n-th card is the one whose id is the n-th of all.
UpToId(w) == {v \in Existing : cards[v].id <= cards[w].id}
NthCard(n) == CHOOSE w \in Existing : Cardinality(UpToId(w)) = n
CardRow(w) == [word |-> w, created |-> cards[w].created, sched |-> cards[w].sched]
CardRowsById == [n \in 1 .. Cardinality(Existing) |-> CardRow(NthCard(n))]

LastArticleFetchedAt == Max({Never} \cup {fetched[a] : a \in DOMAIN fetched})

\* reviews is in the order of its ids.
ReviewRowsById == reviews

Result(query, now) ==
  CASE query = "due"             -> Cardinality(DueCards(now))
    [] query = "new"             -> Cardinality(NewCards)
    [] query = "reviewsToday"    -> ReviewsOn(Day(now))
    [] query = "introducedToday" -> IntroducedOn(Day(now))
    [] query = "articles"        -> Cardinality(DOMAIN fetched)
    [] query = "sentences"       -> Cardinality(UNION {SentencesOf[a] : a \in DOMAIN fetched})
    [] query = "words"           -> Cardinality(Existing)
    [] query = "cards"           -> Cardinality(Existing)
    [] query = "reviews"         -> Len(reviews)
    [] query = "mature"          -> Cardinality({w \in Existing : IsMature(ComfortableInterval, w)})
    [] query = "byPhase"         -> ByPhase
    [] query = "lastFetched"     -> LastArticleFetchedAt
    [] query = "cardRows"        -> Capped(CardRowsById, MaxExportCards)
    [] query = "reviewRows"      -> Capped(ReviewRowsById, MaxExportReviews)

With(f, x, v) == [y \in DOMAIN f \cup {x} |-> IF y = x THEN v ELSE f[y]]

Asked(query) == view.kind \in Kinds /\ query \in DOMAIN view.got

-----------------------------------------------------------------------------
(* What other requests commit in between. *)

StoreArticle(a) ==
  /\ a \notin DOMAIN fetched
  /\ fetched' = With(fetched, a, clock)
  /\ UNCHANGED <<vars, view>>

TapSentence(s) ==
  /\ \E a \in DOMAIN fetched : s \in SentencesOf[a]
  /\ Extract(s, clock)
  /\ UNCHANGED <<fetched, view>>

\* A grade that Grade accepts.  The rows of a card are dated in order
\* (RowsInOrder); the caps do not hold a grade back.
GradeCard(w, g, now) ==
  /\ Len(reviews) < MaxRows
  /\ \A i \in RowsOf(w) : reviews[i].at <= now
  /\ \E s \in Sentences :
       /\ Linked(s, w)
       /\ reviews' = Append(reviews, [word |-> w, sentence |-> s, grade |-> g, at |-> now])
  /\ cards' = [cards EXCEPT ![w] = Graded(w, g, now)]
  /\ UNCHANGED <<clock, extracted, occ, req, page, fetched, view>>

TimePasses == Tick /\ UNCHANGED <<fetched, view>>

(* The handlers. *)

\* handleIndex, handleStats, handleExport: now is read once.
Begin(kind) ==
  /\ view = NoView
  /\ view' = [kind |-> kind, now |-> clock, asked |-> 0, got |-> <<>>]
  /\ UNCHANGED <<vars, fetched>>

Query ==
  /\ view # NoView
  /\ view.asked < Len(QueriesOf(view.kind))
  /\ LET n == view.asked + 1
         query == QueriesOf(view.kind)[n]
     IN view' = [kind |-> view.kind, now |-> view.now, asked |-> n,
                 got |-> With(view.got, query, Result(query, view.now))]
  /\ UNCHANGED <<vars, fetched>>

\* A query fails and the request is answered with an error, or it is over.
End ==
  /\ view # NoView
  /\ view' = NoView
  /\ UNCHANGED <<vars, fetched>>

SnapInit == Init /\ fetched = <<>> /\ view = NoView

SnapNext ==
  \/ \E a \in Articles : StoreArticle(a)
  \/ \E s \in Sentences : TapSentence(s)
  \/ \E w \in Existing, g \in GradeInputs \cap Grades, now \in 0 .. clock : GradeCard(w, g, now)
  \/ TimePasses
  \/ \E kind \in Kinds : Begin(kind)
  \/ Query
  \/ End

SnapSpec == SnapInit /\ [][SnapNext]_allVars

-----------------------------------------------------------------------------
SnapTypeOK ==
  /\ TypeOK
  /\ DOMAIN fetched \subseteq Articles /\ \A a \in DOMAIN fetched : fetched[a] \in Nat
  /\ view # NoView =>
       /\ view.kind \in Kinds /\ view.now \in Nat
       /\ view.asked \in 0 .. Len(QueriesOf(view.kind))
       /\ DOMAIN view.got = {QueriesOf(view.kind)[n] : n \in 1 .. view.asked}

Total(n) == n["new"] + n["learning"] + n["review"] + n["relearning"]

\* The numbers are read at different moments, but what only grows is read
\* smaller first: no answer counts more cards than words and rows can explain,
\* or a card both as due and as new, and the dashboard shows no library with
\* articles that was never scraped.
NumbersAgree ==
  /\ Asked("new") /\ Asked("due") /\ Asked("cards") =>
       view.got["due"] + view.got["new"] <= view.got["cards"]
  /\ Asked("words") /\ Asked("cards") => view.got["words"] <= view.got["cards"]
  /\ Asked("cards") /\ Asked("byPhase") => view.got["cards"] <= Total(view.got["byPhase"])
  /\ Asked("reviewsToday") /\ Asked("reviews") =>
       view.got["introducedToday"] <= view.got["reviews"] /\ view.got["reviewsToday"] <= view.got["reviews"]
  /\ Asked("articles") /\ Asked("sentences") => view.got["articles"] <= view.got["sentences"]
  /\ Asked("articles") /\ Asked("lastFetched") =>
       (view.got["articles"] > 0 => view.got["lastFetched"] # Never)

\* The invariant of the tables and of a request on its way (snapshot.Load).
SnapInv == SnapTypeOK /\ NumbersAgree

Truncated == view.got["cardRows"].truncated \/ view.got["reviewRows"].truncated

\* "Truncated is true when card or review caps were hit" (export.go): an export
\* that does not say so has every card and row counted before it, and one that
\* says so has left something out.
TruncationTold ==
  Asked("cardRows") /\ Asked("reviewRows") =>
    LET cardRows == Len(view.got["cardRows"].rows)
        reviewRows == Len(view.got["reviewRows"].rows)
    IN IF Truncated
       THEN \/ cardRows = MaxExportCards /\ Cardinality(Existing) > cardRows
            \/ reviewRows = MaxExportReviews /\ Len(reviews) > reviewRows
       ELSE Total(view.got["byPhase"]) <= cardRows /\ view.got["reviews"] <= reviewRows

\* An export is a usable backup although cards and rows are read apart: unless
\* the rows are cut, there is one place in them up to which they lead to the
\* state of every exported card, with nothing missing in between.
BackupReplays ==
  Asked("cardRows") /\ Asked("reviewRows") =>
    LET rows == view.got["reviewRows"].rows
        cardRows == view.got["cardRows"].rows
    IN \/ view.got["reviewRows"].truncated
       \/ \E n \in 0 .. Len(rows) : \A k \in DOMAIN cardRows :
            cardRows[k].sched = ReplayOf(cardRows[k].word, cardRows[k].created, rows)[n]

\* MUTANT: what is left of the day's new cards is not cut off at zero.
RemainingNewUnclamped(newCards, introduced) ==
  IF newCards < NewPerDay - introduced THEN newCards ELSE NewPerDay - introduced

\* remainingNew of the dashboard.
RemainingNew(newCards, introduced) ==
  LET left == IF introduced > NewPerDay THEN 0 ELSE NewPerDay - introduced
  IN IF newCards < left THEN newCards ELSE left

QueueReady(now) ==
  Cardinality(DueCards(now)) + RemainingNew(Cardinality(NewCards), IntroducedOn(Day(now)))

\* "Stats returns due/new counts and today's progress under the same caps as
\* Next" (stats.go): with nothing in between, the dashboard says "Review (empty)"
\* exactly when GET /review finds nothing, short of the session limit, which the
\* button does not look at; nor does it become wrong by a night without requests.
ButtonAgreesWithNext ==
  view = NoView => \A now \in 0 .. clock + DayTicks :
    /\ QueueReady(now) = 0 => NextAnswers(now) = {EmptyPage}
    /\ QueueReady(now) > 0 /\ ReviewsOn(Day(now)) < SessionLimit =>
         EmptyPage \notin NextAnswers(now)

\* "Same fallback as schedule.IsUnfamiliar" (counts.go): two packages keep their
\* own threshold and their own comparison with it.  Whether the threshold is set
\* or left at 0, a word that is not bold in a shown sentence belongs to a card
\* the dashboard counts as mature, and a mature one is bold only when it is due.
PlainMeansMature ==
  view = NoView => \A w \in Existing, comfortable \in {0, ComfortableInterval} :
    ~IsUnfamiliar(comfortable, w, clock) <=> IsMature(comfortable, w) /\ ~IsDue(w, clock)
=============================================================================
