# jkrt in TLA+

Specifications, model-checking runs and proofs for `jkrt`, a self-hosted reader
that scrapes Japanese news, turns tapped Sentences into flash cards and schedules
them with SM-2. All paths below are relative to the repository's root.

## 1. The system

One Go process (Fiber, SQLite through `database/sql` with `SetMaxOpenConns(1)`)
serves one Learner; `cmd/setpassword` is a second program on the same database.
Every HTTP request runs on a goroutine of its own. The single connection makes
each query, and each transaction, atomic; between two database calls of a
handler anything may happen. That, and crashes between commits, is where the
hard behaviour is: there is no other shared mutable state.

| Component | Code | State | Operations | What must hold |
|---|---|---|---|---|
| Scheduler | `internal/schedule` | none (pure) | `NewCard`, `Apply`, `IsUnfamiliar` | phase and fields consistent, better grades never come back earlier, passes grow the interval |
| Review queue | `internal/review` | `cards`, `reviews` | `Next`, `Grade` | a presentation is graded once, the schedule is what the rows say, daily caps, the right card next, one bad row does not hide the queue |
| Review handlers | `internal/http` | the form in each tab | GET, POST `/review` | resend and double submit are harmless |
| Extract on tap | `internal/db/extract.go`, `internal/analyze` | `sentences.extracted_at`, `sentence_words`, `words`, `cards` | tap, `IngestText` | all or nothing, first `extracted_at` kept, schedules never reset, the answer tells the truth |
| Ingest | `StoreArticle` | `news_sources`, `articles`, `sentences` | store one article | filed once, whole, never changed |
| Scrape | `internal/scrape` | none | `Run` over the Sources | one source's failure stays its own, counts exact |
| Migrations | `internal/db/db.go`, `migrations/` | the schema, `schema_migrations` | `Open` | an open database is migrated; opening works after a crash |
| Sentences and spans | `analyze/sentences.go`, `loadSpans` and `buildSpans` of `internal/review` | none (pure) | `SplitSentences`, `buildSpans` | no character lost or repeated; what is shown is the Sentence |
| Auth | `internal/auth`, `internal/config`, `cmd/server`, `cmd/setpassword` | `users`, signed cookies | start, login, logout, rotate | the Learner's row exists, the password is the one set, a session lasts as long as it should |
| Snapshot, stats, export | `internal/snapshot`, `internal/export`, `review/stats.go`, `db/counts.go` | none | dashboard, `/api/stats`, `/api/export` | numbers that agree with each other, a backup that can be used |
| Browse, pages | `internal/db/browse.go`, `internal/http/html.go` | none | read only | |

Interactions: Scrape calls `StoreArticle` for each item; a tap creates the cards
that Review shows; Review's `Grade` is the only writer of a card's schedule and of
`reviews`; the caps are computed from `reviews`; the snapshot reads what all of these
write; `Open` comes before everything, then the Learner's row, to which every card
and review refers.

## 2. Modules

| Module | Models | Runs, proofs |
|---|---|---|
| `Schedule` | `schedule.go`: `Apply` as operators | used by `CardLife`, `Review`; `ScheduleProofs` |
| `CardLife` | one card graded anything at any time | `CardLife`; `CardLifeProofs` |
| `Review` | GET and POST `/review` over `Next` and `Grade`, several tabs | `ReviewSolo`, `ReviewDuo`, `TwoTabsStalePick`; `ReviewProofs` |
| `Extract` | the tap handler over `ExtractSentenceForArticle`, and `IngestText` | `Extract`; `ExtractProofs` |
| `Deck` | abstract: what tapping promises (ADR 0006) | property of `Extract`, proved there |
| `Scrape` | POST `/api/scrape` over `scrapeOne` and `StoreArticle` | `Scrape`, `FirstScrapesRace`; `ScrapeProofs` |
| `Library` | abstract: what ingest promises | property of `Scrape`, proved there |
| `Migrate` | `Open`, by two processes that crash | `Migrate`, `MigrateCrash`; `MigrateProofs` |
| `Split` | `SplitSentences`, rune by rune | part of `Reading` |
| `Spans` | `buildSpans`, occurrence by occurrence | part of `Reading` |
| `Reading` | composes both: a filed sentence of a text is shown | `Reading`; `ReadingProofs` |
| `Snapshot` | dashboard, stats and export over the tables of `Review` (extends it), and `IsUnfamiliar` | `Snapshot`; `ReviewProofs` |
| `Auth` | server starts, `setpassword`, login, logout, `requireAuth` | `Auth`; `AuthProofs` |
| `MC*` | the constants of the runs | |

Operators named `MUTANT` in a comment are deliberate errors. No specification uses
them; each shows that a property would notice that error.

### Schedule, CardLife
`Apply` is one operator per function of the code (`ApplyNew`, `ApplyLearning`,
`Graduate`, `ApplyReview` split into `Lapse` and `Pass`). Parameters are constants.
Floats become integers: intervals in hundredths of a day (`roundInterval` keeps two
decimals), eases in twentieths (every change is a multiple of 0.05), factors in
tenths; products are formed exactly and rounded half up once, where the code rounds.
Durations are in ticks, so due times of fractional days are truncated to a tick.
`CardLife` lets any grade arrive at any time, because `Grade` does not look at
`due_at`.

### Review
State: `clock`, the tables `cards`, `sentence_words` (`occ`), `reviews`, the set of
extracted sentences, and for each tab the request in flight (`req`, with a program
counter) and the form it shows (`page`). One tab has one form and one request; two
submits of the same form are two tabs showing the same form.

| Action | Code |
|---|---|
| `HandleReviewGet`, `HandleReviewPost` | the handlers up to their first query; `now` is read here |
| `GradeTx` | the transaction of `Grade` with every refusal, then HTMX's `Next` or the end of the request |
| `NextCount`, `NextDue`, `NextIntroduced`, `NextNew` | one query of `Next` each |
| `NextLoad`, `NextPresent`, `NextSkip` | `buildItem`'s card, its newest sentence, or its failure and the next turn of the loop |
| `Fail` | a query outside `buildItem` fails, the process dies, or the answer is lost |
| `Extract`, `LoseOccurrences`, `Tick` | a tap (as one step, dated by the `now` its request read), the unpresentable cards `Next` guards against, time |

Tokens (`cards.updated_at`) are milliseconds, since `NextToken` adds one millisecond
when the clock has not passed the old token. The wall clock is taken to be monotone;
the `now` a request uses may still be older than a row that is already there.
`ErrNotFound` cannot happen, as cards are never deleted. A missing token, an unknown
grade, a stale token and a foreign sentence are all refusals that change nothing.
The second write of two racing taps (see `Extract`) is left out here: it re-dates the rows of
one sentence, which may change which sentence is the newest, and touches no card.
The answer to an HTMX error is a 4xx with a body, which htmx does not swap by
default: then the tab keeps its form, as after `Fail`.

### Extract, Deck
A tap is `Load` (reads `extracted_at` outside any transaction), `Count` or `Persist`
(the transaction), `Show` (`GetSentence`); `Fail` may end it before each. `IngestText`
stores an article and runs the first two for each sentence. Of two taps that both read
`extracted_at` as null, both write: the second replaces the rows by the same rows with
a later time, keeping the first `extracted_at` and every schedule. `TokensOf` is what
the tokenizer yields; `Candidates` applies the word rule to it. `Persisted` is the loop of
`persistCandidatesTx`: it begins with the old rows deleted and both counters at zero
(`Cleared`), and each turn (`AddCandidate`) writes a row, inserts the card unless the
transaction sees one (`WithCard`) and adds the `RowsAffected` of that insert to the count
(`Inserted`), so that a word met twice in a sentence is where a count could go wrong.
The loop filters its candidates once more, by the rule that made them, and passes over none. `Grade` and
`StoreArticle` are there as what other requests do meanwhile. `Deck` is the contract:
a sentence is added once, whole, and nothing leaves. The mapping takes the
extracted sentences as `added`, the linked pairs and the words that have a card.
In `Review`, `Extract` is `Deck`'s `Add` together with the rows' times.

### Scrape, Library
A scrape visits the Sources in order; for each item the row of the Source is selected
and if missing inserted, the article looked up, then looked up again and inserted
with its sentences in a transaction. Every step may fail as a query, every fetch as
a feed, and the process may die. A feed is any of a few item lists, with an item
twice in different versions, one without text, one without id. `UNIQUE` constraints
are the refusals of `InsertSource` (and of a `Store` that did not look again). An item without
id or without useful text is passed over in a step of its own (`SkipItem`).
`Library` files each key once with the sentences of one text; the mapping is the
`sentences` table itself.

### Migrate
A file is executed statement by statement and recorded afterwards. The SQLite driver
commits each statement of a multi-statement `Exec` by itself; this is external
and the one assumption about it. `Once` holds the statements that fail when repeated
(`ALTER TABLE ... ADD COLUMN` of 003). Two processes open the database together, as
the server and `setpassword` do. `Stop` ends a process anywhere, also for a query that
fails because the other process holds the lock.


### Split, Spans, Reading
A text is the sequence of the kinds of its runes (terminator, blank, other), since
`SplitSentences` looks at nothing else; a sentence is an interval of positions. `Trim`,
`Scan`, `Cut` and `Rest` are the trim of the whole text, the two branches of the loop
and what follows it. `strings.TrimSpace` is given by what it guarantees. Of consecutive
terminators each after the first becomes a sentence of its own, and so does a closing
bracket behind a terminator together with what follows it: this is what the code does.

In `Spans` a sentence is its number of runes and an occurrence its row of
`sentence_words`: `LoadSpans` reads the rows, `SkipCovered` and `AddWord` are the branches
of the loop, `LastGap` what follows it. The guards of `buildSpans` against rows that
overlap or reach out of the sentence are in, and `Reading` gives it such rows; then the
spans still cover the sentence end to end (`SpansTile`), but a row moved up to the
cursor keeps its whole surface, so the text may repeat a rune. `SpansSpell` is about
the rows a tap writes. A row that starts behind the end of the sentence is not given:
the tokenizer yields offsets of the text it is given.

### Snapshot
`Snapshot` extends `Review` without a tab: its tables, `Extract`, `Tick`, `Graded`, and the
definitions of due, new and the caps, so that its counts are compared with the very
`NextAnswers` the queue is checked against. `view` is the request: its kind, its `now`, and
what it has read. `Begin` and `Query` are the handler, one query a step in the order of
`QueriesOf`, of which `asked` says how many were made; `End` is the answer or an error. In between, `StoreArticle`, `TapSentence` and
`GradeCard` commit, a grade being dated by any `now` its request may have read. A query with
a cap asks for one row more (`Capped`).

What the model brings out: the review button counts without looking at the session
limit, so it may say there are cards when GET `/review` finds the day used up
(`ButtonAgreesWithNext` states the agreement short of that); and the cards of an export
are read before its rows, so that rows may be ahead of cards but never behind, which
is what makes it a backup (`BackupReplays`). The page (`schedule.IsUnfamiliar`) and the
dashboard (`db.LibraryCounts`) each compute their threshold, with a fallback of their own
for a threshold that is not set: `UnfamiliarThreshold` and `MatureThreshold`.
`PlainMeansMature` compares the two predicates for a configured threshold and for none. The CSV files carry no flag when they are cut;
the JSON does.

### Auth
A hash is the password it is made from, a signature the secret it is made with. A cookie
records, beside its expiry in whole seconds, when and for how long it was issued, which
only the properties read. A password of more than 72 bytes cannot be hashed (`Hashable` holds
the others). The clock has ticks below a second. Several server
processes and `setpassword` share the database; a server is started with any
environment of `Settings` that `config.Load` accepts (`Loads`).

| Action | Code |
|---|---|
| `Start`, `Boot`, `CreateUser1` | `config.Load`; `HasUser` in `Bootstrap` (auth on) or `EnsureLearnerRow` (auth off); the insert |
| `Stop` | a crash or shutdown anywhere, with the logins in flight |
| `SetPassword`, `ReadPassword`, `SetPasswordFails`, `UpdatePasswordHash` | `cmd/setpassword`, in the order of its calls |
| `CheckPassword`, `Issue` | `handleLoginPost`: the hash is read and compared, then the cookie made with a later `now` |
| `Logout`, `LoseLogin`, `DropCookie` | the cleared cookie, the lost answer, the browser's own doings |

The `Max-Age` and `Expires` of a cookie are left to the browser (`DropCookie`) and relied
on nowhere. What the model brings out: of two first starts that race, the loser's insert is
refused and it ends; it comes up when started again (`StartSettles`). A first start with auth on whose `JKRT_PASSWORD` is
missing or cannot be hashed ends (`Refused`), and does so every time until the environment
is changed or another process has made the row; that is the one exception of `StartSettles`. A database first
started with auth off holds a password nobody knows, and a later start with auth on
and a password does not change that; only `setpassword` does (`PasswordKept`). A login
that has read the old hash is still given a session after a rotation; sessions survive a
rotation by intention (`SessionLivesItsTtl`). A piped password is trimmed, while one given
as an argument, at the terminal, in `JKRT_PASSWORD` or in the login form is not: a
password that begins or ends with a blank cannot be set through a pipe.

## 3. Runs

| Run (`.cfg`) | Question | Size |
|---|---|---|
| `CardLife` | Is a card's life consistent under `DefaultParams`, for ten grades at three instants? | 160 thousand states |
| `ReviewSolo` | With one tab: are both caps kept, does the loop of queries answer as one query would, and end? | 728 thousand |
| `ReviewDuo` | With two tabs: is each presentation graded once, the history faithful, each cap exceeded by one at most? | 811 thousand |
| `Extract` | Do races, failures and repeats of taps keep the deck whole (`Deck`), the schedules safe and the answers true? | 189 thousand |
| `Scrape` | Do overlapping, failing, dying scrapes file articles once and whole (`Library`) and report truly? | 91 thousand |
| `Migrate` | Is an open database migrated whatever crashes, and does it open in the end unless 003 is torn? | 2 thousand |
| `Reading` | Does every text reach the review page whole: cut without loss, shown end to end, spelt as it is? | 154 thousand |
| `Snapshot` | Do numbers and exports read query by query beside grades, taps and scrapes agree with each other and with the queue? | 2.4 million |
| `Auth` | Are the Learner's row, the password and the sessions what was set, whatever starts, stops and rotates, and does every start end? | 282 thousand |

Three runs show a disagreement between the code and something the repository says:

| Run | The code | The repository |
|---|---|---|
| `TwoTabsStalePick` | a card graded between pick and load is shown though neither due nor new | "due first, then new" (`review.go`) |
| `FirstScrapesRace` | of two first scrapes one fails on `UNIQUE(name)` and stores nothing of that source | "inserts ... if missing and returns its id" (`EnsureSource`) |
| `MigrateCrash` | a crash between 003's `ALTER TABLE` and its record makes every later `Open` fail | "Re-open same file ... must succeed" (`db_more_test.go`) |

Three smaller ones need no run of their own. `Grade` looks at neither cap ("max grade rows
per UTC calendar day", `schedule.go`), so two tabs can exceed each by one; `ReviewDuo` checks
that it is never by more (`CapsKept`, which for one tab is the caps themselves). Easy in relearning graduates to
`EasyInterval`, where `docs/sm2-spec.md` says `max(1, GraduatingInterval)`; a test of the
repository (`TestRelearningEasyGraduatesFourDays`) expects what the code does. Two racing taps
both write, where `extract.go` calls a repeated tap a pure noop; `Extract` checks that the
second keeps the first `extracted_at`, every schedule and a whole set of rows.

Each module has one invariant that joins its types to what must hold of its tables and
requests (`MigrateInv`, `ExtractInv`, `ScrapeInv`, `ReadingInv`, `SnapInv`, `AuthInv`); in `CardLife` and
`Review`, where they are proved apart, `TypeOK` stands by itself.

### Bounds and why they suffice
- `CardLife`: ten grades take the ease from its start to its floor, and reach lapses,
  graduations from relearning and passes after them; instants within a day, so a grade may be early, on time or late.
- `ReviewSolo`: three words in two sentences, one of them shared, two able to lose their
  text; a session limit of two and one new card a day, so both caps bind; four
  instants of which three make a day, so a card becomes due on its own day and the
  next day opens. The loop takes two turns at most (32 in the code), and two cards without
  text may stand before a good one: the bound is met and bites, and `AnswersAsOneQuery` allows
  the wrong "empty" only then, after that many different unpresentable cards.
- `ReviewDuo`: two tabs, three words of one sentence, two days, a limit of two and one
  new card: the smallest instance in which each cap can be exceeded by two if a
  check is missing. Tabs are symmetric.
- `Extract`: two requests are what a race of taps needs; one sentence repeats a word,
  one has no words, two share a word; two instants tell a first time from a second.
- `Scrape`: two requests, one source with a row, one without, one without URL.
- `Migrate`: the three files as they are, two processes, three stops: one for each
  process and one more. `MigrateCrash` needs one process and one stop.
- `Reading`: all texts of up to five runes over the three kinds, so that terminators and blanks
  meet in every way; for a sentence of up to three runes all pairs of rows from one
  before its first rune to one after its last, overlapping ones included, which is every
  relation two rows and the ends can have; for each sentence all up to three tokens.
- `Snapshot`: one article, two words, two grades of Good or Easy, so a card may be new,
  learning or in review and mature while the queries run; two instants of one day, and the
  properties of an idle moment are evaluated up to a day later. Export caps of one are
  hit and not hit. Both thresholds are met exactly: a Good card graduates with the configured
  one (`ComfortableInterval`, one day here) and an Easy one with the fallback of 21 days, to
  which `EasyInterval` is raised from four so that two grades reach it.
- `Auth`: two servers and one `setpassword`, as races of the insert and of a rotation need; four
  passwords (plain, with blanks at its ends, all blank, too long to hash), two secrets; three seconds of two
  ticks, so that a session is issued within a second and expires; two stops.

Deadlock is not checked: a bounded clock, a used-up number of grades or stops and a
Learner who does nothing are legitimate ends.

### Fairness
`ReviewSolo`, `Scrape`, `Migrate` and `Auth` use weak fairness. It is put on the steps of a
request in flight only: a goroutine whose query can run gets the one connection, and a
fetch ends by its timeout (15 s). Nothing is assumed of the Learner, of scrapes
being started, or of time. `Migrate` assumes in addition that a program that is down
is started again, which is what its liveness property is about; stops are finite
(`MaxStops`). `Auth` does not: a process that has begun its start goes on with it, and
nobody has to start one.

## 4. Proofs

TLAPS proves these for every value of the constants that meets the named assumptions
(`ParamsAssumption`, `ReviewAssumption`, ... at the head of each module). Those say of which
kind a constant is, and what the code or its schema guarantees: that feeds, files and tokens
are finite sequences, that no SQL statement stands at two positions of the migration files
(`MigrateAssumption`), that the rows of a sentence have their length and do not begin behind it
(`ReadingAssumption`). Two are about the knobs of the scheduler, which no code checks and
`DefaultParams`, the only parameters of the program, meets: `IntervalsAssumption` (a
graduated card waits for at least a day, the interval modifier is at least one) and `OrderAssumption`
(the steps are ascending and within a day, Good graduates to no more than Easy, the factor of
Hard is above one and at most the lowest ease, the bonus of Easy is at least one).

| Theorem | Module | States |
|---|---|---|
| `ApplyType` | `ScheduleProofs` | a grade of a card state gives a card state |
| `ApplyRepairs` | `ScheduleProofs` | so does a grade of one whose stored step no longer exists |
| `TypeCorrect`, `CardInvariant` | `CardLifeProofs` | `Spec => []TypeOK`, `Spec => []CardInv` |
| `GradesAlwaysOrdered`, `PassAlwaysGrows` | `CardLifeProofs` | `Spec => []GradesOrdered`, `Spec => PassGrows` |
| `TypeCorrect` | `ReviewProofs` | `Spec => []TypeOK` |
| `GradedAtMostOnce` | `ReviewProofs` | `Spec => GradeOnce` |
| `NewMeansUnreviewed` | `ReviewProofs` | `Spec => []NewIffUnreviewed` |
| `RowsDatedInOrder` | `ReviewProofs` | `Spec => []RowsInOrder` |
| `HistoryAlwaysReplays` | `ReviewProofs` | `Spec => []HistoryReplays` |
| `CapsAlwaysKept` | `ReviewProofs` | `Spec => []CapsKept` |
| `OneTabAnswersAsOneQuery`, `OneTabShowsReady` | `ReviewProofs` | if there is one tab: `Spec => AnswersAsOneQuery`, `Spec => ShownIsReady` |
| `NumbersAlwaysAgree` | `ReviewProofs` | `SnapSpec => []SnapInv` |
| `TruncationAlwaysTold`, `BackupAlwaysReplays` | `ReviewProofs` | `SnapSpec => []TruncationTold`, `SnapSpec => []BackupReplays` |
| `PlainAlwaysMature`, `ButtonAlwaysAgrees` | `ReviewProofs` | `SnapSpec => []PlainMeansMature`, `SnapSpec => []ButtonAgreesWithNext` |
| `WholeOrNotAtAll`, `AnswersTrue` | `ExtractProofs` | `Spec => []ExtractInv`, `Spec => []RowTruthful` |
| `CardsKeepTheirSchedule`, `ExtractedOnce`, `CountsWhatItMade` | `ExtractProofs` | `Spec => ScheduleKept`, `FirstExtractKept`, `CardsNewExact` |
| `TapsImplementDeck` | `ExtractProofs` | `Spec => ImplementsDeck` |
| `ReportsTrue`, `KnownNeverCollide` | `ScrapeProofs` | `Spec => []ScrapeInv`, `Spec => []KnownFetchedMeansOk` |
| `ItemsNewAlwaysExact` | `ScrapeProofs` | `Spec => ItemsNewExact` |
| `ScrapesImplementLibrary` | `ScrapeProofs` | `Spec => ImplementsLibrary` |
| `MigrationsInOrder`, `OpenIsMigrated` | `MigrateProofs` | `Spec => []MigrateInv`, `Spec => []OpenMeansMigrated` |
| `SplittingIsLossless`, `TerminatorsEndSentences` | `ReadingProofs` | `Spec => []NothingLost`, `Spec => []OneTerminator` |
| `SpansTileTheSentence`, `SpansSpellTheSentence` | `ReadingProofs` | `Spec => []ReadingInv`, `Spec => []SpansSpell` |
| `LearnerAlwaysThere`, `SessionsLiveTheirTtl` | `AuthProofs` | `Spec => []AuthInv`, `Spec => []SessionLivesItsTtl` |
| `PasswordOnlySetOnce` | `AuthProofs` | `Spec => PasswordKept` |

### The inductive invariants
What the runs check is seldom inductive: it says what holds of the tables or of an answer, and not
what a request relies on between two of its database calls. Each proof adds just that.

- **Card** (`CardLifeProofs`). `ApplyType` rests on lemmas that the nonlinear products of intervals,
  eases and factors are naturals and that rounding and truncation keep them so. Neither lemma
  nor theorem assumes that there are steps, so `LearningSteps` may be empty. A stored step beyond
  the steps, which only a change of the parameters could leave behind (the program has none
  but `DefaultParams`), is outside `States`; `ApplyRepairs` takes it back in. `CardInv` is
  inductive together with `TypeOK`; it needs `IntervalsAssumption`, that the configured intervals
  are at least a day and the modifier at least one, which `DefaultParams` meets: below
  that a pass may shrink an interval under a day. `GradesOrdered` and `PassGrows` follow from the two
  without any more: products and roundings are monotone, so a larger factor never
  gives a smaller interval, and an ease of a card is at least the lowest.
- **Review, what tabs hold** (`IInv`). The card of a request that is being built exists, the card
  of a form exists, and no tab holds a token that its card has not had yet (tokens held are at most
  the card's). The last part is why a grade leaves every form stale: `NextToken` is greater than
  the old token, so no form can hold it.
- **Review, the rows** (`LogInv`). `NewIffUnreviewed` and `RowsInOrder` need `NotOvertaken`: as long
  as the form a grade was sent with carries its card's current token, the `now` of that grade is
  not before any row of the card. It holds when the request starts, as every row is dated by a
  clock reading, and a row written later changes the token.
- **Review, the history** (`Replays`). Of every card there is a replay of the rows that ends in its
  stored state. A row moves the replays on by `Apply`, since the transaction applied the grade to the
  very state it replaces; a new card has no rows. `OneReplay` then shows that the recursive function
  `Replayed` can be no other replay.
- **Review, the caps** (`CapsInv`). `MayReview(d)` is the set of tabs that may still write a row of
  the day d which no count has seen: a tab that grades with a now of that day, or, while the
  day is not over, one that shows an open form, is past the check, or will check an earlier day
  because its request is older. Once a day has reached its limit no tab joins the set
  (`NobodyElse`), and each row costs it a member (`GradeDisarms`); so the rows of a day
  and its tabs together stay below the limit and the number of tabs (`Slack`). The same goes for
  introduced cards and the tabs with new cards. A cap of zero needs its own invariant (`NoneAtZero`), as
  then the first row would be one too many.
- **Review, one tab** (`AloneInv`). What a request has found out is still true while it asks on: the
  day's limit was not reached, the due cards are all skipped, the card picked is the first of those
  not skipped and its token is the stored one. A tap may come in between, but it only makes new
  cards, with larger ids (`IdsUsed`), so the first stays the first; only a grade could falsify the
  rest, and the one tab is busy. That is all the hypothesis of one tab is used for, and the two theorems
  are false without it: `TwoTabsStalePick` is the counterexample.
- **Snapshot, the tables** (`TablesInv`). Types, rows and replays are those of Review; in addition every
  card has a newest occurrence that shows it (`AllPresentable`), which makes the dashboard's count and
  the queue's pick speak of the same cards. `PlainMeansMature` and `ButtonAgreesWithNext` follow from it.
- **Snapshot, the request** (`ViewInv`). A number read is at most what it counts by now, since cards, cards
  past new, rows and articles only grow (`Grown`); due and new together are at most the cards, as a card that
  leaves the new ones is not counted twice (`Behind`). An exported part is whole, or the table has more rows than the
  cap (`Cut`). The exported cards stand at one place of the history (`Usable`), which is the end of
  it when they are read and stays a place of it as rows are appended; the rows read later lead there.
- **Extract** (`RequestsReady`). What a request found extracted stays extracted, what it found in the
  library stays there, and the candidates it counted are those of its sentence. About the loop,
  `AfterTurns` says what it holds after so many turns: a row for each candidate passed, a card for each
  word that had one or was passed, the old ones untouched, and a count of the words passed that had
  none. `OneTurn` shows that a turn keeps it: the count grows in just those turns in which
  the set of cards does. The refinement of `Deck`
  follows step by step: only the first `Persist` of a sentence adds to the deck, and it adds all of it.
- **Scrape** (`RequestsSound`). Where a request is in its feed: an item being stored has id and text,
  every usable id of the feed is filed already or still to come, only a Source without a row is being
  inserted, and a Source not yet fetched has nothing to report.
- **Migrate** (`PlaceSound`, `BehindIsApplied`). All statements before the one a process is at are in
  effect, whichever process executed them.
- **Reading** (`SplitSound`, `SpansSound`). The segments filed so far hold the runes up to the
  position of the loop, and no terminator stands between the start of the open segment and
  that position; the spans so far lie end to end up to the cursor, and show what the rows
  passed so far say.
- **Auth** (`EnvLoaded`, `PasswordReady`, `ExpiryComputed`). A started server has settings that
  `config.Load` accepts, one that is about to make the row has a password for it, and the
  expiry of a cookie is the one `Issue` computed. That password, and one `setpassword` is about to
  write, can be hashed.

The inductive invariants were model-checked as invariants of the runs, but for the parts that speak of
some replay (`Replays`, `Usable`), which TLC cannot enumerate. What a recursive function of a sequence computes (`Replayed`, `Reported`, `Persisted`, the concatenations
behind `Spelling` and `Candidates`) is shown by least counterexample: `LeastOf`, from `WFMin`
of the library, gives a first position at which a claim fails, and the recursion refutes it there.

### Only model-checked
Liveness, as the proof system does not reason about ENABLED: `EveryRequestAnswered`,
`EveryScrapeAnswered`, `OpensUnlessTorn`, `StartSettles`; and that the three runs of section 3
end in a violation. Every safety property of a passing run is stated by a theorem.

## 5. Not modelled

- The tokenizer, and the parsing of RSS, Atom and HTML in feeds: they are constants (`TokensOf`,
  `Feeds`) or outcomes that may fail. That an overlong text is cut when stored is left out.
- The list of articles and the page of one (`internal/db/browse.go`): one or two reads of committed
  rows with no state between them.
- Routing, layout and wording. Formatting is left out except where a property needs it: the
  badge and notice of a tapped sentence, and the review button, are modelled by their cases.
- The writing of JSON and CSV; `FindMigrationsDir`, a search through directories.
- bcrypt and HMAC, of which only the guarantee is used.
- That bcrypt looks at 72 bytes of what is typed at a login, and no more.
- Overflow of durations and counters: out of reach of the program (an interval would
  have to pass 290 years).

## 6. Plan

Done first: the scheduler and the review loop, the heart of the system; then extraction,
which feeds it; then ingest and migrations; then what turns text into Sentences and spans,
the reads beside all of these, and the Learner's access; then the proofs, from `Auth` to the
snapshot. What is left:

1. The safety half of liveness: a number that every step of a request in flight lowers and no step of
   another raises, for `Review`, `Scrape`, `Migrate` and `Auth`. Under the weak fairness of
   section 3 it is what makes each request end; TLC goes on checking the ending itself.
2. An abstract specification of grading (a presentation is open or graded) would say what `GradeOnce`
   and `HistoryReplays` say already, so there is none.
