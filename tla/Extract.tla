------------------------------ MODULE Extract ------------------------------
(***************************************************************************)
(* Extract-on-tap: POST /articles/:id/sentences/:sid/extract over          *)
(* ExtractSentenceForArticle (internal/db/extract.go), with the helper     *)
(* IngestText that stores an Article and extracts all of it.               *)
(*                                                                         *)
(* A tap is four database calls, and other requests run between any two of *)
(* them: it reads extracted_at, then counts or persists (one transaction), *)
(* then reads the row to show.  So two taps of one Sentence can both find  *)
(* it not extracted, and both persist it.                                  *)
(***************************************************************************)
EXTENDS Integers, FiniteSets, SequencesExt

CONSTANTS
  Tabs,            \* the requests that may be in flight together
  Articles,
  SentencesOf,     \* the sentences of an article, by order_index
  TokensOf,        \* what the tokenizer yields for a sentence
  Kanji,           \* the surfaces that contain kanji
  MaxClock,        \* bound: the last instant
  Never            \* extracted_at IS NULL

Sentences == UNION {{SentencesOf[a][i] : i \in DOMAIN SentencesOf[a]} : a \in Articles}

\* A token without reading, or whose base form is unknown.
Placeholders == {"", "*"}

ASSUME ExtractAssumption ==
  /\ IsFiniteSet(Tabs) /\ IsFiniteSet(Articles)
  /\ DOMAIN SentencesOf = Articles /\ \A a \in Articles : SentencesOf[a] \in Seq(Sentences)
  /\ DOMAIN TokensOf = Sentences
  /\ \A s \in Sentences : TokensOf[s] \in Seq([surface : STRING, reading : STRING, base : STRING])
  /\ \A a, b \in Articles : \A i \in DOMAIN SentencesOf[a], j \in DOMAIN SentencesOf[b] :
       SentencesOf[a][i] = SentencesOf[b][j] => a = b /\ i = j
  /\ MaxClock \in Nat /\ Never \notin Nat

-----------------------------------------------------------------------------
(* The analyzer. *)

\* The rule for Word candidates: kanji in the surface and a real reading.
IsCandidate(tok) == tok.surface \in Kanji /\ tok.reading \notin Placeholders

Lemma(tok) == IF tok.base \in Placeholders THEN tok.surface ELSE tok.base

\* The words of a sentence in text order, repeats included; a word is its
\* lemma and reading.
Candidates(s) ==
  FlattenSeq([i \in DOMAIN TokensOf[s] |->
                LET tok == TokensOf[s][i]
                IN IF IsCandidate(tok) THEN <<<<Lemma(tok), tok.reading>>>> ELSE <<>>])

Wanted(s) == {Candidates(s)[i] : i \in DOMAIN Candidates(s)}

-----------------------------------------------------------------------------
VARIABLES
  clock,           \* time.Now
  stored,          \* articles: those in the library, with their sentences
  extracted,       \* sentences.extracted_at
  occ,             \* sentence_words: the rows [word, at] of each sentence, by id
  cards,           \* cards: word -> [created, graded]
  req              \* the request each tab has in flight

vars == <<clock, stored, extracted, occ, cards, req>>
db == <<stored, extracted, occ, cards>>

AllWords == UNION {Wanted(s) : s \in Sentences}
OccRows == [word : AllWords, at : Nat]
CardRows == [created : Nat, graded : BOOLEAN]
Results == [already : BOOLEAN, candidates : Nat, cardsNew : Nat]
NoResult == [already |-> FALSE, candidates |-> 0, cardsNew |-> 0]

\* A tap names the article it belongs to; IngestText (article "any") does not,
\* and has the whole article to do.
Idle == [pc |-> "idle"]
Working == [pc : {"load", "count", "persist", "show"}, now : Nat,
            article : Articles \cup {"any"}, todo : Seq(Sentences), result : Results]

TypeOK ==
  /\ clock \in Nat
  /\ stored \subseteq Articles
  /\ extracted \in [Sentences -> Nat \cup {Never}]
  /\ occ \in [Sentences -> Seq(OccRows)]
  /\ DOMAIN cards \subseteq AllWords /\ \A w \in DOMAIN cards : cards[w] \in CardRows
  /\ req \in [Tabs -> {Idle} \cup Working]
  /\ \A t \in Tabs : req[t] # Idle => req[t].todo # <<>>

At(t, pc) == req[t].pc = pc
Sentence(t) == Head(req[t].todo)
InLibrary(s) == \E a \in stored : \E i \in DOMAIN SentencesOf[a] : SentencesOf[a][i] = s
Belongs(s, a) == \E i \in DOMAIN SentencesOf[a] : SentencesOf[a][i] = s
IsExtracted(s) == extracted[s] # Never
LinkedWords(s) == [i \in DOMAIN occ[s] |-> occ[s][i].word]

-----------------------------------------------------------------------------
(* The environment: time, scrapes, reviews. *)

Tick == /\ clock < MaxClock
        /\ clock' = clock + 1
        /\ UNCHANGED <<db, req>>

StoreArticle(a) ==
  /\ a \notin stored
  /\ stored' = stored \cup {a}
  /\ UNCHANGED <<clock, extracted, occ, cards, req>>

Grade(w) ==
  /\ w \in DOMAIN cards
  /\ cards' = [cards EXCEPT ![w].graded = TRUE]
  /\ UNCHANGED <<clock, stored, extracted, occ, req>>

-----------------------------------------------------------------------------
(* A request. *)

Begin(t, a, todo) ==
  req' = [req EXCEPT ![t] = [pc |-> "load", now |-> clock, article |-> a, todo |-> todo,
                             result |-> NoResult]]

\* handleSentenceExtract; the address may name the wrong article.
Tap(t, a, s) ==
  /\ At(t, "idle")
  /\ Begin(t, a, <<s>>)
  /\ UNCHANGED <<clock, db>>

\* IngestText: the article is stored first, its sentences are extracted one by
\* one, each in a transaction of its own.
IngestText(t, a) ==
  /\ At(t, "idle")
  /\ a \notin stored
  /\ stored' = stored \cup {a}
  /\ IF SentencesOf[a] = <<>> THEN UNCHANGED req ELSE Begin(t, "any", SentencesOf[a])
  /\ UNCHANGED <<clock, extracted, occ, cards>>

\* extracted_at is read here, outside the transaction that will set it.
Load(t) ==
  /\ At(t, "load")
  /\ LET s == Sentence(t)
     IN IF \/ ~InLibrary(s)
           \/ req[t].article # "any" /\ ~Belongs(s, req[t].article)
        THEN req' = [req EXCEPT ![t] = Idle]
        ELSE req' = [req EXCEPT ![t].pc = IF IsExtracted(s) THEN "count" ELSE "persist",
                                ![t].result.already = IsExtracted(s)]
  /\ UNCHANGED <<clock, db>>

\* A sentence is done: a tap goes on to show it, IngestText to the next one.
Done(t, result) ==
  req' = [req EXCEPT ![t] =
            IF req[t].article # "any"
            THEN [req[t] EXCEPT !.pc = "show", !.result = result]
            ELSE IF Len(req[t].todo) = 1
            THEN Idle
            ELSE [req[t] EXCEPT !.pc = "load", !.todo = Tail(req[t].todo),
                                !.result = NoResult]]

\* MUTANT: a tap of an extracted sentence reports no candidates.
CountNothing(t) ==
  /\ At(t, "count")
  /\ Done(t, req[t].result)
  /\ UNCHANGED <<clock, db>>

\* The sentence was extracted already.
Count(t) ==
  /\ At(t, "count")
  /\ Done(t, [req[t].result EXCEPT !.candidates = Len(occ[Sentence(t)])])
  /\ UNCHANGED <<clock, db>>

\* MUTANT: the rows of an earlier extract are not deleted.
NotCleared(s) == [rows |-> occ[s], cards |-> cards, candidates |-> 0, cardsNew |-> 0]

\* The transaction before its loop: the DELETE, and the counters at zero.
Cleared(s) == [rows |-> <<>>, cards |-> cards, candidates |-> 0, cardsNew |-> 0]

NewCard(now) == [created |-> now, graded |-> FALSE]

\* MUTANT: ON CONFLICT DO UPDATE.
WithCardReset(held, w, now) == [v \in DOMAIN held \cup {w} |-> IF v = w THEN NewCard(now) ELSE held[v]]

\* ON CONFLICT DO NOTHING
WithCard(held, w, now) ==
  [v \in DOMAIN held \cup {w} |-> IF v \in DOMAIN held THEN held[v] ELSE NewCard(now)]

\* MUTANT: a word is new when it had no card before the transaction.
InsertedSinceStart(held, w) == IF w \in DOMAIN cards THEN 0 ELSE 1

\* RowsAffected of that INSERT.
Inserted(held, w) == IF w \in DOMAIN held THEN 0 ELSE 1

\* One turn of the loop.  It filters the candidates a second time, by the rule
\* that made them, so none is passed over.
AddCandidate(done, w, now) ==
  [rows |-> Append(done.rows, [word |-> w, at |-> now]),
   cards |-> WithCard(done.cards, w, now),
   candidates |-> done.candidates + 1,
   cardsNew |-> done.cardsNew + Inserted(done.cards, w)]

\* The whole loop: what the transaction holds after its last candidate.
Persisted(s, now) ==
  LET words == Candidates(s)
      after[n \in 0 .. Len(words)] ==
        IF n = 0 THEN Cleared(s) ELSE AddCandidate(after[n - 1], words[n], now)
  IN after[Len(words)]

\* MUTANT: extracted_at is set whatever it was.
StampAlways(s, now) == now

\* WHERE extracted_at IS NULL
Stamp(s, now) == IF IsExtracted(s) THEN extracted[s] ELSE now

\* What an extract is answered with.
Counted(t, done) ==
  [req[t].result EXCEPT !.candidates = done.candidates, !.cardsNew = done.cardsNew]

\* MUTANT: extracted_at is set first, in a statement of its own.
PersistMarksFirst(t) ==
  /\ At(t, "persist")
  /\ LET s == Sentence(t)
         done == Persisted(s, req[t].now)
     IN /\ extracted' = [extracted EXCEPT ![s] = Stamp(s, req[t].now)]
        /\ IF IsExtracted(s)
           THEN /\ occ' = [occ EXCEPT ![s] = done.rows]
                /\ cards' = done.cards
                /\ Done(t, Counted(t, done))
           ELSE UNCHANGED <<occ, cards, req>>
  /\ UNCHANGED <<clock, stored>>

\* The transaction: occurrences, words, cards and extracted_at together.
Persist(t) ==
  /\ At(t, "persist")
  /\ LET s == Sentence(t)
         done == Persisted(s, req[t].now)
     IN /\ occ' = [occ EXCEPT ![s] = done.rows]
        /\ cards' = done.cards
        /\ extracted' = [extracted EXCEPT ![s] = Stamp(s, req[t].now)]
        /\ Done(t, Counted(t, done))
  /\ UNCHANGED <<clock, stored>>

\* GetSentence: what the answer is made of.
Row(t) == [extracted |-> IsExtracted(Sentence(t)), words |-> Len(occ[Sentence(t)]),
           result |-> req[t].result]

Show(t) ==
  /\ At(t, "show")
  /\ req' = [req EXCEPT ![t] = Idle]
  /\ UNCHANGED <<clock, db>>

\* A query fails or the process dies; an open transaction is rolled back.
Fail(t) ==
  /\ ~At(t, "idle")
  /\ req' = [req EXCEPT ![t] = Idle]
  /\ UNCHANGED <<clock, db>>

-----------------------------------------------------------------------------
Init ==
  /\ clock = 0
  /\ stored = {}
  /\ extracted = [s \in Sentences |-> Never]
  /\ occ = [s \in Sentences |-> <<>>]
  /\ cards = << >>
  /\ req = [t \in Tabs |-> Idle]

Request(t) ==
  \/ \E a \in Articles, s \in Sentences : Tap(t, a, s)
  \/ \E a \in Articles : IngestText(t, a)

Handler(t) == Load(t) \/ Count(t) \/ Persist(t) \/ Show(t)

Next ==
  \/ Tick
  \/ \E a \in Articles : StoreArticle(a)
  \/ \E w \in AllWords : Grade(w)
  \/ \E t \in Tabs : Request(t) \/ Handler(t) \/ Fail(t)

Spec == Init /\ [][Next]_vars

-----------------------------------------------------------------------------
\* What sentenceRowHTML makes of a row.
Badge(row) ==
  IF ~row.extracted THEN "Add to review"
  ELSE IF row.words > 0 \/ row.result.candidates > 0 THEN "In queue"
  ELSE "No study words"

Notice(row) ==
  LET r == row.result IN
  IF r.candidates = 0 THEN "No kanji words"
  ELSE IF r.already /\ r.cardsNew = 0 THEN "Already in review"
  ELSE IF r.cardsNew > 0 THEN "Added"
  ELSE "Words linked"

\* A sentence is extracted whole or not at all, whatever crashes or repeats: its
\* rows are its candidates, each once, in text order, and each has a card
\* (the transaction of ExtractSentenceForArticle and its DELETE).
AllOrNothing ==
  \A s \in Sentences :
    IF IsExtracted(s)
    THEN /\ LinkedWords(s) = Candidates(s)
         /\ Wanted(s) \subseteq DOMAIN cards
         /\ \E a \in stored : Belongs(s, a)
    ELSE occ[s] = <<>>

\* The invariant of the tables and of the requests on their way
\* (ExtractSentenceForArticle).
ExtractInv == TypeOK /\ AllOrNothing

\* "Existing Card SM-2 state is never reset" (docs/adr/0006): a card changes by
\* a grade only, never by a tap, however often and from wherever its word is
\* tapped.
ScheduleKept ==
  [][\A w \in DOMAIN cards :
       cards'[w] = cards[w] \/ cards' = [cards EXCEPT ![w].graded = TRUE]]_vars

\* "First extracted_at is kept" (ExtractSentence), also by a tap that had read
\* that there was none.
FirstExtractKept ==
  [][\A s \in Sentences : IsExtracted(s) => extracted'[s] = extracted[s]]_vars

\* The number of new cards a tap reports, added up candidate by candidate from
\* RowsAffected (persistCandidatesTx), is the number of cards its transaction
\* leaves behind: a word that comes twice in the sentence, or that another tap
\* gave a card in the meantime, is not counted again.
CardsNewExact ==
  [][\A t \in Tabs : At(t, "persist") /\ At(t, "show")'
       => req'[t].result.cardsNew = Cardinality(DOMAIN cards' \ DOMAIN cards)]_vars

\* The row a tap would be answered with now tells the truth: the sentence is in the deck,
\* and the badge and the notice agree with whether it has words to study.
RowTruthful ==
  \A t \in Tabs : At(t, "show") =>
    LET none == Candidates(Sentence(t)) = <<>> IN
      /\ Badge(Row(t)) = IF none THEN "No study words" ELSE "In queue"
      /\ Notice(Row(t)) = "No kanji words" <=> none

\* Taps, races and crashes included, do to the deck what Deck says a tap does.
Words(s) == ToSet(LinkedWords(s))
TheDeck == INSTANCE Deck WITH
  WordsOf <- [s \in Sentences |-> Wanted(s)],
  added <- {s \in Sentences : IsExtracted(s)},
  linked <- UNION {{<<s, w>> : w \in Words(s)} : s \in Sentences},
  carded <- DOMAIN cards
ImplementsDeck == TheDeck!Spec
=============================================================================
