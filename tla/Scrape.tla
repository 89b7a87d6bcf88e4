------------------------------ MODULE Scrape ------------------------------
(***************************************************************************)
(* POST /api/scrape: Scraper.Run (internal/scrape) over StoreArticle       *)
(* (internal/db).  A scrape visits the Sources one after another, and each *)
(* item of a feed is several database calls: the Source's row is selected  *)
(* and, if missing, inserted; the Article is looked up; a transaction      *)
(* looks it up again and inserts it with its Sentences.  Nothing keeps two *)
(* scrapes from running at once.                                           *)
(***************************************************************************)
EXTENDS Integers, FiniteSets, SequencesExt

CONSTANTS
  Scrapes,         \* the requests that may be in flight together
  Sources,         \* the names of the configured Sources, in order
  Unconfigured,    \* those without a feed URL
  Known,           \* those that had a row in news_sources before
  Ids, NoId,       \* guid or link of an item; neither
  Texts, NoText,   \* RawText of an item; empty
  SentencesOf,     \* SplitSentences of a text
  Feeds            \* what the feed of a Source may hold when it is fetched

Names == ToSet(Sources)
Items == [id : Ids \cup {NoId}, text : Texts \cup {NoText}]
Keys == Names \X Ids

ASSUME ScrapeAssumption ==
  /\ IsFiniteSet(Scrapes)
  /\ Sources \in Seq(Names) /\ Sources # <<>> /\ IsInjective(Sources)
  /\ Unconfigured \subseteq Names /\ Known \subseteq Names
  /\ NoId \notin Ids /\ NoText \notin Texts
  /\ DOMAIN SentencesOf = Texts /\ \A x \in Texts : SentencesOf[x] # <<>>
  /\ DOMAIN Feeds = Names /\ \A n \in Names : Feeds[n] \subseteq Seq(Items)

VARIABLES
  newsSources,     \* news_sources: the names
  articles,        \* articles: (source, external id) -> text
  sentences,       \* sentences of an article, by order_index
  req              \* the request each scrape has in flight

vars == <<newsSources, articles, sentences, req>>
db == <<newsSources, articles, sentences>>

\* SourceResult, with the ids that were fetched kept beside it.  The errors: the
\* feed, a query that failed, an INSERT refused for a row another request wrote.
Errors == {"none", "feed", "query", "unique"}
Results == [error : Errors, new : Nat, ids : SUBSET Ids]
Idle == [pc |-> "idle"]
Running == [pc : {"fetch", "source", "insert", "lookup", "store", "done"},
            items : Seq(Items), ids : SUBSET Ids, new : Nat, results : Seq(Results)]

TypeOK ==
  /\ Known \subseteq newsSources /\ newsSources \subseteq Names
  /\ DOMAIN articles \subseteq Keys /\ \A k \in DOMAIN articles : articles[k] \in Texts
  /\ DOMAIN sentences = DOMAIN articles
  /\ req \in [Scrapes -> {Idle} \cup Running]
  /\ \A t \in Scrapes : req[t] # Idle =>
       /\ Len(req[t].results) = Len(Sources) <=> req[t].pc = "done"
       /\ req[t].items = <<>> <=> req[t].pc \in {"fetch", "done"}

At(t, pc) == req[t].pc = pc
Goto(t, pc) == req' = [req EXCEPT ![t].pc = pc]
Source(t) == Sources[Len(req[t].results) + 1]
Key(t) == <<Source(t), Head(req[t].items).id>>
Exists(k) == k \in DOMAIN articles

-----------------------------------------------------------------------------
\* MUTANT: the error paths forget how many articles were stored before.
ReportForgets(t, error, new, ids) ==
  LET results == Append(req[t].results, [error |-> error, ids |-> ids,
                                         new |-> IF error = "none" THEN new ELSE 0])
  IN req' = [req EXCEPT ![t] =
               [pc |-> IF Len(results) = Len(Sources) THEN "done" ELSE "fetch",
                items |-> <<>>, ids |-> {}, new |-> 0, results |-> results]]

\* The result of the source; on to the next one, whatever it was.
Report(t, error, new, ids) ==
  LET results == Append(req[t].results, [error |-> error, new |-> new, ids |-> ids])
  IN req' = [req EXCEPT ![t] =
               [pc |-> IF Len(results) = Len(Sources) THEN "done" ELSE "fetch",
                items |-> <<>>, ids |-> {}, new |-> 0, results |-> results]]

\* On to these items of the source, or to the next source.
Continue(t, items, ids, new) ==
  IF items = <<>>
  THEN Report(t, "none", new, ids)
  ELSE req' = [req EXCEPT ![t] = [@ EXCEPT !.pc = "source", !.items = items,
                                           !.ids = ids, !.new = new]]

\* An error of StoreArticle ends the source.
StoreError(t, error) == Report(t, error, req[t].new, req[t].ids)

Start(t) ==
  /\ At(t, "idle")
  /\ req' = [req EXCEPT ![t] = [pc |-> "fetch", items |-> <<>>, ids |-> {}, new |-> 0,
                                results |-> <<>>]]
  /\ UNCHANGED db

\* ParseRSS drops the items with neither guid nor link, scrapeOne those that
\* have no text.
IsUseful(item) == item.id # NoId /\ item.text # NoText

IdsOf(feed) == {item.id : item \in {x \in ToSet(feed) : IsUseful(x)}}

Fetch(t) ==
  /\ At(t, "fetch")
  /\ Source(t) \notin Unconfigured
  /\ \E feed \in Feeds[Source(t)] : Continue(t, feed, IdsOf(feed), 0)
  /\ UNCHANGED db

\* No URL, no answer in time, an HTTP error, too large a body, no RSS.
FetchFails(t) ==
  /\ At(t, "fetch")
  /\ Report(t, "feed", 0, {})
  /\ UNCHANGED db

\* Nothing to store in this item; the source does not fail.
SkipItem(t) ==
  /\ At(t, "source")
  /\ ~IsUseful(Head(req[t].items))
  /\ Continue(t, Tail(req[t].items), req[t].ids, req[t].new)
  /\ UNCHANGED db

\* ensureSource: SELECT
SelectSource(t) ==
  /\ At(t, "source")
  /\ IsUseful(Head(req[t].items))
  /\ Goto(t, IF Source(t) \in newsSources THEN "lookup" ELSE "insert")
  /\ UNCHANGED db

\* ensureSource: INSERT, which a row of that name refuses.
InsertSource(t) ==
  /\ At(t, "insert")
  /\ IF Source(t) \in newsSources
     THEN StoreError(t, "unique")
     ELSE Goto(t, "lookup")
  /\ newsSources' = newsSources \cup {Source(t)}
  /\ UNCHANGED <<articles, sentences>>

\* MUTANT: an article that exists ends its source.
LookupStops(t) ==
  /\ At(t, "lookup")
  /\ IF Exists(Key(t))
     THEN Report(t, "none", req[t].new, req[t].ids)
     ELSE Goto(t, "store")
  /\ UNCHANGED db

\* MUTANT: an article that exists is looked up for ever.
LookupKeepsItem(t) ==
  /\ At(t, "lookup")
  /\ IF Exists(Key(t))
     THEN Continue(t, req[t].items, req[t].ids, req[t].new)
     ELSE Goto(t, "store")
  /\ UNCHANGED db

\* The lookup outside the transaction.
Lookup(t) ==
  /\ At(t, "lookup")
  /\ IF Exists(Key(t))
     THEN Continue(t, Tail(req[t].items), req[t].ids, req[t].new)
     ELSE Goto(t, "store")
  /\ UNCHANGED db

\* MUTANT: the transaction does not look again, and the INSERT is refused.
StoreUnchecked(t) ==
  /\ At(t, "store")
  /\ IF Exists(Key(t))
     THEN /\ StoreError(t, "unique")
          /\ UNCHANGED db
     ELSE LET text == Head(req[t].items).text IN
          /\ articles' = [k \in DOMAIN articles \cup {Key(t)} |->
                            IF k = Key(t) THEN text ELSE articles[k]]
          /\ sentences' = [k \in DOMAIN articles \cup {Key(t)} |->
                             IF k = Key(t) THEN SentencesOf[text] ELSE sentences[k]]
          /\ Continue(t, Tail(req[t].items), req[t].ids, req[t].new + 1)
          /\ UNCHANGED newsSources

\* MUTANT: no transaction, and a request that dies leaves an article without
\* its sentences.
StoreTorn(t) ==
  /\ At(t, "store")
  /\ LET text == Head(req[t].items).text IN
     \E whole \in BOOLEAN :
       /\ articles' = [k \in DOMAIN articles \cup {Key(t)} |->
                         IF k = Key(t) THEN text ELSE articles[k]]
       /\ sentences' = [k \in DOMAIN articles \cup {Key(t)} |->
                          IF k # Key(t) THEN sentences[k]
                          ELSE IF whole THEN SentencesOf[text] ELSE <<>>]
       /\ IF whole THEN Continue(t, Tail(req[t].items), req[t].ids, req[t].new + 1)
                   ELSE req' = [req EXCEPT ![t] = Idle]
       /\ UNCHANGED newsSources

\* The transaction: the lookup again, then the article and its sentences.
Store(t) ==
  /\ At(t, "store")
  /\ IF Exists(Key(t))
     THEN /\ Continue(t, Tail(req[t].items), req[t].ids, req[t].new)
          /\ UNCHANGED db
     ELSE LET text == Head(req[t].items).text IN
          /\ articles' = [k \in DOMAIN articles \cup {Key(t)} |->
                            IF k = Key(t) THEN text ELSE articles[k]]
          /\ sentences' = [k \in DOMAIN articles \cup {Key(t)} |->
                             IF k = Key(t) THEN SentencesOf[text] ELSE sentences[k]]
          /\ Continue(t, Tail(req[t].items), req[t].ids, req[t].new + 1)
          /\ UNCHANGED newsSources

QueryFails(t) ==
  /\ req[t].pc \in {"source", "insert", "lookup", "store"}
  /\ IsUseful(Head(req[t].items))
  /\ StoreError(t, "query")
  /\ UNCHANGED db

\* handleScrape answers 200 with the results, whatever they are.
Answer(t) ==
  /\ At(t, "done")
  /\ req' = [req EXCEPT ![t] = Idle]
  /\ UNCHANGED db

\* The process dies; an open transaction is rolled back.
Die(t) ==
  /\ ~At(t, "idle")
  /\ req' = [req EXCEPT ![t] = Idle]
  /\ UNCHANGED db

-----------------------------------------------------------------------------
Init ==
  /\ newsSources = Known
  /\ articles = << >>
  /\ sentences = << >>
  /\ req = [t \in Scrapes |-> Idle]

Handler(t) ==
  \/ Fetch(t) \/ FetchFails(t)
  \/ SkipItem(t) \/ SelectSource(t) \/ InsertSource(t)
  \/ Lookup(t) \/ Store(t)
  \/ QueryFails(t)
  \/ Answer(t)

Next == \E t \in Scrapes : Start(t) \/ Handler(t) \/ Die(t)

Spec == Init /\ [][Next]_vars

\* A fetch ends within its timeout and a query that can run gets to run.
FairSpec == Spec /\ \A t \in Scrapes : WF_vars(Handler(t))

-----------------------------------------------------------------------------
\* However scrapes overlap, fail and die, they do to the library what Library says:
\* every Article is filed once, whole, in the version first seen (StoreArticle).
TheLibrary == INSTANCE Library WITH shelf <- sentences
ImplementsLibrary == TheLibrary!Spec

\* The articles a request has reported as new.
Reported(r) ==
  IF r = Idle THEN 0
  ELSE LET upTo[n \in 0 .. Len(r.results)] ==
             IF n = 0 THEN r.new ELSE upTo[n - 1] + r.results[n].new
       IN upTo[Len(r.results)]

\* items_new is exact: each step that stores an article adds one to the report
\* of one request, no other step does, and no error or overlap takes one back
\* or counts one twice (only the death of the request loses its report).
ItemsNewExact ==
  [][LET grew == Cardinality(DOMAIN articles') - Cardinality(DOMAIN articles)
     IN \A t \in Scrapes : req'[t] # req[t] /\ req'[t] # Idle /\ req[t] # Idle
          => Reported(req'[t]) = Reported(req[t]) + grew]_vars

ResultsOf(t) == IF req[t] = Idle THEN <<>> ELSE req[t].results

\* A source reported ok has all the usable items of its feed in the library, and
\* one that could not be fetched reports nothing (scrapeOne).
ReportTrue ==
  \A t \in Scrapes : \A i \in DOMAIN ResultsOf(t) :
    LET res == ResultsOf(t)[i] IN
      /\ res.error = "none" => \A id \in res.ids : Exists(<<Sources[i], id>>)
      /\ res.error = "feed" => res.new = 0

\* The invariant of the tables and of the scrapes on their way (scrapeOne).
ScrapeInv == TypeOK /\ ReportTrue

\* "If NHK Easy has no URL, or Yahoo times out, other feeds still ingest"
\* (README.md): while the queries succeed a source fails only because its own
\* feed could not be fetched, and not because another scrape is running ("if
\* missing", "idempotent on name only": EnsureSource).
FetchedMeansOk ==
  \A t \in Scrapes : \A i \in DOMAIN ResultsOf(t) : ResultsOf(t)[i].error # "unique"

\* The same of the sources that have a row already: two scrapes that file the
\* same article do not fail each other (the second lookup of StoreArticle).
KnownFetchedMeansOk ==
  \A t \in Scrapes : \A i \in DOMAIN ResultsOf(t) :
    Sources[i] \in Known => ResultsOf(t)[i].error # "unique"

\* A scrape that does not die answers, and with a result for each source: one
\* feed that fails, or many, never stops it.
EveryScrapeAnswered ==
  \A t \in Scrapes : At(t, "fetch") ~> (At(t, "done") \/ At(t, "idle"))
=============================================================================
