---------------------------- MODULE ScrapeProofs ----------------------------
(***************************************************************************)
(* Scrapes for any number of requests, Sources, feeds and items: the       *)
(* tables stay whole, a report is true, Sources with a row never fail for  *)
(* another scrape, and every step does what Library says or nothing.       *)
(*                                                                         *)
(* The inductive invariant adds where a request is in its feed: an item    *)
(* being stored has an id and a text, each usable id of the feed is in the *)
(* library already or still to come, only a Source without a row is about  *)
(* to be inserted, and a Source not yet fetched has nothing to report.     *)
(***************************************************************************)
EXTENDS Scrape, FiniteSetTheorems, WellFoundedInduction, TLAPS

\* The usable ids among the items that are left.
IdsLeft(items) == {items[i].id : i \in {j \in DOMAIN items : IsUseful(items[j])}}

\* What a request r relies on, when the library holds these Articles.
OnTrack(r, filed) ==
  /\ Len(r.results) <= Len(Sources)
  /\ r.pc \in {"insert", "lookup", "store"} => IsUseful(Head(r.items))
  /\ r.pc = "fetch" => r.new = 0
  /\ r.pc # "done" =>
       LET source == Sources[Len(r.results) + 1] IN
         /\ \A id \in r.ids : <<source, id>> \in filed \/ id \in IdsLeft(r.items)
         /\ r.pc = "insert" => source \notin Known

\* What a list of results says, when the library holds these Articles.
True(results, filed) ==
  \A i \in DOMAIN results :
    /\ results[i].error = "none" => \A id \in results[i].ids : <<Sources[i], id>> \in filed
    /\ results[i].error = "feed" => results[i].new = 0
    /\ Sources[i] \in Known => results[i].error # "unique"

\* The type of a request, with the link of its items and results to its place.
Request ==
  {r \in Running : /\ Len(r.results) = Len(Sources) <=> r.pc = "done"
                   /\ r.items = <<>> <=> r.pc \in {"fetch", "done"}}

Sound(r, filed) == r \in Request /\ OnTrack(r, filed) /\ True(r.results, filed)

RequestsSound == \A t \in Scrapes : req[t] # Idle => Sound(req[t], DOMAIN articles)

IInv == TypeOK /\ RequestsSound /\ IsFiniteSet(DOMAIN articles)

-----------------------------------------------------------------------------
(* Operators. *)

LEMMA RequestKinds ==
  /\ Idle \notin Running /\ Idle.pc = "idle"
  /\ \A r \in Running : r.pc # "idle"
  /\ \A r \in Running : /\ r.items \in Seq(Items) /\ r.ids \in SUBSET Ids /\ r.new \in Nat
                        /\ r.results \in Seq(Results)
BY DEF Idle, Running

LEMMA SourceType ==
  ASSUME NEW r \in Request, Len(r.results) <= Len(Sources), r.pc # "done"
  PROVE  /\ Len(r.results) + 1 \in DOMAIN Sources
         /\ Len(r.results) < Len(Sources)
         /\ Sources[Len(r.results) + 1] \in Names
<1>1. r.results \in Seq(Results) /\ Len(r.results) # Len(Sources)
  BY RequestKinds DEF Request
<1>2. Sources \in Seq(Names)
  BY ScrapeAssumption
<1> QED BY <1>1, <1>2

\* More Articles in the library: what was right still is.
LEMMA SoundStays ==
  ASSUME NEW r, NEW F, NEW G, F \subseteq G, Sound(r, F)
  PROVE  Sound(r, G)
BY DEF Sound, OnTrack, True

\* The parts of the invariant about requests, after a step of one of them.
LEMMA RequestMoves ==
  ASSUME IInv, NEW t \in Scrapes, NEW r, r = Idle \/ Sound(r, DOMAIN articles'),
         req' = [req EXCEPT ![t] = r], DOMAIN articles \subseteq DOMAIN articles'
  PROVE  /\ req' \in [Scrapes -> {Idle} \cup Running]
         /\ \A u \in Scrapes : req'[u] # Idle =>
              /\ Len(req'[u].results) = Len(Sources) <=> req'[u].pc = "done"
              /\ req'[u].items = <<>> <=> req'[u].pc \in {"fetch", "done"}
         /\ RequestsSound'
<1>1. req \in [Scrapes -> {Idle} \cup Running]
  BY DEF IInv, TypeOK
<1>2. r \in {Idle} \cup Running
  BY DEF Sound, Request
<1>3. /\ req' \in [Scrapes -> {Idle} \cup Running]
      /\ req'[t] = r
      /\ \A u \in Scrapes \ {t} : req'[u] = req[u]
  BY <1>1, <1>2
<1>4. ASSUME NEW u \in Scrapes, req'[u] # Idle PROVE Sound(req'[u], DOMAIN articles')
  <2>1. CASE u = t
    BY <2>1, <1>3, <1>4
  <2>2. CASE u # t
    <3>1. Sound(req[u], DOMAIN articles)
      BY <2>2, <1>3, <1>4 DEF IInv, RequestsSound
    <3>2. Sound(req[u], DOMAIN articles')
      BY <3>1, SoundStays
    <3> QED BY <3>2, <2>2, <1>3
  <2> QED BY <2>1, <2>2
<1>5. RequestsSound'
  BY <1>4 DEF RequestsSound
<1> QED BY <1>3, <1>4, <1>5 DEF Sound, Request

-----------------------------------------------------------------------------
(* The end of an item and of a Source. *)

LEMMA IdsLeftTail ==
  ASSUME NEW items \in Seq(Items), items # <<>>
  PROVE  /\ IdsLeft(items) \subseteq IdsLeft(Tail(items)) \cup {Head(items).id}
         /\ ~IsUseful(Head(items)) => IdsLeft(items) \subseteq IdsLeft(Tail(items))
<1> DEFINE rest == Tail(items)
<1>1. /\ Len(items) \in Nat \ {0} /\ DOMAIN items = 1 .. Len(items)
      /\ DOMAIN rest = 1 .. Len(items) - 1
      /\ \A i \in 1 .. Len(items) - 1 : rest[i] = items[i + 1]
      /\ Head(items) = items[1]
  OBVIOUS
<1> HIDE DEF rest
<1>2. ASSUME NEW j \in DOMAIN items, IsUseful(items[j]), j # 1
      PROVE  items[j].id \in IdsLeft(rest)
  <2>1. j - 1 \in DOMAIN rest /\ rest[j - 1] = items[j]
    BY <1>1, <1>2
  <2> QED BY <2>1, <1>2 DEF IdsLeft
<1> QED BY <1>1, <1>2 DEF IdsLeft, rest

LEMMA ReportSound ==
  ASSUME NEW t \in Scrapes, req[t] \in Request, req[t].pc # "done",
         NEW F, OnTrack(req[t], F), True(req[t].results, F),
         NEW error \in Errors, NEW new \in Nat, NEW ids \in SUBSET Ids,
         LET source == Sources[Len(req[t].results) + 1] IN
           /\ error = "none" => \A id \in ids : <<source, id>> \in F
           /\ error = "feed" => new = 0
           /\ source \in Known => error # "unique",
         Report(t, error, new, ids)
  PROVE  \E r : Sound(r, F) /\ req' = [req EXCEPT ![t] = r]
<1> DEFINE res == [error |-> error, new |-> new, ids |-> ids]
           old == req[t].results
           results == Append(old, res)
           r == [pc |-> IF Len(results) = Len(Sources) THEN "done" ELSE "fetch",
                 items |-> <<>>, ids |-> {}, new |-> 0, results |-> results]
<1>1. old \in Seq(Results) /\ res \in Results
  BY RequestKinds DEF Request, Results
<1>2. Len(old) < Len(Sources) /\ Len(old) \in Nat /\ Len(Sources) \in Nat
  BY <1>1, SourceType, ScrapeAssumption DEF OnTrack
<1>3. req' = [req EXCEPT ![t] = r]
  BY DEF Report
<1> HIDE DEF res, old
<1>4. /\ results \in Seq(Results) /\ Len(results) = Len(old) + 1
      /\ DOMAIN results = 1 .. Len(old) + 1
      /\ \A i \in 1 .. Len(old) : results[i] = old[i]
      /\ results[Len(old) + 1] = res
  BY <1>1, <1>2
<1>5. True(results, F)
  <2>1. DOMAIN old = 1 .. Len(old)
    BY <1>1
  <2>2. \A i \in 1 .. Len(old) :
          /\ old[i].error = "none" => \A id \in old[i].ids : <<Sources[i], id>> \in F
          /\ old[i].error = "feed" => old[i].new = 0
          /\ Sources[i] \in Known => old[i].error # "unique"
    BY <2>1 DEF True, old
  <2>3. res.error = error /\ res.new = new /\ res.ids = ids
    BY DEF res
  <2>4. LET source == Sources[Len(old) + 1] IN
          /\ error = "none" => \A id \in ids : <<source, id>> \in F
          /\ error = "feed" => new = 0
          /\ source \in Known => error # "unique"
    BY DEF old
  <2> HIDE DEF results
  <2>5. ASSUME NEW i \in 1 .. Len(old) + 1
        PROVE  /\ results[i].error = "none" => \A id \in results[i].ids : <<Sources[i], id>> \in F
               /\ results[i].error = "feed" => results[i].new = 0
               /\ Sources[i] \in Known => results[i].error # "unique"
    <3>1. CASE i \in 1 .. Len(old)
      BY <3>1, <2>2, <1>4
    <3>2. CASE i = Len(old) + 1
      BY <3>2, <2>3, <2>4, <1>4
    <3> QED BY <3>1, <3>2, <1>2
  <2> QED BY <2>5, <1>4 DEF True
<1> HIDE DEF results
<1>6. r \in Request
  BY <1>4 DEF Request, Running
<1>7. OnTrack(r, F)
  BY <1>2, <1>4 DEF OnTrack
<1>8. r.results = results
  OBVIOUS
<1> HIDE DEF r
<1> QED BY <1>3, <1>5, <1>6, <1>7, <1>8 DEF Sound

LEMMA ContinueSound ==
  ASSUME NEW t \in Scrapes, req[t] \in Request, req[t].pc # "done",
         NEW F, OnTrack(req[t], F), True(req[t].results, F),
         NEW items \in Seq(Items), NEW new \in Nat, NEW ids \in SUBSET Ids,
         \A id \in ids : <<Sources[Len(req[t].results) + 1], id>> \in F \/ id \in IdsLeft(items),
         Continue(t, items, ids, new)
  PROVE  \E r : Sound(r, F) /\ req' = [req EXCEPT ![t] = r]
<1>1. CASE items = <<>>
  <2>1. IdsLeft(items) = {}
    BY <1>1 DEF IdsLeft
  <2>2. Report(t, "none", new, ids)
    BY <1>1 DEF Continue
  <2> QED BY <2>1, <2>2, ReportSound DEF Errors
<1>2. CASE items # <<>>
  <2> DEFINE r == [req[t] EXCEPT !.pc = "source", !.items = items, !.ids = ids, !.new = new]
  <2>1. req' = [req EXCEPT ![t] = r]
    BY <1>2 DEF Continue
  <2>2. /\ r \in Running /\ r.pc = "source" /\ r.items = items /\ r.ids = ids
        /\ r.results = req[t].results
    BY DEF Request, Running
  <2>3. Len(req[t].results) # Len(Sources)
    BY DEF Request
  <2> HIDE DEF r
  <2>4. r \in Request
    BY <2>2, <2>3, <1>2 DEF Request
  <2>5. OnTrack(r, F)
    BY <2>2 DEF OnTrack
  <2> QED BY <2>1, <2>2, <2>4, <2>5 DEF Sound
<1> QED BY <1>1, <1>2

-----------------------------------------------------------------------------
(* Every step keeps the invariant. *)

LEMMA InitIInv == Init => IInv
<1> SUFFICES ASSUME Init PROVE IInv
  OBVIOUS
<1>1. TypeOK
  BY ScrapeAssumption DEF Init, TypeOK
<1>2. RequestsSound
  BY DEF Init, RequestsSound
<1>3. DOMAIN articles = {}
  BY DEF Init
<1> QED BY <1>1, <1>2, <1>3, FS_EmptySet DEF IInv

\* A request on its way.
LEMMA OnItsWay ==
  ASSUME IInv, NEW t \in Scrapes, ~At(t, "idle")
  PROVE  /\ Sound(req[t], DOMAIN articles) /\ req[t] \in Request
         /\ OnTrack(req[t], DOMAIN articles) /\ True(req[t].results, DOMAIN articles)
         /\ req[t].items \in Seq(Items) /\ req[t].ids \in SUBSET Ids /\ req[t].new \in Nat
         /\ ~At(t, "done") => Source(t) \in Names
<1>1. req[t] # Idle
  BY DEF At, Idle
<1>2. Sound(req[t], DOMAIN articles)
  BY <1>1 DEF IInv, RequestsSound
<1>3. req[t] \in Request /\ req[t] \in Running
  BY <1>2 DEF Sound, Request
<1>4. OnTrack(req[t], DOMAIN articles) /\ True(req[t].results, DOMAIN articles)
  BY <1>2 DEF Sound
<1>5. ~At(t, "done") => Source(t) \in Names
  BY <1>3, <1>4, SourceType DEF At, Source, OnTrack
<1> QED BY <1>2, <1>3, <1>4, <1>5, RequestKinds

\* The item a request is at.
LEMMA ItemType ==
  ASSUME IInv, NEW t \in Scrapes, req[t].pc \in {"source", "insert", "lookup", "store"}
  PROVE  /\ req[t].items # <<>> /\ Tail(req[t].items) \in Seq(Items)
         /\ Head(req[t].items) \in Items
         /\ \A id \in req[t].ids : \/ <<Source(t), id>> \in DOMAIN articles
                                   \/ id \in IdsLeft(Tail(req[t].items))
                                   \/ IsUseful(Head(req[t].items)) /\ id = Head(req[t].items).id
         /\ IsUseful(Head(req[t].items)) => /\ Head(req[t].items).text \in Texts
                                            /\ Key(t) \in Keys
<1>1. /\ req[t] \in Request /\ req[t].items \in Seq(Items) /\ Source(t) \in Names
      /\ OnTrack(req[t], DOMAIN articles)
  BY OnItsWay DEF At
<1>2. req[t].items # <<>>
  BY <1>1 DEF Request
<1> DEFINE items == req[t].items
<1>3. /\ Tail(items) \in Seq(Items) /\ Head(items) \in Items
      /\ IdsLeft(items) \subseteq IdsLeft(Tail(items)) \cup {Head(items).id}
      /\ ~IsUseful(Head(items)) => IdsLeft(items) \subseteq IdsLeft(Tail(items))
  <2>1. items \in Seq(Items) /\ items # <<>>
    BY <1>1, <1>2
  <2> HIDE DEF items
  <2>2. Tail(items) \in Seq(Items) /\ Head(items) \in Items
    BY <2>1
  <2> QED BY <2>1, <2>2, IdsLeftTail
<1>4. \A id \in req[t].ids : <<Source(t), id>> \in DOMAIN articles \/ id \in IdsLeft(items)
  BY <1>1 DEF OnTrack, Source
<1>5. IsUseful(Head(items)) => Head(items).text \in Texts /\ Key(t) \in Keys
  BY <1>1, <1>3 DEF IsUseful, Items, Key, Keys
<1> QED BY <1>2, <1>3, <1>4, <1>5

\* A step that files nothing.
LEMMA RequestStep ==
  ASSUME IInv, NEW t \in Scrapes,
         \E r : (r = Idle \/ Sound(r, DOMAIN articles)) /\ req' = [req EXCEPT ![t] = r],
         UNCHANGED <<articles, sentences>>,
         newsSources \subseteq newsSources', newsSources' \subseteq Names
  PROVE  IInv'
<1>1. PICK r : (r = Idle \/ Sound(r, DOMAIN articles)) /\ req' = [req EXCEPT ![t] = r]
  OBVIOUS
<1>2. r = Idle \/ Sound(r, DOMAIN articles')
  BY <1>1
<1>3. DOMAIN articles \subseteq DOMAIN articles'
  OBVIOUS
<1>4. /\ req' \in [Scrapes -> {Idle} \cup Running]
      /\ \A u \in Scrapes : req'[u] # Idle =>
           /\ Len(req'[u].results) = Len(Sources) <=> req'[u].pc = "done"
           /\ req'[u].items = <<>> <=> req'[u].pc \in {"fetch", "done"}
      /\ RequestsSound'
  BY <1>1, <1>2, <1>3, RequestMoves
<1>5. TypeOK'
  BY <1>4 DEF IInv, TypeOK
<1> QED BY <1>4, <1>5 DEF IInv

LEMMA GotoSound ==
  ASSUME IInv, NEW t \in Scrapes, req[t].pc \in {"source", "insert", "lookup"},
         NEW pc \in {"insert", "lookup", "store"},
         IsUseful(Head(req[t].items)), pc = "insert" => Source(t) \notin Known, Goto(t, pc)
  PROVE  \E r : Sound(r, DOMAIN articles) /\ req' = [req EXCEPT ![t] = r]
<1> DEFINE r == [req[t] EXCEPT !.pc = pc]
<1>1. /\ req[t] \in Request /\ OnTrack(req[t], DOMAIN articles)
      /\ True(req[t].results, DOMAIN articles)
  BY OnItsWay DEF At
<1>2. /\ r \in Running /\ r.pc = pc /\ r.items = req[t].items /\ r.ids = req[t].ids
      /\ r.results = req[t].results
  BY <1>1 DEF Request, Running
<1>3. req' = [req EXCEPT ![t] = r]
  BY DEF Goto
<1> HIDE DEF r
<1>4. r \in Request
  BY <1>1, <1>2 DEF Request
<1>5. OnTrack(r, DOMAIN articles)
  BY <1>1, <1>2 DEF OnTrack, Source
<1> QED BY <1>1, <1>2, <1>3, <1>4, <1>5 DEF Sound

LEMMA FetchKeeps ==
  ASSUME IInv, NEW t \in Scrapes, Fetch(t) \/ FetchFails(t)
  PROVE  IInv'
<1>1. /\ req[t] \in Request /\ req[t].pc # "done" /\ Source(t) \in Names
      /\ OnTrack(req[t], DOMAIN articles) /\ True(req[t].results, DOMAIN articles)
      /\ UNCHANGED db
  BY OnItsWay DEF Fetch, FetchFails, At
<1>2. \E r : Sound(r, DOMAIN articles) /\ req' = [req EXCEPT ![t] = r]
  <2>1. CASE Fetch(t)
    <3>1. PICK feed \in Feeds[Source(t)] : Continue(t, feed, IdsOf(feed), 0)
      BY <2>1 DEF Fetch
    <3>2. feed \in Seq(Items)
      BY <1>1, ScrapeAssumption
    <3>3. IdsOf(feed) = IdsLeft(feed)
      BY DEF IdsOf, IdsLeft, ToSet
    <3>4. IdsOf(feed) \in SUBSET Ids
      <4>1. ASSUME NEW i \in DOMAIN feed, IsUseful(feed[i]) PROVE feed[i].id \in Ids
        <5>1. feed[i] \in Items
          BY <3>2
        <5> QED BY <5>1, <4>1 DEF Items, IsUseful
      <4> QED BY <4>1 DEF IdsOf, ToSet
    <3> QED BY <1>1, <3>1, <3>2, <3>3, <3>4, ContinueSound
  <2>2. CASE FetchFails(t)
    <3>1. Report(t, "feed", 0, {})
      BY <2>2 DEF FetchFails
    <3>2. "feed" \in Errors /\ 0 \in Nat /\ {} \in SUBSET Ids
      BY DEF Errors
    <3>3. LET source == Sources[Len(req[t].results) + 1] IN
            /\ "feed" = "none" => \A id \in {} : <<source, id>> \in DOMAIN articles
            /\ "feed" = "feed" => 0 = 0
            /\ source \in Known => "feed" # "unique"
      OBVIOUS
    <3> QED BY <1>1, <3>1, <3>2, <3>3, ReportSound
  <2> QED BY <2>1, <2>2
<1> QED BY <1>1, <1>2, RequestStep DEF db, IInv, TypeOK

LEMMA SkipItemKeeps ==
  ASSUME IInv, NEW t \in Scrapes, SkipItem(t)
  PROVE  IInv'
<1>1. /\ req[t] \in Request /\ req[t].pc # "done"
      /\ OnTrack(req[t], DOMAIN articles) /\ True(req[t].results, DOMAIN articles)
      /\ req[t].ids \in SUBSET Ids /\ req[t].new \in Nat
      /\ UNCHANGED db
  BY OnItsWay DEF SkipItem, At
<1>2. /\ Tail(req[t].items) \in Seq(Items)
      /\ \A id \in req[t].ids :
           <<Sources[Len(req[t].results) + 1], id>> \in DOMAIN articles \/ id \in IdsLeft(Tail(req[t].items))
  BY ItemType DEF SkipItem, At, Source
<1>3. Continue(t, Tail(req[t].items), req[t].ids, req[t].new)
  BY DEF SkipItem
<1>4. \E r : Sound(r, DOMAIN articles) /\ req' = [req EXCEPT ![t] = r]
  BY <1>1, <1>2, <1>3, ContinueSound
<1> QED BY <1>1, <1>4, RequestStep DEF db, IInv, TypeOK

LEMMA SelectSourceKeeps ==
  ASSUME IInv, NEW t \in Scrapes, SelectSource(t)
  PROVE  IInv'
<1> DEFINE pc == IF Source(t) \in newsSources THEN "lookup" ELSE "insert"
<1>1. /\ req[t].pc = "source" /\ IsUseful(Head(req[t].items)) /\ Goto(t, pc) /\ UNCHANGED db
  BY DEF SelectSource, At
<1>2. pc \in {"insert", "lookup", "store"} /\ (pc = "insert" => Source(t) \notin Known)
  BY DEF IInv, TypeOK
<1> HIDE DEF pc
<1>3. \E r : Sound(r, DOMAIN articles) /\ req' = [req EXCEPT ![t] = r]
  BY <1>1, <1>2, GotoSound
<1> QED BY <1>1, <1>3, RequestStep DEF db, IInv, TypeOK

LEMMA InsertSourceKeeps ==
  ASSUME IInv, NEW t \in Scrapes, InsertSource(t)
  PROVE  IInv'
<1>1. /\ req[t] \in Request /\ req[t].pc = "insert" /\ Source(t) \in Names
      /\ OnTrack(req[t], DOMAIN articles) /\ True(req[t].results, DOMAIN articles)
      /\ req[t].ids \in SUBSET Ids /\ req[t].new \in Nat
      /\ newsSources' = newsSources \cup {Source(t)} /\ UNCHANGED <<articles, sentences>>
  BY OnItsWay DEF InsertSource, At
<1>2. IsUseful(Head(req[t].items)) /\ Source(t) \notin Known
  BY <1>1 DEF OnTrack, Source
<1>3. \E r : Sound(r, DOMAIN articles) /\ req' = [req EXCEPT ![t] = r]
  <2>1. CASE Source(t) \in newsSources
    <3>1. Report(t, "unique", req[t].new, req[t].ids)
      BY <2>1 DEF InsertSource, StoreError
    <3> QED BY <1>1, <1>2, <3>1, ReportSound DEF Errors, Source
  <2>2. CASE Source(t) \notin newsSources
    <3>1. Goto(t, "lookup")
      BY <2>2 DEF InsertSource
    <3> QED BY <1>1, <1>2, <3>1, GotoSound
  <2> QED BY <2>1, <2>2
<1> QED BY <1>1, <1>3, RequestStep DEF IInv, TypeOK

LEMMA LookupKeeps ==
  ASSUME IInv, NEW t \in Scrapes, Lookup(t)
  PROVE  IInv'
<1>1. /\ req[t] \in Request /\ req[t].pc = "lookup"
      /\ OnTrack(req[t], DOMAIN articles) /\ True(req[t].results, DOMAIN articles)
      /\ req[t].ids \in SUBSET Ids /\ req[t].new \in Nat
      /\ UNCHANGED db
  BY OnItsWay DEF Lookup, At
<1>2. IsUseful(Head(req[t].items))
  BY <1>1 DEF OnTrack
<1>3. \E r : Sound(r, DOMAIN articles) /\ req' = [req EXCEPT ![t] = r]
  <2>1. CASE Exists(Key(t))
    <3>1. Continue(t, Tail(req[t].items), req[t].ids, req[t].new)
      BY <2>1 DEF Lookup
    <3>2. Tail(req[t].items) \in Seq(Items)
      BY <1>1, ItemType
    <3>3. \A id \in req[t].ids :
            <<Sources[Len(req[t].results) + 1], id>> \in DOMAIN articles \/ id \in IdsLeft(Tail(req[t].items))
      BY <1>1, <2>1, ItemType DEF Exists, Key, Source
    <3> QED BY <1>1, <3>1, <3>2, <3>3, ContinueSound
  <2>2. CASE ~Exists(Key(t))
    <3>1. Goto(t, "store")
      BY <2>2 DEF Lookup
    <3> QED BY <1>1, <1>2, <3>1, GotoSound
  <2> QED BY <2>1, <2>2
<1> QED BY <1>1, <1>3, RequestStep DEF db, IInv, TypeOK

LEMMA StoreKeeps ==
  ASSUME IInv, NEW t \in Scrapes, Store(t)
  PROVE  IInv'
<1>1. /\ Sound(req[t], DOMAIN articles) /\ req[t] \in Request /\ req[t].pc = "store"
      /\ OnTrack(req[t], DOMAIN articles) /\ True(req[t].results, DOMAIN articles)
      /\ req[t].ids \in SUBSET Ids /\ req[t].new \in Nat
  BY OnItsWay DEF Store, At
<1>2. IsUseful(Head(req[t].items))
  BY <1>1 DEF OnTrack
<1>3. /\ Tail(req[t].items) \in Seq(Items)
      /\ Head(req[t].items).text \in Texts /\ Key(t) \in Keys
      /\ \A id \in req[t].ids : \/ <<Source(t), id>> \in DOMAIN articles \cup {Key(t)}
                                \/ id \in IdsLeft(Tail(req[t].items))
  BY <1>1, <1>2, ItemType DEF Key
<1>4. CASE Exists(Key(t))
  <2>1. Continue(t, Tail(req[t].items), req[t].ids, req[t].new) /\ UNCHANGED db
    BY <1>4 DEF Store
  <2>2. DOMAIN articles \cup {Key(t)} = DOMAIN articles
    BY <1>4 DEF Exists
  <2>3. \E r : Sound(r, DOMAIN articles) /\ req' = [req EXCEPT ![t] = r]
    BY <1>1, <1>3, <2>1, <2>2, ContinueSound DEF Source
  <2> QED BY <2>1, <2>3, RequestStep DEF db, IInv, TypeOK
<1>5. CASE ~Exists(Key(t))
  <2> DEFINE filed == DOMAIN articles \cup {Key(t)}
             text == Head(req[t].items).text
  <2>1. /\ articles' = [k \in filed |-> IF k = Key(t) THEN text ELSE articles[k]]
        /\ sentences' = [k \in filed |-> IF k = Key(t) THEN SentencesOf[text] ELSE sentences[k]]
        /\ Continue(t, Tail(req[t].items), req[t].ids, req[t].new + 1)
        /\ newsSources' = newsSources
    BY <1>5 DEF Store
  <2>2. DOMAIN articles' = filed /\ DOMAIN sentences' = filed /\ DOMAIN articles \subseteq filed
    BY <2>1
  <2>3. OnTrack(req[t], filed) /\ True(req[t].results, filed)
    BY <1>1, <2>2, SoundStays DEF Sound
  <2>4. req[t].new + 1 \in Nat
    BY <1>1
  <2>5. \E r : Sound(r, filed) /\ req' = [req EXCEPT ![t] = r]
    <3> HIDE DEF filed
    <3>1. \A id \in req[t].ids :
            <<Sources[Len(req[t].results) + 1], id>> \in filed \/ id \in IdsLeft(Tail(req[t].items))
      BY <1>3 DEF filed, Source
    <3> QED BY <1>1, <1>3, <2>1, <2>3, <2>4, <3>1, ContinueSound
  <2>6. PICK r : Sound(r, filed) /\ req' = [req EXCEPT ![t] = r]
    BY <2>5
  <2>7. Sound(r, DOMAIN articles') /\ DOMAIN articles \subseteq DOMAIN articles'
    BY <2>2, <2>6
  <2>8. /\ req' \in [Scrapes -> {Idle} \cup Running]
        /\ \A u \in Scrapes : req'[u] # Idle =>
             /\ Len(req'[u].results) = Len(Sources) <=> req'[u].pc = "done"
             /\ req'[u].items = <<>> <=> req'[u].pc \in {"fetch", "done"}
        /\ RequestsSound'
    BY <2>6, <2>7, RequestMoves
  <2>9. filed \subseteq Keys /\ \A k \in filed : articles'[k] \in Texts
    BY <1>3, <2>1 DEF IInv, TypeOK
  <2>10. IsFiniteSet(filed)
    BY FS_AddElement DEF IInv
  <2> HIDE DEF filed
  <2>11. TypeOK'
    BY <2>1, <2>2, <2>8, <2>9 DEF IInv, TypeOK
  <2> QED BY <2>2, <2>8, <2>10, <2>11 DEF IInv
<1> QED BY <1>4, <1>5

LEMMA QueryFailsKeeps ==
  ASSUME IInv, NEW t \in Scrapes, QueryFails(t)
  PROVE  IInv'
<1>1. /\ req[t] \in Request /\ req[t].pc # "done"
      /\ OnTrack(req[t], DOMAIN articles) /\ True(req[t].results, DOMAIN articles)
      /\ req[t].ids \in SUBSET Ids /\ req[t].new \in Nat
      /\ UNCHANGED db /\ Report(t, "query", req[t].new, req[t].ids)
  BY OnItsWay DEF QueryFails, StoreError, At
<1>2. \E r : Sound(r, DOMAIN articles) /\ req' = [req EXCEPT ![t] = r]
  BY <1>1, ReportSound DEF Errors
<1> QED BY <1>1, <1>2, RequestStep DEF db, IInv, TypeOK

LEMMA StartKeeps ==
  ASSUME IInv, NEW t \in Scrapes, Start(t)
  PROVE  IInv'
<1> DEFINE r == [pc |-> "fetch", items |-> <<>>, ids |-> {}, new |-> 0, results |-> <<>>]
<1>1. req' = [req EXCEPT ![t] = r] /\ UNCHANGED db
  BY DEF Start
<1>2. Len(Sources) \in Nat \ {0}
  BY ScrapeAssumption
<1>3. Sound(r, DOMAIN articles)
  BY <1>2 DEF Sound, Request, Running, OnTrack, True
<1> HIDE DEF r
<1> QED BY <1>1, <1>3, RequestStep DEF db, IInv, TypeOK

LEMMA EndKeeps ==
  ASSUME IInv, NEW t \in Scrapes, Answer(t) \/ Die(t)
  PROVE  IInv'
<1>1. req' = [req EXCEPT ![t] = Idle] /\ UNCHANGED db
  BY DEF Answer, Die
<1> QED BY <1>1, RequestStep DEF db, IInv, TypeOK

LEMMA NextIInv == IInv /\ [Next]_vars => IInv'
<1> SUFFICES ASSUME IInv, [Next]_vars PROVE IInv'
  OBVIOUS
<1>1. ASSUME NEW t \in Scrapes, Start(t) \/ Die(t) PROVE IInv'
  BY <1>1, StartKeeps, EndKeeps
<1>2. ASSUME NEW t \in Scrapes, Handler(t) PROVE IInv'
  BY <1>2, FetchKeeps, SkipItemKeeps, SelectSourceKeeps, InsertSourceKeeps, LookupKeeps,
     StoreKeeps, QueryFailsKeeps, EndKeeps DEF Handler
<1>3. CASE UNCHANGED vars
  BY <1>3 DEF vars, IInv, TypeOK, RequestsSound
<1> QED BY <1>1, <1>2, <1>3 DEF Next

LEMMA AlwaysIInv == Spec => []IInv
BY InitIInv, NextIInv, PTL DEF Spec

-----------------------------------------------------------------------------
\* The tables are whole and the reports true: a Source reported ok has all the
\* usable items of its feed in the library.
THEOREM ReportsTrue == Spec => []ScrapeInv
<1>1. IInv => ScrapeInv
  BY RequestKinds DEF IInv, ScrapeInv, ReportTrue, ResultsOf, RequestsSound, Sound, True, Exists
<1> QED BY <1>1, AlwaysIInv, PTL

\* Two scrapes never fail each other's Sources that have a row.
THEOREM KnownNeverCollide == Spec => []KnownFetchedMeansOk
<1>1. IInv => KnownFetchedMeansOk
  BY DEF IInv, KnownFetchedMeansOk, ResultsOf, RequestsSound, Sound, True
<1> QED BY <1>1, AlwaysIInv, PTL

-----------------------------------------------------------------------------
(* Scrape implements Library. *)

\* Each step files one Article, whole, or none.
LEMMA FiledOrNot ==
  ASSUME IInv, [Next]_vars
  PROVE  \/ UNCHANGED <<articles, sentences>>
         \/ \E t \in Scrapes : Store(t) /\ ~Exists(Key(t))
BY DEF Next, Start, Handler, Fetch, FetchFails, SkipItem, SelectSource, InsertSource, Lookup,
       Store, QueryFails, Answer, Die, db, vars

\* However scrapes overlap, fail and die, they do to the library what Library says.
THEOREM ScrapesImplementLibrary == Spec => ImplementsLibrary
<1>1. Init => TheLibrary!Init
  BY DEF Init, TheLibrary!Init
<1>2. IInv /\ [Next]_vars => [TheLibrary!Next]_sentences
  <2> SUFFICES ASSUME IInv, [Next]_vars, ~UNCHANGED sentences PROVE TheLibrary!Next
    OBVIOUS
  <2>1. PICK t \in Scrapes : Store(t) /\ ~Exists(Key(t))
    BY FiledOrNot
  <2>2. Key(t) \in Keys /\ Head(req[t].items).text \in Texts
    BY <2>1, ItemType, OnItsWay DEF Store, At, OnTrack
  <2>3. PICK k \in Keys, text \in Texts : k = Key(t) /\ text = Head(req[t].items).text
    BY <2>2
  <2>4. /\ k \notin DOMAIN sentences
        /\ sentences' = [x \in DOMAIN sentences \cup {k} |->
                           IF x = k THEN SentencesOf[text] ELSE sentences[x]]
    BY <2>1, <2>3 DEF Store, Exists, IInv, TypeOK
  <2>5. TheLibrary!Store(k, text)
    BY <2>4 DEF TheLibrary!Store
  <2> QED BY <2>5 DEF TheLibrary!Next
<1> QED BY <1>1, <1>2, AlwaysIInv, PTL DEF Spec, ImplementsLibrary, TheLibrary!Spec

-----------------------------------------------------------------------------
(* The sum a request reports.  Reported is a recursive function, and what it *)
(* computes is found by taking the least number for which it would not.    *)

LEMMA LeastOf ==
  ASSUME NEW S \in SUBSET Nat, S # {}
  PROVE  \E n \in S : \A m \in S : n <= m
<1> DEFINE R == {p \in Nat \X Nat : p[1] < p[2]}
<1>1. IsWellFoundedOn(R, Nat)
  <2>1. R = OpToRel(<, Nat)
    BY DEF OpToRel
  <2> QED BY <2>1, NatLessThanWellFounded
<1> HIDE DEF R
<1>2. \E n \in S : \A m \in S : ~(<<m, n>> \in R)
  BY <1>1, WFMin
<1>3. ASSUME NEW n \in S, NEW m \in S, ~(<<m, n>> \in R) PROVE n <= m
  <2>1. <<m, n>> \in Nat \X Nat /\ <<m, n>>[1] = m /\ <<m, n>>[2] = n
    OBVIOUS
  <2>2. ~(m < n)
    BY <1>3, <2>1 DEF R
  <2> QED BY <2>1, <2>2
<1> QED BY <1>2, <1>3

\* What holds of 0, and of each number after one it holds of, holds of all.
LEMMA AllNumbers ==
  ASSUME NEW S, 0 \in S, NEW n \in Nat, \A m \in 0 .. n - 1 : m \in S => m + 1 \in S
  PROVE  n \in S
<1> SUFFICES ASSUME n \notin S PROVE FALSE
  OBVIOUS
<1> DEFINE Bad == {m \in 0 .. n : m \notin S}
<1>1. Bad \in SUBSET Nat /\ n \in Bad
  OBVIOUS
<1>2. PICK m \in Bad : \A k \in Bad : m <= k
  BY <1>1, LeastOf
<1>3. m # 0 /\ m \in 0 .. n
  OBVIOUS
<1>4. m - 1 \in 0 .. n - 1 /\ m - 1 \notin Bad
  BY <1>2, <1>3
<1>5. m - 1 + 1 \in S
  BY <1>4
<1> QED BY <1>3, <1>5

IsSum(f, base, results, n) ==
  f = [i \in 0 .. n |-> IF i = 0 THEN base ELSE f[i - 1] + results[i].new]

LEMMA SumExists ==
  ASSUME NEW base, NEW results, NEW n \in Nat
  PROVE  \E f : IsSum(f, base, results, n)
<1> DEFINE Has(m) == \E f : f = [i \in 0 .. m |-> IF i = 0 THEN base ELSE f[i - 1] + results[i].new]
           S == {m \in Nat : Has(m)}
<1>1. Has(0)
  <2> DEFINE e == [i \in 0 .. 0 |-> base]
  <2>1. e = [i \in 0 .. 0 |-> IF i = 0 THEN base ELSE e[i - 1] + results[i].new]
    OBVIOUS
  <2> QED BY <2>1
<1>2. ASSUME NEW m \in Nat, Has(m) PROVE Has(m + 1)
  <2>1. PICK f : f = [i \in 0 .. m |-> IF i = 0 THEN base ELSE f[i - 1] + results[i].new]
    BY <1>2
  <2> DEFINE g == [i \in 0 .. m + 1 |->
                     IF i = 0 THEN base
                     ELSE IF i = m + 1 THEN f[i - 1] + results[i].new ELSE f[i]]
  <2>2. ASSUME NEW i \in 0 .. m + 1
        PROVE  g[i] = IF i = 0 THEN base ELSE g[i - 1] + results[i].new
    <3>1. CASE i = 0
      BY <3>1
    <3>2. CASE i # 0
      <4>1. i - 1 \in 0 .. m /\ i - 1 # m + 1
        BY <3>2
      <4>2. g[i - 1] = f[i - 1]
        BY <4>1, <2>1
      <4>3. CASE i = m + 1
        <5>1. g[i] = f[i - 1] + results[i].new
          BY <4>3, <3>2
        <5> QED BY <5>1, <4>2, <3>2
      <4>4. CASE i # m + 1
        <5>1. i \in 0 .. m
          BY <4>4
        <5>2. g[i] = f[i] /\ f[i] = f[i - 1] + results[i].new
          BY <5>1, <4>4, <3>2, <2>1
        <5> QED BY <5>2, <4>2, <3>2
      <4> QED BY <4>3, <4>4
    <3> QED BY <3>1, <3>2
  <2>3. g = [i \in 0 .. m + 1 |-> IF i = 0 THEN base ELSE g[i - 1] + results[i].new]
    BY <2>2
  <2> QED BY <2>3
<1> HIDE DEF Has
<1>3. 0 \in S /\ \A m \in 0 .. n - 1 : m \in S => m + 1 \in S
  BY <1>1, <1>2
<1> HIDE DEF S
<1>4. n \in S
  BY <1>3, AllNumbers
<1> QED BY <1>4 DEF Has, S, IsSum

\* f adds up what is new of the first n results, from start to total.
Sums(f, start, results, n, total) ==
  /\ f \in [0 .. n -> Nat]
  /\ f[0] = start
  /\ \A i \in 1 .. n : f[i] = f[i - 1] + results[i].new
  /\ total = f[n]

\* f adds what is new of the first n results step by step.
AddsUp(f, results, n) ==
  \A i \in 1 .. n : f[i - 1] \in Nat /\ f[i] \in Nat /\ f[i] = f[i - 1] + results[i].new

LEMMA SumsAddUp ==
  ASSUME NEW n \in Nat, NEW f, NEW start, NEW results, NEW total,
         Sums(f, start, results, n, total)
  PROVE  AddsUp(f, results, n)
<1>1. f \in [0 .. n -> Nat]
  BY DEF Sums
<1>2. ASSUME NEW i \in 1 .. n
      PROVE  f[i - 1] \in Nat /\ f[i] \in Nat /\ f[i] = f[i - 1] + results[i].new
  <2>1. i - 1 \in 0 .. n /\ i \in 0 .. n
    OBVIOUS
  <2>2. f[i - 1] \in Nat /\ f[i] \in Nat
    BY <1>1, <2>1
  <2> QED BY <2>2 DEF Sums
<1> QED BY <1>2 DEF AddsUp

LEMMA ReportedUnfolds ==
  ASSUME NEW r \in Running
  PROVE  \E f : Sums(f, r.new, r.results, Len(r.results), Reported(r))
<1> DEFINE n == Len(r.results)
           results == r.results
           f == CHOOSE g : g = [i \in 0 .. n |-> IF i = 0 THEN r.new ELSE g[i - 1] + results[i].new]
<1>1. n \in Nat /\ r.new \in Nat /\ \A i \in 1 .. n : results[i].new \in Nat
  <2>1. results \in Seq(Results) /\ r.new \in Nat
    BY RequestKinds
  <2>2. n \in Nat /\ \A i \in 1 .. n : results[i] \in Results
    BY <2>1
  <2> QED BY <2>1, <2>2 DEF Results
<1>2. r # Idle
  BY RequestKinds
<1>3. Reported(r) = f[n]
  BY <1>2 DEF Reported
<1> HIDE DEF n, results, f
<1> DEFINE base == r.new
<1> HIDE DEF base
<1>4. \E g : IsSum(g, base, results, n)
  BY <1>1, SumExists
<1>5. f = [i \in 0 .. n |-> IF i = 0 THEN r.new ELSE f[i - 1] + results[i].new]
  BY <1>4 DEF f, base, IsSum
<1>6. /\ f[0] = r.new
      /\ \A i \in 1 .. n : f[i] = f[i - 1] + results[i].new
      /\ DOMAIN f = 0 .. n
  BY <1>1, <1>5
<1>7. \A k \in 0 .. n : f[k] \in Nat
  <2> SUFFICES ASSUME NEW k \in 0 .. n PROVE f[k] \in Nat
    OBVIOUS
  <2> DEFINE S == {m \in 0 .. n : f[m] \in Nat}
  <2>1. 0 \in S
    BY <1>1, <1>6
  <2>2. \A m \in 0 .. k - 1 : m \in S => m + 1 \in S
    <3> SUFFICES ASSUME NEW m \in 0 .. k - 1, f[m] \in Nat PROVE m + 1 \in S
      OBVIOUS
    <3>1. m + 1 \in 1 .. n /\ m + 1 - 1 = m
      BY <1>1
    <3>2. f[m + 1] = f[m] + results[m + 1].new
      BY <3>1, <1>6
    <3> QED BY <3>1, <3>2, <1>1
  <2> HIDE DEF S
  <2>3. k \in S
    BY <2>1, <2>2, AllNumbers
  <2> QED BY <2>3 DEF S
<1>8. f \in [0 .. n -> Nat]
  BY <1>5, <1>7
<1>9. Sums(f, r.new, results, n, Reported(r))
  BY <1>3, <1>6, <1>8 DEF Sums
<1> QED BY <1>9 DEF n, results

SameSteps(f, g, n) ==
  /\ \A i \in 0 .. n : f[i] \in Nat /\ g[i] \in Nat
  /\ \A i \in 1 .. n : f[i] - f[i - 1] = g[i] - g[i - 1]

\* Two sums of the same steps differ by what they start from.
LEMMA SumsDiffer ==
  ASSUME NEW n \in Nat, NEW f, NEW g, SameSteps(f, g, n)
  PROVE  f[n] - f[0] = g[n] - g[0]
<1> USE DEF SameSteps
<1> DEFINE S == {m \in 0 .. n : f[m] - f[0] = g[m] - g[0]}
<1>1. 0 \in S
  OBVIOUS
<1>2. ASSUME NEW m \in 0 .. n - 1, m \in S PROVE m + 1 \in S
  <2>1. m + 1 \in 1 .. n /\ m + 1 - 1 = m /\ m \in 0 .. n /\ m + 1 \in 0 .. n /\ 0 \in 0 .. n
    OBVIOUS
  <2>2. f[m + 1] - f[m] = g[m + 1] - g[m]
    BY <2>1
  <2>3. f[m] - f[0] = g[m] - g[0]
    BY <1>2
  <2>4. /\ f[m] \in Nat /\ g[m] \in Nat /\ f[m + 1] \in Nat /\ g[m + 1] \in Nat
        /\ f[0] \in Nat /\ g[0] \in Nat
    BY <2>1
  <2>5. f[m + 1] - f[0] = g[m + 1] - g[0]
    BY <2>2, <2>3, <2>4
  <2> QED BY <2>1, <2>5
<1> HIDE DEF S
<1>3. n \in S
  BY <1>1, <1>2, AllNumbers
<1> QED BY <1>3 DEF S

LEMMA Shifted ==
  ASSUME NEW a \in Nat, NEW b \in Nat, NEW c \in Nat, NEW d \in Nat, a - c = b - d
  PROVE  b = a + (d - c)
OBVIOUS

LEMMA ReportedType ==
  ASSUME NEW r \in Running
  PROVE  Reported(r) \in Nat
<1>1. PICK f : Sums(f, r.new, r.results, Len(r.results), Reported(r))
  BY ReportedUnfolds
<1>2. Len(r.results) \in Nat
  BY RequestKinds
<1> QED BY <1>1, <1>2 DEF Sums

\* Within a Source, the report grows with what is new of the Source.
LEMMA ReportedSameSource ==
  ASSUME NEW r \in Running, NEW q \in Running, q.results = r.results
  PROVE  Reported(q) = Reported(r) + (q.new - r.new)
<1> DEFINE n == Len(r.results)
<1>1. PICK f : Sums(f, r.new, r.results, n, Reported(r))
  BY ReportedUnfolds
<1>2. PICK g : Sums(g, q.new, r.results, n, Reported(q))
  <2>1. \E g : Sums(g, q.new, q.results, Len(q.results), Reported(q))
    BY ReportedUnfolds
  <2> QED BY <2>1
<1>3. n \in Nat /\ r.new \in Nat /\ q.new \in Nat /\ \A i \in 1 .. n : r.results[i].new \in Nat
  <2>1. r.results \in Seq(Results)
    BY RequestKinds
  <2>2. n \in Nat /\ \A i \in 1 .. n : r.results[i] \in Results
    BY <2>1
  <2> QED BY <2>2, RequestKinds DEF Results
<1> HIDE DEF n
<1> USE DEF Sums
<1>4. \A i \in 1 .. n : f[i] - f[i - 1] = g[i] - g[i - 1]
  <2> SUFFICES ASSUME NEW i \in 1 .. n PROVE f[i] - f[i - 1] = g[i] - g[i - 1]
    OBVIOUS
  <2> HIDE DEF Sums
  <2>1. f[i - 1] \in Nat /\ f[i] \in Nat /\ f[i] = f[i - 1] + r.results[i].new
    <3>1. AddsUp(f, r.results, n)
      BY <1>1, <1>3, SumsAddUp
    <3> QED BY <3>1 DEF AddsUp
  <2>2. g[i - 1] \in Nat /\ g[i] \in Nat /\ g[i] = g[i - 1] + r.results[i].new
    <3>1. AddsUp(g, r.results, n)
      BY <1>2, <1>3, SumsAddUp
    <3> QED BY <3>1 DEF AddsUp
  <2>3. PICK e \in Nat : e = r.results[i].new
    BY <1>3
  <2>4. f[i] - f[i - 1] = e
    BY <2>1, <2>3
  <2>5. g[i] - g[i - 1] = e
    BY <2>2, <2>3
  <2> QED BY <2>4, <2>5
<1>5. f[n] - f[0] = g[n] - g[0]
  <2>1. \A i \in 0 .. n : f[i] \in Nat /\ g[i] \in Nat
    BY <1>1, <1>2
  <2>2. SameSteps(f, g, n)
    BY <1>4, <2>1 DEF SameSteps
  <2> QED BY <1>3, <2>2, SumsDiffer
<1>6. f[n] \in Nat /\ g[n] \in Nat
  BY <1>1, <1>2, <1>3
<1>7. f[0] = r.new /\ g[0] = q.new /\ Reported(r) = f[n] /\ Reported(q) = g[n]
  BY <1>1, <1>2
<1>8. f[n] - r.new = g[n] - q.new
  BY <1>5, <1>7
<1>9. r.new \in Nat /\ q.new \in Nat
  BY RequestKinds
<1>10. g[n] = f[n] + (q.new - r.new)
  BY <1>6, <1>8, <1>9, Shifted
<1> QED BY <1>7, <1>10

\* At the end of a Source, what is new of it moves to its result.
LEMMA ReportedNextSource ==
  ASSUME NEW r \in Running, NEW q \in Running, NEW res \in Results,
         q.results = Append(r.results, res), q.new = 0
  PROVE  Reported(q) = Reported(r) + (res.new - r.new)
<1> DEFINE n == Len(r.results)
<1>1. r.results \in Seq(Results) /\ n \in Nat /\ r.new \in Nat /\ res.new \in Nat
  <2>1. r.results \in Seq(Results) /\ r.new \in Nat
    BY RequestKinds
  <2> QED BY <2>1 DEF Results
<1>2. /\ Len(q.results) = n + 1 /\ q.results[n + 1] = res
      /\ \A i \in 1 .. n : q.results[i] = r.results[i]
      /\ \A i \in 1 .. n : r.results[i].new \in Nat
  <2>1. \A i \in 1 .. n : r.results[i] \in Results
    BY <1>1
  <2> QED BY <2>1, <1>1 DEF Results
<1>3. PICK f : Sums(f, r.new, r.results, n, Reported(r))
  BY ReportedUnfolds
<1>4. PICK g : Sums(g, 0, q.results, n + 1, Reported(q))
  <2>1. \E g : Sums(g, q.new, q.results, Len(q.results), Reported(q))
    BY ReportedUnfolds
  <2>2. Len(q.results) = n + 1
    BY <1>2
  <2> HIDE DEF n
  <2> QED BY <2>1, <2>2
<1> HIDE DEF n
<1> USE DEF Sums
<1>5. \A i \in 1 .. n : f[i] - f[i - 1] = g[i] - g[i - 1]
  <2> SUFFICES ASSUME NEW i \in 1 .. n PROVE f[i] - f[i - 1] = g[i] - g[i - 1]
    OBVIOUS
  <2> HIDE DEF Sums
  <2>2. f[i - 1] \in Nat /\ f[i] \in Nat /\ f[i] = f[i - 1] + r.results[i].new
    <3>1. AddsUp(f, r.results, n)
      BY <1>1, <1>3, SumsAddUp
    <3> QED BY <3>1 DEF AddsUp
  <2>3. g[i - 1] \in Nat /\ g[i] \in Nat /\ g[i] = g[i - 1] + q.results[i].new
    <3>1. AddsUp(g, q.results, n + 1)
      BY <1>1, <1>4, SumsAddUp
    <3>2. i \in 1 .. n + 1
      BY <1>1
    <3> QED BY <3>1, <3>2 DEF AddsUp
  <2>4. PICK e \in Nat : e = r.results[i].new /\ e = q.results[i].new
    BY <1>2
  <2>5. e \in Nat /\ f[i] = f[i - 1] + e /\ g[i] = g[i - 1] + e
    BY ONLY <2>2, <2>3, <2>4
  <2>6. f[i] - f[i - 1] = e /\ g[i] - g[i - 1] = e
    BY ONLY <2>2, <2>3, <2>5
  <2> QED BY ONLY <2>6
<1>6. f[n] - f[0] = g[n] - g[0]
  <2>1. \A i \in 0 .. n : f[i] \in Nat /\ g[i] \in Nat
    BY <1>1, <1>3, <1>4
  <2>2. n \in Nat
    BY <1>1
  <2>3. SameSteps(f, g, n)
    BY <2>1, <1>5 DEF SameSteps
  <2> QED BY <2>2, <2>3, SumsDiffer
<1>7. g[n + 1] = g[n] + res.new
  BY <1>1, <1>2, <1>4
<1>8. f[n] \in Nat /\ g[n] \in Nat
  BY <1>1, <1>3, <1>4
<1>9. f[0] = r.new /\ g[0] = 0 /\ Reported(r) = f[n] /\ Reported(q) = g[n + 1]
  BY <1>3, <1>4
<1>10. f[n] - r.new = g[n]
  BY <1>6, <1>8, <1>9
<1>11. g[n + 1] = f[n] + (res.new - r.new)
  BY <1>1, <1>7, <1>8, <1>10
<1> QED BY <1>9, <1>11

\* What the end of a Source, an item and a query add to the report.
LEMMA ReportAdds ==
  ASSUME IInv, IInv', NEW t \in Scrapes, req[t] # Idle, req'[t] # Idle,
         NEW error \in Errors, NEW new \in Nat, NEW ids \in SUBSET Ids,
         Report(t, error, new, ids)
  PROVE  Reported(req'[t]) = Reported(req[t]) + (new - req[t].new)
<1> DEFINE res == [error |-> error, new |-> new, ids |-> ids]
<1>1. req[t] \in Running /\ req'[t] \in Running /\ req \in [Scrapes -> {Idle} \cup Running]
  BY DEF IInv, TypeOK
<1>2. req'[t].results = Append(req[t].results, res) /\ req'[t].new = 0
  BY <1>1 DEF Report
<1>3. res \in Results /\ res.new = new
  BY DEF Results
<1> HIDE DEF res
<1>4. PICK r \in Running, q \in Running : r = req[t] /\ q = req'[t]
  BY <1>1
<1>5. Reported(q) = Reported(r) + (res.new - r.new)
  BY <1>2, <1>3, <1>4, ReportedNextSource
<1> QED BY <1>3, <1>4, <1>5

LEMMA SameSourceAdds ==
  ASSUME IInv, IInv', NEW t \in Scrapes, req[t] # Idle, req'[t] # Idle,
         req'[t].results = req[t].results
  PROVE  Reported(req'[t]) = Reported(req[t]) + (req'[t].new - req[t].new)
<1>1. PICK r \in Running, q \in Running : r = req[t] /\ q = req'[t]
  BY DEF IInv, TypeOK
<1>2. Reported(q) = Reported(r) + (q.new - r.new)
  BY <1>1, ReportedSameSource
<1> QED BY <1>1, <1>2

LEMMA ContinueAdds ==
  ASSUME IInv, IInv', NEW t \in Scrapes, req[t] # Idle, req'[t] # Idle,
         NEW items, NEW new \in Nat, NEW ids \in SUBSET Ids,
         Continue(t, items, ids, new)
  PROVE  Reported(req'[t]) = Reported(req[t]) + (new - req[t].new)
<1>1. CASE items = <<>>
  <2>1. Report(t, "none", new, ids) /\ "none" \in Errors
    BY <1>1 DEF Continue, Errors
  <2> QED BY <2>1, ReportAdds
<1>2. CASE items # <<>>
  <2>1. req[t] \in Running /\ req \in [Scrapes -> {Idle} \cup Running]
    BY DEF IInv, TypeOK
  <2> DEFINE q == [req[t] EXCEPT !.pc = "source", !.items = items, !.ids = ids, !.new = new]
  <2>2. q.results = req[t].results /\ q.new = new
    BY <2>1 DEF Running
  <2>3. req' = [req EXCEPT ![t] = q]
    BY <1>2 DEF Continue
  <2> HIDE DEF q
  <2>4. req'[t] = q
    BY <2>1, <2>3
  <2> QED BY <2>2, <2>4, SameSourceAdds
<1> QED BY <1>1, <1>2

\* items_new is exact: each step adds to the report of its request the Articles
\* it filed, and no step touches the report of another.
THEOREM ItemsNewAlwaysExact == Spec => ItemsNewExact
<1> DEFINE grew == Cardinality(DOMAIN articles') - Cardinality(DOMAIN articles)
           Exact == \A t \in Scrapes : req'[t] # req[t] /\ req'[t] # Idle /\ req[t] # Idle
                                        => Reported(req'[t]) = Reported(req[t]) + grew
<1>1. IInv /\ IInv' /\ [Next]_vars => [Exact]_vars
  <2> SUFFICES ASSUME IInv, IInv', Next, NEW t \in Scrapes,
                      req'[t] # req[t], req'[t] # Idle, req[t] # Idle
               PROVE  Reported(req'[t]) = Reported(req[t]) + grew
    OBVIOUS
  <2> DEFINE Adds(n) == Reported(req'[t]) = Reported(req[t]) + (n - req[t].new)
  <2>0. /\ req[t] \in Running /\ req \in [Scrapes -> {Idle} \cup Running]
        /\ req[t].new \in Nat /\ req[t].ids \in SUBSET Ids /\ Reported(req[t]) \in Nat
        /\ ~At(t, "idle")
    <3>1. req[t] \in Running /\ req \in [Scrapes -> {Idle} \cup Running]
      BY DEF IInv, TypeOK
    <3> QED BY <3>1, RequestKinds, ReportedType DEF At
  <2>1. Cardinality(DOMAIN articles) \in Nat
    BY FS_CardinalityType DEF IInv
  <2>2. ASSUME UNCHANGED articles, Adds(req[t].new) PROVE Reported(req'[t]) = Reported(req[t]) + grew
    <3>1. grew = 0
      BY <2>1, <2>2
    <3>2. req[t].new - req[t].new = 0
      BY <2>0
    <3> QED BY <3>1, <3>2, <2>2
  <2>3. Handler(t)
    <3>1. ASSUME NEW u \in Scrapes \ {t}, Start(u) \/ Handler(u) \/ Die(u) PROVE FALSE
      <4>1. \E r : req' = [req EXCEPT ![u] = r]
        <5>1. ASSUME NEW error, NEW new, NEW ids, Report(u, error, new, ids)
              PROVE  \E r : req' = [req EXCEPT ![u] = r]
          BY <5>1 DEF Report
        <5>2. ASSUME NEW items, NEW new, NEW ids, Continue(u, items, ids, new)
              PROVE  \E r : req' = [req EXCEPT ![u] = r]
          BY <5>1, <5>2 DEF Continue
        <5>3. ASSUME NEW pc, Goto(u, pc)
              PROVE  \E r : req' = [req EXCEPT ![u] = r]
          BY <5>3 DEF Goto
        <5>4. CASE Start(u) \/ Die(u) \/ Answer(u)
          BY <5>4 DEF Start, Die, Answer
        <5>5. CASE Fetch(u) \/ FetchFails(u) \/ SkipItem(u)
          BY <5>1, <5>2, <5>5 DEF Fetch, FetchFails, SkipItem
        <5>6. CASE SelectSource(u) \/ InsertSource(u) \/ QueryFails(u)
          BY <5>1, <5>3, <5>6 DEF SelectSource, InsertSource, QueryFails, StoreError
        <5>7. CASE Lookup(u) \/ Store(u)
          BY <5>1, <5>2, <5>3, <5>7 DEF Lookup, Store, StoreError
        <5> QED BY <3>1, <5>4, <5>5, <5>6, <5>7 DEF Handler
      <4>2. req'[t] = req[t]
        BY <4>1, <2>0
      <4> QED BY <4>2
    <3>2. ~Start(t) /\ ~Die(t)
      BY <2>0 DEF Start, Die
    <3> QED BY <3>1, <3>2 DEF Next
  <2>4. CASE Fetch(t) \/ FetchFails(t)
    <3>1. req[t].new = 0
      BY <2>0, <2>4, OnItsWay DEF Fetch, FetchFails, At, OnTrack
    <3>2. UNCHANGED articles
      BY <2>4 DEF Fetch, FetchFails, db
    <3>3. CASE Fetch(t)
      <4>1. PICK feed \in Feeds[Source(t)] : Continue(t, feed, IdsOf(feed), 0)
        BY <3>3 DEF Fetch
      <4>2. feed \in Seq(Items)
        <5>1. Source(t) \in Names
          BY <3>3, <2>0, OnItsWay DEF Fetch, At
        <5> QED BY <5>1, ScrapeAssumption
      <4>3. IdsOf(feed) \in SUBSET Ids
        <5>1. ASSUME NEW i \in DOMAIN feed, IsUseful(feed[i]) PROVE feed[i].id \in Ids
          <6>1. feed[i] \in Items
            BY <4>2
          <6> QED BY <6>1, <5>1 DEF Items, IsUseful
        <5> QED BY <5>1 DEF IdsOf, ToSet
      <4> QED BY <4>1, <4>3, <3>1, <3>2, <2>2, ContinueAdds
    <3>4. CASE FetchFails(t)
      <4>1. Report(t, "feed", 0, {}) /\ "feed" \in Errors /\ {} \in SUBSET Ids
        BY <3>4 DEF FetchFails, Errors
      <4> QED BY <4>1, <3>1, <3>2, <2>2, ReportAdds
    <3> QED BY <2>4, <3>3, <3>4
  <2>5. CASE SkipItem(t)
    BY <2>0, <2>2, <2>5, ContinueAdds DEF SkipItem, db
  <2>6. ASSUME NEW pc, Goto(t, pc) PROVE Adds(req[t].new)
    <3>1. req'[t].results = req[t].results /\ req'[t].new = req[t].new
      BY <2>0, <2>6 DEF Goto, Running
    <3> QED BY <3>1, SameSourceAdds
  <2>7. CASE SelectSource(t)
    <3>1. (\E pc : Goto(t, pc)) /\ UNCHANGED articles
      BY <2>7 DEF SelectSource, db
    <3> QED BY <3>1, <2>2, <2>6
  <2>8. CASE InsertSource(t)
    <3>1. UNCHANGED articles /\ "unique" \in Errors
      BY <2>8 DEF InsertSource, Errors
    <3>2. Report(t, "unique", req[t].new, req[t].ids) \/ Goto(t, "lookup")
      BY <2>8 DEF InsertSource, StoreError
    <3> QED BY <3>1, <3>2, <2>0, <2>2, <2>6, ReportAdds
  <2>9. CASE Lookup(t)
    <3>1. UNCHANGED articles
      BY <2>9 DEF Lookup, db
    <3>2. Continue(t, Tail(req[t].items), req[t].ids, req[t].new) \/ Goto(t, "store")
      BY <2>9 DEF Lookup
    <3> QED BY <3>1, <3>2, <2>0, <2>2, <2>6, ContinueAdds
  <2>10. CASE Store(t) /\ Exists(Key(t))
    BY <2>0, <2>2, <2>10, ContinueAdds DEF Store, db
  <2>11. CASE Store(t) /\ ~Exists(Key(t))
    <3>1. /\ Continue(t, Tail(req[t].items), req[t].ids, req[t].new + 1)
          /\ DOMAIN articles' = DOMAIN articles \cup {Key(t)}
          /\ Key(t) \notin DOMAIN articles
      BY <2>11 DEF Store, Exists
    <3>2. Adds(req[t].new + 1)
      BY <3>1, <2>0, ContinueAdds
    <3>3. Cardinality(DOMAIN articles') = Cardinality(DOMAIN articles) + 1
      BY <3>1, FS_AddElement DEF IInv
    <3>4. grew = 1 /\ (req[t].new + 1) - req[t].new = 1
      BY <3>3, <2>0, <2>1
    <3> QED BY <3>2, <3>4
  <2>12. CASE QueryFails(t)
    <3>1. Report(t, "query", req[t].new, req[t].ids) /\ UNCHANGED articles /\ "query" \in Errors
      BY <2>12 DEF QueryFails, StoreError, Errors, db
    <3> QED BY <3>1, <2>0, <2>2, ReportAdds
  <2>13. CASE Answer(t)
    BY <2>0, <2>13 DEF Answer
  <2> QED BY <2>3, <2>4, <2>5, <2>7, <2>8, <2>9, <2>10, <2>11, <2>12, <2>13 DEF Handler
<1> QED BY <1>1, AlwaysIInv, PTL DEF Spec, ItemsNewExact
=============================================================================
