--------------------------- MODULE ExtractProofs ---------------------------
(***************************************************************************)
(* Extract-on-tap for any number of requests, articles, sentences and      *)
(* tokens: a sentence is in the deck whole or not at all, an answer tells  *)
(* the truth, and every step does what Deck says or nothing.               *)
(*                                                                         *)
(* The inductive invariant adds what a request carries from one database   *)
(* call to the next, although others ran between them: what it found       *)
(* extracted stays extracted, what it found in the library stays there,    *)
(* and the candidates it counted are those of its sentence.                *)
(***************************************************************************)
EXTENDS Extract, FiniteSetTheorems, WellFoundedInduction, TLAPS

Added == {s \in Sentences : IsExtracted(s)}
Filed == {s \in Sentences : InLibrary(s)}

\* What a request r relies on when these Sentences are extracted and filed.
Ready(r, extractedOnes, filedOnes) ==
  /\ r.pc = "count" => Head(r.todo) \in extractedOnes
  /\ r.pc = "persist" => Head(r.todo) \in filedOnes
  /\ r.pc = "show" => /\ Head(r.todo) \in extractedOnes
                      /\ r.result.candidates = Len(Candidates(Head(r.todo)))

RequestsReady == \A t \in Tabs : Ready(req[t], Added, Filed)

IInv == ExtractInv /\ RequestsReady

-----------------------------------------------------------------------------
(* Flattening. *)

LEMMA LeastOf ==
  ASSUME NEW S \in SUBSET Nat, S # {}
  PROVE  \E n \in S : \A m \in S : n <= m
<1> DEFINE R == {p \in Nat \X Nat : p[1] < p[2]}
<1>1. IsWellFoundedOn(R, Nat)
  <2>1. R = OpToRel(<, Nat)
    BY DEF OpToRel
  <2> QED BY <2>1, NatLessThanWellFounded
<1> HIDE DEF R
<1>2. \E n \in S : \A m \in S : ~(<<m, n>> \in R)
  BY <1>1, WFMin
<1>3. ASSUME NEW n \in S, NEW m \in S, ~(<<m, n>> \in R) PROVE n <= m
  <2>1. <<m, n>> \in Nat \X Nat /\ <<m, n>>[1] = m /\ <<m, n>>[2] = n
    OBVIOUS
  <2>2. ~(m < n)
    BY <1>3, <2>1 DEF R
  <2> QED BY <2>1, <2>2
<1> QED BY <1>2, <1>3

\* The recursive function in FlattenSeq exists and obeys its definition.
LEMMA FlattenUnfolds ==
  ASSUME NEW seqs, NEW n \in Nat, n = Len(seqs), n # 0
  PROVE  \E f : /\ f = [i \in 1 .. n |-> IF i = 1 THEN seqs[i] ELSE f[i - 1] \o seqs[i]]
                /\ FlattenSeq(seqs) = f[n]
<1> DEFINE Has(m) == \E f : f = [i \in 1 .. m |-> IF i = 1 THEN seqs[i] ELSE f[i - 1] \o seqs[i]]
           Bad == {m \in Nat : ~Has(m)}
<1>1. Has(0)
  <2> DEFINE e == [i \in 1 .. 0 |-> seqs]
  <2> SUFFICES e = [i \in 1 .. 0 |-> IF i = 1 THEN seqs[i] ELSE e[i - 1] \o seqs[i]]
    OBVIOUS
  <2> QED OBVIOUS
<1>2. ASSUME NEW m \in Nat, Has(m) PROVE Has(m + 1)
  <2>1. PICK f : f = [i \in 1 .. m |-> IF i = 1 THEN seqs[i] ELSE f[i - 1] \o seqs[i]]
    BY <1>2
  <2> DEFINE g == [i \in 1 .. m + 1 |->
                     IF i = 1 THEN seqs[i] ELSE IF i = m + 1 THEN f[i - 1] \o seqs[i] ELSE f[i]]
  <2>2. ASSUME NEW i \in 1 .. m + 1
        PROVE  g[i] = IF i = 1 THEN seqs[i] ELSE g[i - 1] \o seqs[i]
    <3>1. CASE i = 1
      BY <3>1
    <3>2. CASE i # 1
      <4>1. i - 1 \in 1 .. m /\ i - 1 # m + 1
        BY <3>2
      <4>2. g[i - 1] = f[i - 1]
        BY <4>1, <2>1
      <4>3. CASE i = m + 1
        <5>1. g[i] = f[i - 1] \o seqs[i]
          BY <4>3, <3>2
        <5> QED BY <5>1, <4>2, <3>2
      <4>4. CASE i # m + 1
        <5>1. i \in 1 .. m
          BY <4>4
        <5>2. g[i] = f[i] /\ f[i] = f[i - 1] \o seqs[i]
          BY <5>1, <4>4, <3>2, <2>1
        <5> QED BY <5>2, <4>2, <3>2
      <4> QED BY <4>3, <4>4
    <3> QED BY <3>1, <3>2
  <2>3. g = [i \in 1 .. m + 1 |-> IF i = 1 THEN seqs[i] ELSE g[i - 1] \o seqs[i]]
    BY <2>2
  <2> QED BY <2>3
<1> HIDE DEF Has
<1>3. Has(n)
  <2> SUFFICES ASSUME Bad # {} PROVE FALSE
    OBVIOUS
  <2>0. Bad \in SUBSET Nat
    OBVIOUS
  <2>1. PICK m \in Bad : \A k \in Bad : m <= k
    BY <2>0, LeastOf
  <2>2. m \in Nat /\ m # 0
    BY <1>1
  <2>3. m - 1 \in Nat /\ m - 1 \notin Bad
    BY <2>1, <2>2
  <2>4. Has(m - 1 + 1)
    BY <2>3, <1>2
  <2> QED BY <2>4
<1> DEFINE h == CHOOSE f : f = [i \in 1 .. n |-> IF i = 1 THEN seqs[i] ELSE f[i - 1] \o seqs[i]]
<1>4. h = [i \in 1 .. n |-> IF i = 1 THEN seqs[i] ELSE h[i - 1] \o seqs[i]]
  BY <1>3 DEF Has
<1>5. FlattenSeq(seqs) = h[n]
  BY DEF FlattenSeq
<1> QED BY <1>4, <1>5

\* Sequences joined are a sequence.
LEMMA FlattenType ==
  ASSUME NEW T, NEW seqs \in Seq(Seq(T))
  PROVE  FlattenSeq(seqs) \in Seq(T)
<1> DEFINE n == Len(seqs)
<1>0. n \in Nat /\ DOMAIN seqs = 1 .. n
  OBVIOUS
<1>1. CASE n = 0
  BY <1>1 DEF FlattenSeq
<1>2. CASE n # 0
  <2>1. PICK f : /\ f = [i \in 1 .. n |-> IF i = 1 THEN seqs[i] ELSE f[i - 1] \o seqs[i]]
                 /\ FlattenSeq(seqs) = f[n]
    <3>1. n = Len(seqs)
      OBVIOUS
    <3> HIDE DEF n
    <3> QED BY <3>1, <1>0, <1>2, FlattenUnfolds
  <2> DEFINE Bad == {i \in 1 .. n : f[i] \notin Seq(T)}
  <2>2. Bad = {}
    <3> SUFFICES ASSUME Bad # {} PROVE FALSE
      OBVIOUS
    <3>1. Bad \in SUBSET Nat
      OBVIOUS
    <3>2. PICK i \in Bad : \A k \in Bad : i <= k
      BY <3>1, LeastOf
    <3>3. i \in 1 .. n /\ seqs[i] \in Seq(T)
      OBVIOUS
    <3>4. i # 1
      BY <2>1, <3>3
    <3>5. i - 1 \in 1 .. n /\ i - 1 \notin Bad
      BY <3>2, <3>3, <3>4
    <3>6. f[i] = f[i - 1] \o seqs[i] /\ f[i - 1] \in Seq(T)
      BY <2>1, <3>3, <3>4, <3>5
    <3>7. f[i] \in Seq(T)
      <4>1. PICK a \in Seq(T), b \in Seq(T) : a = f[i - 1] /\ b = seqs[i]
        BY <3>6, <3>3
      <4>2. a \o b \in Seq(T)
        BY <4>1
      <4> QED BY <3>6, <4>1, <4>2
    <3> QED BY <3>7
  <2>3. n \in 1 .. n /\ n \notin Bad
    BY <1>0, <1>2, <2>2
  <2>4. f[n] \in Seq(T)
    BY <2>3
  <2> QED BY <2>1, <2>4
<1> QED BY <1>1, <1>2

-----------------------------------------------------------------------------
(* The words of a sentence. *)

LEMMA CandidatesType ==
  ASSUME NEW s \in Sentences
  PROVE  /\ Candidates(s) \in Seq(AllWords)
         /\ Len(Candidates(s)) \in Nat
         /\ DOMAIN Candidates(s) = 1 .. Len(Candidates(s))
         /\ Wanted(s) \subseteq AllWords
         /\ IsFiniteSet(Wanted(s))
<1> DEFINE toks == TokensOf[s]
           Pair(tok) == <<Lemma(tok), tok.reading>>
           parts == [i \in DOMAIN toks |-> IF IsCandidate(toks[i]) THEN <<Pair(toks[i])>> ELSE <<>>]
           P == {Pair(toks[i]) : i \in DOMAIN toks}
<1>1. toks \in Seq([surface : STRING, reading : STRING, base : STRING])
  BY ExtractAssumption
<1>2. parts \in Seq(Seq(P))
  <2> HIDE DEF Pair
  <2>1. ASSUME NEW i \in DOMAIN toks
        PROVE  (IF IsCandidate(toks[i]) THEN <<Pair(toks[i])>> ELSE <<>>) \in Seq(P)
    OBVIOUS
  <2>2. DOMAIN toks = 1 .. Len(toks) /\ Len(toks) \in Nat
    BY <1>1
  <2> QED BY <2>1, <2>2
<1>3. Candidates(s) = FlattenSeq(parts)
  BY DEF Candidates
<1> HIDE DEF parts, P
<1>4. Candidates(s) \in Seq(P)
  BY <1>2, <1>3, FlattenType
<1>5. /\ Len(Candidates(s)) \in Nat
      /\ DOMAIN Candidates(s) = 1 .. Len(Candidates(s))
  BY <1>4
<1>6. Wanted(s) \subseteq AllWords
  BY DEF AllWords
<1>7. Candidates(s) \in Seq(AllWords)
  <2>1. \A i \in 1 .. Len(Candidates(s)) : Candidates(s)[i] \in AllWords
    BY <1>5, <1>6 DEF Wanted
  <2> QED BY <2>1, <1>5, <1>4
<1>8. IsFiniteSet(Wanted(s))
  <2> DEFINE n == Len(Candidates(s))
             f == [i \in 1 .. n |-> Candidates(s)[i]]
  <2>1. f \in Surjection(1 .. n, Wanted(s))
    BY <1>5 DEF Surjection, Wanted
  <2>2. ExistsSurjection(1 .. n, Wanted(s))
    BY <2>1 DEF ExistsSurjection
  <2> QED BY <2>2, <1>5, FS_NatSurjection
<1> QED BY <1>5, <1>6, <1>7, <1>8

-----------------------------------------------------------------------------
(* Requests. *)

LEMMA RequestKinds ==
  ASSUME NEW r \in {Idle} \cup Working
  PROVE  /\ r \in Working <=> r # Idle
         /\ r.pc # "idle" <=> r \in Working
         /\ r \in Working => /\ r.now \in Nat /\ r.result \in Results
                            /\ r.article \in Articles \cup {"any"}
                            /\ r.todo \in Seq(Sentences)
BY DEF Idle, Working

\* Working with a field changed.
LEMMA WorkingExcept ==
  ASSUME NEW r \in Working
  PROVE  \A pc \in {"load", "count", "persist", "show"}, result \in Results :
           /\ [r EXCEPT !.pc = pc, !.result = result] \in Working
           /\ [r EXCEPT !.pc = pc, !.result = result].pc = pc
           /\ [r EXCEPT !.pc = pc, !.result = result].todo = r.todo
           /\ [r EXCEPT !.pc = pc, !.result = result].result = result
BY DEF Working

LEMMA TodoType ==
  ASSUME TypeOK, NEW t \in Tabs, req[t] \in Working
  PROVE  /\ req[t].todo \in Seq(Sentences) /\ req[t].todo # <<>>
         /\ Sentence(t) \in Sentences
         /\ Len(req[t].todo) # 1 => /\ Tail(req[t].todo) \in Seq(Sentences)
                                   /\ Tail(req[t].todo) # <<>>
<1>1. req[t].todo \in Seq(Sentences) /\ req[t] # Idle
  BY RequestKinds DEF TypeOK
<1>2. req[t].todo # <<>>
  BY <1>1 DEF TypeOK
<1> DEFINE todo == req[t].todo
<1>3. /\ Head(todo) \in Sentences
      /\ Len(todo) # 1 => Tail(todo) \in Seq(Sentences) /\ Tail(todo) # <<>>
  <2> HIDE DEF todo
  <2>1. todo \in Seq(Sentences) /\ todo # <<>>
    BY <1>1, <1>2 DEF todo
  <2>2. Len(todo) \in Nat /\ Len(todo) # 0
    BY <2>1
  <2>3. Head(todo) \in Sentences
    BY <2>1, <2>2
  <2>4. Len(todo) # 1 => Len(todo) - 1 # 0
    BY <2>2
  <2>5. Tail(todo) \in Seq(Sentences) /\ Len(Tail(todo)) = Len(todo) - 1
    BY <2>1, <2>2
  <2>6. Len(todo) # 1 => Tail(todo) # <<>>
    BY <2>4, <2>5
  <2> QED BY <2>3, <2>5, <2>6
<1> QED BY <1>1, <1>2, <1>3 DEF Sentence

\* More extracted and more filed: a request that was ready still is.
LEMMA ReadyStays ==
  ASSUME NEW r, NEW E, NEW F, NEW E2, NEW F2, E \subseteq E2, F \subseteq F2, Ready(r, E, F)
  PROVE  Ready(r, E2, F2)
BY DEF Ready

LEMMA IdleReady ==
  ASSUME NEW E, NEW F
  PROVE  Ready(Idle, E, F)
BY DEF Ready, Idle

LEMMA LoadReady ==
  ASSUME NEW r, r.pc = "load", NEW E, NEW F
  PROVE  Ready(r, E, F)
BY DEF Ready

\* The parts of the invariant about requests, after a step of one of them.
LEMMA RequestMoves ==
  ASSUME IInv, NEW t \in Tabs, NEW r \in {Idle} \cup Working, r # Idle => r.todo # <<>>,
         req' = [req EXCEPT ![t] = r], Ready(r, Added', Filed'),
         Added \subseteq Added', Filed \subseteq Filed'
  PROVE  /\ req' \in [Tabs -> {Idle} \cup Working]
         /\ \A u \in Tabs : req'[u] # Idle => req'[u].todo # <<>>
         /\ RequestsReady'
<1> USE DEF IInv, ExtractInv, TypeOK
<1>1. req' \in [Tabs -> {Idle} \cup Working]
  OBVIOUS
<1>2. /\ req'[t] = r
      /\ \A u \in Tabs \ {t} : req'[u] = req[u]
  OBVIOUS
<1>3. ASSUME NEW u \in Tabs PROVE Ready(req'[u], Added', Filed')
  <2>1. CASE u = t
    BY <2>1, <1>2
  <2>2. CASE u # t
    <3>1. Ready(req[u], Added, Filed)
      BY DEF RequestsReady
    <3>2. Ready(req[u], Added', Filed')
      BY <3>1, ReadyStays
    <3> QED BY <3>2, <2>2, <1>2
  <2> QED BY <2>1, <2>2
<1>4. RequestsReady'
  BY <1>3 DEF RequestsReady
<1> QED BY <1>1, <1>2, <1>4

\* A step that touches requests only.
LEMMA RequestStep ==
  ASSUME IInv, NEW t \in Tabs, NEW r \in {Idle} \cup Working, r # Idle => r.todo # <<>>,
         req' = [req EXCEPT ![t] = r], Ready(r, Added, Filed), UNCHANGED <<clock, db>>
  PROVE  IInv'
<1>1. Added' = Added /\ Filed' = Filed
  BY DEF db, Added, Filed, IsExtracted, InLibrary
<1>2. /\ req' \in [Tabs -> {Idle} \cup Working]
      /\ \A u \in Tabs : req'[u] # Idle => req'[u].todo # <<>>
      /\ RequestsReady'
  BY <1>1, RequestMoves
<1>3. TypeOK'
  BY <1>2 DEF IInv, ExtractInv, TypeOK, db
<1>4. AllOrNothing'
  BY DEF IInv, ExtractInv, AllOrNothing, db, IsExtracted, LinkedWords, Belongs
<1> QED BY <1>2, <1>3, <1>4 DEF IInv, ExtractInv

LEMMA DoneMoves ==
  ASSUME TypeOK, NEW t \in Tabs, req[t] \in Working, NEW result \in Results,
         result.candidates = Len(Candidates(Sentence(t))), Done(t, result)
  PROVE  \E r \in {Idle} \cup Working :
           /\ r # Idle => r.todo # <<>>
           /\ req' = [req EXCEPT ![t] = r]
           /\ \A E, F : Sentence(t) \in E => Ready(r, E, F)
<1>0. /\ req[t].todo \in Seq(Sentences) /\ req[t].todo # <<>>
      /\ Len(req[t].todo) # 1 => Tail(req[t].todo) \in Seq(Sentences) /\ Tail(req[t].todo) # <<>>
  BY TodoType
<1>1. CASE req[t].article # "any"
  <2> DEFINE r == [req[t] EXCEPT !.pc = "show", !.result = result]
  <2>1. /\ r \in Working /\ r.pc = "show"
        /\ r.todo = req[t].todo /\ r.result = result
    <3>1. "show" \in {"load", "count", "persist", "show"}
      OBVIOUS
    <3>2. PICK q \in Working : q = req[t]
      OBVIOUS
    <3>3. /\ [q EXCEPT !.pc = "show", !.result = result] \in Working
          /\ [q EXCEPT !.pc = "show", !.result = result].pc = "show"
          /\ [q EXCEPT !.pc = "show", !.result = result].todo = q.todo
          /\ [q EXCEPT !.pc = "show", !.result = result].result = result
      BY <3>1, WorkingExcept
    <3> QED BY <3>2, <3>3
  <2>2. req' = [req EXCEPT ![t] = r]
    BY <1>1 DEF Done
  <2> HIDE DEF r
  <2>3. \A E, F : Sentence(t) \in E => Ready(r, E, F)
    BY <2>1 DEF Ready, Sentence
  <2> QED BY <2>1, <2>2, <2>3, <1>0
<1>2. CASE req[t].article = "any" /\ Len(req[t].todo) = 1
  <2>1. req' = [req EXCEPT ![t] = Idle]
    BY <1>2 DEF Done
  <2> QED BY <2>1, IdleReady
<1>3. CASE req[t].article = "any" /\ Len(req[t].todo) # 1
  <2> DEFINE rest == Tail(req[t].todo)
             r == [req[t] EXCEPT !.pc = "load", !.todo = rest, !.result = NoResult]
  <2>0. NoResult \in Results
    BY DEF NoResult, Results
  <2>1. rest \in Seq(Sentences) /\ rest # <<>>
    BY <1>0, <1>3
  <2>2. req' = [req EXCEPT ![t] = r]
    BY <1>3 DEF Done
  <2> HIDE DEF rest
  <2>3. r \in Working /\ r.pc = "load" /\ r.todo = rest
    BY <2>0, <2>1 DEF Working
  <2> HIDE DEF r
  <2>4. \A E, F : Ready(r, E, F)
    BY <2>3, LoadReady
  <2> QED BY <2>1, <2>2, <2>3, <2>4
<1> QED BY <1>1, <1>2, <1>3

-----------------------------------------------------------------------------
(* The transaction, and what its loop comes to. *)

Replaced(s, now) == [i \in DOMAIN Candidates(s) |-> [word |-> Candidates(s)[i], at |-> now]]

LEMMA ReplacedType ==
  ASSUME NEW s \in Sentences, NEW now \in Nat
  PROVE  /\ Replaced(s, now) \in Seq(OccRows)
         /\ Len(Replaced(s, now)) = Len(Candidates(s))
         /\ [i \in DOMAIN Replaced(s, now) |-> Replaced(s, now)[i].word] = Candidates(s)
<1> DEFINE c == Candidates(s)
           R == [i \in DOMAIN c |-> [word |-> c[i], at |-> now]]
<1>1. c \in Seq(AllWords) /\ Len(c) \in Nat /\ DOMAIN c = 1 .. Len(c)
  BY CandidatesType
<1>2. Replaced(s, now) = R
  BY DEF Replaced
<1> HIDE DEF c
<1>3. DOMAIN R = 1 .. Len(c)
  BY <1>1
<1>4. \A i \in 1 .. Len(c) : c[i] \in AllWords /\ R[i] = [word |-> c[i], at |-> now]
  BY <1>1
<1>5. \A i \in 1 .. Len(c) : R[i] \in OccRows /\ R[i].word = c[i]
  BY <1>4 DEF OccRows
<1> HIDE DEF R
<1>6. R \in Seq(OccRows) /\ Len(R) = Len(c)
  <2>1. R = [i \in 1 .. Len(c) |-> R[i]]
    BY <1>3 DEF R
  <2> QED BY <1>1, <1>5, <2>1
<1>7. [i \in DOMAIN R |-> R[i].word] = c
  <2>1. c = [i \in 1 .. Len(c) |-> c[i]]
    BY <1>1
  <2> QED BY <1>3, <1>5, <2>1
<1> QED BY <1>2, <1>6, <1>7 DEF c

\* The cards a transaction holds once these words have theirs.
Holds(held, words, now) ==
  /\ DOMAIN held = DOMAIN cards \cup words
  /\ \A w \in DOMAIN held : held[w] = IF w \in DOMAIN cards THEN cards[w] ELSE NewCard(now)

LEMMA HoldsType ==
  ASSUME TypeOK, NEW s \in Sentences, NEW now \in Nat, NEW held, Holds(held, Wanted(s), now)
  PROVE  /\ DOMAIN held \subseteq AllWords
         /\ \A w \in DOMAIN cards : held[w] = cards[w]
         /\ \A w \in DOMAIN held : held[w] \in CardRows
<1>1. Wanted(s) \subseteq AllWords
  BY CandidatesType
<1>2. NewCard(now) \in CardRows
  BY DEF CardRows, NewCard
<1> QED BY <1>1, <1>2 DEF TypeOK, Holds

FirstWords(s, n) == {Candidates(s)[i] : i \in 1 .. n}

\* What the transaction holds after n turns of its loop.
AfterTurns(s, now, n, done) ==
  /\ done.rows = [i \in 1 .. n |-> [word |-> Candidates(s)[i], at |-> now]]
  /\ Holds(done.cards, FirstWords(s, n), now)
  /\ done.candidates = n
  /\ done.cardsNew = Cardinality(FirstWords(s, n) \ DOMAIN cards)

LEMMA FirstWordsFinite ==
  ASSUME NEW s, NEW n \in Nat
  PROVE  IsFiniteSet(FirstWords(s, n))
<1> DEFINE f == [i \in 1 .. n |-> Candidates(s)[i]]
<1>1. f \in Surjection(1 .. n, FirstWords(s, n))
  BY DEF Surjection, FirstWords
<1>2. ExistsSurjection(1 .. n, FirstWords(s, n))
  BY <1>1 DEF ExistsSurjection
<1> QED BY <1>2, FS_NatSurjection

LEMMA BeforeTheLoop ==
  ASSUME NEW s, NEW now
  PROVE  AfterTurns(s, now, 0, Cleared(s))
<1>1. FirstWords(s, 0) = {}
  BY DEF FirstWords
<1>2. Cleared(s).rows = [i \in 1 .. 0 |-> [word |-> Candidates(s)[i], at |-> now]]
  BY DEF Cleared
<1>3. Holds(Cleared(s).cards, {}, now)
  BY DEF Cleared, Holds
<1>4. Cleared(s).candidates = 0 /\ Cleared(s).cardsNew = 0
  BY DEF Cleared
<1> QED BY <1>1, <1>2, <1>3, <1>4, FS_EmptySet DEF AfterTurns

\* A word that comes again finds the card of its first turn, so RowsAffected is 0
\* and the counter stays with the number of cards made.
LEMMA OneTurn ==
  ASSUME NEW s, NEW now, NEW n \in Nat, NEW done, AfterTurns(s, now, n, done)
  PROVE  AfterTurns(s, now, n + 1, AddCandidate(done, Candidates(s)[n + 1], now))
<1> DEFINE w == Candidates(s)[n + 1]
           next == AddCandidate(done, w, now)
           old == FirstWords(s, n)
           new == FirstWords(s, n + 1)
<1>1. new = old \cup {w}
  <2>1. 1 .. n + 1 = (1 .. n) \cup {n + 1}
    OBVIOUS
  <2> QED BY <2>1 DEF FirstWords
<1>2. /\ next.rows = Append(done.rows, [word |-> w, at |-> now])
      /\ next.cards = WithCard(done.cards, w, now)
      /\ next.candidates = done.candidates + 1
      /\ next.cardsNew = done.cardsNew + Inserted(done.cards, w)
  BY DEF AddCandidate
<1>3. Holds(done.cards, old, now)
  BY DEF AfterTurns
<1>4. next.rows = [i \in 1 .. n + 1 |-> [word |-> Candidates(s)[i], at |-> now]]
  <2> DEFINE row(i) == [word |-> Candidates(s)[i], at |-> now]
             rows == [i \in 1 .. n |-> row(i)]
  <2>1. done.rows = rows
    BY DEF AfterTurns
  <2> HIDE DEF row
  <2>2. Len(rows) = n
    OBVIOUS
  <2>3. Append(rows, row(n + 1)) = [i \in 1 .. n + 1 |-> row(i)]
    BY <2>2
  <2> QED BY <1>2, <2>1, <2>3 DEF row
<1>5. Holds(next.cards, new, now)
  BY <1>1, <1>2, <1>3 DEF Holds, WithCard
<1>6. next.candidates = n + 1
  BY <1>2 DEF AfterTurns
<1>7. next.cardsNew = Cardinality(new \ DOMAIN cards)
  <2>1. IsFiniteSet(old \ DOMAIN cards)
    BY FirstWordsFinite, FS_Difference
  <2>2. Cardinality(old \ DOMAIN cards) \in Nat /\ done.cardsNew = Cardinality(old \ DOMAIN cards)
    BY <2>1, FS_CardinalityType DEF AfterTurns
  <2>3. CASE w \in DOMAIN cards \cup old
    <3>1. new \ DOMAIN cards = old \ DOMAIN cards
      BY <1>1, <2>3
    <3>2. Inserted(done.cards, w) = 0
      BY <1>3, <2>3 DEF Holds, Inserted
    <3>3. Cardinality(new \ DOMAIN cards) = Cardinality(old \ DOMAIN cards)
      BY <3>1
    <3> QED BY <1>2, <2>2, <3>2, <3>3
  <2>4. CASE w \notin DOMAIN cards \cup old
    <3>1. new \ DOMAIN cards = (old \ DOMAIN cards) \cup {w} /\ w \notin old \ DOMAIN cards
      BY <1>1, <2>4
    <3>2. Inserted(done.cards, w) = 1
      BY <1>3, <2>4 DEF Holds, Inserted
    <3>3. Cardinality(new \ DOMAIN cards) = Cardinality(old \ DOMAIN cards) + 1
      BY <2>1, <3>1, FS_AddElement
    <3> QED BY <1>2, <2>2, <3>2, <3>3
  <2> QED BY <2>3, <2>4
<1> QED BY <1>4, <1>5, <1>6, <1>7 DEF AfterTurns

\* The loop as a function of the turn, started by Cleared.
Turns(s, now, n, f) ==
  f = [i \in 0 .. n |-> IF i = 0 THEN Cleared(s)
                        ELSE AddCandidate(f[i - 1], Candidates(s)[i], now)]

LEMMA TurnsExist ==
  ASSUME NEW s, NEW now, NEW n \in Nat
  PROVE  \E f : Turns(s, now, n, f)
<1> DEFINE Has(m) == \E f : Turns(s, now, m, f)
           Bad == {m \in Nat : ~Has(m)}
           turn(i, before) == AddCandidate(before, Candidates(s)[i], now)
<1>1. Has(0)
  <2> DEFINE f == [i \in 0 .. 0 |-> Cleared(s)]
  <2>1. Turns(s, now, 0, f)
    BY DEF Turns
  <2> QED BY <2>1
<1>2. ASSUME NEW m \in Nat, Has(m) PROVE Has(m + 1)
  <2>1. PICK f : Turns(s, now, m, f)
    BY <1>2
  <2>2. f = [i \in 0 .. m |-> IF i = 0 THEN Cleared(s) ELSE turn(i, f[i - 1])]
    BY <2>1 DEF Turns
  <2> HIDE DEF turn
  <2> DEFINE g == [i \in 0 .. m + 1 |-> IF i = m + 1 THEN turn(i, f[i - 1]) ELSE f[i]]
  <2>3. ASSUME NEW i \in 0 .. m + 1
        PROVE  g[i] = IF i = 0 THEN Cleared(s) ELSE turn(i, g[i - 1])
    <3>1. CASE i = 0
      BY <3>1, <2>2
    <3>2. CASE i # 0
      <4>1. i - 1 \in 0 .. m + 1 /\ i - 1 # m + 1
        BY <3>2
      <4>2. g[i - 1] = f[i - 1]
        BY <4>1
      <4>3. i # m + 1 => i \in 0 .. m
        OBVIOUS
      <4>4. g[i] = turn(i, f[i - 1])
        BY <2>2, <3>2, <4>3
      <4> QED BY <3>2, <4>2, <4>4
    <3> QED BY <3>1, <3>2
  <2>4. g = [i \in 0 .. m + 1 |-> IF i = 0 THEN Cleared(s) ELSE turn(i, g[i - 1])]
    BY <2>3
  <2> HIDE DEF g
  <2>5. Turns(s, now, m + 1, g)
    BY <2>4 DEF Turns, turn
  <2> QED BY <2>5
<1> HIDE DEF Has
<1>3. Bad = {}
  <2> SUFFICES ASSUME Bad # {} PROVE FALSE
    OBVIOUS
  <2>0. Bad \in SUBSET Nat
    OBVIOUS
  <2>1. PICK m \in Bad : \A k \in Bad : m <= k
    BY <2>0, LeastOf
  <2>2. m \in Nat /\ m # 0
    BY <1>1
  <2>3. m - 1 \in Nat /\ m - 1 \notin Bad
    BY <2>1, <2>2
  <2>4. Has(m - 1 + 1)
    BY <2>3, <1>2
  <2> QED BY <2>4, <2>2
<1> QED BY <1>3 DEF Has

\* What the loop comes to, whatever the candidates and however they repeat.
LEMMA PersistedIs ==
  ASSUME NEW s \in Sentences, NEW now
  PROVE  AfterTurns(s, now, Len(Candidates(s)), Persisted(s, now))
<1> DEFINE n == Len(Candidates(s))
           h == CHOOSE f : Turns(s, now, n, f)
<1>1. n \in Nat
  BY CandidatesType
<1>2. Turns(s, now, n, h)
  BY <1>1, TurnsExist
<1>3. Persisted(s, now) = h[n]
  BY DEF Persisted, Turns
<1> HIDE DEF n, h
<1> DEFINE Bad == {i \in 0 .. n : ~AfterTurns(s, now, i, h[i])}
<1>4. Bad = {}
  <2> SUFFICES ASSUME Bad # {} PROVE FALSE
    OBVIOUS
  <2>0. Bad \in SUBSET Nat
    BY <1>1
  <2>1. PICK i \in Bad : \A k \in Bad : i <= k
    BY <2>0, LeastOf
  <2>2. i \in 0 .. n /\ i # 0
    <3>1. h[0] = Cleared(s)
      BY <1>1, <1>2 DEF Turns
    <3> QED BY <3>1, BeforeTheLoop
  <2>3. i - 1 \in 0 .. n /\ i - 1 \notin Bad /\ i - 1 \in Nat
    BY <1>1, <2>1, <2>2
  <2>4. AfterTurns(s, now, i - 1, h[i - 1])
    BY <2>3
  <2>5. h[i] = AddCandidate(h[i - 1], Candidates(s)[i], now)
    BY <1>1, <1>2, <2>2 DEF Turns
  <2>6. AfterTurns(s, now, i - 1 + 1, AddCandidate(h[i - 1], Candidates(s)[i - 1 + 1], now))
    BY <2>3, <2>4, OneTurn
  <2>7. i - 1 + 1 = i
    BY <2>2, <1>1
  <2>8. AfterTurns(s, now, i, h[i])
    BY <2>5, <2>6, <2>7
  <2> QED BY <2>8
<1>5. n \in 0 .. n
  BY <1>1
<1> QED BY <1>3, <1>4, <1>5 DEF n

\* The rows, cards and counters a transaction ends with.
LEMMA PersistedEnds ==
  ASSUME NEW s \in Sentences, NEW now
  PROVE  /\ Persisted(s, now).rows = Replaced(s, now)
         /\ Holds(Persisted(s, now).cards, Wanted(s), now)
         /\ Persisted(s, now).candidates = Len(Candidates(s))
         /\ Persisted(s, now).cardsNew = Cardinality(Wanted(s) \ DOMAIN cards)
         /\ Persisted(s, now).cardsNew \in Nat
<1>1. AfterTurns(s, now, Len(Candidates(s)), Persisted(s, now))
  BY PersistedIs
<1>2. DOMAIN Candidates(s) = 1 .. Len(Candidates(s)) /\ IsFiniteSet(Wanted(s))
  BY CandidatesType
<1>3. FirstWords(s, Len(Candidates(s))) = Wanted(s)
  BY <1>2 DEF FirstWords, Wanted
<1>4. Persisted(s, now).rows = Replaced(s, now)
  BY <1>1, <1>2 DEF AfterTurns, Replaced
<1>5. Cardinality(Wanted(s) \ DOMAIN cards) \in Nat
  BY <1>2, FS_Difference, FS_CardinalityType
<1> QED BY <1>1, <1>3, <1>4, <1>5 DEF AfterTurns

\* extracted_at once set is kept, and set afterwards.
LEMMA StampType ==
  ASSUME TypeOK, NEW s \in Sentences, NEW now \in Nat
  PROVE  /\ Stamp(s, now) \in Nat /\ Stamp(s, now) # Never
         /\ IsExtracted(s) => Stamp(s, now) = extracted[s]
BY ExtractAssumption DEF TypeOK, Stamp, IsExtracted

\* What the transaction does, said of the whole state.
LEMMA PersistEffect ==
  ASSUME IInv, NEW t \in Tabs, Persist(t)
  PROVE  LET s == Sentence(t)
             res == Counted(t, Persisted(s, req[t].now))
         IN
         /\ req[t] \in Working /\ s \in Sentences /\ req[t].now \in Nat
         /\ stored' = stored /\ clock' = clock
         /\ InLibrary(s)
         /\ extracted' = [extracted EXCEPT ![s] = Stamp(s, req[t].now)]
         /\ occ' = [occ EXCEPT ![s] = Replaced(s, req[t].now)]
         /\ Holds(cards', Wanted(s), req[t].now)
         /\ Added' = Added \cup {s} /\ Filed' = Filed
         /\ res \in Results /\ Done(t, res)
         /\ res.candidates = Len(Candidates(s))
         /\ res.cardsNew = Cardinality(Wanted(s) \ DOMAIN cards)
<1> DEFINE s == Sentence(t)
           now == req[t].now
           done == Persisted(s, now)
           res == Counted(t, done)
<1>1. req[t] \in Working
  BY RequestKinds DEF Persist, At, IInv, ExtractInv, TypeOK
<1>2. s \in Sentences /\ now \in Nat /\ req[t].result \in Results
  BY <1>1, TodoType, RequestKinds DEF IInv, ExtractInv
<1>3. InLibrary(s)
  BY DEF IInv, RequestsReady, Ready, Persist, At, Filed, Sentence
<1>4. /\ extracted' = [extracted EXCEPT ![s] = Stamp(s, now)]
      /\ occ' = [occ EXCEPT ![s] = done.rows]
      /\ cards' = done.cards
      /\ stored' = stored /\ clock' = clock
      /\ Done(t, res)
  BY DEF Persist
<1> HIDE DEF s, now
<1>5. /\ done.rows = Replaced(s, now)
      /\ Holds(done.cards, Wanted(s), now)
      /\ done.candidates = Len(Candidates(s))
      /\ done.cardsNew = Cardinality(Wanted(s) \ DOMAIN cards)
      /\ done.candidates \in Nat /\ done.cardsNew \in Nat
  BY <1>2, PersistedEnds, CandidatesType
<1> HIDE DEF done
<1>6. Added' = Added \cup {s}
  <2>1. extracted \in [Sentences -> Nat \cup {Never}]
    BY DEF IInv, ExtractInv, TypeOK
  <2>2. Stamp(s, now) # Never
    BY <1>2, StampType DEF IInv, ExtractInv
  <2>3. \A x \in Sentences : extracted'[x] # Never <=> extracted[x] # Never \/ x = s
    BY <2>1, <2>2, <1>2, <1>4
  <2> QED BY <2>3, <1>2 DEF Added, IsExtracted
<1>7. Filed' = Filed
  BY <1>4 DEF Filed, InLibrary
<1>8. /\ res \in Results
      /\ res.candidates = done.candidates /\ res.cardsNew = done.cardsNew
  BY <1>2, <1>5 DEF Results, Counted
<1> QED BY <1>1, <1>2, <1>3, <1>4, <1>5, <1>6, <1>7, <1>8 DEF s, now, done

-----------------------------------------------------------------------------
(* Every step keeps the invariant. *)

LEMMA InitIInv == Init => IInv
<1> SUFFICES ASSUME Init PROVE IInv
  OBVIOUS
<1> USE DEF Init
<1>1. TypeOK
  BY DEF TypeOK
<1>2. AllOrNothing
  BY DEF AllOrNothing, IsExtracted
<1>3. RequestsReady
  BY DEF RequestsReady, Ready, Idle
<1> QED BY <1>1, <1>2, <1>3 DEF IInv, ExtractInv

LEMMA NewRequest ==
  ASSUME NEW a \in Articles \cup {"any"}, NEW todo \in Seq(Sentences), clock \in Nat
  PROVE  LET r == [pc |-> "load", now |-> clock, article |-> a, todo |-> todo, result |-> NoResult]
         IN r \in Working /\ r.todo = todo /\ r.pc = "load"
BY DEF Working, NoResult, Results

LEMMA TapKeeps ==
  ASSUME IInv, NEW t \in Tabs, NEW a \in Articles, NEW s \in Sentences, Tap(t, a, s)
  PROVE  IInv'
<1> DEFINE r == [pc |-> "load", now |-> clock, article |-> a, todo |-> <<s>>, result |-> NoResult]
<1>1. clock \in Nat /\ <<s>> \in Seq(Sentences) /\ <<s>> # <<>>
  BY DEF IInv, ExtractInv, TypeOK
<1>2. r \in Working /\ r.todo = <<s>> /\ r.pc = "load"
  BY <1>1, NewRequest
<1>3. req' = [req EXCEPT ![t] = r] /\ UNCHANGED <<clock, db>>
  BY DEF Tap, Begin
<1> HIDE DEF r
<1>4. Ready(r, Added, Filed)
  BY <1>2, LoadReady
<1> QED BY <1>1, <1>2, <1>3, <1>4, RequestStep

LEMMA LoadKeeps ==
  ASSUME IInv, NEW t \in Tabs, Load(t)
  PROVE  IInv'
<1> DEFINE s == Sentence(t)
<1>1. req[t] \in Working
  BY RequestKinds DEF Load, At, IInv, ExtractInv, TypeOK
<1>2. s \in Sentences /\ req[t].todo # <<>> /\ req[t].result \in Results
  BY <1>1, TodoType, RequestKinds DEF IInv, ExtractInv
<1>3. UNCHANGED <<clock, db>>
  BY DEF Load
<1>4. CASE req' = [req EXCEPT ![t] = Idle]
  BY <1>3, <1>4, IdleReady, RequestStep
<1>5. CASE /\ InLibrary(s)
           /\ req' = [req EXCEPT ![t].pc = IF IsExtracted(s) THEN "count" ELSE "persist",
                                ![t].result.already = IsExtracted(s)]
  <2> DEFINE res == [req[t].result EXCEPT !.already = IsExtracted(s)]
             pc == IF IsExtracted(s) THEN "count" ELSE "persist"
             r == [req[t] EXCEPT !.pc = pc, !.result = res]
  <2>1. res \in Results
    BY <1>2 DEF Results, IsExtracted
  <2>2. req' = [req EXCEPT ![t] = r]
    BY <1>5
  <2>3. pc \in {"count", "persist"}
    OBVIOUS
  <2>4. pc = "count" => s \in Added
    BY <1>2 DEF Added
  <2>5. pc = "persist" => s \in Filed
    BY <1>2, <1>5 DEF Filed
  <2> HIDE DEF res, pc
  <2>6. r \in Working /\ r.pc = pc /\ r.todo = req[t].todo
    BY <1>1, <2>1, <2>3 DEF Working
  <2> HIDE DEF r
  <2>7. Ready(r, Added, Filed)
    BY <2>3, <2>4, <2>5, <2>6 DEF Ready, Sentence
  <2> QED BY <2>2, <2>6, <2>7, <1>2, <1>3, RequestStep
<1> QED BY <1>4, <1>5 DEF Load

LEMMA CountKeeps ==
  ASSUME IInv, NEW t \in Tabs, Count(t)
  PROVE  IInv'
<1> DEFINE s == Sentence(t)
           res == [req[t].result EXCEPT !.candidates = Len(occ[s])]
<1>1. req[t] \in Working
  BY RequestKinds DEF Count, At, IInv, ExtractInv, TypeOK
<1>2. s \in Sentences /\ req[t].result \in Results
  BY <1>1, TodoType, RequestKinds DEF IInv, ExtractInv
<1>3. s \in Added
  BY DEF IInv, RequestsReady, Ready, Count, At, Sentence
<1>4. occ[s] \in Seq(OccRows) /\ LinkedWords(s) = Candidates(s)
  BY <1>2, <1>3 DEF IInv, ExtractInv, TypeOK, AllOrNothing, Added
<1>5. Len(occ[s]) \in Nat /\ Len(occ[s]) = Len(Candidates(s))
  <2>1. DOMAIN LinkedWords(s) = 1 .. Len(occ[s])
    BY <1>4 DEF LinkedWords
  <2>2. DOMAIN Candidates(s) = 1 .. Len(Candidates(s)) /\ Len(Candidates(s)) \in Nat
    BY <1>2, CandidatesType
  <2>3. Len(occ[s]) \in Nat
    BY <1>4
  <2>4. 1 .. Len(occ[s]) = 1 .. Len(Candidates(s))
    BY <2>1, <2>2, <1>4
  <2> QED BY <2>2, <2>3, <2>4
<1>6. res \in Results /\ res.candidates = Len(Candidates(s))
  BY <1>2, <1>5 DEF Results
<1>7. Done(t, res) /\ UNCHANGED <<clock, db>>
  BY DEF Count
<1> HIDE DEF res
<1>8. PICK r \in {Idle} \cup Working :
        /\ r # Idle => r.todo # <<>>
        /\ req' = [req EXCEPT ![t] = r]
        /\ \A E, F : s \in E => Ready(r, E, F)
  BY <1>1, <1>6, <1>7, DoneMoves DEF IInv, ExtractInv
<1>9. Ready(r, Added, Filed)
  BY <1>8, <1>3
<1> QED BY <1>7, <1>8, <1>9, RequestStep

LEMMA PersistKeeps ==
  ASSUME IInv, NEW t \in Tabs, Persist(t)
  PROVE  IInv'
<1> DEFINE s == Sentence(t)
           now == req[t].now
           res == Counted(t, Persisted(s, now))
<1>1. /\ req[t] \in Working /\ s \in Sentences /\ now \in Nat
      /\ stored' = stored /\ clock' = clock
      /\ InLibrary(s)
      /\ extracted' = [extracted EXCEPT ![s] = Stamp(s, now)]
      /\ occ' = [occ EXCEPT ![s] = Replaced(s, now)]
      /\ Holds(cards', Wanted(s), now)
      /\ Added' = Added \cup {s} /\ Filed' = Filed
      /\ res \in Results /\ Done(t, res)
      /\ res.candidates = Len(Candidates(s))
  BY PersistEffect
<1> HIDE DEF s, now, res
<1>3. TypeOK
  BY DEF IInv, ExtractInv
<1>4. PICK r \in {Idle} \cup Working :
        /\ r # Idle => r.todo # <<>>
        /\ req' = [req EXCEPT ![t] = r]
        /\ \A E, F : s \in E => Ready(r, E, F)
  BY <1>1, <1>3, DoneMoves DEF s
<1>5. Ready(r, Added', Filed')
  BY <1>1, <1>4
<1>6. /\ req' \in [Tabs -> {Idle} \cup Working]
      /\ \A u \in Tabs : req'[u] # Idle => req'[u].todo # <<>>
      /\ RequestsReady'
  BY <1>1, <1>4, <1>5, RequestMoves
<1>7. TypeOK'
  <2>1. extracted' \in [Sentences -> Nat \cup {Never}]
    BY <1>1, <1>3, StampType DEF TypeOK
  <2>2. occ' \in [Sentences -> Seq(OccRows)]
    BY <1>1, <1>3, ReplacedType DEF TypeOK
  <2>3. DOMAIN cards' \subseteq AllWords /\ \A w \in DOMAIN cards' : cards'[w] \in CardRows
    BY <1>1, <1>3, HoldsType
  <2> QED BY <2>1, <2>2, <2>3, <1>1, <1>3, <1>6 DEF TypeOK
<1>8. AllOrNothing'
  <2> SUFFICES ASSUME NEW x \in Sentences
               PROVE  IF IsExtracted(x)'
                      THEN /\ LinkedWords(x)' = Candidates(x)
                           /\ Wanted(x) \subseteq DOMAIN cards'
                           /\ \E a \in stored' : Belongs(x, a)
                      ELSE occ'[x] = <<>>
    BY DEF AllOrNothing
  <2>0. extracted \in [Sentences -> Nat \cup {Never}] /\ occ \in [Sentences -> Seq(OccRows)]
    BY <1>3 DEF TypeOK
  <2>1. CASE x = s
    <3>1. occ'[x] = Replaced(s, now)
      BY <1>1, <2>0, <2>1
    <3>2. LinkedWords(x)' = Candidates(x)
      BY <3>1, <2>1, <1>1, ReplacedType DEF LinkedWords
    <3>3. Wanted(x) \subseteq DOMAIN cards'
      BY <2>1, <1>1 DEF Holds
    <3>4. \E a \in stored' : Belongs(x, a)
      BY <2>1, <1>1 DEF InLibrary, Belongs
    <3>5. IsExtracted(x)'
      BY <2>1, <2>0, <1>1, <1>3, StampType DEF IsExtracted
    <3> QED BY <3>2, <3>3, <3>4, <3>5
  <2>2. CASE x # s
    <3>1. extracted'[x] = extracted[x] /\ occ'[x] = occ[x]
      BY <2>0, <2>2, <1>1
    <3>2. DOMAIN cards \subseteq DOMAIN cards'
      BY <1>1 DEF Holds
    <3>3. CASE IsExtracted(x)
      <4>1. /\ LinkedWords(x) = Candidates(x) /\ Wanted(x) \subseteq DOMAIN cards
            /\ \E a \in stored : Belongs(x, a)
        BY <3>3 DEF IInv, ExtractInv, AllOrNothing
      <4>2. LinkedWords(x)' = LinkedWords(x) /\ IsExtracted(x)'
        BY <3>1, <3>3 DEF LinkedWords, IsExtracted
      <4> QED BY <4>1, <4>2, <3>2, <1>1
    <3>4. CASE ~IsExtracted(x)
      <4>1. occ[x] = <<>>
        BY <3>4 DEF IInv, ExtractInv, AllOrNothing
      <4> QED BY <4>1, <3>1, <3>4 DEF IsExtracted
    <3> QED BY <3>3, <3>4
  <2> QED BY <2>1, <2>2
<1> QED BY <1>6, <1>7, <1>8 DEF IInv, ExtractInv

\* The library grows, and the parts about requests are known to hold.
LEMMA LibraryGrows ==
  ASSUME IInv, stored \subseteq stored', stored' \subseteq Articles,
         UNCHANGED <<clock, extracted, occ, cards>>,
         req' \in [Tabs -> {Idle} \cup Working],
         \A u \in Tabs : req'[u] # Idle => req'[u].todo # <<>>,
         RequestsReady'
  PROVE  IInv'
<1>1. TypeOK'
  BY DEF IInv, ExtractInv, TypeOK
<1>2. AllOrNothing'
  <2>1. \A s \in Sentences : (\E a \in stored : Belongs(s, a)) => \E a \in stored' : Belongs(s, a)
    OBVIOUS
  <2> QED BY <2>1 DEF IInv, ExtractInv, AllOrNothing, IsExtracted, LinkedWords
<1> QED BY <1>1, <1>2 DEF IInv, ExtractInv

LEMMA FiledGrows ==
  ASSUME stored \subseteq stored', UNCHANGED extracted
  PROVE  Added' = Added /\ Filed \subseteq Filed'
BY DEF Added, Filed, IsExtracted, InLibrary

LEMMA StoreArticleKeeps ==
  ASSUME IInv, NEW a \in Articles, StoreArticle(a)
  PROVE  IInv'
<1>1. /\ stored' = stored \cup {a} /\ stored' \subseteq Articles
      /\ UNCHANGED <<clock, extracted, occ, cards, req>>
  BY DEF StoreArticle, IInv, ExtractInv, TypeOK
<1>2. Added' = Added /\ Filed \subseteq Filed'
  BY <1>1, FiledGrows
<1>3. RequestsReady'
  <2>1. ASSUME NEW t \in Tabs PROVE Ready(req'[t], Added', Filed')
    <3>1. Ready(req[t], Added, Filed)
      BY DEF IInv, RequestsReady
    <3>2. Ready(req[t], Added', Filed')
      BY <3>1, <1>2, ReadyStays
    <3> QED BY <3>2, <1>1
  <2> QED BY <2>1 DEF RequestsReady
<1> QED BY <1>1, <1>3, LibraryGrows DEF IInv, ExtractInv, TypeOK

LEMMA IngestTextKeeps ==
  ASSUME IInv, NEW t \in Tabs, NEW a \in Articles, IngestText(t, a)
  PROVE  IInv'
<1>1. /\ stored' = stored \cup {a} /\ stored' \subseteq Articles
      /\ UNCHANGED <<clock, extracted, occ, cards>>
  BY DEF IngestText, IInv, ExtractInv, TypeOK
<1>2. Added' = Added /\ Filed \subseteq Filed'
  BY <1>1, FiledGrows
<1>3. \E r \in {Idle} \cup Working : /\ r # Idle => r.todo # <<>>
                                     /\ req' = [req EXCEPT ![t] = r]
                                     /\ Ready(r, Added', Filed')
  <2>1. CASE SentencesOf[a] = <<>>
    <3>1. req' = req /\ req[t] = Idle
      BY <2>1, RequestKinds DEF IngestText, At, IInv, ExtractInv, TypeOK
    <3>2. req' = [req EXCEPT ![t] = Idle]
      BY <3>1 DEF IInv, ExtractInv, TypeOK
    <3> QED BY <3>2, IdleReady
  <2>2. CASE SentencesOf[a] # <<>>
    <3> DEFINE r == [pc |-> "load", now |-> clock, article |-> "any", todo |-> SentencesOf[a],
                     result |-> NoResult]
    <3>1. SentencesOf[a] \in Seq(Sentences) /\ clock \in Nat
      BY ExtractAssumption DEF IInv, ExtractInv, TypeOK
    <3>2. r \in Working /\ r.todo = SentencesOf[a] /\ r.pc = "load"
      BY <3>1, NewRequest
    <3>3. req' = [req EXCEPT ![t] = r]
      BY <2>2 DEF IngestText, Begin
    <3> HIDE DEF r
    <3> QED BY <2>2, <3>2, <3>3, LoadReady
  <2> QED BY <2>1, <2>2
<1>4. PICK r \in {Idle} \cup Working : /\ r # Idle => r.todo # <<>>
                                      /\ req' = [req EXCEPT ![t] = r]
                                      /\ Ready(r, Added', Filed')
  BY <1>3
<1>5. /\ req' \in [Tabs -> {Idle} \cup Working]
      /\ \A u \in Tabs : req'[u] # Idle => req'[u].todo # <<>>
      /\ RequestsReady'
  BY <1>2, <1>4, RequestMoves
<1> QED BY <1>1, <1>5, LibraryGrows

LEMMA GradeKeeps ==
  ASSUME IInv, NEW w \in AllWords, Grade(w)
  PROVE  IInv'
<1>1. /\ w \in DOMAIN cards /\ cards' = [cards EXCEPT ![w].graded = TRUE]
      /\ UNCHANGED <<clock, stored, extracted, occ, req>>
  BY DEF Grade
<1>2. DOMAIN cards' = DOMAIN cards
  BY <1>1
<1>3. \A v \in DOMAIN cards' : cards'[v] \in CardRows
  <2>1. \A v \in DOMAIN cards : cards[v] \in CardRows
    BY DEF IInv, ExtractInv, TypeOK
  <2>2. [cards[w] EXCEPT !.graded = TRUE] \in CardRows
    BY <2>1, <1>1 DEF CardRows
  <2> QED BY <2>1, <2>2, <1>1
<1>4. TypeOK'
  BY <1>1, <1>2, <1>3 DEF IInv, ExtractInv, TypeOK
<1>5. AllOrNothing'
  BY <1>1, <1>2 DEF IInv, ExtractInv, AllOrNothing, IsExtracted, LinkedWords
<1>6. RequestsReady'
  BY <1>1 DEF IInv, RequestsReady, Ready, Added, Filed, IsExtracted, InLibrary
<1> QED BY <1>4, <1>5, <1>6 DEF IInv, ExtractInv

\* A step that leaves all but the clock alone, or nothing at all.
LEMMA TickKeeps ==
  ASSUME IInv, clock' \in Nat, UNCHANGED <<db, req>>
  PROVE  IInv'
<1>1. TypeOK'
  BY DEF IInv, ExtractInv, TypeOK, db
<1>2. AllOrNothing'
  BY DEF IInv, ExtractInv, AllOrNothing, IsExtracted, LinkedWords, db
<1>3. RequestsReady'
  BY DEF IInv, RequestsReady, Ready, Added, Filed, IsExtracted, InLibrary, db
<1> QED BY <1>1, <1>2, <1>3 DEF IInv, ExtractInv

LEMMA EndKeeps ==
  ASSUME IInv, NEW t \in Tabs, Show(t) \/ Fail(t)
  PROVE  IInv'
<1>1. req' = [req EXCEPT ![t] = Idle] /\ UNCHANGED <<clock, db>>
  BY DEF Show, Fail
<1> QED BY <1>1, IdleReady, RequestStep

LEMMA NextIInv == IInv /\ [Next]_vars => IInv'
<1> SUFFICES ASSUME IInv, [Next]_vars PROVE IInv'
  OBVIOUS
<1>0. clock \in Nat
  BY DEF IInv, ExtractInv, TypeOK
<1>1. CASE Tick
  BY <1>0, <1>1, TickKeeps DEF Tick
<1>2. ASSUME NEW a \in Articles, StoreArticle(a) PROVE IInv'
  BY <1>2, StoreArticleKeeps
<1>3. ASSUME NEW w \in AllWords, Grade(w) PROVE IInv'
  BY <1>3, GradeKeeps
<1>4. ASSUME NEW t \in Tabs, Request(t) PROVE IInv'
  BY <1>4, TapKeeps, IngestTextKeeps DEF Request
<1>5. ASSUME NEW t \in Tabs, Handler(t) PROVE IInv'
  BY <1>5, LoadKeeps, CountKeeps, PersistKeeps, EndKeeps DEF Handler
<1>6. ASSUME NEW t \in Tabs, Fail(t) PROVE IInv'
  BY <1>6, EndKeeps
<1>7. CASE UNCHANGED vars
  BY <1>0, <1>7, TickKeeps DEF vars, db
<1> QED BY <1>1, <1>2, <1>3, <1>4, <1>5, <1>6, <1>7 DEF Next

LEMMA AlwaysIInv == Spec => []IInv
BY InitIInv, NextIInv, PTL DEF Spec

\* A sentence is extracted whole or not at all, however taps race, fail and die.
THEOREM WholeOrNotAtAll == Spec => []ExtractInv
<1>1. IInv => ExtractInv
  BY DEF IInv
<1> QED BY <1>1, AlwaysIInv, PTL

\* The row a tap is answered with tells the truth.
THEOREM AnswersTrue == Spec => []RowTruthful
<1>1. IInv => RowTruthful
  <2> SUFFICES ASSUME IInv, NEW t \in Tabs, At(t, "show")
               PROVE  LET none == Candidates(Sentence(t)) = <<>> IN
                        /\ Badge(Row(t)) = IF none THEN "No study words" ELSE "In queue"
                        /\ Notice(Row(t)) = "No kanji words" <=> none
    BY DEF RowTruthful
  <2> DEFINE s == Sentence(t)
             n == Len(Candidates(s))
  <2>1. s \in Sentences /\ s \in Added /\ req[t].result.candidates = n
    BY DEF IInv, RequestsReady, Ready, At, Sentence, Added
  <2>2. n \in Nat /\ Candidates(s) \in Seq(AllWords) /\ DOMAIN Candidates(s) = 1 .. n
    BY <2>1, CandidatesType
  <2>3. LinkedWords(s) = Candidates(s) /\ occ[s] \in Seq(OccRows)
    BY <2>1 DEF IInv, ExtractInv, TypeOK, AllOrNothing, Added
  <2>4. Len(occ[s]) = n
    <3>1. DOMAIN LinkedWords(s) = 1 .. Len(occ[s]) /\ Len(occ[s]) \in Nat
      BY <2>3 DEF LinkedWords
    <3>2. 1 .. Len(occ[s]) = 1 .. n
      BY <3>1, <2>2, <2>3
    <3> QED BY <3>1, <3>2, <2>2
  <2>5. n = 0 <=> Candidates(s) = <<>>
    BY <2>2
  <2>6. /\ Row(t).extracted = TRUE /\ Row(t).words = n
        /\ Row(t).result = req[t].result /\ Row(t).result.candidates = n
    BY <2>1, <2>4 DEF Row, Added
  <2> HIDE DEF n, s
  <2>7. Badge(Row(t)) = IF n = 0 THEN "No study words" ELSE "In queue"
    <3> DEFINE row == Row(t)
    <3>1. row.extracted = TRUE /\ row.words = n /\ row.result.candidates = n
      BY <2>6
    <3> HIDE DEF row
    <3>2. row.words > 0 \/ row.result.candidates > 0 <=> n # 0
      BY <3>1, <2>2
    <3>3. Badge(row) = IF n = 0 THEN "No study words" ELSE "In queue"
      BY <3>1, <3>2, Zenon DEF Badge
    <3> QED BY <3>3 DEF row
  <2>8. Notice(Row(t)) = "No kanji words" <=> n = 0
    BY <2>2, <2>6 DEF Notice
  <2> QED BY <2>5, <2>7, <2>8 DEF s
<1> QED BY <1>1, AlwaysIInv, PTL

-----------------------------------------------------------------------------
(* What no step does. *)

\* A tap never touches a card there is: "Existing Card SM-2 state is never
\* reset" (docs/adr/0006).
THEOREM CardsKeepTheirSchedule == Spec => ScheduleKept
<1> DEFINE Kept == \A w \in DOMAIN cards :
                     cards'[w] = cards[w] \/ cards' = [cards EXCEPT ![w].graded = TRUE]
<1>1. IInv /\ [Next]_vars => [Kept]_vars
  <2> SUFFICES ASSUME IInv, Next PROVE Kept
    OBVIOUS
  <2>1. CASE UNCHANGED cards
    BY <2>1
  <2>2. ASSUME NEW v \in AllWords, Grade(v) PROVE Kept
    BY <2>2 DEF Grade
  <2>3. ASSUME NEW t \in Tabs, Persist(t) PROVE Kept
    <3>1. Holds(cards', Wanted(Sentence(t)), req[t].now)
      BY <2>3, PersistEffect
    <3> QED BY <3>1 DEF Holds
  <2>4. \/ UNCHANGED cards
        \/ \E v \in AllWords : Grade(v)
        \/ \E t \in Tabs : Persist(t)
    BY DEF Next, Tick, StoreArticle, Request, Tap, IngestText, Handler, Load, Count, Show, Fail, db
  <2> QED BY <2>1, <2>2, <2>3, <2>4
<1> QED BY <1>1, AlwaysIInv, PTL DEF Spec, ScheduleKept

\* extracted_at is set once, also by a tap that had read that there was none.
THEOREM ExtractedOnce == Spec => FirstExtractKept
<1> DEFINE Kept == \A s \in Sentences : IsExtracted(s) => extracted'[s] = extracted[s]
<1>1. IInv /\ [Next]_vars => [Kept]_vars
  <2> SUFFICES ASSUME IInv, Next PROVE Kept
    OBVIOUS
  <2>1. CASE UNCHANGED extracted
    BY <2>1
  <2>2. ASSUME NEW t \in Tabs, Persist(t) PROVE Kept
    <3>1. /\ Sentence(t) \in Sentences /\ req[t].now \in Nat
          /\ extracted' = [extracted EXCEPT ![Sentence(t)] = Stamp(Sentence(t), req[t].now)]
      BY <2>2, PersistEffect
    <3>2. TypeOK
      BY DEF IInv, ExtractInv
    <3>3. IsExtracted(Sentence(t)) => Stamp(Sentence(t), req[t].now) = extracted[Sentence(t)]
      BY <3>1, <3>2, StampType
    <3>4. extracted \in [Sentences -> Nat \cup {Never}]
      BY <3>2 DEF TypeOK
    <3> QED BY <3>1, <3>3, <3>4
  <2>3. UNCHANGED extracted \/ \E t \in Tabs : Persist(t)
    BY DEF Next, Tick, StoreArticle, Grade, Request, Tap, IngestText, Handler, Load, Count, Show, Fail, db
  <2> QED BY <2>1, <2>2, <2>3
<1> QED BY <1>1, AlwaysIInv, PTL DEF Spec, FirstExtractKept

\* The number of new cards a tap reports, counted turn by turn of its loop, is the
\* number its transaction made, however often words repeat in the sentence and
\* whatever other taps of the same words made while it was on its way.
THEOREM CountsWhatItMade == Spec => CardsNewExact
<1> DEFINE Exact == \A t \in Tabs : At(t, "persist") /\ At(t, "show")'
                      => req'[t].result.cardsNew = Cardinality(DOMAIN cards' \ DOMAIN cards)
<1>1. IInv /\ [Next]_vars => [Exact]_vars
  <2> SUFFICES ASSUME IInv, Next, NEW t \in Tabs, At(t, "persist"), At(t, "show")'
               PROVE  req'[t].result.cardsNew = Cardinality(DOMAIN cards' \ DOMAIN cards)
    OBVIOUS
  <2>0. req \in [Tabs -> {Idle} \cup Working] /\ req'[t] # req[t]
    BY DEF IInv, ExtractInv, TypeOK, At
  <2>1. CASE Persist(t)
    <3> DEFINE s == Sentence(t)
               res == Counted(t, Persisted(s, req[t].now))
    <3>1. /\ req[t] \in Working /\ s \in Sentences /\ req[t].now \in Nat
          /\ Holds(cards', Wanted(s), req[t].now) /\ res \in Results /\ Done(t, res)
          /\ res.cardsNew = Cardinality(Wanted(s) \ DOMAIN cards)
      BY <2>1, PersistEffect
    <3>2. DOMAIN cards' \ DOMAIN cards = Wanted(s) \ DOMAIN cards
      BY <3>1 DEF Holds
    <3> HIDE DEF s, res
    <3>5. req'[t].result = res
      <4>1. CASE req[t].article # "any"
        <5>1. req' = [req EXCEPT ![t] = [req[t] EXCEPT !.pc = "show", !.result = res]]
          BY <4>1, <3>1 DEF Done
        <5>2. [req[t] EXCEPT !.pc = "show", !.result = res].result = res
          BY <3>1, WorkingExcept
        <5> QED BY <5>1, <5>2, <2>0
      <4>2. CASE req[t].article = "any"
        <5>1. req'[t].pc \in {"idle", "load"}
          BY <4>2, <3>1, <2>0 DEF Done, Idle, Working
        <5> QED BY <5>1 DEF At
      <4> QED BY <4>1, <4>2
    <3> QED BY <3>1, <3>2, <3>5
  <2>2. CASE Fail(t)
    BY <2>0, <2>2 DEF Fail, At, Idle
  <2>3. ASSUME NEW u \in Tabs \ {t}, Request(u) \/ Handler(u) \/ Fail(u) PROVE FALSE
    <3>1. \E r : req' = [req EXCEPT ![u] = r] \/ req' = req
      BY <2>3 DEF Request, Tap, IngestText, Begin, Handler, Load, Count, Persist, Done, Show, Fail
    <3> QED BY <3>1, <2>0
  <2>4. Persist(t) \/ Fail(t) \/ \E u \in Tabs \ {t} : Request(u) \/ Handler(u) \/ Fail(u)
    BY <2>0 DEF Next, Tick, StoreArticle, Grade, Request, Tap, IngestText, Handler, Load, Count, Show, At
  <2> QED BY <2>1, <2>2, <2>3, <2>4
<1> QED BY <1>1, AlwaysIInv, PTL DEF Spec, CardsNewExact

-----------------------------------------------------------------------------
(* Extract-on-tap implements Deck. *)

Carried == [s \in Sentences |-> Wanted(s)]
Linked == UNION {{<<s, w>> : w \in Words(s)} : s \in Sentences}

LEMMA WordsOfExtracted ==
  ASSUME ExtractInv, NEW s \in Sentences
  PROVE  Words(s) = IF IsExtracted(s) THEN Wanted(s) ELSE {}
<1>1. CASE IsExtracted(s)
  BY <1>1 DEF ExtractInv, AllOrNothing, Words, ToSet, Wanted
<1>2. CASE ~IsExtracted(s)
  <2>1. occ[s] = <<>>
    BY <1>2 DEF ExtractInv, AllOrNothing
  <2>2. DOMAIN LinkedWords(s) = {}
    BY <2>1 DEF LinkedWords
  <2> QED BY <1>2, <2>2 DEF Words, ToSet
<1> QED BY <1>1, <1>2

\* Taps, races and crashes included, do to the deck what Deck says a tap does.
THEOREM TapsImplementDeck == Spec => ImplementsDeck
<1>1. Init => TheDeck!Init
  <2> SUFFICES ASSUME Init PROVE TheDeck!Init
    OBVIOUS
  <2>1. ExtractInv
    BY InitIInv DEF IInv
  <2>2. \A s \in Sentences : ~IsExtracted(s)
    BY DEF Init, IsExtracted
  <2>3. \A s \in Sentences : Words(s) = {}
    BY <2>1, <2>2, WordsOfExtracted
  <2>4. DOMAIN cards = {}
    BY DEF Init
  <2> QED BY <2>2, <2>3, <2>4 DEF TheDeck!Init
<1>2. IInv /\ IInv' /\ [Next]_vars => [TheDeck!Next]_(TheDeck!vars)
  <2> SUFFICES ASSUME IInv, IInv', [Next]_vars
               PROVE  TheDeck!Next \/ UNCHANGED TheDeck!vars
    OBVIOUS
  <2>0. ExtractInv /\ ExtractInv' /\ TypeOK
    BY DEF IInv, ExtractInv
  <2>1. CASE UNCHANGED <<extracted, occ>> /\ DOMAIN cards' = DOMAIN cards
    <3>1. Added' = Added
      BY <2>1 DEF Added, IsExtracted
    <3>2. \A s \in Sentences : Words(s)' = Words(s)
      BY <2>1 DEF Words, LinkedWords
    <3>3. Linked' = Linked
      BY <3>2 DEF Linked
    <3> QED BY <3>1, <3>3, <2>1 DEF TheDeck!vars, Added, Linked
  <2>2. ASSUME NEW t \in Tabs, Persist(t)
        PROVE  TheDeck!Next \/ UNCHANGED TheDeck!vars
    <3>0. /\ Sentence(t) \in Sentences /\ req[t].now \in Nat
          /\ Added' = Added \cup {Sentence(t)}
          /\ Holds(cards', Wanted(Sentence(t)), req[t].now)
      BY <2>2, PersistEffect
    <3>1. PICK s \in Sentences : /\ req[t].now \in Nat /\ Added' = Added \cup {s}
                                 /\ Holds(cards', Wanted(s), req[t].now)
      BY <3>0
    <3>2. DOMAIN cards' = DOMAIN cards \cup Wanted(s)
      BY <3>1 DEF Holds
    <3>3. \A x \in Sentences : Words(x)' = IF x = s THEN Wanted(x) ELSE Words(x)
      <4> SUFFICES ASSUME NEW x \in Sentences
                   PROVE  Words(x)' = IF x = s THEN Wanted(x) ELSE Words(x)
        OBVIOUS
      <4>1. Words(x) = IF x \in Added THEN Wanted(x) ELSE {}
        BY <2>0, WordsOfExtracted DEF Added
      <4>2. Words(x)' = IF x \in Added' THEN Wanted(x) ELSE {}
        <5>1. CASE x \in Added'
          <6>1. LinkedWords(x)' = Candidates(x)
            BY <5>1, <2>0 DEF Added, ExtractInv, AllOrNothing
          <6> QED BY <6>1, <5>1 DEF Words, ToSet, Wanted
        <5>2. CASE x \notin Added'
          <6>1. occ'[x] = <<>>
            BY <5>2, <2>0 DEF Added, ExtractInv, AllOrNothing
          <6>2. DOMAIN LinkedWords(x)' = {}
            BY <6>1 DEF LinkedWords
          <6> QED BY <6>2, <5>2 DEF Words, ToSet
        <5> QED BY <5>1, <5>2
      <4> QED BY <4>1, <4>2, <3>1
    <3>4. CASE s \in Added
      <4>1. Words(s) = Wanted(s) /\ Wanted(s) \subseteq DOMAIN cards
        BY <3>1, <3>4, <2>0, WordsOfExtracted DEF Added, ExtractInv, AllOrNothing
      <4>2. Linked' = Linked
        BY <3>3, <4>1 DEF Linked
      <4>3. Added' = Added /\ DOMAIN cards' = DOMAIN cards
        BY <3>1, <3>2, <3>4, <4>1
      <4> QED BY <4>2, <4>3 DEF TheDeck!vars, Added, Linked
    <3>5. CASE s \notin Added
      <4>1. Words(s) = {}
        BY <3>1, <3>5, <2>0, WordsOfExtracted DEF Added
      <4>2. Linked' = Linked \cup {<<s, w>> : w \in Wanted(s)}
        BY <3>1, <3>3, <4>1 DEF Linked
      <4>3. Carried[s] = Wanted(s)
        BY <3>1 DEF Carried
      <4>4. TheDeck!Add(s)
        BY <3>1, <3>2, <3>5, <4>2, <4>3 DEF TheDeck!Add, Added, Linked, Carried
      <4> QED BY <4>4 DEF TheDeck!Next
    <3> QED BY <3>4, <3>5
  <2>3. \/ UNCHANGED <<extracted, occ>> /\ DOMAIN cards' = DOMAIN cards
        \/ \E t \in Tabs : Persist(t)
    BY DEF Next, Tick, StoreArticle, Grade, Request, Tap, IngestText, Handler, Load, Count, Show, Fail, db, vars
  <2> QED BY <2>1, <2>2, <2>3
<1> QED BY <1>1, <1>2, AlwaysIInv, PTL DEF Spec, ImplementsDeck, TheDeck!Spec
=============================================================================
