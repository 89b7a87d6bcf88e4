---------------------------- MODULE ReadingProofs ----------------------------
(***************************************************************************)
(* The two loops between an article and the review page, for texts and     *)
(* rows of any length.                                                     *)
(*                                                                         *)
(* What is filed is stated of a sequence of segments up to a position, so  *)
(* that the inductive invariant can say it of the position the splitting   *)
(* loop has come to; it adds that no terminator stands between the start   *)
(* of the segment and the position.  For the spans it says what the spans  *)
(* so far show, up to the cursor.                                          *)
(***************************************************************************)
EXTENDS Reading, SequenceTheorems, WellFoundedInduction, TLAPS

\* The segments o hold the positions 1 .. b of t, and nothing else.
Filed(o, t, b) ==
  /\ o \in Seq(Segments)
  /\ \A p \in 1 .. b : t[p] # "space" => \E k \in DOMAIN o : p \in o[k].from .. o[k].to
  /\ \A k \in DOMAIN o :
       /\ o[k].from \in 1 .. b /\ o[k].to \in 1 .. b /\ o[k].from <= o[k].to
       /\ t[o[k].from] # "space" /\ t[o[k].to] # "space"
       /\ \A p \in o[k].from .. o[k].to : t[p] = "terminator" => p = o[k].to
       /\ k + 1 \in DOMAIN o => o[k].to < o[k + 1].from
       /\ k < Len(o) => t[o[k].to] = "terminator"

SplitSound ==
  /\ text \in Texts
  /\ splitPc = "trim" => out = <<>>
  /\ splitPc = "scan" =>
       /\ last \in DOMAIN text /\ start <= i /\ i <= last + 1
       /\ \A p \in DOMAIN text : p > last => text[p] = "space"
       /\ \A p \in start .. i - 1 : text[p] # "terminator"
       /\ Filed(out, text, start - 1)
       /\ \A k \in DOMAIN out : text[out[k].to] = "terminator"
  /\ splitPc = "done" => Filed(out, text, Len(text))

SplitInv == SplitTypeOK /\ SplitSound

RowRecords == [start : Int, end : Nat]
SpanRecords == [from : Nat, to : Nat, row : Nat, surface : Seq(Int)]

\* The spans s lie end to end up to c, for rows of a sentence that has m.
Tiles(s, c, m) ==
  /\ s \in Seq(SpanRecords)
  /\ \A k \in DOMAIN s :
       /\ s[k].from <= s[k].to /\ s[k].to <= c /\ s[k].row <= m
       /\ s[k].from = IF k = 1 THEN 0 ELSE s[k - 1].to
  /\ c = IF s = <<>> THEN 0 ELSE s[Len(s)].to

Shows(s, row, o) ==
  \E k \in DOMAIN s : s[k].row = row /\ s[k].from = o.start /\ s[k].to = o.end

\* The spans spell the sentence up to c and show the first m rows.
SpeltTo(c, m) ==
  /\ Spelling(spans) = Runes(0, c)
  /\ \A row \in 1 .. m : Shows(spans, row, occs[row])

RowsFit ==
  /\ occs \in Seq(RowRecords)
  /\ \A k \in DOMAIN occs : occs[k].start <= size /\ occs[k].start < occs[k].end

SpansSound ==
  /\ RowsFit
  /\ spansPc = "idle" =>
       size = 0 /\ occs = <<>> /\ next = 1 /\ cursor = 0 /\ spans = <<>>
  /\ spansPc = "loop" => Tiles(spans, cursor, Len(occs))
  /\ spansPc = "done" => Tiles(spans, size, Len(occs))
  /\ spansPc = "loop" /\ FromTokens =>
       /\ SpeltTo(cursor, next - 1)
       /\ next <= Len(occs) => cursor <= occs[next].start
  /\ spansPc = "done" /\ FromTokens => SpeltTo(size, Len(occs))

SpansInv == SpansTypeOK /\ SpansSound

-----------------------------------------------------------------------------
(* Flattening. *)

LEMMA LeastOf ==
  ASSUME NEW S \in SUBSET Nat, S # {}
  PROVE  \E n \in S : \A m \in S : n <= m
<1> DEFINE R == {p \in Nat \X Nat : p[1] < p[2]}
<1>1. IsWellFoundedOn(R, Nat)
  <2>1. R = OpToRel(<, Nat)
    BY DEF OpToRel
  <2> QED BY <2>1, NatLessThanWellFounded
<1> HIDE DEF R
<1>2. \E n \in S : \A m \in S : ~(<<m, n>> \in R)
  BY <1>1, WFMin
<1>3. ASSUME NEW n \in S, NEW m \in S, ~(<<m, n>> \in R) PROVE n <= m
  <2>1. <<m, n>> \in Nat \X Nat /\ <<m, n>>[1] = m /\ <<m, n>>[2] = n
    OBVIOUS
  <2>2. ~(m < n)
    BY <1>3, <2>1 DEF R
  <2> QED BY <2>1, <2>2
<1> QED BY <1>2, <1>3

\* The recursive function in FlattenSeq exists and obeys its definition.
LEMMA FlattenUnfolds ==
  ASSUME NEW seqs, NEW n \in Nat, n = Len(seqs), n # 0
  PROVE  \E f : /\ f = [j \in 1 .. n |-> IF j = 1 THEN seqs[j] ELSE f[j - 1] \o seqs[j]]
                /\ FlattenSeq(seqs) = f[n]
<1> DEFINE Has(m) == \E f : f = [j \in 1 .. m |-> IF j = 1 THEN seqs[j] ELSE f[j - 1] \o seqs[j]]
           Bad == {m \in Nat : ~Has(m)}
<1>1. Has(0)
  <2> DEFINE e == [j \in 1 .. 0 |-> seqs]
  <2> SUFFICES e = [j \in 1 .. 0 |-> IF j = 1 THEN seqs[j] ELSE e[j - 1] \o seqs[j]]
    OBVIOUS
  <2> QED OBVIOUS
<1>2. ASSUME NEW m \in Nat, Has(m) PROVE Has(m + 1)
  <2>1. PICK f : f = [j \in 1 .. m |-> IF j = 1 THEN seqs[j] ELSE f[j - 1] \o seqs[j]]
    BY <1>2
  <2> DEFINE g == [j \in 1 .. m + 1 |->
                     IF j = 1 THEN seqs[j] ELSE IF j = m + 1 THEN f[j - 1] \o seqs[j] ELSE f[j]]
  <2>2. ASSUME NEW j \in 1 .. m + 1
        PROVE  g[j] = IF j = 1 THEN seqs[j] ELSE g[j - 1] \o seqs[j]
    <3>1. CASE j = 1
      BY <3>1
    <3>2. CASE j # 1
      <4>1. j - 1 \in 1 .. m /\ j - 1 # m + 1
        BY <3>2
      <4>2. g[j - 1] = f[j - 1]
        BY <4>1, <2>1
      <4>3. CASE j = m + 1
        <5>1. g[j] = f[j - 1] \o seqs[j]
          BY <4>3, <3>2
        <5> QED BY <5>1, <4>2, <3>2
      <4>4. CASE j # m + 1
        <5>1. j \in 1 .. m
          BY <4>4
        <5>2. g[j] = f[j] /\ f[j] = f[j - 1] \o seqs[j]
          BY <5>1, <4>4, <3>2, <2>1
        <5> QED BY <5>2, <4>2, <3>2
      <4> QED BY <4>3, <4>4
    <3> QED BY <3>1, <3>2
  <2>3. g = [j \in 1 .. m + 1 |-> IF j = 1 THEN seqs[j] ELSE g[j - 1] \o seqs[j]]
    BY <2>2
  <2> QED BY <2>3
<1> HIDE DEF Has
<1>3. Has(n)
  <2> SUFFICES ASSUME Bad # {} PROVE FALSE
    OBVIOUS
  <2>0. Bad \in SUBSET Nat
    OBVIOUS
  <2>1. PICK m \in Bad : \A k \in Bad : m <= k
    BY <2>0, LeastOf
  <2>2. m \in Nat /\ m # 0
    BY <1>1
  <2>3. m - 1 \in Nat /\ m - 1 \notin Bad
    BY <2>1, <2>2
  <2>4. Has(m - 1 + 1)
    BY <2>3, <1>2
  <2> QED BY <2>4
<1> DEFINE h == CHOOSE f : f = [j \in 1 .. n |-> IF j = 1 THEN seqs[j] ELSE f[j - 1] \o seqs[j]]
<1>4. h = [j \in 1 .. n |-> IF j = 1 THEN seqs[j] ELSE h[j - 1] \o seqs[j]]
  BY <1>3 DEF Has
<1>5. FlattenSeq(seqs) = h[n]
  BY DEF FlattenSeq
<1> QED BY <1>4, <1>5

LEMMA EmptyFirst ==
  ASSUME NEW T, NEW x \in Seq(T)
  PROVE  <<>> \o x = x
BY ConcatEmptySeq

\* One sequence more to flatten.
LEMMA FlattenAppend ==
  ASSUME NEW T, NEW seqs \in Seq(Seq(T)), NEW x \in Seq(T)
  PROVE  FlattenSeq(Append(seqs, x)) = FlattenSeq(seqs) \o x
<1> DEFINE n == Len(seqs)
           more == Append(seqs, x)
<1>0. n \in Nat /\ DOMAIN seqs = 1 .. n /\ Len(more) = n + 1
  OBVIOUS
<1>1. PICK g : /\ g = [j \in 1 .. n + 1 |-> IF j = 1 THEN more[j] ELSE g[j - 1] \o more[j]]
               /\ FlattenSeq(more) = g[n + 1]
  <2>1. n + 1 \in Nat /\ n + 1 = Len(more) /\ n + 1 # 0
    BY <1>0
  <2> HIDE DEF n, more
  <2> QED BY <2>1, FlattenUnfolds
<1>2. more[n + 1] = x /\ \A j \in 1 .. n : more[j] = seqs[j]
  OBVIOUS
<1>3. CASE n = 0
  <2>1. FlattenSeq(seqs) = <<>> /\ seqs = <<>>
    BY <1>3 DEF FlattenSeq
  <2>2. g[1] = x
    BY <1>1, <1>2, <1>3
  <2>3. FlattenSeq(more) = x
    BY <1>1, <1>3, <2>2
  <2>4. <<>> \o x = x
    BY EmptyFirst
  <2> QED BY <2>1, <2>3, <2>4
<1>4. CASE n # 0
  <2>1. PICK f : /\ f = [j \in 1 .. n |-> IF j = 1 THEN seqs[j] ELSE f[j - 1] \o seqs[j]]
                 /\ FlattenSeq(seqs) = f[n]
    <3>1. n = Len(seqs)
      OBVIOUS
    <3> HIDE DEF n
    <3> QED BY <3>1, <1>0, <1>4, FlattenUnfolds
  <2> HIDE DEF n, more
  <2> DEFINE Bad == {j \in 1 .. n : g[j] # f[j]}
  <2>2. Bad = {}
    <3> SUFFICES ASSUME Bad # {} PROVE FALSE
      OBVIOUS
    <3>1. Bad \in SUBSET Nat
      BY <1>0
    <3>2. PICK m \in Bad : \A k \in Bad : m <= k
      BY <3>1, LeastOf
    <3>3. m \in 1 .. n /\ m \in 1 .. n + 1 /\ m \in Nat /\ more[m] = seqs[m]
      BY <1>0, <1>2
    <3>4. m # 1
      BY <1>1, <2>1, <3>3
    <3>5. m - 1 \in 1 .. n /\ m - 1 \notin Bad
      BY <3>2, <3>3, <3>4, <1>0
    <3>6. g[m] = g[m - 1] \o more[m]
      BY <1>1, <3>3, <3>4
    <3>7. f[m] = f[m - 1] \o seqs[m]
      BY <2>1, <3>3, <3>4
    <3> QED BY <3>3, <3>5, <3>6, <3>7
  <2>3. n \in 1 .. n /\ n + 1 \in 1 .. n + 1 /\ n + 1 # 1 /\ n + 1 - 1 = n
    BY <1>0, <1>4
  <2>4. g[n + 1] = g[n] \o x
    <3>1. ASSUME NEW m \in 1 .. n + 1, m # 1
          PROVE  g[m] = g[m - 1] \o more[m]
      BY <1>1, <3>1
    <3>2. PICK m \in 1 .. n + 1 : m = n + 1
      BY <2>3
    <3>3. m - 1 = n /\ m # 1
      BY <1>0, <1>4, <3>2
    <3>4. more[m] = x
      BY <1>2, <3>2
    <3>5. g[m] = g[m - 1] \o more[m]
      BY <3>1, <3>3
    <3>6. g[m] = g[n] \o x
      BY <3>3, <3>4, <3>5
    <3> QED BY <3>2, <3>6
  <2>5. g[n] = f[n]
    BY <2>2, <2>3
  <2> QED BY <1>1, <2>1, <2>4, <2>5 DEF more
<1> QED BY <1>3, <1>4
-----------------------------------------------------------------------------
(* Splitting. *)

\* One segment more, or none when the positions a .. b are blank.
\* If position b of t is a terminator, every segment of o ends with one.
Ended(o, t, b) == t[b] = "terminator" => \A k \in DOMAIN o : t[o[k].to] = "terminator"

LEMMA FileOne ==
  ASSUME NEW o, NEW t \in Seq(Kinds), NEW a \in Nat, NEW b \in Nat, a >= 1, a <= b + 1,
         Filed(o, t, a - 1), \A k \in DOMAIN o : t[o[k].to] = "terminator",
         \A p \in a .. b : t[p] = "terminator" => p = b,
         NEW from \in a .. b, NEW to \in a .. b, t[from] # "space", t[to] # "space",
         \A p \in a .. b : t[p] # "space" => p \in from .. to
  PROVE  LET s == [from |-> from, to |-> to]
         IN Filed(Append(o, s), t, b) /\ Ended(Append(o, s), t, b)
<1> DEFINE s == [from |-> from, to |-> to]
           n == Len(o)
           o2 == Append(o, s)
<1>1. s \in Segments /\ s.from = from /\ s.to = to /\ from <= to
  BY DEF Segments
<1>2. o \in Seq(Segments)
  BY DEF Filed
<1>3. /\ n \in Nat /\ DOMAIN o = 1 .. n /\ DOMAIN o2 = 1 .. n + 1 /\ Len(o2) = n + 1
      /\ o2 \in Seq(Segments) /\ o2[n + 1] = s /\ \A k \in 1 .. n : o2[k] = o[k]
  BY <1>1, <1>2
<1> HIDE DEF s, n, o2
<1>4. \A k \in 1 .. n : /\ o[k].from \in 1 .. a - 1 /\ o[k].to \in 1 .. a - 1
                        /\ o[k].from <= o[k].to
                        /\ t[o[k].from] # "space" /\ t[o[k].to] # "space"
                        /\ \A p \in o[k].from .. o[k].to :
                             t[p] = "terminator" => p = o[k].to
                        /\ k + 1 \in 1 .. n => o[k].to < o[k + 1].from
                        /\ t[o[k].to] = "terminator"
  BY <1>3 DEF Filed
<1>5. ASSUME NEW p \in 1 .. b, t[p] # "space"
      PROVE  \E k \in DOMAIN o2 : p \in o2[k].from .. o2[k].to
  <2>1. CASE p < a
    <3>1. p \in 1 .. a - 1
      BY <2>1
    <3>2. PICK k \in 1 .. n : p \in o[k].from .. o[k].to
      BY <3>1, <1>5, <1>3 DEF Filed
    <3>3. k \in 1 .. n + 1
      BY <1>3
    <3> QED BY <3>2, <3>3, <1>3
  <2>2. CASE p >= a
    <3>1. n + 1 \in 1 .. n + 1 /\ p \in from .. to
      BY <2>2, <1>5, <1>3
    <3> QED BY <3>1, <1>1, <1>3
  <2> QED BY <2>1, <2>2
<1>6. ASSUME NEW k \in 1 .. n + 1
      PROVE  /\ o2[k].from \in 1 .. b /\ o2[k].to \in 1 .. b /\ o2[k].from <= o2[k].to
             /\ t[o2[k].from] # "space" /\ t[o2[k].to] # "space"
             /\ \A p \in o2[k].from .. o2[k].to : t[p] = "terminator" => p = o2[k].to
             /\ k + 1 \in 1 .. n + 1 => o2[k].to < o2[k + 1].from
             /\ k < n + 1 => t[o2[k].to] = "terminator"
  <2>1. CASE k = n + 1
    <3>1. \A p \in from .. to : p \in a .. b /\ (p = b => p = to)
      OBVIOUS
    <3>2. \A p \in from .. to : t[p] = "terminator" => p = to
      BY <3>1
    <3> QED BY <2>1, <1>1, <1>3, <3>2
  <2>2. CASE k # n + 1
    <3>1. k \in 1 .. n /\ o2[k] = o[k]
      BY <2>2, <1>3
    <3>2. o[k].from \in 1 .. b /\ o[k].to \in 1 .. b /\ o[k].to < a
      BY <3>1, <1>4
    <3>3. k + 1 \in 1 .. n + 1 => o2[k].to < o2[k + 1].from
      <4>1. CASE k + 1 \in 1 .. n
        BY <4>1, <3>1, <1>3, <1>4
      <4>2. CASE k = n
        BY <4>2, <3>1, <3>2, <1>1, <1>3
      <4> QED BY <4>1, <4>2, <3>1, <1>3
    <3> QED BY <3>1, <3>2, <3>3, <1>4
  <2> QED BY <2>1, <2>2
<1>7. Filed(o2, t, b)
  BY <1>3, <1>5, <1>6 DEF Filed
<1>8. ASSUME t[b] = "terminator", NEW k \in 1 .. n + 1
      PROVE  t[o2[k].to] = "terminator"
  <2>1. CASE k = n + 1
    <3>1. b \in a .. b /\ t[b] # "space"
      BY <1>8
    <3>2. b = to
      BY <3>1
    <3> QED BY <2>1, <3>2, <1>1, <1>3, <1>8
  <2>2. CASE k # n + 1
    BY <2>2, <1>3, <1>4
  <2> QED BY <2>1, <2>2
<1>9. Ended(o2, t, b)
  BY <1>3, <1>8 DEF Ended
<1> QED BY <1>7, <1>9 DEF o2, s

\* Nothing is filed of blank positions.
LEMMA FileNone ==
  ASSUME NEW o, NEW t, NEW a \in Nat, NEW b \in Nat, a >= 1, a <= b + 1,
         Filed(o, t, a - 1), \A k \in DOMAIN o : t[o[k].to] = "terminator",
         \A p \in a .. b : t[p] = "space"
  PROVE  Filed(o, t, b)
<1>1. \A p \in 1 .. b : t[p] # "space" => p \in 1 .. a - 1
  OBVIOUS
<1>2. \A p \in 1 .. a - 1 : p \in 1 .. b
  OBVIOUS
<1> QED BY <1>1, <1>2 DEF Filed

LEMMA InkIs ==
  ASSUME NEW a, NEW b
  PROVE  \A p : p \in Ink(a, b) <=> p \in a .. b /\ text[p] # "space"
BY DEF Ink

LEMMA TrimmedIs ==
  ASSUME NEW a \in Int, NEW b \in Int, NEW from, NEW to,
         IsTrimmed([from |-> from, to |-> to], a, b)
  PROVE  /\ from \in a .. b /\ to \in a .. b /\ text[from] # "space" /\ text[to] # "space"
         /\ \A p \in a .. b : text[p] # "space" => p \in from .. to
         /\ from <= to
<1>1. from \in Ink(a, b) /\ to \in Ink(a, b) /\ Ink(a, b) \subseteq from .. to
  BY DEF IsTrimmed
<1> QED BY <1>1, InkIs

LEMMA TextIs ==
  ASSUME SplitInv
  PROVE  /\ text \in Seq(Kinds) /\ Len(text) \in Nat /\ DOMAIN text = 1 .. Len(text)
         /\ \A p \in DOMAIN text : text[p] \in Kinds
BY DEF SplitInv, SplitTypeOK

\* What a step of the loop files, up to b.
LEMMA Emits ==
  ASSUME SplitInv, splitPc = "scan", NEW b \in Nat, start <= b + 1, b <= last,
         \A p \in start .. b : text[p] = "terminator" => p = b, Emit(start, b)
  PROVE  /\ Filed(out', text, b)
         /\ text[b] = "terminator" /\ start <= b =>
              \A k \in DOMAIN out' : text[out'[k].to] = "terminator"
<1>1. /\ text \in Seq(Kinds) /\ start \in Nat /\ start >= 1
      /\ Filed(out, text, start - 1)
      /\ \A k \in DOMAIN out : text[out[k].to] = "terminator"
  BY DEF SplitInv, SplitTypeOK, SplitSound
<1>2. CASE Ink(start, b) = {}
  <2>1. out' = out
    BY <1>2 DEF Emit
  <2>2. \A p \in start .. b : text[p] = "space"
    BY <1>2, InkIs
  <2>3. Filed(out, text, b)
    BY <1>1, <2>2, FileNone
  <2> QED BY <1>1, <2>1, <2>3
<1>3. CASE Ink(start, b) # {}
  <2>1. PICK from \in start .. b, to \in start .. b :
          /\ IsTrimmed([from |-> from, to |-> to], start, b)
          /\ out' = Append(out, [from |-> from, to |-> to])
    BY <1>3 DEF Emit
  <2>2. /\ text[from] # "space" /\ text[to] # "space"
        /\ \A p \in start .. b : text[p] # "space" => p \in from .. to
    <3>1. start \in Int /\ b \in Int
      BY <1>1
    <3> QED BY <2>1, <3>1, TrimmedIs
  <2> DEFINE s == [from |-> from, to |-> to]
  <2>3. Filed(Append(out, s), text, b) /\ Ended(Append(out, s), text, b)
    BY <1>1, <2>2, FileOne
  <2>4. out' = Append(out, s)
    BY <2>1
  <2> HIDE DEF s
  <2> QED BY <2>3, <2>4 DEF Ended
<1> QED BY <1>2, <1>3

LEMMA SplitInit0 == SplitInit => SplitInv
<1> SUFFICES ASSUME SplitInit
             PROVE  SplitInv
  OBVIOUS
<1>1. text \in Texts /\ text \in Seq(Kinds) /\ Len(text) \in Nat
  BY TextsAssumption DEF SplitInit
<1> QED BY <1>1 DEF SplitInit, SplitInv, SplitTypeOK, SplitSound

LEMMA TrimKeeps ==
  ASSUME SplitInv, Trim
  PROVE  SplitInv'
<1>1. text' = text /\ out' = out /\ out = <<>> /\ text \in Texts
  BY DEF Trim, SplitInv, SplitSound
<1>2. CASE Ink(1, Len(text)) = {}
  <2>1. splitPc' = "done" /\ last' = last /\ i' = i /\ start' = start
    BY <1>2 DEF Trim
  <2>2. \A p \in 1 .. Len(text) : text[p] = "space"
    BY <1>2, InkIs
  <2>3. Filed(out, text, Len(text))
    BY <1>1, <2>2 DEF Filed
  <2> QED BY <1>1, <2>1, <2>3 DEF SplitInv, SplitTypeOK, SplitSound
<1>3. CASE Ink(1, Len(text)) # {}
  <2>1. PICK from \in DOMAIN text, to \in DOMAIN text :
          /\ IsTrimmed([from |-> from, to |-> to], 1, Len(text))
          /\ splitPc' = "scan" /\ last' = to /\ i' = from /\ start' = from
    BY <1>3 DEF Trim
  <2>2. /\ from \in 1 .. Len(text) /\ to \in 1 .. Len(text) /\ from <= to
        /\ \A p \in 1 .. Len(text) : text[p] # "space" => p \in from .. to
    <3>1. 1 \in Int /\ Len(text) \in Int
      BY TextIs
    <3> QED BY <2>1, <3>1, TrimmedIs
  <2>3. \A p \in 1 .. from - 1 : p \in 1 .. Len(text) /\ text[p] = "space"
    BY <2>2, TextIs
  <2>4. Filed(out, text, from - 1)
    BY <1>1, <2>3 DEF Filed
  <2>5. SplitTypeOK'
    BY <1>1, <2>1, <2>2, TextIs DEF SplitInv, SplitTypeOK
  <2>6. SplitSound'
    BY <1>1, <2>1, <2>2, <2>4, TextIs DEF SplitSound
  <2> QED BY <2>5, <2>6 DEF SplitInv
<1> QED BY <1>2, <1>3

LEMMA ScanKeeps ==
  ASSUME SplitInv, Scan
  PROVE  SplitInv'
<1>1. /\ text' = text /\ out' = out /\ start' = start /\ last' = last /\ i' = i + 1
      /\ splitPc = "scan" /\ splitPc' = "scan" /\ i <= last
      /\ text[i] # "terminator"
  BY DEF Scan, IsTerminator
<1>2. i \in Nat /\ last \in Nat /\ start \in Nat /\ last <= Len(text) /\ Len(text) \in Nat
  BY TextIs DEF SplitInv, SplitTypeOK
<1>3. \A p \in start .. i' - 1 : text[p] # "terminator"
  BY <1>1, <1>2 DEF SplitInv, SplitSound
<1>4. SplitTypeOK'
  BY <1>1, <1>2 DEF SplitInv, SplitTypeOK
<1>5. SplitSound'
  BY <1>1, <1>2, <1>3 DEF SplitInv, SplitSound
<1> QED BY <1>4, <1>5 DEF SplitInv

LEMMA CutKeeps ==
  ASSUME SplitInv, Cut
  PROVE  SplitInv'
<1>1. /\ text' = text /\ last' = last /\ i' = i + 1 /\ start' = i + 1
      /\ splitPc = "scan" /\ splitPc' = "scan" /\ i <= last
      /\ text[i] = "terminator" /\ Emit(start, i)
  BY DEF Cut, IsTerminator
<1>2. /\ i \in Nat /\ last \in Nat /\ start \in Nat /\ last <= Len(text) /\ Len(text) \in Nat
      /\ i >= 1 /\ start <= i
  BY <1>1, TextIs DEF SplitInv, SplitTypeOK, SplitSound
<1>3. \A p \in start .. i : text[p] = "terminator" => p = i
  BY <1>1, <1>2 DEF SplitInv, SplitSound
<1>4. /\ Filed(out', text, i)
      /\ \A k \in DOMAIN out' : text[out'[k].to] = "terminator"
  BY <1>1, <1>2, <1>3, Emits
<1>5. SplitTypeOK'
  BY <1>1, <1>2, <1>4 DEF SplitInv, SplitTypeOK, Filed
<1>6. start' - 1 = i /\ \A p \in start' .. i' - 1 : FALSE
  BY <1>1, <1>2
<1>7. SplitSound'
  BY <1>1, <1>2, <1>4, <1>6 DEF SplitInv, SplitSound
<1> QED BY <1>5, <1>7 DEF SplitInv

LEMMA RestKeeps ==
  ASSUME SplitInv, Rest
  PROVE  SplitInv'
<1>1. /\ text' = text /\ last' = last /\ i' = i /\ start' = start
      /\ splitPc = "scan" /\ splitPc' = "done" /\ i > last
      /\ Emit(start, last)
  BY DEF Rest
<1>2. /\ i \in Nat /\ last \in Nat /\ start \in Nat /\ last <= Len(text) /\ Len(text) \in Nat
      /\ start <= i /\ i <= last + 1
  BY <1>1, TextIs DEF SplitInv, SplitTypeOK, SplitSound
<1>3. \A p \in start .. last : text[p] # "terminator"
  BY <1>1, <1>2 DEF SplitInv, SplitSound
<1>4. Filed(out', text, last)
  BY <1>1, <1>2, <1>3, Emits
<1>5. \A p \in DOMAIN text : p > last => text[p] = "space"
  BY <1>1 DEF SplitInv, SplitSound
<1>6. Filed(out', text, Len(text))
  <2>1. \A p \in 1 .. Len(text) : text[p] # "space" => p \in 1 .. last
    BY <1>2, <1>5, TextIs
  <2>2. \A p \in 1 .. last : p \in 1 .. Len(text)
    BY <1>2
  <2> QED BY <1>4, <2>1, <2>2 DEF Filed
<1>7. SplitTypeOK'
  BY <1>1, <1>6 DEF SplitInv, SplitTypeOK, Filed
<1> QED BY <1>1, <1>6, <1>7 DEF SplitInv, SplitSound

LEMMA SplitStutters ==
  ASSUME SplitInv, UNCHANGED splitVars
  PROVE  SplitInv'
BY DEF SplitInv, SplitTypeOK, SplitSound, splitVars

\* What is filed is what the properties of the loop say.
LEMMA FiledIsLossless ==
  ASSUME SplitInv
  PROVE  NothingLost /\ OneTerminator
<1>1. CASE splitPc = "trim"
  BY <1>1 DEF SplitInv, SplitSound, NothingLost, OneTerminator
<1>2. CASE splitPc # "trim"
  <2>1. \E b \in Nat : Filed(out, text, b) /\ b <= Len(text) /\ Handled = 1 .. b
    <3>1. CASE splitPc = "scan"
      <4>1. start - 1 \in Nat /\ start - 1 <= Len(text)
        BY TextIs DEF SplitInv, SplitTypeOK
      <4>2. Filed(out, text, start - 1) /\ Handled = 1 .. start - 1
        BY <3>1 DEF SplitInv, SplitSound, Handled
      <4>3. PICK b \in Nat : b = start - 1
        BY <4>1
      <4>4. Filed(out, text, b) /\ b <= Len(text) /\ Handled = 1 .. b
        BY <4>1, <4>2, <4>3
      <4> QED BY <4>4
    <3>2. CASE splitPc = "done"
      <4>1. Filed(out, text, Len(text)) /\ Handled = 1 .. Len(text)
        <5>1. Handled = DOMAIN text
          BY <3>2 DEF Handled
        <5>2. Filed(out, text, Len(text))
          BY <3>2 DEF SplitInv, SplitSound
        <5>3. DOMAIN text = 1 .. Len(text)
          BY TextIs
        <5> QED BY <5>1, <5>2, <5>3
      <4>2. PICK b \in Nat : b = Len(text)
        BY TextIs
      <4>3. Filed(out, text, b) /\ b <= Len(text) /\ Handled = 1 .. b
        BY <4>1, <4>2
      <4> QED BY <4>3
    <3> QED BY <1>2, <3>1, <3>2 DEF SplitInv, SplitTypeOK
  <2>2. PICK b \in Nat : Filed(out, text, b) /\ b <= Len(text) /\ Handled = 1 .. b
    BY <2>1
  <2>3. \A k \in DOMAIN out : {out[k].from, out[k].to} \subseteq Ink(1, Len(text))
    <3> TAKE k \in DOMAIN out
    <3>1. out[k].from \in 1 .. Len(text) /\ out[k].to \in 1 .. Len(text)
      BY <2>2, TextIs DEF Filed
    <3> QED BY <2>2, <3>1, InkIs DEF Filed
  <2>4. NothingLost
    BY <2>2, <2>3 DEF NothingLost, Filed
  <2>5. OneTerminator
    BY <2>2 DEF OneTerminator, IsTerminator, Filed
  <2> QED BY <2>4, <2>5
<1> QED BY <1>1, <1>2

-----------------------------------------------------------------------------
(* Spans. *)

\* Runes side by side.
LEMMA RunesJoin ==
  ASSUME NEW a \in Int, NEW b \in Int, NEW c \in Int, a <= b, b <= c
  PROVE  /\ Runes(a, b) \in Seq(Int) /\ Len(Runes(a, b)) = b - a
         /\ Runes(a, b) \o Runes(b, c) = Runes(a, c)
<1>1. ASSUME NEW x \in Int, NEW y \in Int, x <= y
      PROVE  /\ Runes(x, y) \in Seq(Int) /\ Len(Runes(x, y)) = y - x
             /\ \A k \in 1 .. y - x : Runes(x, y)[k] = x + k - 1
  <2>1. y - x \in Nat
    BY <1>1
  <2> DEFINE n == y - x
  <2>2. [k \in 1 .. n |-> x + k - 1] \in Seq(Int)
    <3>1. \A k \in 1 .. n : x + k - 1 \in Int
      OBVIOUS
    <3> QED BY <2>1, <3>1
  <2>3. Runes(x, y) = [k \in 1 .. n |-> x + k - 1]
    BY DEF Runes
  <2> QED BY <2>1, <2>2, <2>3
<1>2. a <= c
  OBVIOUS
<1> DEFINE r == Runes(a, b) \o Runes(b, c)
<1>3. /\ Runes(a, b) \in Seq(Int) /\ Runes(b, c) \in Seq(Int) /\ Runes(a, c) \in Seq(Int)
      /\ Len(Runes(a, b)) = b - a /\ Len(Runes(b, c)) = c - b /\ Len(Runes(a, c)) = c - a
  BY <1>1, <1>2
<1>4. /\ r \in Seq(Int) /\ Len(r) = c - a
      /\ \A k \in 1 .. c - a :
           r[k] = IF k <= b - a THEN Runes(a, b)[k] ELSE Runes(b, c)[k - (b - a)]
  <2>1. /\ r \in Seq(Int) /\ Len(r) = Len(Runes(a, b)) + Len(Runes(b, c))
        /\ \A k \in 1 .. Len(Runes(a, b)) + Len(Runes(b, c)) :
             r[k] = IF k <= Len(Runes(a, b)) THEN Runes(a, b)[k]
                    ELSE Runes(b, c)[k - Len(Runes(a, b))]
    BY <1>3, ConcatProperties
  <2>2. (b - a) + (c - b) = c - a
    OBVIOUS
  <2> HIDE DEF r
  <2> QED BY <1>3, <2>1, <2>2
<1> HIDE DEF r
<1>5. ASSUME NEW k \in 1 .. c - a
      PROVE  r[k] = Runes(a, c)[k]
  <2>1. Runes(a, c)[k] = a + k - 1
    BY <1>1, <1>2
  <2>2. CASE k <= b - a
    <3>1. k \in 1 .. b - a
      BY <2>2
    <3>2. r[k] = Runes(a, b)[k]
      BY <3>1, <2>2, <1>4
    <3> QED BY <1>1, <2>1, <3>1, <3>2
  <2>3. CASE k > b - a
    <3>1. k - (b - a) \in 1 .. c - b
      BY <2>3
    <3>2. r[k] = Runes(b, c)[k - (b - a)]
      BY <2>3, <1>4
    <3>3. Runes(b, c)[k - (b - a)] = b + (k - (b - a)) - 1
      BY <3>1, <1>1
    <3> QED BY <2>1, <3>2, <3>3
  <2> QED BY <2>2, <2>3
<1>6. r = Runes(a, c)
  BY <1>3, <1>4, <1>5, SeqEqual
<1> QED BY <1>3, <1>6 DEF r

LEMMA RunesFromStart ==
  ASSUME NEW a \in Nat, NEW b \in Nat, a <= b
  PROVE  Runes(0, a) \o Runes(a, b) = Runes(0, b)
<1>1. PICK z \in Int : z = 0
  OBVIOUS
<1>2. a \in Int /\ b \in Int /\ z <= a
  BY <1>1
<1>3. Runes(z, a) \o Runes(a, b) = Runes(z, b)
  BY <1>2, RunesJoin
<1> QED BY <1>1, <1>3

\* One span more.
LEMMA TileOne ==
  ASSUME NEW s, NEW c \in Nat, NEW m \in Nat, Tiles(s, c, m),
         NEW e \in SpanRecords, e.from = c, e.from <= e.to, e.row <= m
  PROVE  Tiles(Append(s, e), e.to, m)
<1> DEFINE n == Len(s)
           s2 == Append(s, e)
<1>1. s \in Seq(SpanRecords) /\ e.to \in Nat
  BY DEF Tiles, SpanRecords
<1>2. /\ n \in Nat /\ DOMAIN s = 1 .. n /\ DOMAIN s2 = 1 .. n + 1 /\ Len(s2) = n + 1
      /\ s2 \in Seq(SpanRecords) /\ s2[n + 1] = e /\ s2 # <<>>
      /\ \A k \in 1 .. n : s2[k] = s[k] /\ s[k] \in SpanRecords
      /\ s = <<>> <=> n = 0
  BY <1>1
<1>3. /\ \A k \in 1 .. n : /\ s[k].from <= s[k].to /\ s[k].to <= c /\ s[k].row <= m
                           /\ s[k].from = IF k = 1 THEN 0 ELSE s[k - 1].to
      /\ c = IF n = 0 THEN 0 ELSE s[n].to
  BY <1>2 DEF Tiles
<1> HIDE DEF n, s2
<1>4. ASSUME NEW k \in 1 .. n + 1
      PROVE  /\ s2[k].from <= s2[k].to /\ s2[k].to <= e.to /\ s2[k].row <= m
             /\ s2[k].from = IF k = 1 THEN 0 ELSE s2[k - 1].to
  <2>1. CASE k = n + 1
    <3>1. k # 1 => k - 1 = n /\ n \in 1 .. n /\ n # 0
      BY <2>1, <1>2
    <3>2. k = 1 => n = 0
      BY <2>1, <1>2
    <3>3. s2[k] = e /\ (k # 1 => s2[k - 1] = s[n])
      BY <2>1, <3>1, <1>2
    <3>4. e.from = IF k = 1 THEN 0 ELSE s2[k - 1].to
      BY <3>1, <3>2, <3>3, <1>3
    <3>5. e.from <= e.to /\ e.to <= e.to /\ e.row <= m
      BY <1>1
    <3>6. s2[k].from = IF k = 1 THEN 0 ELSE s2[k - 1].to
      BY ONLY <3>3, <3>4
    <3> QED BY ONLY <3>3, <3>5, <3>6
  <2>2. CASE k # n + 1
    <3>1. k \in 1 .. n /\ (k # 1 => k - 1 \in 1 .. n)
      BY <2>2, <1>2
    <3>2. s[k].to \in Nat
      BY <3>1, <1>2 DEF SpanRecords
    <3>3. s2[k] = s[k] /\ (k # 1 => s2[k - 1] = s[k - 1])
      BY <3>1, <1>2
    <3>4. s2[k].from = IF k = 1 THEN 0 ELSE s2[k - 1].to
      BY <3>1, <3>3, <1>3
    <3>5. s2[k].from <= s2[k].to /\ s2[k].to <= c /\ s2[k].row <= m
      BY <3>1, <3>3, <1>3
    <3>6. s2[k].to <= e.to
      BY <3>2, <3>3, <3>5, <1>1
    <3> QED BY <3>4, <3>5, <3>6
  <2> QED BY <2>1, <2>2
<1>5. e.to = IF s2 = <<>> THEN 0 ELSE s2[Len(s2)].to
  BY <1>2
<1> QED BY <1>2, <1>4, <1>5 DEF Tiles, s2

LEMMA SpellingOne ==
  ASSUME NEW s \in Seq(SpanRecords), NEW e \in SpanRecords
  PROVE  Spelling(Append(s, e)) = Spelling(s) \o e.surface
<1> DEFINE surf(q) == [k \in DOMAIN q |-> q[k].surface]
           s2 == Append(s, e)
<1>1. /\ Len(s) \in Nat /\ DOMAIN s = 1 .. Len(s) /\ DOMAIN s2 = 1 .. Len(s) + 1
      /\ s2[Len(s) + 1] = e /\ \A k \in 1 .. Len(s) : s2[k] = s[k] /\ s[k] \in SpanRecords
  OBVIOUS
<1>2. e.surface \in Seq(Int) /\ \A k \in 1 .. Len(s) : s[k].surface \in Seq(Int)
  BY <1>1 DEF SpanRecords
<1>3. surf(s) \in Seq(Seq(Int)) /\ Len(surf(s)) = Len(s)
  BY <1>1, <1>2
<1>4. surf(s2) = Append(surf(s), e.surface)
  <2>1. Append(surf(s), e.surface) \in Seq(Seq(Int))
    BY <1>2, <1>3
  <2>2. /\ DOMAIN Append(surf(s), e.surface) = 1 .. Len(s) + 1
        /\ Append(surf(s), e.surface)[Len(s) + 1] = e.surface
        /\ \A k \in 1 .. Len(s) : Append(surf(s), e.surface)[k] = s[k].surface
    BY <1>1, <1>2, <1>3
  <2>3. DOMAIN surf(s2) = 1 .. Len(s) + 1
    BY <1>1
  <2>4. \A k \in 1 .. Len(s) + 1 : surf(s2)[k] = Append(surf(s), e.surface)[k]
    <3> TAKE k \in 1 .. Len(s) + 1
    <3>1. CASE k = Len(s) + 1
      BY <3>1, <1>1, <2>2
    <3>2. CASE k # Len(s) + 1
      <4>1. k \in 1 .. Len(s)
        BY <3>2, <1>1
      <4>2. surf(s2)[k] = s2[k].surface
        BY <1>1
      <4> QED BY <4>1, <4>2, <1>1, <2>2
    <3> QED BY <3>1, <3>2
  <2>5. surf(s2) \in Seq(Seq(Int)) /\ Len(surf(s2)) = Len(s) + 1
    <3>1. \A k \in 1 .. Len(s) + 1 : s2[k].surface \in Seq(Int)
      <4> TAKE k \in 1 .. Len(s) + 1
      <4>1. CASE k = Len(s) + 1
        BY <4>1, <1>1, <1>2
      <4>2. CASE k # Len(s) + 1
        <5>1. k \in 1 .. Len(s)
          BY <4>2, <1>1
        <5> QED BY <5>1, <1>1, <1>2
      <4> QED BY <4>1, <4>2
    <3>2. Len(s) + 1 \in Nat
      BY <1>1
    <3> HIDE DEF s2
    <3> QED BY <1>1, <3>1, <3>2
  <2>6. Len(Append(surf(s), e.surface)) = Len(s) + 1
    BY <1>1, <1>2, <1>3
  <2> HIDE DEF surf, s2
  <2> QED BY <2>1, <2>4, <2>5, <2>6, SeqEqual
<1>5. Spelling(s) = FlattenSeq(surf(s)) /\ Spelling(s2) = FlattenSeq(surf(s2))
  BY DEF Spelling
<1> HIDE DEF surf, s2
<1>6. FlattenSeq(Append(surf(s), e.surface)) = FlattenSeq(surf(s)) \o e.surface
  BY <1>2, <1>3, FlattenAppend
<1> QED BY <1>4, <1>5, <1>6 DEF s2

LEMMA ShowsMore ==
  ASSUME NEW s \in Seq(SpanRecords), NEW e \in SpanRecords
  PROVE  /\ \A row, o : Shows(s, row, o) => Shows(Append(s, e), row, o)
         /\ \A o : e.from = o.start /\ e.to = o.end => Shows(Append(s, e), e.row, o)
<1> DEFINE s2 == Append(s, e)
<1>1. /\ Len(s) \in Nat /\ DOMAIN s = 1 .. Len(s) /\ DOMAIN s2 = 1 .. Len(s) + 1
      /\ s2[Len(s) + 1] = e /\ \A k \in 1 .. Len(s) : s2[k] = s[k]
  OBVIOUS
<1>2. Len(s) + 1 \in 1 .. Len(s) + 1 /\ \A k \in 1 .. Len(s) : k \in 1 .. Len(s) + 1
  BY <1>1
<1> HIDE DEF s2
<1>3. \A row, o : Shows(s, row, o) => Shows(s2, row, o)
  BY <1>1, <1>2 DEF Shows
<1>4. \A o : e.from = o.start /\ e.to = o.end => Shows(s2, e.row, o)
  BY <1>1, <1>2 DEF Shows
<1> QED BY <1>3, <1>4 DEF s2

LEMMA GapIs ==
  ASSUME NEW c \in Nat, NEW a \in Nat, c <= a
  PROVE  /\ GapSpan(c, a) \in SpanRecords
         /\ GapSpan(c, a).from = c /\ GapSpan(c, a).to = a /\ GapSpan(c, a).row = 0
         /\ GapSpan(c, a).surface = Runes(c, a)
<1>1. Runes(c, a) \in Seq(Int)
  BY RunesJoin
<1> QED BY <1>1 DEF GapSpan, Span, Gap, SpanRecords

\* The spans mid are the spans s up to c, with the gap from c to a if there is one.
Filled(mid, s, c, m, a) ==
  /\ mid = s \o (IF a > c THEN <<GapSpan(c, a)>> ELSE <<>>)
  /\ mid = IF c < a THEN Append(s, GapSpan(c, a)) ELSE s
  /\ Tiles(mid, a, m)
  /\ Spelling(s) = Runes(0, c) => Spelling(mid) = Runes(0, a)
  /\ \A row, o : Shows(s, row, o) => Shows(mid, row, o)

LEMMA FillGap ==
  ASSUME NEW s, NEW c \in Nat, NEW m \in Nat, Tiles(s, c, m), NEW a \in Nat, c <= a
  PROVE  \E mid : Filled(mid, s, c, m, a)
<1>1. s \in Seq(SpanRecords)
  BY DEF Tiles
<1>2. CASE a = c
  <2>1. s \o <<>> = s
    BY <1>1, ConcatEmptySeq
  <2>2. s = s \o (IF a > c THEN <<GapSpan(c, a)>> ELSE <<>>)
    <3>1. (IF a > c THEN <<GapSpan(c, a)>> ELSE <<>>) = <<>>
      BY <1>2
    <3> QED BY <2>1, <3>1
  <2>3. s = IF c < a THEN Append(s, GapSpan(c, a)) ELSE s
    BY <1>2
  <2>4. Tiles(s, a, m) /\ (Spelling(s) = Runes(0, c) => Spelling(s) = Runes(0, a))
    BY <1>2
  <2>5. Filled(s, s, c, m, a)
    BY <2>2, <2>3, <2>4 DEF Filled
  <2> QED BY <2>5
<1>3. CASE c < a
  <2>1. PICK e : e = GapSpan(c, a)
    OBVIOUS
  <2>2. /\ e \in SpanRecords /\ e.from = c /\ e.to = a /\ e.row = 0
        /\ e.surface = Runes(c, a)
    BY <2>1, GapIs
  <2>3. PICK mid : mid = Append(s, e)
    OBVIOUS
  <2>4. mid = s \o (IF a > c THEN <<e>> ELSE <<>>)
    <3>1. s \o <<e>> = Append(s, e)
      BY <1>1, <2>2
    <3>2. (IF a > c THEN <<e>> ELSE <<>>) = <<e>>
      BY <1>3
    <3> QED BY <2>3, <3>1, <3>2
  <2>5. mid = IF c < a THEN Append(s, e) ELSE s
    BY <1>3, <2>3
  <2>6. Tiles(mid, a, m)
    BY <1>3, <2>2, <2>3, TileOne
  <2>7. Spelling(s) = Runes(0, c) => Spelling(mid) = Runes(0, a)
    <3>1. Spelling(mid) = Spelling(s) \o Runes(c, a)
      BY <1>1, <2>2, <2>3, SpellingOne
    <3> QED BY <3>1, RunesFromStart
  <2>8. \A row, o : Shows(s, row, o) => Shows(mid, row, o)
    BY <1>1, <2>2, <2>3, ShowsMore
  <2>9. Filled(mid, s, c, m, a)
    BY <2>1, <2>4, <2>5, <2>6, <2>7, <2>8 DEF Filled
  <2> QED BY <2>9
<1>4. a = c \/ c < a
  OBVIOUS
<1> QED BY <1>2, <1>3, <1>4

\* The spans s2 are the spans s up to c and a word's from a to b, with the gap.
Adds(s2, s, c, m, a, b, row, surface) ==
  /\ s2 = s \o (IF a > c THEN <<GapSpan(c, a)>> ELSE <<>>)
           \o <<Span(a, b, row, surface)>>
  /\ Tiles(s2, b, m)
  /\ Spelling(s) = Runes(0, c) /\ surface = Runes(a, b) => Spelling(s2) = Runes(0, b)
  /\ \A r, o : Shows(s, r, o) => Shows(s2, r, o)
  /\ \A o : o.start = a /\ o.end = b => Shows(s2, row, o)

\* The gap and an occurrence.
LEMMA AddOne ==
  ASSUME NEW s, NEW c \in Nat, NEW m \in Nat, Tiles(s, c, m),
         NEW a \in Nat, NEW b \in Nat, c <= a, a <= b, NEW row \in 1 .. m,
         NEW surface \in Seq(Int)
  PROVE  \E s2 : Adds(s2, s, c, m, a, b, row, surface)
<1> DEFINE e == Span(a, b, row, surface)
<1>0. PICK mid : Filled(mid, s, c, m, a)
  BY FillGap
<1>1. /\ mid = s \o (IF a > c THEN <<GapSpan(c, a)>> ELSE <<>>)
      /\ Tiles(mid, a, m)
      /\ Spelling(s) = Runes(0, c) => Spelling(mid) = Runes(0, a)
      /\ \A r, o : Shows(s, r, o) => Shows(mid, r, o)
  BY <1>0 DEF Filled
<1>2. /\ e \in SpanRecords /\ e.from = a /\ e.to = b /\ e.row = row
      /\ e.surface = surface
  BY DEF Span, SpanRecords
<1>3. mid \in Seq(SpanRecords)
  <2>1. Tiles(mid, a, m)
    BY <1>1
  <2> QED BY <2>1 DEF Tiles
<1> HIDE DEF e
<1>4. mid \o <<e>> = Append(mid, e)
  BY <1>2, <1>3
<1>5. Tiles(Append(mid, e), b, m)
  <2>1. Tiles(mid, a, m)
    BY <1>1
  <2> QED BY <1>2, <2>1, TileOne
<1>6. Spelling(Append(mid, e)) = Spelling(mid) \o surface
  BY <1>2, <1>3, SpellingOne
<1>7. Runes(0, a) \o Runes(a, b) = Runes(0, b)
  BY RunesFromStart
<1>8. /\ \A r, o : Shows(mid, r, o) => Shows(Append(mid, e), r, o)
      /\ \A o : o.start = a /\ o.end = b => Shows(Append(mid, e), row, o)
  BY <1>2, <1>3, ShowsMore
<1>9. \E s2 : s2 = Append(mid, e)
  OBVIOUS
<1> QED BY <1>1, <1>4, <1>5, <1>6, <1>7, <1>8, <1>9 DEF e, Adds

LEMMA RowIs ==
  ASSUME SpansInv, next <= Len(occs)
  PROVE  /\ next \in DOMAIN occs /\ occs[next] \in RowRecords
         /\ StartOf(occs[next]) \in Nat /\ EndOf(occs[next]) \in Nat
         /\ EndOf(occs[next]) <= size
         /\ ~IsCovered(occs[next]) => /\ cursor <= StartOf(occs[next])
                                      /\ StartOf(occs[next]) <= EndOf(occs[next])
         /\ FromTokens /\ cursor <= occs[next].start =>
              /\ ~IsCovered(occs[next])
              /\ StartOf(occs[next]) = occs[next].start
              /\ EndOf(occs[next]) = occs[next].end
<1>1. /\ next \in DOMAIN occs /\ occs[next] \in RowRecords
      /\ occs[next].start <= size /\ occs[next].start < occs[next].end
  BY DEF SpansInv, SpansTypeOK, SpansSound, RowsFit
<1>2. size \in Nat /\ cursor \in Nat /\ cursor <= size
  BY DEF SpansInv, SpansTypeOK
<1>3. PICK o \in RowRecords : o = occs[next]
  BY <1>1
<1>4. o.start \in Int /\ o.end \in Nat
  BY DEF RowRecords
<1>5. /\ StartOf(o) \in Nat /\ EndOf(o) \in Nat /\ EndOf(o) <= size
      /\ ~IsCovered(o) => cursor <= StartOf(o) /\ StartOf(o) <= EndOf(o)
  BY <1>1, <1>2, <1>3, <1>4 DEF StartOf, EndOf, IsCovered, InSentence
<1>6. ASSUME FromTokens, cursor <= o.start
      PROVE  ~IsCovered(o) /\ StartOf(o) = o.start /\ EndOf(o) = o.end
  <2>1. 0 <= o.start /\ o.end <= size
    BY <1>1, <1>3, <1>6 DEF FromTokens
  <2> QED BY <2>1, <1>2, <1>4, <1>6 DEF StartOf, EndOf, IsCovered, InSentence
<1> QED BY <1>1, <1>3, <1>5, <1>6

LEMMA SpansInit0 == SpansInit => SpansInv
<1> SUFFICES ASSUME SpansInit
             PROVE  SpansInv
  OBVIOUS
<1>1. occs = <<>> /\ Len(occs) = 0 /\ spans = <<>> /\ occs \in Seq(RowRecords)
  BY DEF SpansInit
<1> QED BY <1>1 DEF SpansInit, SpansInv, SpansTypeOK, SpansSound, RowsFit

\* The types follow from what the spans are.
LEMMA TilesBound ==
  ASSUME NEW s, NEW c \in Nat, NEW m \in Nat, NEW n \in Nat, c <= n, Tiles(s, c, m)
  PROVE  \A k \in DOMAIN s : s[k].from \in 0 .. n /\ s[k].to \in 0 .. n /\ s[k].row \in 0 .. m
<1> TAKE k \in DOMAIN s
<1>1. s[k] \in SpanRecords
  BY DEF Tiles
<1>2. s[k].from \in Nat /\ s[k].to \in Nat /\ s[k].row \in Nat
  BY <1>1 DEF SpanRecords
<1> QED BY <1>2 DEF Tiles

LEMMA LoadKeeps ==
  ASSUME SplitInv, SpansInv, splitPc = "done", NEW k \in DOMAIN out,
         NEW rows \in OccurrencesIn(SizeOf(out[k])), LoadSpans(SizeOf(out[k]), rows)
  PROVE  SpansInv'
<1>1. out[k].from \in 1 .. Len(text) /\ out[k].to \in 1 .. Len(text) /\ out[k].from <= out[k].to
  BY DEF SplitInv, SplitSound, Filed
<1>2. PICK n \in 1 .. Len(text) : n = SizeOf(out[k])
  BY <1>1, TextIs DEF SizeOf
<1>3. text \in Texts
  BY DEF SplitInv, SplitSound
<1>4. /\ rows \in Seq(RowRecords)
      /\ \A r \in DOMAIN rows : rows[r].start <= n /\ rows[r].start < rows[r].end
  BY <1>2, <1>3, ReadingAssumption DEF RowRecords
<1>5. /\ size' = n /\ occs' = rows /\ spansPc = "idle" /\ spansPc' = "loop"
      /\ next' = next /\ cursor' = cursor /\ spans' = spans
      /\ next = 1 /\ cursor = 0 /\ spans = <<>>
  BY <1>2 DEF LoadSpans, SpansInv, SpansSound
<1>6. SpansTypeOK'
  BY <1>2, <1>4, <1>5, TextIs DEF SpansTypeOK
<1>7. RowsFit'
  BY <1>4, <1>5 DEF RowsFit
<1>8. Tiles(spans, cursor, Len(rows))
  <2>1. spans \in Seq(SpanRecords) /\ DOMAIN spans = {} /\ Len(rows) \in Nat
    BY <1>4, <1>5
  <2> QED BY <1>5, <2>1 DEF Tiles
<1>9. Spelling(spans) = Runes(0, cursor)
  <2>1. Spelling(<<>>) = <<>>
    <3> DEFINE none == [j \in DOMAIN <<>> |-> <<>>[j].surface]
    <3>1. none = <<>> /\ Len(none) = 0
      OBVIOUS
    <3>2. Spelling(<<>>) = FlattenSeq(none)
      BY DEF Spelling
    <3> HIDE DEF none
    <3> QED BY <3>1, <3>2 DEF FlattenSeq
  <2>2. Runes(0, 0) = <<>>
    BY DEF Runes
  <2> QED BY <1>5, <2>1, <2>2
<1>10. FromTokens' /\ next' <= Len(occs') => cursor' <= occs'[next'].start
  BY <1>4, <1>5 DEF FromTokens
<1>11. SpeltTo(cursor, next - 1)'
  BY <1>5, <1>9 DEF SpeltTo
<1> QED BY <1>5, <1>6, <1>7, <1>8, <1>10, <1>11 DEF SpansInv, SpansSound

LEMMA SkipKeeps ==
  ASSUME SpansInv, SkipCovered
  PROVE  SpansInv'
<1>1. /\ size' = size /\ occs' = occs /\ spansPc = "loop" /\ spansPc' = "loop"
      /\ next' = next + 1 /\ cursor' = cursor /\ spans' = spans
      /\ next <= Len(occs) /\ IsCovered(occs[next])
  BY DEF SkipCovered
<1>2. ~FromTokens
  BY <1>1, RowIs DEF SpansInv, SpansSound
<1>3. ~FromTokens'
  BY <1>1, <1>2 DEF FromTokens
<1>4. Len(occs) \in Nat /\ next \in Nat
  BY DEF SpansInv, SpansTypeOK, SpansSound, RowsFit
<1>5. SpansTypeOK'
  BY <1>1, <1>4 DEF SpansInv, SpansTypeOK
<1> QED BY <1>1, <1>3, <1>5 DEF SpansInv, SpansSound, RowsFit

LEMMA AddWordKeeps ==
  ASSUME SpansInv, AddWord
  PROVE  SpansInv'
<1>1. /\ size' = size /\ occs' = occs /\ spansPc = "loop" /\ spansPc' = "loop"
      /\ next' = next + 1 /\ next <= Len(occs) /\ ~IsCovered(occs[next])
      /\ cursor' = EndOf(occs[next])
  BY DEF AddWord
<1>2. /\ next \in DOMAIN occs /\ next \in Nat /\ size \in Nat /\ Len(occs) \in Nat
      /\ DOMAIN occs = 1 .. Len(occs) /\ cursor \in Nat /\ next >= 1
  BY <1>1, RowIs DEF SpansInv, SpansTypeOK, SpansSound, RowsFit
<1>3. PICK o \in RowRecords : o = occs[next]
  BY <1>1, RowIs
<1>4. PICK a \in Nat : a = StartOf(o)
  BY <1>1, <1>3, RowIs
<1>5. PICK b \in Nat : b = EndOf(o)
  BY <1>1, <1>3, RowIs
<1>6. cursor <= a /\ a <= b /\ b <= size
  BY <1>1, <1>3, <1>4, <1>5, RowIs
<1>7. PICK r \in 1 .. Len(occs) : r = next
  BY <1>2
<1>8. PICK surface \in Seq(Int) : surface = Runes(o.start, o.end)
  <2>1. o.start \in Int /\ o.end \in Int /\ o.start <= o.end
    BY <1>2, <1>3 DEF RowRecords, SpansInv, SpansSound, RowsFit
  <2> QED BY <2>1, RunesJoin
<1>9. spans' = spans \o (IF a > cursor THEN <<GapSpan(cursor, a)>> ELSE <<>>)
               \o <<Span(a, b, r, surface)>>
  BY <1>3, <1>4, <1>5, <1>7, <1>8 DEF AddWord
<1>10. Tiles(spans, cursor, Len(occs))
  BY <1>1 DEF SpansInv, SpansSound
<1>11. /\ Tiles(spans', b, Len(occs))
       /\ Spelling(spans) = Runes(0, cursor) /\ surface = Runes(a, b)
            => Spelling(spans') = Runes(0, b)
       /\ \A row, q : Shows(spans, row, q) => Shows(spans', row, q)
       /\ \A q : q.start = a /\ q.end = b => Shows(spans', r, q)
  <2>1. PICK c \in Nat, m \in Nat, s \in {spans} : c = cursor /\ m = Len(occs)
    BY <1>2
  <2>2. PICK s2 : Adds(s2, s, c, m, a, b, r, surface)
    <3>1. Tiles(s, c, m) /\ c <= a /\ r \in 1 .. m
      BY <1>6, <1>10, <2>1
    <3> QED BY <1>6, <3>1, AddOne
  <2>3. s2 = spans'
    BY <1>9, <2>1, <2>2 DEF Adds
  <2> QED BY <2>1, <2>2, <2>3 DEF Adds
<1>12. cursor' = b
  BY <1>1, <1>3, <1>5
<1>13. SpansTypeOK'
  <2>1. \A k \in DOMAIN spans' : /\ spans'[k].from \in 0 .. size /\ spans'[k].to \in 0 .. size
                                 /\ spans'[k].row \in 0 .. Len(occs)
    BY <1>2, <1>6, <1>11, TilesBound
  <2> QED BY <1>1, <1>2, <1>6, <1>12, <2>1 DEF SpansInv, SpansTypeOK
<1>14. ASSUME FromTokens
       PROVE  SpeltTo(cursor, next - 1)' /\ (next' <= Len(occs) => b <= occs[next'].start)
  <2>1. SpeltTo(cursor, next - 1) /\ cursor <= o.start
    BY <1>1, <1>3, <1>14 DEF SpansInv, SpansSound
  <2>2. a = o.start /\ b = o.end
    BY <1>1, <1>3, <1>4, <1>5, <1>14, <2>1, RowIs
  <2>3. Spelling(spans') = Runes(0, b)
    BY <1>8, <1>11, <2>1, <2>2 DEF SpeltTo
  <2>4. ASSUME NEW row \in 1 .. next' - 1
        PROVE  Shows(spans', row, occs[row])
    <3>1. CASE row = next
      BY <3>1, <1>3, <1>7, <1>11, <2>2
    <3>2. CASE row # next
      <4>1. row \in 1 .. next - 1
        BY <3>2, <1>1, <1>2
      <4> QED BY <4>1, <1>11, <2>1 DEF SpeltTo
    <3> QED BY <3>1, <3>2
  <2>5. next' <= Len(occs) => b <= occs[next'].start
    BY <1>1, <1>2, <1>3, <1>14, <2>2 DEF FromTokens
  <2> QED BY <1>1, <1>12, <2>3, <2>4, <2>5 DEF SpeltTo
<1>15. FromTokens' => FromTokens
  BY <1>1 DEF FromTokens
<1>16. RowsFit'
  BY <1>1 DEF SpansInv, SpansSound, RowsFit
<1> QED BY <1>1, <1>11, <1>12, <1>13, <1>14, <1>15, <1>16 DEF SpansInv, SpansSound

LEMMA LastGapKeeps ==
  ASSUME SpansInv, LastGap
  PROVE  SpansInv'
<1>1. /\ size' = size /\ occs' = occs /\ spansPc = "loop" /\ spansPc' = "done"
      /\ next' = next /\ cursor' = cursor /\ next > Len(occs)
      /\ spans' = IF cursor < size THEN Append(spans, GapSpan(cursor, size)) ELSE spans
  BY DEF LastGap
<1>2. /\ next = Len(occs) + 1 /\ size \in Nat /\ Len(occs) \in Nat
      /\ cursor \in Nat /\ cursor <= size
  BY <1>1 DEF SpansInv, SpansTypeOK, SpansSound, RowsFit
<1>3. Tiles(spans, cursor, Len(occs))
  BY <1>1 DEF SpansInv, SpansSound
<1>4. /\ Tiles(spans', size, Len(occs))
      /\ Spelling(spans) = Runes(0, cursor) => Spelling(spans') = Runes(0, size)
      /\ \A row, q : Shows(spans, row, q) => Shows(spans', row, q)
  <2>1. PICK c \in Nat, m \in Nat, n \in Nat, s \in {spans} :
          c = cursor /\ m = Len(occs) /\ n = size
    BY <1>2
  <2>0. PICK mid : Filled(mid, s, c, m, n)
    <3>1. Tiles(s, c, m) /\ c <= n
      BY <1>2, <1>3, <2>1
    <3> QED BY <3>1, FillGap
  <2>2. /\ mid = IF c < n THEN Append(s, GapSpan(c, n)) ELSE s
        /\ Tiles(mid, n, m)
        /\ Spelling(s) = Runes(0, c) => Spelling(mid) = Runes(0, n)
        /\ \A row, q : Shows(s, row, q) => Shows(mid, row, q)
    BY <2>0 DEF Filled
  <2>3. mid = spans'
    BY <1>1, <2>1, <2>2
  <2> QED BY <2>1, <2>2, <2>3
<1>5. SpansTypeOK'
  <2>1. \A k \in DOMAIN spans' : /\ spans'[k].from \in 0 .. size /\ spans'[k].to \in 0 .. size
                                 /\ spans'[k].row \in 0 .. Len(occs)
    <3>1. PICK m \in Nat, n \in Nat : m = Len(occs) /\ n = size
      BY <1>2
    <3>2. n <= n /\ Tiles(spans', n, m)
      BY <1>4, <3>1
    <3> QED BY <3>1, <3>2, TilesBound
  <2> QED BY <1>1, <2>1 DEF SpansInv, SpansTypeOK
<1>6. ASSUME FromTokens
      PROVE  SpeltTo(size, Len(occs))'
  <2>1. SpeltTo(cursor, next - 1) /\ next - 1 = Len(occs)
    BY <1>1, <1>2, <1>6 DEF SpansInv, SpansSound
  <2> QED BY <1>1, <1>4, <2>1 DEF SpeltTo
<1>7. FromTokens' => FromTokens
  BY <1>1 DEF FromTokens
<1>8. RowsFit'
  BY <1>1 DEF SpansInv, SpansSound, RowsFit
<1> QED BY <1>1, <1>4, <1>5, <1>6, <1>7, <1>8 DEF SpansInv, SpansSound

LEMMA SpansStutter ==
  ASSUME SpansInv, UNCHANGED spansVars
  PROVE  SpansInv'
BY DEF SpansInv, SpansTypeOK, SpansSound, RowsFit, FromTokens, SpeltTo, spansVars

\* What the properties of the spans say.
LEMMA SpansAreWhole ==
  ASSUME SpansInv
  PROVE  SpansTile /\ SpansSpell
<1>1. SpansTile
  <2>1. CASE spansPc = "idle"
    BY <2>1 DEF SpansInv, SpansSound, SpansTile
  <2>2. CASE spansPc = "loop"
    BY <2>2 DEF SpansInv, SpansSound, SpansTile, Tiles
  <2>3. CASE spansPc = "done"
    BY <2>3 DEF SpansInv, SpansSound, SpansTile, Tiles
  <2> QED BY <2>1, <2>2, <2>3 DEF SpansInv, SpansTypeOK
<1>2. SpansSpell
  <2> SUFFICES ASSUME spansPc = "done", FromTokens
               PROVE  /\ Spelling(spans) = Runes(0, size)
                      /\ \A o \in DOMAIN occs :
                           \E k \in DOMAIN spans : /\ spans[k].row = o
                                                   /\ spans[k].from = occs[o].start
                                                   /\ spans[k].to = occs[o].end
    BY DEF SpansSpell
  <2>1. SpeltTo(size, Len(occs)) /\ DOMAIN occs = 1 .. Len(occs)
    BY DEF SpansInv, SpansSound, RowsFit
  <2> QED BY <2>1 DEF SpeltTo, Shows
<1> QED BY <1>1, <1>2

-----------------------------------------------------------------------------
(* The inductive invariant. *)

IInv == SplitInv /\ SpansInv

LEMMA InitIInv == Init => IInv
BY SplitInit0, SpansInit0 DEF Init, IInv

LEMMA StepIInv == IInv /\ [Next]_vars => IInv'
<1> SUFFICES ASSUME IInv, [Next]_vars
             PROVE  IInv'
  OBVIOUS
<1>1. CASE UNCHANGED vars
  BY <1>1, SplitStutters, SpansStutter DEF vars, IInv
<1>2. CASE SplitStep
  <2>1. SplitInv'
    BY <1>2, TrimKeeps, ScanKeeps, CutKeeps, RestKeeps DEF SplitStep, SplitNext, IInv
  <2> QED BY <1>2, <2>1, SpansStutter DEF SplitStep, IInv
<1>3. CASE Show
  <2>1. SpansInv'
    BY <1>3, LoadKeeps DEF Show, IInv
  <2> QED BY <1>3, <2>1, SplitStutters DEF Show, IInv
<1>4. CASE SpansStep
  <2>1. SpansInv'
    BY <1>4, SkipKeeps, AddWordKeeps, LastGapKeeps DEF SpansStep, SpansNext, IInv
  <2> QED BY <1>4, <2>1, SplitStutters DEF SpansStep, IInv
<1> QED BY <1>1, <1>2, <1>3, <1>4 DEF Next

LEMMA Inductive == Spec => []IInv
BY InitIInv, StepIInv, PTL DEF Spec

LEMMA Consequences == IInv => ReadingInv /\ NothingLost /\ OneTerminator /\ SpansSpell
BY FiledIsLossless, SpansAreWhole DEF IInv, SplitInv, SpansInv, ReadingInv, TypeOK

-----------------------------------------------------------------------------
\* Whatever an article says, each of its runes but blanks is filed in exactly one
\* sentence, in order, also between two steps of the loop (SplitSentences).
THEOREM SplittingIsLossless == Spec => []NothingLost
BY Inductive, Consequences, PTL

\* A terminator ends the sentence it belongs to (SplitSentences).
THEOREM TerminatorsEndSentences == Spec => []OneTerminator
BY Inductive, Consequences, PTL

\* Whatever rows a sentence has, overlapping or reaching out of it, its spans lie
\* end to end from its first rune to its last (buildSpans).
THEOREM SpansTileTheSentence == Spec => []ReadingInv
BY Inductive, Consequences, PTL

\* For the rows of a tap the spans spell the sentence and show every word
\* (buildSpans).
THEOREM SpansSpellTheSentence == Spec => []SpansSpell
BY Inductive, Consequences, PTL
=============================================================================
