-------------------------------- MODULE Spans --------------------------------
(***************************************************************************)
(* buildSpans of internal/review: the shown Sentence as spans, one for each *)
(* occurrence of a word and one for each gap between them, one step per    *)
(* occurrence.                                                             *)
(*                                                                         *)
(* A sentence is the number of its runes, a span the rune offsets it       *)
(* covers, its surface the offsets whose runes it shows, and a word is the *)
(* occurrence row it comes from.  A row's surface is not empty: Candidates *)
(* skips such tokens.                                                      *)
(***************************************************************************)
EXTENDS Integers, SequencesExt

VARIABLES
  size,             \* the runes of the sentence
  occs,             \* its rows of sentence_words, ORDER BY char_start, id
  spansPc, next, cursor, spans

spansVars == <<size, occs, spansPc, next, cursor, spans>>

Gap == 0            \* the row of a span that is no word

\* The offsets from .. to - 1, as a sequence.
Runes(from, to) == [k \in 1 .. to - from |-> from + k - 1]

Span(from, to, row, surface) ==
  [from |-> from, to |-> to, row |-> row, surface |-> surface]

\* MUTANT: the slice of the gap's runes is a rune short.
GapSpanShort(from, to) == Span(from, to, Gap, Runes(from, to - 1))

GapSpan(from, to) == Span(from, to, Gap, Runes(from, to))

SpansTypeOK ==
  /\ size \in Nat
  /\ spansPc \in {"idle", "loop", "done"}
  /\ next \in 1 .. Len(occs) + 1
  /\ cursor \in 0 .. size
  /\ \A k \in DOMAIN spans : spans[k].from \in 0 .. size /\ spans[k].to \in 0 .. size
                              /\ spans[k].row \in 0 .. Len(occs)

\* A row is clamped to the sentence, and to what is not shown yet.
InSentence(o) == IF o.start < 0 THEN 0 ELSE o.start
StartOf(o) == IF InSentence(o) < cursor THEN cursor ELSE InSentence(o)

EndOf(o) == IF o.end > size THEN size ELSE o.end
IsCovered(o) == InSentence(o) < cursor /\ EndOf(o) <= cursor

SpansInit ==
  /\ size = 0 /\ occs = <<>>
  /\ spansPc = "idle" /\ next = 1 /\ cursor = 0 /\ spans = <<>>

\* loadSpans has read the rows of a sentence of n runes.
LoadSpans(n, rows) ==
  /\ spansPc = "idle"
  /\ size' = n /\ occs' = rows
  /\ spansPc' = "loop"
  /\ UNCHANGED <<next, cursor, spans>>

\* An occurrence whose runes are shown already is left out.
SkipCovered ==
  /\ spansPc = "loop" /\ next <= Len(occs)
  /\ IsCovered(occs[next])
  /\ next' = next + 1
  /\ UNCHANGED <<size, occs, spansPc, cursor, spans>>

\* MUTANT: an occurrence that begins before the cursor is not moved up to it.
AddWordUnclamped ==
  /\ spansPc = "loop" /\ next <= Len(occs)
  /\ LET o == occs[next]
         gap == IF InSentence(o) > cursor THEN <<GapSpan(cursor, InSentence(o))>> ELSE <<>>
     IN /\ ~IsCovered(o)
        /\ spans' = spans \o gap
                    \o <<Span(InSentence(o), EndOf(o), next, Runes(o.start, o.end))>>
        /\ cursor' = EndOf(o)
  /\ next' = next + 1
  /\ UNCHANGED <<size, occs, spansPc>>

\* The gap up to an occurrence, if there is one, and the occurrence.
AddWord ==
  /\ spansPc = "loop" /\ next <= Len(occs)
  /\ LET o == occs[next]
         gap == IF StartOf(o) > cursor THEN <<GapSpan(cursor, StartOf(o))>> ELSE <<>>
     IN /\ ~IsCovered(o)
        /\ spans' = spans \o gap \o <<Span(StartOf(o), EndOf(o), next, Runes(o.start, o.end))>>
        /\ cursor' = EndOf(o)
  /\ next' = next + 1
  /\ UNCHANGED <<size, occs, spansPc>>

\* The gap after the last occurrence: the whole sentence if there is none.
LastGap ==
  /\ spansPc = "loop" /\ next > Len(occs)
  /\ spans' = IF cursor < size THEN Append(spans, GapSpan(cursor, size)) ELSE spans
  /\ spansPc' = "done"
  /\ UNCHANGED <<size, occs, next, cursor>>

SpansNext == SkipCovered \/ AddWord \/ LastGap

-----------------------------------------------------------------------------
\* The rows a tap writes: the tokens of the sentence do not overlap.
FromTokens ==
  \A k \in DOMAIN occs :
    /\ 0 <= occs[k].start /\ occs[k].end <= size
    /\ k + 1 \in DOMAIN occs => occs[k].end <= occs[k + 1].start

\* What a reader of the spans sees.
Spelling(parts) == FlattenSeq([k \in DOMAIN parts |-> parts[k].surface])

\* buildSpans "fills the sentence with word spans and plain-text gaps (rune
\* offsets)": whatever the rows, overlapping or reaching out of the sentence,
\* the spans lie end to end from its first rune to the last.
SpansTile ==
  /\ \A k \in DOMAIN spans :
       /\ spans[k].from <= spans[k].to
       /\ spans[k].from = IF k = 1 THEN 0 ELSE spans[k - 1].to
  /\ LET shownTo == IF spans = <<>> THEN 0 ELSE spans[Len(spans)].to
     IN /\ spansPc = "loop" => cursor = shownTo
        /\ spansPc = "done" => size = shownTo

\* For the rows of a tap the surfaces spell the sentence, rune for rune, and
\* every occurrence is shown, so the word under review is there to be read.
SpansSpell ==
  spansPc = "done" /\ FromTokens =>
    /\ Spelling(spans) = Runes(0, size)
    /\ \A o \in DOMAIN occs :
         \E k \in DOMAIN spans : /\ spans[k].row = o
                                 /\ spans[k].from = occs[o].start /\ spans[k].to = occs[o].end
=============================================================================
