------------------------------- MODULE Reading -------------------------------
(***************************************************************************)
(* From the text of an article to a Sentence on the review page:           *)
(* SplitSentences files the sentences, a tap stores the occurrences of one, *)
(* buildSpans shows it.                                                    *)
(***************************************************************************)
EXTENDS Split, Spans

CONSTANTS
  OccurrencesIn(_)     \* the rows a sentence of that many runes may have

\* A row begins no later than the sentence ends (buildSpans panics on a gap that
\* reaches past it) and covers a rune or more, also where it reaches out of it.
ASSUME ReadingAssumption ==
  \A n \in UNION {1 .. Len(t) : t \in Texts} : \A rows \in OccurrencesIn(n) :
    /\ rows \in Seq([start : Int, end : Nat])
    /\ \A k \in DOMAIN rows : rows[k].start <= n /\ rows[k].start < rows[k].end

VARIABLE shown         \* the segment that is shown

vars == <<splitVars, spansVars, shown>>

SizeOf(seg) == seg.to - seg.from + 1

TypeOK == SplitTypeOK /\ SpansTypeOK

Init == SplitInit /\ SpansInit /\ shown = [from |-> 0, to |-> 0]

SplitStep == SplitNext /\ UNCHANGED <<spansVars, shown>>

\* A filed sentence of which a word is under review.
Show ==
  /\ splitPc = "done"
  /\ \E k \in DOMAIN out :
       /\ shown' = out[k]
       /\ \E rows \in OccurrencesIn(SizeOf(out[k])) : LoadSpans(SizeOf(out[k]), rows)
  /\ UNCHANGED splitVars

SpansStep == SpansNext /\ UNCHANGED <<splitVars, shown>>

Next == SplitStep \/ Show \/ SpansStep

Spec == Init /\ [][Next]_vars

\* The invariant of both loops: no offset leaves its text or sentence, and the
\* spans lie end to end (SplitSentences, buildSpans).
ReadingInv == TypeOK /\ SpansTile
=============================================================================
