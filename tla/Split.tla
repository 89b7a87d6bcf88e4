-------------------------------- MODULE Split --------------------------------
(***************************************************************************)
(* SplitSentences of internal/analyze: the loop that cuts the text of an   *)
(* article into the Sentences StoreArticle files, one step per rune.       *)
(*                                                                         *)
(* A text is the sequence of the kinds of its runes: what the loop does    *)
(* depends on nothing else.  A segment is the interval of its positions.   *)
(***************************************************************************)
EXTENDS Integers, Sequences

CONSTANTS Texts                      \* the texts of articles

Kinds == {"terminator", "space", "other"}

ASSUME TextsAssumption == Texts \subseteq Seq(Kinds)

VARIABLES text, splitPc, last, i, start, out

splitVars == <<text, splitPc, last, i, start, out>>

Segments == [from : Nat, to : Nat]

SplitTypeOK ==
  /\ text \in Seq(Kinds)
  /\ splitPc \in {"trim", "scan", "done"}
  /\ last \in 0 .. Len(text)
  /\ i \in 1 .. Len(text) + 1
  /\ start \in 1 .. Len(text) + 1
  /\ out \in Seq(Segments)

IsTerminator(p) == text[p] = "terminator"
Ink(a, b) == {p \in a .. b : text[p] # "space"}

\* strings.TrimSpace of the positions a .. b, when they are not all blank.
IsTrimmed(seg, a, b) ==
  /\ seg.from \in Ink(a, b) /\ seg.to \in Ink(a, b)
  /\ Ink(a, b) \subseteq seg.from .. seg.to

\* The segment of a .. b is appended, trimmed, unless it is empty.
Emit(a, b) ==
  IF Ink(a, b) = {}
  THEN UNCHANGED out
  ELSE \E from, to \in a .. b :
         /\ IsTrimmed([from |-> from, to |-> to], a, b)
         /\ out' = Append(out, [from |-> from, to |-> to])

SplitInit ==
  /\ text \in Texts
  /\ splitPc = "trim"
  /\ last = 0 /\ i = 1 /\ start = 1
  /\ out = <<>>

\* The whole text is trimmed; a blank one has no sentences.
Trim ==
  /\ splitPc = "trim"
  /\ IF Ink(1, Len(text)) = {}
     THEN splitPc' = "done" /\ UNCHANGED <<last, i, start>>
     ELSE \E from, to \in DOMAIN text :
            /\ IsTrimmed([from |-> from, to |-> to], 1, Len(text))
            /\ splitPc' = "scan" /\ last' = to /\ i' = from /\ start' = from
  /\ UNCHANGED <<text, out>>

Scan ==
  /\ splitPc = "scan" /\ i <= last /\ ~IsTerminator(i)
  /\ i' = i + 1
  /\ UNCHANGED <<text, splitPc, last, start, out>>

\* MUTANT: the terminator opens the next sentence.
CutBefore ==
  /\ splitPc = "scan" /\ i <= last /\ IsTerminator(i)
  /\ Emit(start, i - 1)
  /\ start' = i /\ i' = i + 1
  /\ UNCHANGED <<text, splitPc, last>>

\* MUTANT: a sentence that is only a terminator is dropped as empty.
CutDropsLone ==
  /\ splitPc = "scan" /\ i <= last /\ IsTerminator(i)
  /\ IF start = i THEN UNCHANGED out ELSE Emit(start, i)
  /\ start' = i + 1 /\ i' = i + 1
  /\ UNCHANGED <<text, splitPc, last>>

\* A terminator ends the sentence it belongs to.
Cut ==
  /\ splitPc = "scan" /\ i <= last /\ IsTerminator(i)
  /\ Emit(start, i)
  /\ start' = i + 1 /\ i' = i + 1
  /\ UNCHANGED <<text, splitPc, last>>

\* What follows the last terminator is a sentence too.
Rest ==
  /\ splitPc = "scan" /\ i > last
  /\ Emit(start, last)
  /\ splitPc' = "done"
  /\ UNCHANGED <<text, last, i, start>>

SplitNext == Trim \/ Scan \/ Cut \/ Rest

-----------------------------------------------------------------------------
\* The positions the loop has dealt with.
Handled == IF splitPc = "done" THEN DOMAIN text ELSE 1 .. start - 1

\* No rune of an article is lost or repeated on its way into sentences: as far as
\* the loop has come, each rune but blanks is in exactly one segment, segments
\* follow each other in the order of the text and begin and end with no blank.
NothingLost ==
  /\ splitPc # "trim" =>
       \A p \in Handled : text[p] # "space" =>
         \E k \in DOMAIN out : p \in out[k].from .. out[k].to
  /\ \A k \in DOMAIN out : /\ out[k].from <= out[k].to
                           /\ {out[k].from, out[k].to} \subseteq Ink(1, Len(text))
  /\ \A k \in DOMAIN out : k + 1 \in DOMAIN out => out[k].to < out[k + 1].from

\* "Terminators stay attached to the preceding sentence" (sentences.go): a
\* terminator is the last rune of its sentence, and only the last sentence of a
\* text may lack one; repeated terminators are sentences of their own.
OneTerminator ==
  \A k \in DOMAIN out :
    /\ \A p \in out[k].from .. out[k].to : IsTerminator(p) => p = out[k].to
    /\ k < Len(out) => IsTerminator(out[k].to)
=============================================================================
