-------------------------------- MODULE Deck --------------------------------
(***************************************************************************)
(* What extract-on-tap promises the Learner (docs/adr/0006): a Sentence    *)
(* enters the deck whole or not at all, once, and only when it is tapped;  *)
(* Cards come from Sentences in the deck and from nowhere else, and        *)
(* nothing leaves.                                                         *)
(***************************************************************************)
CONSTANTS Sentences,
          WordsOf      \* the Words of a Sentence

VARIABLES added,       \* the Sentences in the deck
          linked,      \* pairs of a Sentence and a Word that occurs in it
          carded       \* the Words that have a Card
vars == <<added, linked, carded>>

Init == added = {} /\ linked = {} /\ carded = {}

Add(s) ==
  /\ s \notin added
  /\ added' = added \cup {s}
  /\ linked' = linked \cup {<<s, w>> : w \in WordsOf[s]}
  /\ carded' = carded \cup WordsOf[s]

Next == \E s \in Sentences : Add(s)

Spec == Init /\ [][Next]_vars

\* The deck is a function of the Sentences in it.
Whole == /\ linked = {p \in Sentences \X UNION {WordsOf[s] : s \in Sentences} :
                        p[1] \in added /\ p[2] \in WordsOf[p[1]]}
         /\ carded = UNION {WordsOf[s] : s \in added}
=============================================================================
