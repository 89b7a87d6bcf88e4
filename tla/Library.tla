------------------------------ MODULE Library ------------------------------
(***************************************************************************)
(* What Scrape promises of the library: an Article is filed under its      *)
(* Source and external id once, with all the Sentences of one version of   *)
(* its text, and is never changed or removed.                              *)
(***************************************************************************)
CONSTANTS Keys,          \* pairs of a Source and an external id
          Texts,
          SentencesOf    \* the Sentences of a text

VARIABLE shelf           \* the Sentences of each Article there is

Init == shelf = << >>

Store(k, text) ==
  /\ k \notin DOMAIN shelf
  /\ shelf' = [x \in DOMAIN shelf \cup {k} |-> IF x = k THEN SentencesOf[text] ELSE shelf[x]]

Next == \E k \in Keys, text \in Texts : Store(k, text)

Spec == Init /\ [][Next]_shelf
=============================================================================
