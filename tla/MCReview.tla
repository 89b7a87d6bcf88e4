------------------------------ MODULE MCReview ------------------------------
(***************************************************************************)
(* Values for the runs of Review.  A day is 3 ticks and the learning steps *)
(* 1 and 2, so that a card can be due again on its own day, on the next    *)
(* one, and (after Easy) past the last instant.                            *)
(***************************************************************************)
EXTENDS Review, TLC

CONSTANTS w1, w2, w3, s1, s2, s3, t1, t2

MCLearningSteps == <<1, 2>>

\* s1 and s2 share a word.
MCCandidates ==
  [s \in Sentences |-> CASE s = s1 -> <<w1>> [] s = s2 -> <<w2, w1>> [] s = s3 -> <<w1, w2, w3>>]

TabSymmetry == Permutations(Tabs)
=============================================================================
