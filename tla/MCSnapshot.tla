----------------------------- MODULE MCSnapshot -----------------------------
(***************************************************************************)
(* Values for the run of Snapshot: an article of two sentences of a word   *)
(* each; a cap of one on both parts of an export, so that each ends below, *)
(* at and past it; a learning step of half a day.  A card graduates with a *)
(* day, exactly the threshold that is set, and an easy one with 21 days,   *)
(* exactly the one that stands in for none.                                *)
(***************************************************************************)
EXTENDS Snapshot

CONSTANTS w1, w2, s1, s2, a1

MCLearningSteps == <<1>>
MCCandidates == [s \in Sentences |-> IF s = s1 THEN <<w1>> ELSE <<w2>>]
MCSentencesOf == [a \in Articles |-> Sentences]
=============================================================================
