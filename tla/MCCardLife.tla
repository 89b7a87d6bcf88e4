----------------------------- MODULE MCCardLife -----------------------------
(* One card under DefaultParams; a tick is a minute. *)
EXTENDS CardLife

MCLearningSteps == <<1, 10>>
MCInstants == {0, 5, 1440}
=============================================================================
