------------------------------ MODULE MCDriftMath ------------------------------
(* Bounded inputs of the functions of Training and DriftMath for TLC.      *)
EXTENDS DriftMath

\* Two or three validation rows, one or two of them positive.
SmallDatasets == {<<10, 5>>, <<15, 5>>, <<15, 10>>}
=============================================================================
