---------------------------- MODULE MCRoutineApp ----------------------------
(* RoutineApp with two slots and a day of a few minutes. *)
EXTENDS RoutineApp

MCIds     == {1, 2}
MCDefault == <<1, 3>>
MCFile    == {<<1, 3>>, <<2, 3>>}
=============================================================================
