--------------------------- MODULE MCOperatorGuided ---------------------------
(* OperatorGuided for TLC: its positions, which a configuration file cannot negate. *)
EXTENDS OperatorGuided

MCSightings == {-1, 2}
MCGrips == {-2, 0, 1}
=============================================================================
