--------------------------- MODULE MCMoveComplete ---------------------------
(* Instances of MoveComplete for TLC. *)
EXTENDS MoveComplete

\* Off the goal and running, at the goal and stopped.
MCTwoSamples == {[near |-> FALSE, moving |-> TRUE],
                 [near |-> TRUE,  moving |-> FALSE]}

\* With a bound, the rates count, and UNKNOWN never does whatever its rates.
MCBoundedVerdicts == {[settled |-> "NO",      under |-> TRUE],
                      [settled |-> "UNKNOWN", under |-> TRUE]}

\* A load that reads settled, and nothing else.
MCSettledVerdict == {[settled |-> "YES", under |-> TRUE]}

\* A standing crane, and nothing else.
MCStandingSample == {[near |-> TRUE, moving |-> FALSE]}
=============================================================================
