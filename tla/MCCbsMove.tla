------------------------------ MODULE MCCbsMove ------------------------------
(* Instances of CbsMove for TLC. *)
EXTENDS CbsMove

\* A hanging load, and one off the hook.
MCEfforts == {1, 4}

\* On the target.
MCTarget == {0}
=============================================================================
