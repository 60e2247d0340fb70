------------------------------ MODULE MCLoadOff ------------------------------
(* Instances of LoadOff for TLC. *)
EXTENDS LoadOff

\* A hanging load, and one off the hook.
MCEfforts == {1, 4}

\* Under the floor, on the target, over it by more than a landing may be.
MCHeights == {-2, 0, 2}
=============================================================================
