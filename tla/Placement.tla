------------------------------ MODULE Placement ------------------------------
(***************************************************************************)
(* What the place subtrees promise of the block in the jaws, whichever way *)
(* they are entered and wherever they are stopped: it is let go only while *)
(* it rests on the ground and after its placed pose has been written, and  *)
(* crane_mpc is told of the empty hook only after the jaws have opened.    *)
(* Module PlaceBlock is shown to implement this.                           *)
(***************************************************************************)
CONSTANT MpcDrives      \* crane_mpc drives the crane

VARIABLES
    outcome,    \* BUSY while a place runs, else how the last one ended
    load,       \* the block hangs from the hook, rests on the ground, or is let go
    status,     \* its task status in the world model
    payload     \* crane_mpc models the block on the hook

vars == <<outcome, load, status, payload>>

InJaws == load \in {"hook", "ground"}

Init ==
    /\ outcome = "none"
    /\ load = "hook"
    /\ status = "MOVE"
    /\ payload \in BOOLEAN

\* The pick hands over a block in the jaws, marked and made known to crane_mpc.
Begin ==
    /\ outcome # "BUSY"
    /\ outcome' = "BUSY"
    /\ \/ InJaws /\ status = "MOVE" /\ UNCHANGED <<load, status>>
       \/ load' = "hook" /\ status' = "MOVE"
    /\ payload' \in {payload, TRUE}

\* A step of a running place goes on, or ends the place as a failure.
Goes == outcome = "BUSY" /\ outcome' \in {"BUSY", "FAILURE", "CANCELLED"}

Carry ==
    /\ Goes
    /\ InJaws
    /\ load' \in {"hook", "ground"}
    /\ UNCHANGED <<status, payload>>

Record ==
    /\ Goes
    /\ load = "ground"
    /\ status' = "PLACED"
    /\ UNCHANGED <<load, payload>>

LetGo ==
    /\ Goes
    /\ load = "ground" /\ status = "PLACED"
    /\ load' = "set"
    /\ UNCHANGED <<status, payload>>

Clear ==
    /\ Goes
    /\ load = "set"
    /\ payload' = FALSE
    /\ UNCHANGED <<load, status>>

Stop == Goes /\ UNCHANGED <<load, status, payload>>

Succeed ==
    /\ outcome = "BUSY"
    /\ load = "set" /\ status = "PLACED" /\ (MpcDrives => ~payload)
    /\ outcome' = "SUCCESS"
    /\ UNCHANGED <<load, status, payload>>

Next == Begin \/ Carry \/ Record \/ LetGo \/ Clear \/ Stop \/ Succeed

Spec == Init /\ [][Next]_vars
=============================================================================
