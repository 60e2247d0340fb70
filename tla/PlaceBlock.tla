------------------------------ MODULE PlaceBlock ------------------------------
(***************************************************************************)
(* The place subtrees: approach, correction in the air, angled entry,      *)
(* touchdown, release, and the branch for early ground contact.            *)
(*                                                                         *)
(* They share the control of one tree, told apart by the route that is     *)
(* taken: angled (SubTreePlaceBlock), simple (the same with                *)
(* place_vertical), setdown (SubTreeSetDown, the regrip) and hover         *)
(* (SubTreePlaceFromHover).  One call of an action or a service is a step. *)
(* A descent is what module CbsMove says of it: it arrives, it ends on     *)
(* load-off, or it fails.  A lateral miss is one of the bands the scripts  *)
(* tell apart: on (under 1 cm), near (under 5 cm), far.                    *)
(***************************************************************************)
EXTENDS Integers

CONSTANTS
    Routes,         \* the routes to consider, a subset of Route
    Attempts,       \* num_attempts of the two RetryUntilSuccessful
    Passes,         \* num_cycles of the correction's Repeat
    MpcDrives,      \* a2b_mpc_drives
    MaxPace         \* bound: overrides left on slow_down the model counts

Route == {"angled", "simple", "setdown", "hover"}

ASSUME RouteAssumption == Routes \subseteq Route /\ MpcDrives \in BOOLEAN

ASSUME BoundAssumption ==
    /\ Attempts \in Nat \ {0}
    /\ Passes \in Nat \ {0}
    /\ MaxPace \in Nat \ {0}

VARIABLES
    pc,         \* the call the tree makes next
    route,      \* how this place was entered
    result,     \* how the last place ended
    attempt,    \* of the approach
    entry,      \* attempt of the angled entry
    pass,       \* cycle of the correction
    miss,       \* lateral miss of the block against where it was sent
    stillOff,   \* still_off
    corrDone,   \* corr_done
    loadOff,    \* load_off
    pace,       \* overrides on slow_down that were not taken back
    load,       \* where the block is
    status,     \* its task status in the world model
    payload,    \* crane_mpc models the block on the hook
    seen,       \* history: the miss that was measured last in this approach
    shifts      \* history: corrective descents since that measurement

flagVars  == <<stillOff, corrDone>>
countVars == <<attempt, entry, pass>>
blockVars == <<load, status, payload>>
histVars  == <<seen, shifts>>
vars == <<pc, route, result, countVars, miss, flagVars, loadOff, pace, blockVars, histVars>>

Band == {"on", "near", "far"}

ControlOK ==
    /\ pc \in {"idle", "above", "waypoint", "measure", "shift", "final", "entry",
               "touchdown", "assess", "clear", "backoff", "write", "open", "unload", "away"}
    /\ result \in {"none", "SUCCESS", "FAILURE", "CANCELLED"}

CountOK ==
    /\ attempt \in 1..Attempts
    /\ entry \in 1..Attempts
    /\ pass \in 1..Passes
    /\ pace \in 0..MaxPace
    /\ shifts \in 0..2

BlockOK ==
    /\ route \in Route
    /\ miss \in Band
    /\ load \in {"hook", "ground", "set", "dropped"}
    /\ status \in {"MOVE", "PLACED"}
    /\ seen \in Band \cup {"none"}

FlagOK ==
    /\ stillOff \in BOOLEAN
    /\ corrDone \in BOOLEAN
    /\ loadOff \in BOOLEAN
    /\ payload \in BOOLEAN

TypeOK == ControlOK /\ CountOK /\ BlockOK /\ FlagOK

InJaws == load \in {"hook", "ground"}

-----------------------------------------------------------------------------
(* Where a call leads. *)

Goto(step) == pc' = step /\ UNCHANGED result

End(how) == pc' = "idle" /\ result' = how

\* An approach that failed lifts and tries again, where the route has a retry.
Retreat == IF route \in {"angled", "simple"} THEN Goto("backoff") ELSE End("FAILURE")

\* Mutant: the rest of the chain runs although the block is down.
LeaveAnyway ==
    IF route \in {"angled", "hover"} THEN Goto("entry") ELSE Goto("touchdown")

\* The waypoint is done with: on early contact nothing of the chain is left.
Leave ==
    IF loadOff' THEN Goto("assess")
    ELSE IF route \in {"angled", "hover"} THEN Goto("entry") ELSE Goto("touchdown")

\* Mutant: the last cycle's descent ends the approach (issue 281).
LeaveUnmeasured == IF loadOff' THEN Goto("assess") ELSE Goto("entry")

\* The Repeat succeeds with corr_done false: the last shift is measured once more.
AfterLastCycle == Goto("final")

\* Mutant: the cycles are not counted.
NeverLast == FALSE

LastCycle == pass = Passes

\* Mutant: the placed pose is left out.
ReleaseUnrecorded == Goto("open")

Release == Goto("write")

\* Mutant: early contact as a Fallback of release and lift.
LiftInstead == IF loadOff THEN Goto("clear") ELSE End("FAILURE")

ReleaseFails == End("FAILURE")

\* Mutant: a touchdown that failed is released all the same.
ReleaseInTheAir == Goto("write")

TouchdownFails == End("FAILURE")

-----------------------------------------------------------------------------
(* The outcomes of a descent with the load-off watch beside it.  A descent    *)
(* that arrives or fails may touch the ground without the hook unloading.     *)

Moved == load' \in {"hook", "ground"} /\ miss' \in Band

Arrives == Moved /\ loadOff' = FALSE

Touches == Moved /\ load' = "ground" /\ loadOff' = TRUE

FallsShort == Moved /\ loadOff' = FALSE

\* The carrying lift: a plan that fails leaves slow_down multiplied.
CarryingLift ==
    /\ loadOff' = FALSE
    /\ \/ load' = "hook" /\ UNCHANGED pace
       \/ UNCHANGED <<load, pace>>
       \/ UNCHANGED load /\ pace' = IF pace < MaxPace THEN pace + 1 ELSE pace
    /\ UNCHANGED <<miss, status, payload>>

-----------------------------------------------------------------------------
(* The approach. *)

Above ==
    /\ pc = "above"
    /\ loadOff' = FALSE
    /\ miss' \in Band
    /\ \/ load' = "hook" /\ Goto("waypoint")
       \/ load' \in {load, "hook"} /\ Retreat
    /\ UNCHANGED <<route, countVars, flagVars, pace, status, payload, histVars>>

Waypoint ==
    /\ pc = "waypoint"
    /\ stillOff' = TRUE
    /\ corrDone' = FALSE
    /\ pass' = 1
    /\ entry' = 1
    /\ seen' = "none"
    /\ shifts' = 0
    /\ \/ Arrives /\ route # "setdown" /\ Goto("measure")
       \/ Arrives /\ route = "setdown" /\ Leave
       \/ Touches /\ Leave
       \/ FallsShort /\ Retreat
    /\ UNCHANGED <<route, attempt, pace, status, payload>>

\* A measurement that cannot be made, or reads the block too low, fails the approach.
Measure ==
    /\ pc = "measure"
    /\ UNCHANGED <<route, countVars, miss, loadOff, pace, blockVars>>
    /\ \/ Retreat /\ UNCHANGED <<flagVars, histVars>>
       \/ /\ seen' = miss
          /\ shifts' = 0
          /\ stillOff' = (miss = "far")
          /\ corrDone' = (miss = "on")
          /\ IF miss = "on" THEN Leave ELSE Goto("shift")

\* Only the simple route measures after every shift: the others leave after one that
\* started within 5 cm.
LastShift == route # "simple" /\ ~stillOff

Shift ==
    /\ pc = "shift"
    /\ \/ /\ Arrives
          /\ shifts' = IF shifts < 2 THEN shifts + 1 ELSE shifts
          /\ corrDone' = LastShift
          /\ \/ LastShift /\ Leave /\ UNCHANGED pass
             \/ ~LastShift /\ LastCycle /\ AfterLastCycle /\ UNCHANGED pass
             \/ ~LastShift /\ ~LastCycle /\ pass' = pass + 1 /\ Goto("measure")
       \/ Touches /\ corrDone' = TRUE /\ Leave /\ UNCHANGED <<pass, shifts>>
       \/ FallsShort /\ Retreat /\ UNCHANGED <<corrDone, pass, shifts>>
    /\ UNCHANGED <<route, attempt, entry, stillOff, pace, status, payload, seen>>

FinalMeasure ==
    /\ pc = "final"
    /\ UNCHANGED <<route, countVars, miss, flagVars, loadOff, pace, blockVars>>
    /\ \/ Retreat /\ UNCHANGED histVars
       \/ /\ seen' = miss
          /\ shifts' = 0
          /\ IF miss = "far" THEN Retreat ELSE Leave

\* Mutant: the attempts are not counted.
BackoffForEver ==
    /\ pc = "backoff"
    /\ CarryingLift
    /\ Goto("above")
    /\ UNCHANGED <<route, countVars, flagVars, histVars>>

\* ForceFailure over the lift: the attempt has failed whatever the lift does.
Backoff ==
    /\ pc = "backoff"
    /\ CarryingLift
    /\ IF attempt < Attempts THEN attempt' = attempt + 1 /\ Goto("above")
                             ELSE End("FAILURE") /\ UNCHANGED attempt
    /\ UNCHANGED <<route, entry, pass, flagVars, histVars>>

-----------------------------------------------------------------------------
(* Entry, touchdown and release. *)

Entry ==
    /\ pc = "entry"
    /\ \/ Arrives /\ Goto("touchdown") /\ UNCHANGED entry
       \/ Touches /\ Goto("assess") /\ UNCHANGED entry
       \/ /\ FallsShort
          /\ IF entry < Attempts THEN entry' = entry + 1 /\ Goto("entry")
                                 ELSE End("FAILURE") /\ UNCHANGED entry
    /\ UNCHANGED <<route, attempt, pass, flagVars, pace, status, payload, histVars>>

\* The landing gate ends it.  A landing that failed keeps its failure, load_off or
\* not, and the touchdown's own override on slow_down.
Touchdown ==
    /\ pc = "touchdown"
    /\ \/ Touches /\ Release /\ UNCHANGED pace
       \/ /\ Touches \/ FallsShort
          /\ TouchdownFails
          /\ pace' = IF pace < MaxPace THEN pace + 1 ELSE pace
    /\ UNCHANGED <<route, countVars, flagVars, status, payload, histVars>>

\* Early contact: laterally on the slot the block is let go, else it is lifted clear.
Assess ==
    /\ pc = "assess"
    /\ \/ End("FAILURE")
       \/ miss # "far" /\ Release
       \/ miss = "far" /\ Goto("clear")
    /\ UNCHANGED <<route, countVars, miss, flagVars, loadOff, pace, blockVars, histVars>>

LiftClear ==
    /\ pc = "clear"
    /\ CarryingLift
    /\ End("FAILURE")
    /\ UNCHANGED <<route, countVars, flagVars, histVars>>

\* A call that is not answered may have been served.
Write ==
    /\ pc = "write"
    /\ \/ status' = "PLACED" /\ Goto("open")
       \/ status' \in {status, "PLACED"} /\ ReleaseFails
    /\ UNCHANGED <<route, countVars, miss, flagVars, loadOff, pace, load, payload, histVars>>

LetGo == load' = IF load = "ground" THEN "set" ELSE "dropped"

Open ==
    /\ pc = "open"
    /\ \/ LetGo /\ Goto("unload")
       \/ (LetGo \/ UNCHANGED load) /\ ReleaseFails
    /\ UNCHANGED <<route, countVars, miss, flagVars, loadOff, pace, status, payload, histVars>>

\* SetMpcPayload is fatal only where crane_mpc drives.
Unload ==
    /\ pc = "unload"
    /\ \/ payload' = FALSE /\ Goto("away")
       \/ /\ payload' \in {payload, FALSE}
          /\ IF MpcDrives THEN ReleaseFails ELSE Goto("away")
    /\ UNCHANGED <<route, countVars, miss, flagVars, loadOff, pace, load, status, histVars>>

Away ==
    /\ pc = "away"
    /\ \/ End("SUCCESS") /\ loadOff' = FALSE
       \/ ReleaseFails /\ loadOff' = FALSE
    /\ UNCHANGED <<route, countVars, miss, flagVars, pace, blockVars, histVars>>

-----------------------------------------------------------------------------

\* The block is in the jaws: taken over from a place that was stopped, while it is
\* still on record as carried, or picked.  A place that succeeded may be followed by
\* the next in the same run, which keeps the pace.
StartPlace(r) ==
    /\ pc = "idle"
    /\ pc' = IF r = "hover" THEN "waypoint" ELSE "above"
    /\ route' = r
    /\ result' = "none"
    /\ attempt' = 1
    /\ entry' = 1
    /\ pass' = 1
    /\ loadOff' = FALSE
    /\ pace' \in IF result = "SUCCESS" THEN {pace, 0} ELSE {0}
    /\ IF InJaws /\ status = "MOVE" THEN UNCHANGED <<load, status>>
                                    ELSE load' = "hook" /\ status' = "MOVE"
    /\ payload' \in IF MpcDrives THEN {TRUE} ELSE {payload, TRUE}
    /\ seen' = "none"
    /\ shifts' = 0
    /\ UNCHANGED <<miss, flagVars>>

\* The run is cancelled between two calls.
Cancel ==
    /\ pc # "idle"
    /\ End("CANCELLED")
    /\ UNCHANGED <<route, countVars, miss, flagVars, loadOff, pace, blockVars, histVars>>

Init ==
    /\ pc = "idle"
    /\ route \in Routes
    /\ result = "none"
    /\ attempt = 1
    /\ entry = 1
    /\ pass = 1
    /\ miss = "far"
    /\ stillOff = TRUE
    /\ corrDone = FALSE
    /\ loadOff = FALSE
    /\ pace = 0
    /\ load = "hook"
    /\ status = "MOVE"
    /\ payload = TRUE
    /\ seen = "none"
    /\ shifts = 0

Approach == Above \/ Waypoint \/ Measure \/ Shift \/ FinalMeasure \/ Backoff

Finish ==
    \/ Entry \/ Touchdown \/ Assess \/ LiftClear \/ Write \/ Open \/ Unload \/ Away

Next ==
    \/ \E r \in Routes : StartPlace(r)
    \/ Approach
    \/ Finish
    \/ Cancel

Spec == Init /\ [][Next]_vars

\* The calls that move the arm or the jaws.  Each waits in GetUserApproval, which has no
\* timeout, and then for the end of its goal.
Motion ==
    \/ Above \/ Waypoint \/ Shift \/ Backoff
    \/ Entry \/ Touchdown \/ LiftClear \/ Open \/ Away

\* The calls that do not: each has a timeout or a window of its own.
Service == Measure \/ FinalMeasure \/ Assess \/ Write \/ Unload

\* What the code itself guarantees: no service call keeps the tree for ever.
FairSpec == Spec /\ WF_vars(Service)

\* An assumption about the operator, which no line of the code enforces: every motion the
\* tree asks for is confirmed, and ends, with success or with failure.
MotionsAreConfirmed == WF_vars(Motion)

-----------------------------------------------------------------------------
(* Properties. *)

\* Once a descent has ended on the ground nothing descends or measures the approach
\* again; only the decision over release or lift-clear and what follows it is left.
NothingDescendsAfterContact ==
    loadOff => pc \notin {"above", "waypoint", "measure", "shift", "final", "entry",
                          "touchdown"}

\* The jaws never open over a block in the air, on any route and out of any failure.
NothingIsDropped == load # "dropped"

\* A block that was let go is on record as placed, also if the run was cut off right
\* after: the plan server never hands it out again.
LetGoIsRecorded == load = "set" => status = "PLACED"

\* Below the waypoint the block has been measured within 5 cm, and moved at most once
\* since (issue 281).
EntryIsMeasured ==
    pc = "entry" \/ (pc = "touchdown" /\ route = "simple")
    => seen \in {"on", "near"} /\ shifts <= 1

\* A carrying lift has the block in its jaws and in the MPC that drives it: its
\* feedforward is that of the load.
LiftCarriesTheBlock == pc \in {"backoff", "clear"} => InJaws /\ (MpcDrives => payload)

\* A place whose motions are confirmed ends, whatever fails in it and however often.
PlaceEnds == MotionsAreConfirmed => (pc # "idle" ~> pc = "idle")

\* How many calls a place can make yet: from the release back to the entry, the cycles of
\* the correction, and the approach, over again for every attempt that is left.
Descents == 7 + Attempts

CallsFrom(step, tries, cycle) ==
    CASE step = "idle"      -> 0
      [] step = "backoff"   -> 1
      [] step = "clear"     -> 1
      [] step = "away"      -> 1
      [] step = "unload"    -> 2
      [] step = "open"      -> 3
      [] step = "write"     -> 4
      [] step = "assess"    -> 5
      [] step = "touchdown" -> 6
      [] step = "entry"     -> Descents - tries
      [] step = "final"     -> Descents
      [] step = "shift"     -> Descents + 1 + 2 * (Passes - cycle)
      [] step = "measure"   -> Descents + 2 + 2 * (Passes - cycle)
      [] step = "waypoint"  -> Descents + 1 + 2 * Passes
      [] step = "above"     -> Descents + 2 + 2 * Passes

CallsLeft ==
    IF pc = "idle" THEN 0
    ELSE CallsFrom(pc, entry, pass) + (Attempts - attempt) * (Descents + 2 + 2 * Passes)

\* Every call of a place, whatever comes of it, uses up one of a number that is known when
\* the place begins: the retries, the cycles of the correction and the lifts that fail
\* themselves add up, and do not start each other over.
CallsRunOut == [][Approach \/ Finish => CallsLeft' \in 0..(CallsLeft - 1)]_vars

\* The place keeps what Placement promises.
P == INSTANCE Placement WITH
        outcome <- IF pc # "idle" THEN "BUSY" ELSE result

PlacementSpec == P!Spec
=============================================================================
