--------------------------- MODULE PlaceBlockProofs ---------------------------
(***************************************************************************)
(* What the place subtrees guarantee on every route, for every number of   *)
(* attempts and correction cycles, and that they implement Placement.      *)
(***************************************************************************)
EXTENDS PlaceBlock, TLAPS

(* The inductive invariant: what every call of the tree may rely on. *)

Descending == {"above", "waypoint", "measure", "shift", "final", "entry", "touchdown"}

\* The calls made with the block in the jaws, and those made on the ground.
Loaded   == Descending \cup {"backoff", "assess", "clear", "write", "open"}
Grounded == {"assess", "clear", "write", "open"}

JawsFollowTheCall ==
    /\ pc \in Loaded => InJaws
    /\ pc \in Grounded => load = "ground"
    /\ pc \in {"unload", "away"} => load = "set"

RecordFollowsTheCall ==
    /\ pc \in Loaded \ {"open"} => status = "MOVE"
    /\ pc \in {"open", "unload", "away"} => status = "PLACED"

PayloadFollowsTheCall ==
    /\ pc \in Loaded /\ MpcDrives => payload
    /\ pc = "away" /\ MpcDrives => ~payload

\* A shift is the first since its measurement, and outside still_off within 5 cm.
ShiftFollowsMeasurement ==
    pc = "shift" => shifts = 0 /\ (~stillOff => seen \in {"on", "near"})

IInv ==
    /\ TypeOK
    /\ JawsFollowTheCall
    /\ RecordFollowsTheCall
    /\ PayloadFollowsTheCall
    /\ ShiftFollowsMeasurement
    /\ EntryIsMeasured
    /\ NothingDescendsAfterContact
    /\ NothingIsDropped
    /\ LetGoIsRecorded

USE DEF Goto, End, Retreat, Leave, Release, ReleaseFails, TouchdownFails,
        AfterLastCycle, LastCycle, LastShift, Moved, Arrives, Touches, FallsShort,
        CarryingLift, LetGo, Descending, Loaded, Grounded, InJaws

-----------------------------------------------------------------------------
(* Every call of the tree keeps the invariant. *)

\* The approach begins, or is given up before it has.
LEMMA AboveIInv == ASSUME IInv, Above PROVE IInv'
<1> USE DEF Above, countVars, flagVars, histVars
<1>1. ControlOK' /\ BlockOK' /\ FlagOK'
  BY DEF IInv, TypeOK, ControlOK, BlockOK, FlagOK
<1>2. CountOK'
  BY BoundAssumption DEF IInv, TypeOK, CountOK
<1>3. JawsFollowTheCall' /\ RecordFollowsTheCall' /\ PayloadFollowsTheCall'
  BY DEF IInv, JawsFollowTheCall, RecordFollowsTheCall, PayloadFollowsTheCall
<1>4. ShiftFollowsMeasurement' /\ EntryIsMeasured'
  BY DEF IInv, TypeOK, BlockOK, Band, ShiftFollowsMeasurement, EntryIsMeasured
<1>5. NothingDescendsAfterContact' /\ NothingIsDropped' /\ LetGoIsRecorded'
  BY DEF IInv, JawsFollowTheCall, RecordFollowsTheCall, NothingDescendsAfterContact,
         NothingIsDropped, LetGoIsRecorded
<1> QED
  BY <1>1, <1>2, <1>3, <1>4, <1>5 DEF IInv, TypeOK

\* The descent to the waypoint: reached, on the ground, or failed.
LEMMA WaypointIInv == ASSUME IInv, Waypoint PROVE IInv'
<1> USE DEF Waypoint
<1>1. ControlOK' /\ BlockOK' /\ FlagOK'
  BY DEF IInv, TypeOK, ControlOK, BlockOK, FlagOK
<1>2. CountOK'
  BY BoundAssumption DEF IInv, TypeOK, CountOK
<1>3. JawsFollowTheCall' /\ RecordFollowsTheCall' /\ PayloadFollowsTheCall'
  BY DEF IInv, JawsFollowTheCall, RecordFollowsTheCall, PayloadFollowsTheCall
<1>4. ShiftFollowsMeasurement' /\ EntryIsMeasured'
  BY DEF IInv, TypeOK, BlockOK, Band, ShiftFollowsMeasurement, EntryIsMeasured
<1>5. NothingDescendsAfterContact' /\ NothingIsDropped' /\ LetGoIsRecorded'
  BY DEF IInv, JawsFollowTheCall, RecordFollowsTheCall, NothingDescendsAfterContact,
         NothingIsDropped, LetGoIsRecorded
<1> QED
  BY <1>1, <1>2, <1>3, <1>4, <1>5 DEF IInv, TypeOK

\* The measurement decides between the shift and the way on.
LEMMA MeasureIInv == ASSUME IInv, Measure PROVE IInv'
<1> USE DEF Measure, countVars, blockVars, flagVars, histVars
<1>1. ControlOK' /\ BlockOK' /\ FlagOK'
  BY DEF IInv, TypeOK, ControlOK, BlockOK, FlagOK
<1>2. CountOK'
  BY BoundAssumption DEF IInv, TypeOK, CountOK
<1>3. JawsFollowTheCall' /\ RecordFollowsTheCall' /\ PayloadFollowsTheCall'
  BY DEF IInv, JawsFollowTheCall, RecordFollowsTheCall, PayloadFollowsTheCall,
         NothingDescendsAfterContact
<1>4. ShiftFollowsMeasurement' /\ EntryIsMeasured'
  <2>1. CASE seen' = miss /\ shifts' = 0 /\ miss = "on"
    BY <2>1 DEF ShiftFollowsMeasurement, EntryIsMeasured
  <2>2. CASE seen' = miss /\ shifts' = 0 /\ stillOff' = (miss = "far") /\ miss # "on"
    <3>1. pc' \notin {"entry", "touchdown"}
      BY <2>2
    <3>2. ~stillOff' => seen' = "near"
      BY <2>2 DEF IInv, TypeOK, BlockOK, Band
    <3> QED
      BY <2>2, <3>1, <3>2 DEF ShiftFollowsMeasurement, EntryIsMeasured
  <2>3. CASE Retreat
    BY <2>3 DEF ShiftFollowsMeasurement, EntryIsMeasured
  <2> QED
    BY <2>1, <2>2, <2>3
<1>5. NothingDescendsAfterContact' /\ NothingIsDropped' /\ LetGoIsRecorded'
  BY DEF IInv, JawsFollowTheCall, RecordFollowsTheCall, NothingDescendsAfterContact,
         NothingIsDropped, LetGoIsRecorded
<1> QED
  BY <1>1, <1>2, <1>3, <1>4, <1>5 DEF IInv, TypeOK

\* A shift leads on only where it may go unmeasured.
LEMMA ShiftIInv == ASSUME IInv, Shift PROVE IInv'
<1> USE DEF Shift
<1>1. ControlOK' /\ BlockOK' /\ FlagOK'
  BY DEF IInv, TypeOK, ControlOK, BlockOK, FlagOK
<1>2. CountOK'
  BY BoundAssumption DEF IInv, TypeOK, CountOK
<1>3. JawsFollowTheCall' /\ RecordFollowsTheCall' /\ PayloadFollowsTheCall'
  BY DEF IInv, JawsFollowTheCall, RecordFollowsTheCall, PayloadFollowsTheCall
<1>4. ShiftFollowsMeasurement' /\ EntryIsMeasured'
  BY DEF IInv, TypeOK, BlockOK, Band, ShiftFollowsMeasurement, EntryIsMeasured
<1>5. NothingDescendsAfterContact' /\ NothingIsDropped' /\ LetGoIsRecorded'
  BY DEF IInv, JawsFollowTheCall, RecordFollowsTheCall, NothingDescendsAfterContact,
         NothingIsDropped, LetGoIsRecorded
<1> QED
  BY <1>1, <1>2, <1>3, <1>4, <1>5 DEF IInv, TypeOK

\* The last measurement decides alone.
LEMMA FinalMeasureIInv == ASSUME IInv, FinalMeasure PROVE IInv'
<1> USE DEF FinalMeasure, countVars, blockVars, flagVars, histVars
<1>1. ControlOK' /\ BlockOK' /\ FlagOK'
  BY DEF IInv, TypeOK, ControlOK, BlockOK, FlagOK
<1>2. CountOK'
  BY BoundAssumption DEF IInv, TypeOK, CountOK
<1>3. JawsFollowTheCall' /\ RecordFollowsTheCall' /\ PayloadFollowsTheCall'
  BY DEF IInv, JawsFollowTheCall, RecordFollowsTheCall, PayloadFollowsTheCall,
         NothingDescendsAfterContact
<1>4. ShiftFollowsMeasurement' /\ EntryIsMeasured'
  BY DEF IInv, TypeOK, BlockOK, Band, ShiftFollowsMeasurement, EntryIsMeasured
<1>5. NothingDescendsAfterContact' /\ NothingIsDropped' /\ LetGoIsRecorded'
  BY DEF IInv, JawsFollowTheCall, RecordFollowsTheCall, NothingDescendsAfterContact,
         NothingIsDropped, LetGoIsRecorded
<1> QED
  BY <1>1, <1>2, <1>3, <1>4, <1>5 DEF IInv, TypeOK

\* The lift that ends a failed attempt.
LEMMA BackoffIInv == ASSUME IInv, Backoff PROVE IInv'
<1> USE DEF Backoff, flagVars, histVars
<1>1. ControlOK' /\ BlockOK' /\ FlagOK'
  BY DEF IInv, TypeOK, ControlOK, BlockOK, FlagOK
<1>2. CountOK'
  BY BoundAssumption DEF IInv, TypeOK, CountOK
<1>3. JawsFollowTheCall' /\ RecordFollowsTheCall' /\ PayloadFollowsTheCall'
  BY DEF IInv, JawsFollowTheCall, RecordFollowsTheCall, PayloadFollowsTheCall
<1>4. ShiftFollowsMeasurement' /\ EntryIsMeasured'
  BY DEF IInv, TypeOK, BlockOK, Band, ShiftFollowsMeasurement, EntryIsMeasured
<1>5. NothingDescendsAfterContact' /\ NothingIsDropped' /\ LetGoIsRecorded'
  BY DEF IInv, JawsFollowTheCall, RecordFollowsTheCall, NothingDescendsAfterContact,
         NothingIsDropped, LetGoIsRecorded
<1> QED
  BY <1>1, <1>2, <1>3, <1>4, <1>5 DEF IInv, TypeOK

\* The angled entry, attempted again or given up.
LEMMA EntryIInv == ASSUME IInv, Entry PROVE IInv'
<1> USE DEF Entry, flagVars, histVars
<1>1. ControlOK' /\ BlockOK' /\ FlagOK'
  BY DEF IInv, TypeOK, ControlOK, BlockOK, FlagOK
<1>2. CountOK'
  BY BoundAssumption DEF IInv, TypeOK, CountOK
<1>3. JawsFollowTheCall' /\ RecordFollowsTheCall' /\ PayloadFollowsTheCall'
  BY DEF IInv, JawsFollowTheCall, RecordFollowsTheCall, PayloadFollowsTheCall
<1>4. ShiftFollowsMeasurement' /\ EntryIsMeasured'
  BY DEF IInv, TypeOK, BlockOK, Band, ShiftFollowsMeasurement, EntryIsMeasured
<1>5. NothingDescendsAfterContact' /\ NothingIsDropped' /\ LetGoIsRecorded'
  BY DEF IInv, JawsFollowTheCall, RecordFollowsTheCall, NothingDescendsAfterContact,
         NothingIsDropped, LetGoIsRecorded
<1> QED
  BY <1>1, <1>2, <1>3, <1>4, <1>5 DEF IInv, TypeOK

\* The touchdown ends on the ground or fails.
LEMMA TouchdownIInv == ASSUME IInv, Touchdown PROVE IInv'
<1> USE DEF Touchdown, countVars, flagVars, histVars
<1>1. ControlOK' /\ BlockOK' /\ FlagOK'
  BY DEF IInv, TypeOK, ControlOK, BlockOK, FlagOK
<1>2. CountOK'
  BY BoundAssumption DEF IInv, TypeOK, CountOK
<1>3. JawsFollowTheCall' /\ RecordFollowsTheCall' /\ PayloadFollowsTheCall'
  BY DEF IInv, JawsFollowTheCall, RecordFollowsTheCall, PayloadFollowsTheCall
<1>4. ShiftFollowsMeasurement' /\ EntryIsMeasured'
  BY DEF IInv, TypeOK, BlockOK, Band, ShiftFollowsMeasurement, EntryIsMeasured
<1>5. NothingDescendsAfterContact' /\ NothingIsDropped' /\ LetGoIsRecorded'
  BY DEF IInv, JawsFollowTheCall, RecordFollowsTheCall, NothingDescendsAfterContact,
         NothingIsDropped, LetGoIsRecorded
<1> QED
  BY <1>1, <1>2, <1>3, <1>4, <1>5 DEF IInv, TypeOK

\* Early contact: nothing but release and lift-clear is left.
LEMMA AssessIInv == ASSUME IInv, Assess PROVE IInv'
<1> USE DEF Assess, countVars, blockVars, flagVars, histVars
<1>1. ControlOK' /\ BlockOK' /\ FlagOK'
  BY DEF IInv, TypeOK, ControlOK, BlockOK, FlagOK
<1>2. CountOK'
  BY BoundAssumption DEF IInv, TypeOK, CountOK
<1>3. JawsFollowTheCall' /\ RecordFollowsTheCall' /\ PayloadFollowsTheCall'
  BY DEF IInv, JawsFollowTheCall, RecordFollowsTheCall, PayloadFollowsTheCall
<1>4. ShiftFollowsMeasurement' /\ EntryIsMeasured'
  BY DEF IInv, TypeOK, BlockOK, Band, ShiftFollowsMeasurement, EntryIsMeasured
<1>5. NothingDescendsAfterContact' /\ NothingIsDropped' /\ LetGoIsRecorded'
  BY DEF IInv, JawsFollowTheCall, RecordFollowsTheCall, NothingDescendsAfterContact,
         NothingIsDropped, LetGoIsRecorded
<1> QED
  BY <1>1, <1>2, <1>3, <1>4, <1>5 DEF IInv, TypeOK

\* The block is lifted clear, and the place has failed.
LEMMA LiftClearIInv == ASSUME IInv, LiftClear PROVE IInv'
<1> USE DEF LiftClear, countVars, flagVars, histVars
<1>1. ControlOK' /\ BlockOK' /\ FlagOK'
  BY DEF IInv, TypeOK, ControlOK, BlockOK, FlagOK
<1>2. CountOK'
  BY BoundAssumption DEF IInv, TypeOK, CountOK
<1>3. JawsFollowTheCall' /\ RecordFollowsTheCall' /\ PayloadFollowsTheCall'
  BY DEF IInv, JawsFollowTheCall, RecordFollowsTheCall, PayloadFollowsTheCall
<1>4. ShiftFollowsMeasurement' /\ EntryIsMeasured'
  BY DEF IInv, TypeOK, BlockOK, Band, ShiftFollowsMeasurement, EntryIsMeasured
<1>5. NothingDescendsAfterContact' /\ NothingIsDropped' /\ LetGoIsRecorded'
  BY DEF IInv, JawsFollowTheCall, RecordFollowsTheCall, NothingDescendsAfterContact,
         NothingIsDropped, LetGoIsRecorded
<1> QED
  BY <1>1, <1>2, <1>3, <1>4, <1>5 DEF IInv, TypeOK

\* The placed pose and status are written, or not.
LEMMA WriteIInv == ASSUME IInv, Write PROVE IInv'
<1> USE DEF Write, countVars, flagVars, histVars
<1>1. ControlOK' /\ BlockOK' /\ FlagOK'
  BY DEF IInv, TypeOK, ControlOK, BlockOK, FlagOK
<1>2. CountOK'
  BY BoundAssumption DEF IInv, TypeOK, CountOK
<1>3. JawsFollowTheCall' /\ RecordFollowsTheCall' /\ PayloadFollowsTheCall'
  BY DEF IInv, JawsFollowTheCall, RecordFollowsTheCall, PayloadFollowsTheCall
<1>4. ShiftFollowsMeasurement' /\ EntryIsMeasured'
  BY DEF IInv, TypeOK, BlockOK, Band, ShiftFollowsMeasurement, EntryIsMeasured
<1>5. NothingDescendsAfterContact' /\ NothingIsDropped' /\ LetGoIsRecorded'
  BY DEF IInv, JawsFollowTheCall, RecordFollowsTheCall, NothingDescendsAfterContact,
         NothingIsDropped, LetGoIsRecorded
<1> QED
  BY <1>1, <1>2, <1>3, <1>4, <1>5 DEF IInv, TypeOK

\* The jaws open over a block on the ground and on record.
LEMMA OpenIInv == ASSUME IInv, Open PROVE IInv'
<1> USE DEF Open, countVars, flagVars, histVars
<1>1. ControlOK' /\ BlockOK' /\ FlagOK'
  BY DEF IInv, TypeOK, ControlOK, BlockOK, FlagOK
<1>2. CountOK'
  BY BoundAssumption DEF IInv, TypeOK, CountOK
<1>3. JawsFollowTheCall' /\ RecordFollowsTheCall' /\ PayloadFollowsTheCall'
  BY DEF IInv, JawsFollowTheCall, RecordFollowsTheCall, PayloadFollowsTheCall
<1>4. ShiftFollowsMeasurement' /\ EntryIsMeasured'
  BY DEF IInv, TypeOK, BlockOK, Band, ShiftFollowsMeasurement, EntryIsMeasured
<1>5. NothingDescendsAfterContact' /\ NothingIsDropped' /\ LetGoIsRecorded'
  BY DEF IInv, JawsFollowTheCall, RecordFollowsTheCall, NothingDescendsAfterContact,
         NothingIsDropped, LetGoIsRecorded
<1> QED
  BY <1>1, <1>2, <1>3, <1>4, <1>5 DEF IInv, TypeOK

\* crane_mpc is told, or the place fails.
LEMMA UnloadIInv == ASSUME IInv, Unload PROVE IInv'
<1> USE DEF Unload, countVars, flagVars, histVars
<1>1. ControlOK' /\ BlockOK' /\ FlagOK'
  BY DEF IInv, TypeOK, ControlOK, BlockOK, FlagOK
<1>2. CountOK'
  BY BoundAssumption DEF IInv, TypeOK, CountOK
<1>3. JawsFollowTheCall' /\ RecordFollowsTheCall' /\ PayloadFollowsTheCall'
  BY DEF IInv, JawsFollowTheCall, RecordFollowsTheCall, PayloadFollowsTheCall
<1>4. ShiftFollowsMeasurement' /\ EntryIsMeasured'
  BY DEF IInv, TypeOK, BlockOK, Band, ShiftFollowsMeasurement, EntryIsMeasured
<1>5. NothingDescendsAfterContact' /\ NothingIsDropped' /\ LetGoIsRecorded'
  BY DEF IInv, JawsFollowTheCall, RecordFollowsTheCall, NothingDescendsAfterContact,
         NothingIsDropped, LetGoIsRecorded
<1> QED
  BY <1>1, <1>2, <1>3, <1>4, <1>5 DEF IInv, TypeOK

\* The empty jaws leave.
LEMMA AwayIInv == ASSUME IInv, Away PROVE IInv'
<1> USE DEF Away, countVars, flagVars, blockVars, histVars
<1>1. ControlOK' /\ BlockOK' /\ FlagOK'
  BY DEF IInv, TypeOK, ControlOK, BlockOK, FlagOK
<1>2. CountOK'
  BY BoundAssumption DEF IInv, TypeOK, CountOK
<1>3. JawsFollowTheCall' /\ RecordFollowsTheCall' /\ PayloadFollowsTheCall'
  BY DEF IInv, JawsFollowTheCall, RecordFollowsTheCall, PayloadFollowsTheCall
<1>4. ShiftFollowsMeasurement' /\ EntryIsMeasured'
  BY DEF IInv, TypeOK, BlockOK, Band, ShiftFollowsMeasurement, EntryIsMeasured
<1>5. NothingDescendsAfterContact' /\ NothingIsDropped' /\ LetGoIsRecorded'
  BY DEF IInv, JawsFollowTheCall, RecordFollowsTheCall, NothingDescendsAfterContact,
         NothingIsDropped, LetGoIsRecorded
<1> QED
  BY <1>1, <1>2, <1>3, <1>4, <1>5 DEF IInv, TypeOK

\* A cancelled run leaves everything as it stands.
LEMMA CancelIInv == ASSUME IInv, Cancel PROVE IInv'
<1> USE DEF Cancel, countVars, flagVars, blockVars, histVars
<1>1. ControlOK' /\ BlockOK' /\ FlagOK'
  BY DEF IInv, TypeOK, ControlOK, BlockOK, FlagOK
<1>2. CountOK'
  BY BoundAssumption DEF IInv, TypeOK, CountOK
<1>3. JawsFollowTheCall' /\ RecordFollowsTheCall' /\ PayloadFollowsTheCall'
  BY DEF IInv, JawsFollowTheCall, RecordFollowsTheCall, PayloadFollowsTheCall
<1>4. ShiftFollowsMeasurement' /\ EntryIsMeasured'
  BY DEF IInv, TypeOK, BlockOK, Band, ShiftFollowsMeasurement, EntryIsMeasured
<1>5. NothingDescendsAfterContact' /\ NothingIsDropped' /\ LetGoIsRecorded'
  BY DEF IInv, JawsFollowTheCall, RecordFollowsTheCall, NothingDescendsAfterContact,
         NothingIsDropped, LetGoIsRecorded
<1> QED
  BY <1>1, <1>2, <1>3, <1>4, <1>5 DEF IInv, TypeOK

\* A place begins with the block in the jaws, on record as carried.
LEMMA StartPlaceIInv == ASSUME IInv, NEW r \in Routes, StartPlace(r) PROVE IInv'
<1> USE DEF StartPlace, flagVars
<1>1. ControlOK' /\ BlockOK' /\ FlagOK'
  BY RouteAssumption DEF IInv, TypeOK, ControlOK, BlockOK, FlagOK
<1>2. CountOK'
  BY BoundAssumption DEF IInv, TypeOK, CountOK
<1>3. JawsFollowTheCall' /\ RecordFollowsTheCall' /\ PayloadFollowsTheCall'
  BY DEF IInv, JawsFollowTheCall, RecordFollowsTheCall, PayloadFollowsTheCall
<1>4. ShiftFollowsMeasurement' /\ EntryIsMeasured'
  BY DEF IInv, TypeOK, BlockOK, Band, ShiftFollowsMeasurement, EntryIsMeasured
<1>5. NothingDescendsAfterContact' /\ NothingIsDropped' /\ LetGoIsRecorded'
  BY DEF IInv, JawsFollowTheCall, RecordFollowsTheCall, NothingDescendsAfterContact,
         NothingIsDropped, LetGoIsRecorded
<1> QED
  BY <1>1, <1>2, <1>3, <1>4, <1>5 DEF IInv, TypeOK

\* A step of no call leaves all of it as it is.
LEMMA StutterIInv == ASSUME IInv, UNCHANGED vars PROVE IInv'
BY DEF IInv, TypeOK, ControlOK, CountOK, BlockOK, FlagOK, JawsFollowTheCall,
       RecordFollowsTheCall, PayloadFollowsTheCall, ShiftFollowsMeasurement,
       EntryIsMeasured, NothingDescendsAfterContact, NothingIsDropped, LetGoIsRecorded,
       vars, countVars, flagVars, blockVars, histVars

\* A tree that has not been started satisfies the invariant.
LEMMA InitIInv == Init => IInv
<1> SUFFICES ASSUME Init PROVE IInv
  OBVIOUS
<1> USE DEF Init
<1>1. ControlOK /\ FlagOK
  BY DEF ControlOK, FlagOK
<1>2. CountOK
  BY BoundAssumption DEF CountOK
<1>3. BlockOK
  BY RouteAssumption DEF BlockOK, Band
<1>4. JawsFollowTheCall /\ RecordFollowsTheCall /\ PayloadFollowsTheCall
  BY DEF JawsFollowTheCall, RecordFollowsTheCall, PayloadFollowsTheCall
<1>5. ShiftFollowsMeasurement /\ EntryIsMeasured
  BY DEF ShiftFollowsMeasurement, EntryIsMeasured
<1>6. NothingDescendsAfterContact /\ NothingIsDropped /\ LetGoIsRecorded
  BY DEF NothingDescendsAfterContact, NothingIsDropped, LetGoIsRecorded
<1> QED
  BY <1>1, <1>2, <1>3, <1>4, <1>5, <1>6 DEF IInv, TypeOK

\* Every step keeps the invariant.
LEMMA NextIInv == IInv /\ [Next]_vars => IInv'
BY AboveIInv, WaypointIInv, MeasureIInv, ShiftIInv, FinalMeasureIInv, BackoffIInv,
   EntryIInv, TouchdownIInv, AssessIInv, LiftClearIInv, WriteIInv, OpenIInv, UnloadIInv,
   AwayIInv, CancelIInv, StartPlaceIInv, StutterIInv
   DEF Next, Approach, Finish

\* The invariant holds of every reachable state.
LEMMA SpecIInv == Spec => []IInv
BY InitIInv, NextIInv, PTL DEF Spec

-----------------------------------------------------------------------------
(* The theorems. *)

\* Every variable of the place keeps its type, every counter its bound.
THEOREM TypeCorrect == Spec => []TypeOK
<1>1. IInv => TypeOK
  BY DEF IInv
<1> QED
  BY <1>1, SpecIInv, PTL

\* The jaws never open over a block in the air, on no route and out of no failure,
\* however many attempts the trees allow.
THEOREM NeverDropped == Spec => []NothingIsDropped
<1>1. IInv => NothingIsDropped
  BY DEF IInv
<1> QED
  BY <1>1, SpecIInv, PTL

\* A block that was let go is on record as placed, wherever the run is cut off.
THEOREM AlwaysRecorded == Spec => []LetGoIsRecorded
<1>1. IInv => LetGoIsRecorded
  BY DEF IInv
<1> QED
  BY <1>1, SpecIInv, PTL

\* After ground contact nothing of the descent chain runs any more.
THEOREM ContactEndsDescent == Spec => []NothingDescendsAfterContact
<1>1. IInv => NothingDescendsAfterContact
  BY DEF IInv
<1> QED
  BY <1>1, SpecIInv, PTL

\* Whatever the number of correction cycles, nothing enters unmeasured or after more
\* than one shift.
THEOREM MeasuredEntry == Spec => []EntryIsMeasured
<1>1. IInv => EntryIsMeasured
  BY DEF IInv
<1> QED
  BY <1>1, SpecIInv, PTL

\* A carrying lift has the block in the jaws and in the MPC.
THEOREM LoadedLift == Spec => []LiftCarriesTheBlock
<1>1. IInv => LiftCarriesTheBlock
  BY DEF IInv, JawsFollowTheCall, PayloadFollowsTheCall, LiftCarriesTheBlock
<1> QED
  BY <1>1, SpecIInv, PTL

-----------------------------------------------------------------------------
(* The place implements Placement. *)

\* A place that runs is busy, one that is over is not.
LEMMA Busy ==
    ASSUME ControlOK
    PROVE  (IF pc # "idle" THEN "BUSY" ELSE result) = "BUSY" <=> pc # "idle"
BY DEF ControlOK

\* The initial states are initial states of the promise.
LEMMA InitRefines == Init => P!Init
BY DEF Init, P!Init

\* A start of the place is the promise's Begin.
LEMMA StartRefines == ASSUME IInv, NEW r \in Routes, StartPlace(r) PROVE P!Begin
BY Busy DEF IInv, TypeOK, ControlOK, StartPlace, P!Begin, P!InJaws

\* A call of the approach carries the block, puts it down or stops.
LEMMA ApproachRefines == ASSUME IInv, Approach PROVE P!Carry
BY DEF IInv, JawsFollowTheCall, Approach, Above, Waypoint, Measure, Shift, FinalMeasure, Backoff,
       P!Carry, P!Goes, P!InJaws, blockVars

\* Writing the record is the promise's Record, or stops short of it.
LEMMA WriteRefines == ASSUME IInv, Write PROVE P!Record \/ P!Stop
<1> USE DEF Write, P!Goes
<1>1. load = "ground" /\ load' = load /\ payload' = payload
  BY DEF IInv, JawsFollowTheCall
<1>2. P!Goes
  OBVIOUS
<1>3. CASE status' = "PLACED"
  BY <1>1, <1>2, <1>3 DEF P!Record
<1>4. CASE status' = status
  BY <1>1, <1>2, <1>4 DEF P!Stop
<1> QED
  BY <1>3, <1>4

\* Opening the jaws is the promise's LetGo: on the ground, on record.
LEMMA OpenRefines == ASSUME IInv, Open PROVE P!LetGo \/ P!Stop
<1>1. load = "ground" /\ status = "PLACED"
  BY DEF Open, IInv, JawsFollowTheCall, RecordFollowsTheCall
<1> QED
  BY <1>1 DEF Open, P!LetGo, P!Stop, P!Goes

\* crane_mpc is told only after that.
LEMMA UnloadRefines == ASSUME IInv, Unload PROVE P!Clear \/ P!Stop
<1> USE DEF Unload, P!Goes
<1>1. load = "set" /\ UNCHANGED <<load, status>>
  BY DEF IInv, JawsFollowTheCall
<1>2. P!Goes
  OBVIOUS
<1>3. CASE payload' = FALSE
  BY <1>1, <1>2, <1>3 DEF P!Clear
<1>4. CASE payload' = payload
  BY <1>1, <1>2, <1>4 DEF P!Stop
<1> QED
  BY <1>3, <1>4

\* A place that succeeds has let go, written the record and told crane_mpc.
LEMMA AwayRefines == ASSUME IInv, Away PROVE P!Succeed \/ P!Stop
<1>1. /\ load = "set" /\ status = "PLACED"
      /\ MpcDrives => ~payload
      /\ UNCHANGED <<load, status, payload>>
  BY DEF Away, IInv, JawsFollowTheCall, RecordFollowsTheCall, PayloadFollowsTheCall,
         blockVars
<1>2. CASE result' = "SUCCESS"
  BY <1>1, <1>2 DEF Away, P!Succeed
<1>3. CASE result' = "FAILURE"
  BY <1>1, <1>3 DEF Away, P!Stop, P!Goes
<1> QED
  BY <1>2, <1>3 DEF Away

\* Entry, touchdown and lift-clear carry the block; the decision over early contact
\* and a cancel leave it alone.
LEMMA FinishRefines ==
    ASSUME IInv, Entry \/ Touchdown \/ LiftClear \/ Assess \/ Cancel
    PROVE  P!Carry \/ P!Stop
<1>1. CASE Entry \/ Touchdown \/ LiftClear
  BY <1>1 DEF IInv, JawsFollowTheCall, Entry, Touchdown, LiftClear, P!Carry, P!Goes,
              P!InJaws
<1>2. CASE Assess \/ Cancel
  BY <1>2 DEF Assess, Cancel, P!Stop, P!Goes, blockVars
<1> QED
  BY <1>1, <1>2

\* Every step is a step of the promise, or changes nothing it speaks of.
LEMMA StepRefines == IInv /\ [Next]_vars => [P!Next]_P!vars
<1> SUFFICES ASSUME IInv, [Next]_vars PROVE [P!Next]_P!vars
  OBVIOUS
<1>1. CASE \E r \in Routes : StartPlace(r)
  BY <1>1, StartRefines DEF P!Next
<1>2. CASE Approach
  BY <1>2, ApproachRefines DEF P!Next
<1>3. CASE Finish \/ Cancel
  BY <1>3, WriteRefines, OpenRefines, UnloadRefines, AwayRefines, FinishRefines
     DEF Finish, P!Next
<1>4. CASE UNCHANGED vars
  BY <1>4 DEF vars, blockVars, P!vars
<1> QED
  BY <1>1, <1>2, <1>3, <1>4 DEF Next

\* The place subtrees keep what Placement promises, for every route, number of
\* attempts and number of cycles.
THEOREM Implements == Spec => PlacementSpec
BY InitRefines, SpecIInv, StepRefines, PTL DEF Spec, PlacementSpec, P!Spec
-----------------------------------------------------------------------------
(* How many calls a place has left.  It is a number, and every call takes from it: *)
(* within an attempt by the place of the call, from one attempt to the next by the *)
(* calls of a whole one.                                                           *)

OneAttempt == Descents + 2 + 2 * Passes

LEMMA AnotherAttempt ==
    ASSUME NEW n \in Nat, NEW w \in Nat
    PROVE  n * w \in Nat /\ (n + 1) * w = n * w + w
OBVIOUS

LEMMA LessIsLeft ==
    ASSUME NEW c \in Nat, NEW d \in Nat, d < c, NEW rest \in Nat,
           NEW all, all = c + rest, NEW less, less = d + rest
    PROVE  less \in 0..(all - 1)
OBVIOUS

CallsOfAttempt == CallsFrom(pc, entry, pass)

\* The places of the calls, for counters of this state and of the next.
LEMMA CallPlaces ==
    ASSUME NEW e, NEW p
    PROVE  /\ CallsFrom("backoff", e, p) = 1
           /\ CallsFrom("clear", e, p) = 1
           /\ CallsFrom("away", e, p) = 1
           /\ CallsFrom("unload", e, p) = 2
           /\ CallsFrom("open", e, p) = 3
           /\ CallsFrom("write", e, p) = 4
           /\ CallsFrom("assess", e, p) = 5
           /\ CallsFrom("touchdown", e, p) = 6
           /\ CallsFrom("entry", e, p) = Descents - e
           /\ CallsFrom("final", e, p) = Descents
           /\ CallsFrom("shift", e, p) = Descents + 1 + 2 * (Passes - p)
           /\ CallsFrom("measure", e, p) = Descents + 2 + 2 * (Passes - p)
           /\ CallsFrom("waypoint", e, p) = Descents + 1 + 2 * Passes
           /\ CallsFrom("above", e, p) = Descents + 2 + 2 * Passes
BY DEF CallsFrom

\* Every call has its place within the attempt, a positive one.
CallsCounted == pc # "idle" => CallsOfAttempt \in Nat /\ CallsOfAttempt >= 1

LEMMA CallsAreCounted == TypeOK => CallsCounted
BY CallPlaces, BoundAssumption
   DEF TypeOK, ControlOK, CountOK, CallsCounted, CallsOfAttempt, Descents

\* The calls left are those of this attempt and those of the attempts to come.
LEMMA CallsLeftCounted ==
    ASSUME TypeOK, pc # "idle"
    PROVE  /\ (Attempts - attempt) * OneAttempt \in Nat
           /\ CallsLeft = CallsOfAttempt + (Attempts - attempt) * OneAttempt
<1>1. Attempts - attempt \in Nat /\ OneAttempt \in Nat
  BY BoundAssumption DEF TypeOK, CountOK, OneAttempt, Descents
<1>2. (Attempts - attempt) * OneAttempt \in Nat
  BY <1>1, AnotherAttempt
<1> QED
  BY <1>2 DEF CallsLeft, CallsOfAttempt, OneAttempt

\* A call that goes on within its attempt leads to one with a lower place.
LEMMA WithinAttempt ==
    ASSUME IInv, Approach \/ Finish, pc' # "idle", pc # "backoff"
    PROVE  attempt' = attempt /\ CallsOfAttempt' < CallsOfAttempt
<1> USE CallPlaces, BoundAssumption DEF CallsOfAttempt, Descents, countVars
<1>1. TypeOK
  BY DEF IInv
<1>2. CASE Above \/ Waypoint \/ FinalMeasure
  BY <1>1, <1>2 DEF Above, Waypoint, FinalMeasure, TypeOK, CountOK
<1>3. CASE Measure \/ Shift
  BY <1>1, <1>3 DEF Measure, Shift, TypeOK, CountOK
<1>4. CASE Entry \/ Touchdown \/ Assess \/ LiftClear
  BY <1>1, <1>4 DEF Entry, Touchdown, Assess, LiftClear, TypeOK, CountOK
<1>5. CASE Write \/ Open
  BY <1>1, <1>5 DEF Write, Open
<1>6. CASE Unload
  <2>1. pc = "unload" /\ pc' \in {"away", "idle"} /\ attempt' = attempt
    BY <1>6, Zenon DEF Unload
  <2> QED
    BY <2>1
<1>7. CASE Away
  BY <1>1, <1>7 DEF Away
<1>8. ~Backoff
  BY DEF Backoff
<1> QED
  BY <1>2, <1>3, <1>4, <1>5, <1>6, <1>7, <1>8 DEF Approach, Finish

LEMMA CallsTaken ==
    ASSUME IInv, CallsCounted, CallsCounted', Approach \/ Finish
    PROVE  CallsLeft' \in 0..(CallsLeft - 1)
<1>1. pc # "idle" /\ TypeOK
  BY DEF IInv, Approach, Finish, Above, Waypoint, Measure, Shift, FinalMeasure, Backoff, Entry,
         Touchdown, Assess, LiftClear, Write, Open, Unload, Away
<1>2. CallsOfAttempt \in Nat /\ CallsOfAttempt >= 1
  BY <1>1 DEF CallsCounted
<1>3. /\ (Attempts - attempt) * OneAttempt \in Nat
      /\ CallsLeft = CallsOfAttempt + (Attempts - attempt) * OneAttempt
  BY <1>1, CallsLeftCounted
<1>4. CASE pc' = "idle"
  <2>1. CallsLeft' = 0
    BY <1>4 DEF CallsLeft
  <2> QED
    BY <1>2, <1>3, <2>1
<1>5. CASE pc' # "idle" /\ pc # "backoff"
  <2>1. CallsOfAttempt' \in Nat
    BY <1>5 DEF CallsCounted
  <2>2. CallsLeft' = CallsOfAttempt' + (Attempts - attempt') * OneAttempt
    BY <1>5 DEF CallsLeft, CallsOfAttempt, OneAttempt
  <2>3. attempt' = attempt /\ CallsOfAttempt' < CallsOfAttempt
    BY <1>5, WithinAttempt
  <2>4. CallsLeft' = CallsOfAttempt' + (Attempts - attempt) * OneAttempt
    BY <2>2, <2>3
  <2> DEFINE rest == (Attempts - attempt) * OneAttempt
  <2> HIDE DEF rest
  <2>5. rest \in Nat /\ CallsLeft = CallsOfAttempt + rest /\ CallsLeft' = CallsOfAttempt' + rest
    BY <1>3, <2>4 DEF rest
  <2> QED
    BY <1>2, <2>1, <2>3, <2>5, LessIsLeft
<1>6. CASE pc' # "idle" /\ pc = "backoff"
  <2>1. attempt < Attempts /\ attempt' = attempt + 1 /\ pc' = "above"
    BY <1>6 DEF Approach, Finish, Above, Waypoint, Measure, Shift, FinalMeasure, Backoff, Entry,
         Touchdown, Assess, LiftClear, Write, Open, Unload, Away
  <2>2. OneAttempt \in Nat /\ Attempts - attempt' \in Nat
        /\ Attempts - attempt = (Attempts - attempt') + 1
    BY <1>1, <2>1, BoundAssumption DEF TypeOK, CountOK, OneAttempt, Descents
  <2> DEFINE all == (Attempts - attempt) * OneAttempt
             rest == (Attempts - attempt') * OneAttempt
  <2>3. rest \in Nat /\ all = rest + OneAttempt
    BY <2>2, AnotherAttempt
  <2>4. CallsOfAttempt = 1 /\ CallsOfAttempt' = OneAttempt
    BY <1>6, <2>1, CallPlaces DEF CallsOfAttempt, OneAttempt
  <2>5. CallsLeft' = OneAttempt + rest
    BY <1>6, <2>4 DEF CallsLeft, CallsOfAttempt, OneAttempt
  <2>6. CallsLeft = 1 + all
    BY <1>3, <2>4
  <2> HIDE DEF all, rest
  <2> QED
    BY <2>2, <2>3, <2>5, <2>6
<1> QED
  BY <1>4, <1>5, <1>6

\* A place makes no more calls than are left when it begins, whatever fails in it: the
\* bound behind its end, for every number of attempts and cycles.
THEOREM PlaceRunsOut == Spec => CallsRunOut
<1>1. IInv => CallsCounted
  BY CallsAreCounted DEF IInv
<1>2. IInv /\ CallsCounted /\ CallsCounted' /\ [Next]_vars
      => [Approach \/ Finish => CallsLeft' \in 0..(CallsLeft - 1)]_vars
  BY CallsTaken
<1> QED
  BY <1>1, <1>2, SpecIInv, PTL DEF Spec, CallsRunOut
=============================================================================
