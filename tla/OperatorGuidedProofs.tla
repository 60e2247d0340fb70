------------------------- MODULE OperatorGuidedProofs -------------------------
(***************************************************************************)
(* The operator-guided tree, proved for any estimates, tolerance and       *)
(* clamp.                                                                  *)
(***************************************************************************)
EXTENDS OperatorGuided, TLAPS

(* The inductive invariant: what is said, and where things are. *)

PlacementCalls == {"see", "gauge", "shift"}
PickupCalls    == {"sight", "follow"}

\* A loop goes on only where its wait has taken the exit back.
ExitIsTakenBack ==
    /\ pc \in PickupLoop \cup PickupCalls => ~exit["pickup"]
    /\ pc \in PlacementLoop \cup PlacementCalls => ~exit["placement"]

\* What a matched subscription still holds was published during the wait.
HeldIsOfThisWait ==
    /\ unread => newest # None
    /\ matchedAtStart /\ pc \in Waits => matched /\ (unread => inWait)

Words == TypeOK /\ ExitIsTakenBack /\ HeldIsOfThisWait /\ NothingWithoutTheWord

Within(x, bound) == -bound <= x /\ x <= bound

\* The hook is at its command, except while it follows a new one.
HookAtCommand ==
    /\ pc \in PlacementLoop \cup {"see", "gauge", "place"} => Within(hook - mv, Tolerance)
    /\ pc = "shift" => Within(mv - hook, MaxCorrection + Tolerance)

\* A sound correction puts the block over the target, and the seed is the command.
SeedIsCommand ==
    trusted /\ pc \in PlacementLoop \cup PlacementCalls \cup {"place"} =>
        seed = mv /\ Within(mv + grip, Tolerance)

\* A correction ready to be commanded.
CorrectionReady ==
    pc = "correct" =>
        /\ Within(corrected - mv, MaxCorrection)
        /\ sound => Within(corrected + grip, Tolerance)

Axis == HookAtCommand /\ SeedIsCommand /\ CorrectionReady

IInv == Words /\ Axis

-----------------------------------------------------------------------------
(* Types. *)

Controls ==
    /\ pc \in {"idle"} \cup Waits \cup Calls
    /\ newest \in Commands \cup {None} /\ received \in Commands \cup {None}
    /\ exit \in [{"pickup", "placement"} -> BOOLEAN]

Flags ==
    /\ matched \in BOOLEAN /\ unread \in BOOLEAN /\ inWait \in BOOLEAN
    /\ matchedAtStart \in BOOLEAN /\ sound \in BOOLEAN /\ trusted \in BOOLEAN

Places ==
    /\ pickup \in Int /\ correctedPickup \in Int /\ mv \in Int /\ hook \in Int
    /\ corrected \in Int /\ seed \in Int
    /\ grip \in Grips /\ belief \in Grips

LEMMA TypeParts ==
    /\ TypeOK <=> Controls /\ Flags /\ Places
    /\ TypeOK' <=> Controls' /\ Flags' /\ Places'
BY DEF TypeOK, Controls, Flags, Places

LEMMA ParameterTypes ==
    /\ Tolerance \in Nat /\ Disturbance \in Int /\ MaxCorrection \in Nat \ {0}
    /\ \A g \in Grips : g \in Int
    /\ \A s \in Sightings : s \in Int
BY AxisAssumption

\* A move ends within the tolerance of its command.
LEMMA NearType ==
    ASSUME NEW x \in Int, NEW y \in Near(x)
    PROVE  y \in Int /\ Within(y - x, Tolerance)
BY ParameterTypes DEF Near, Within

LEMMA ClampedType ==
    ASSUME NEW d \in Int
    PROVE  /\ Clamped(d) \in Int /\ Within(Clamped(d), MaxCorrection)
           /\ -MaxCorrection <= d /\ d <= MaxCorrection => Clamped(d) = d
BY ParameterTypes DEF Clamped, Within

\* Every step that goes on to a wait begins it afresh.
LEMMA Begun ==
    ASSUME TypeOK, NEW w \in Waits, Enter(w)
    PROVE  /\ Controls' /\ matched' = matched /\ unread' = FALSE /\ inWait' = FALSE
           /\ matchedAtStart' = matched /\ pc' = w
           /\ ExitIsTakenBack' /\ HeldIsOfThisWait' /\ NothingWithoutTheWord'
<1>1. /\ pc' = w /\ inWait' = FALSE /\ matchedAtStart' = matched
      /\ unread' = FALSE /\ UNCHANGED <<newest, received, matched>>
      /\ exit' = IF w \in Loops THEN [exit EXCEPT ![LoopOf(w)] = FALSE] ELSE exit
  BY DEF Enter, Start, Drained
<1>2. exit' \in [{"pickup", "placement"} -> BOOLEAN]
  BY <1>1 DEF TypeOK, LoopOf
<1>3. Controls'
  BY <1>1, <1>2 DEF TypeOK, Controls
<1>4. pc' \notin {"grip", "place", "shift", "sight", "follow", "see", "gauge"}
  BY <1>1 DEF Waits, Loops, PickupLoop, PlacementLoop
<1>5. ExitIsTakenBack'
  BY <1>1, <1>4 DEF TypeOK, ExitIsTakenBack, PickupCalls, PlacementCalls, Loops, LoopOf,
     PickupLoop, PlacementLoop
<1> QED
  BY <1>1, <1>3, <1>4, <1>5 DEF HeldIsOfThisWait, NothingWithoutTheWord

\* A step that goes on to a call that asks for no word.
LEMMA Called ==
    ASSUME TypeOK, HeldIsOfThisWait, NEW call \in {"idle", "gauge"}, Goto(call),
           call = "gauge" => ~exit["placement"]
    PROVE  /\ Controls' /\ UNCHANGED <<matched, unread, inWait, matchedAtStart>> /\ pc' = call
           /\ ExitIsTakenBack' /\ HeldIsOfThisWait' /\ NothingWithoutTheWord'
<1>1. pc' = call /\ UNCHANGED <<newest, matched, unread, inWait, matchedAtStart, received, exit>>
  BY DEF Goto, waitVars
<1>2. Controls'
  BY <1>1 DEF TypeOK, Controls, Calls
<1>3. call \notin Waits
  BY DEF Waits, Loops, PickupLoop, PlacementLoop
<1> QED
  BY <1>1, <1>2, <1>3 DEF ExitIsTakenBack, HeldIsOfThisWait, NothingWithoutTheWord,
     PickupCalls, PlacementCalls, PickupLoop, PlacementLoop

\* A loop that fails ends the run: the exit is not requested while it goes on.
LEMMA LoopFailsToIdle ==
    ASSUME ExitIsTakenBack, NEW loop \in {"pickup", "placement"},
           loop = "pickup" => pc \in PickupCalls,
           loop = "placement" => pc \in PlacementCalls,
           LoopFails(loop)
    PROVE  Goto("idle") /\ UNCHANGED <<pickVars, placeVars>>
<1>1. ~exit[loop]
  BY DEF ExitIsTakenBack
<1> QED
  BY <1>1 DEF LoopFails, ExitAsSuccess

-----------------------------------------------------------------------------
(* Steps that leave the axis alone. *)

LEMMA SameAxis ==
    ASSUME Axis, UNCHANGED placeVars,
           pc' = pc \/ pc' \notin PlacementLoop \cup PlacementCalls \cup {"place"}
    PROVE  Axis'
BY DEF Axis, HookAtCommand, SeedIsCommand, CorrectionReady, placeVars, PlacementLoop, PlacementCalls

LEMMA SamePlaces ==
    ASSUME Places, UNCHANGED <<pickVars, placeVars>> PROVE Places'
BY DEF Places, pickVars, placeVars

\* A call that fails and ends the run.
LEMMA IdleIInv ==
    ASSUME IInv, Goto("idle"), UNCHANGED <<pickVars, placeVars>> PROVE IInv'
<1>1. TypeOK /\ HeldIsOfThisWait /\ Axis /\ Controls /\ Flags /\ Places
  BY TypeParts DEF IInv, Words
<1>2. /\ Controls' /\ UNCHANGED <<matched, unread, inWait, matchedAtStart>> /\ pc' = "idle"
      /\ ExitIsTakenBack' /\ HeldIsOfThisWait' /\ NothingWithoutTheWord'
  BY <1>1, Called
<1>3. Places'
  BY <1>1, SamePlaces
<1>4. Flags'
  BY <1>1, <1>2 DEF Flags, placeVars
<1>5. Axis'
  BY <1>1, <1>2, SameAxis DEF PlacementLoop, PlacementCalls
<1> QED
  BY <1>2, <1>3, <1>4, <1>5, TypeParts DEF IInv, Words

\* A wait of the pickup, or one before the placement loop, begins.
LEMMA EnterIInv ==
    ASSUME IInv, NEW w \in Waits \ PlacementLoop, Enter(w), Places', UNCHANGED <<sound, trusted>>
    PROVE  IInv'
<1>1. TypeOK /\ Flags
  BY TypeParts DEF IInv, Words
<1>2. /\ Controls' /\ matched' = matched /\ unread' = FALSE /\ inWait' = FALSE
      /\ matchedAtStart' = matched /\ pc' = w
      /\ ExitIsTakenBack' /\ HeldIsOfThisWait' /\ NothingWithoutTheWord'
  BY <1>1, Begun
<1>3. Flags'
  BY <1>1, <1>2 DEF Flags
<1>4. Axis'
  <2>1. pc' \notin PlacementLoop \cup PlacementCalls \cup {"place"}
    BY <1>2 DEF PlacementLoop, PlacementCalls, Waits, Loops, PickupLoop
  <2> QED
    BY <2>1 DEF Axis, HookAtCommand, SeedIsCommand, CorrectionReady, PlacementLoop, PlacementCalls
<1> QED
  BY <1>2, <1>3, <1>4, TypeParts DEF IInv, Words

\* A wait of the placement loop begins.
LEMMA EnterLoopIInv ==
    ASSUME IInv, NEW w \in PlacementLoop, Enter(w), Places',
           sound' \in BOOLEAN, trusted' \in BOOLEAN, pc' = w => Axis'
    PROVE  IInv'
<1>1. TypeOK /\ Flags /\ w \in Waits
  BY TypeParts DEF IInv, Words, Waits, Loops
<1>2. /\ Controls' /\ matched' = matched /\ unread' = FALSE /\ inWait' = FALSE
      /\ matchedAtStart' = matched /\ pc' = w
      /\ ExitIsTakenBack' /\ HeldIsOfThisWait' /\ NothingWithoutTheWord'
  BY <1>1, Begun
<1>3. Flags'
  BY <1>1, <1>2 DEF Flags
<1> QED
  BY <1>2, <1>3, TypeParts DEF IInv, Words

-----------------------------------------------------------------------------
(* The calls. *)

LEMMA TaskIInv == IInv /\ Task => IInv'
<1> SUFFICES ASSUME IInv, Task PROVE IInv'
  OBVIOUS
<1>1. Places
  BY TypeParts DEF IInv, Words
<1>2. CASE Enter("pickup_hover") /\ pickup' = 0 /\ UNCHANGED <<correctedPickup, placeVars>>
  <2>1. Places' /\ UNCHANGED <<sound, trusted>>
    BY <1>1, <1>2 DEF Places, placeVars
  <2>2. "pickup_hover" \in Waits \ PlacementLoop
    BY DEF Waits, PlacementLoop
  <2> QED
    BY <1>2, <2>1, <2>2, EnterIInv
<1>3. CASE Fails
  BY <1>3, IdleIInv DEF Fails
<1> QED
  BY <1>2, <1>3 DEF Task

LEMMA AboveIInv == IInv /\ Above => IInv'
<1> SUFFICES ASSUME IInv, Above PROVE IInv'
  OBVIOUS
<1>1. Places
  BY TypeParts DEF IInv, Words
<1>2. CASE /\ mv' = 0 /\ hook' = 0
           /\ Enter("pickup_measure")
           /\ UNCHANGED <<pickVars, grip, belief, corrected, seed, sound, trusted>>
  <2>1. Places' /\ UNCHANGED <<sound, trusted>>
    BY <1>1, <1>2 DEF Places, pickVars
  <2>2. "pickup_measure" \in Waits \ PlacementLoop
    BY DEF Waits, Loops, PickupLoop, PlacementLoop
  <2> QED
    BY <1>2, <2>1, <2>2, EnterIInv
<1>3. CASE Fails
  BY <1>3, IdleIInv DEF Fails
<1> QED
  BY <1>2, <1>3 DEF Above

LEMMA SightIInv == IInv /\ Sight => IInv'
<1> SUFFICES ASSUME IInv, Sight PROVE IInv'
  OBVIOUS
<1>1. Places /\ ExitIsTakenBack /\ pc = "sight"
  BY TypeParts DEF IInv, Words, Sight
<1>2. CASE /\ \E observed \in Sightings : correctedPickup' = CorrectedPickup(observed)
           /\ Enter("pickup_correct")
           /\ UNCHANGED <<pickup, placeVars>>
  <2>1. Places' /\ UNCHANGED <<sound, trusted>>
    BY <1>1, <1>2, ParameterTypes DEF Places, placeVars, CorrectedPickup
  <2>2. "pickup_correct" \in Waits \ PlacementLoop
    BY DEF Waits, Loops, PickupLoop, PlacementLoop
  <2> QED
    BY <1>2, <2>1, <2>2, EnterIInv
<1>3. CASE LoopFails("pickup")
  BY <1>1, <1>3, LoopFailsToIdle, IdleIInv DEF PickupCalls
<1> QED
  BY <1>2, <1>3 DEF Sight

LEMMA FollowIInv == IInv /\ Follow => IInv'
<1> SUFFICES ASSUME IInv, Follow PROVE IInv'
  OBVIOUS
<1>1. Places /\ ExitIsTakenBack /\ pc = "follow"
  BY TypeParts DEF IInv, Words, Follow
<1>2. CASE Enter("pickup_measure") /\ UNCHANGED <<pickVars, placeVars>>
  <2>1. Places' /\ UNCHANGED <<sound, trusted>>
    BY <1>1, <1>2, SamePlaces DEF placeVars
  <2>2. "pickup_measure" \in Waits \ PlacementLoop
    BY DEF Waits, Loops, PickupLoop, PlacementLoop
  <2> QED
    BY <1>2, <2>1, <2>2, EnterIInv
<1>3. CASE LoopFails("pickup")
  BY <1>1, <1>3, LoopFailsToIdle, IdleIInv DEF PickupCalls
<1> QED
  BY <1>2, <1>3 DEF Follow

LEMMA GripIInv == IInv /\ Grip => IInv'
<1> SUFFICES ASSUME IInv, Grip PROVE IInv'
  OBVIOUS
<1>1. Places
  BY TypeParts DEF IInv, Words
<1>2. CASE /\ grip' \in Grips /\ belief' \in Grips
           /\ Enter("hover")
           /\ UNCHANGED <<pickVars, mv, hook, corrected, seed, sound, trusted>>
  <2>1. Places' /\ UNCHANGED <<sound, trusted>>
    BY <1>1, <1>2 DEF Places, pickVars
  <2>2. "hover" \in Waits \ PlacementLoop
    BY DEF Waits, PlacementLoop
  <2> QED
    BY <1>2, <2>1, <2>2, EnterIInv
<1>3. CASE Fails
  BY <1>3, IdleIInv DEF Fails
<1> QED
  BY <1>2, <1>3 DEF Grip

LEMMA CarryIInv == IInv /\ Carry => IInv'
<1> SUFFICES ASSUME IInv, Carry PROVE IInv'
  OBVIOUS
<1>1. Places /\ Flags
  BY TypeParts DEF IInv, Words
<1>2. CASE /\ mv' = Disturbance /\ hook' \in Near(Disturbance) /\ seed' = 0
           /\ trusted' = FALSE
           /\ Enter("measure")
           /\ UNCHANGED <<pickVars, grip, belief, corrected, sound>>
  <2>1. hook' \in Int /\ Within(hook' - mv', Tolerance)
    BY <1>2, NearType, ParameterTypes
  <2>2. Places'
    BY <1>1, <1>2, <2>1, ParameterTypes DEF Places, pickVars
  <2>3. sound' \in BOOLEAN /\ trusted' \in BOOLEAN
    BY <1>1, <1>2 DEF Flags
  <2>4. ASSUME pc' = "measure" PROVE Axis'
    BY <1>2, <2>1, <2>4 DEF Axis, HookAtCommand, SeedIsCommand, CorrectionReady
  <2>5. "measure" \in PlacementLoop
    BY DEF PlacementLoop
  <2> QED
    BY <1>2, <2>2, <2>3, <2>4, <2>5, EnterLoopIInv
<1>3. CASE Fails
  BY <1>3, IdleIInv DEF Fails
<1> QED
  BY <1>2, <1>3 DEF Carry

LEMMA SeeIInv == IInv /\ See => IInv'
<1> SUFFICES ASSUME IInv, See PROVE IInv'
  OBVIOUS
<1>1. TypeOK /\ HeldIsOfThisWait /\ ExitIsTakenBack /\ Controls /\ Flags /\ Places /\ Axis
      /\ pc = "see"
  BY TypeParts DEF IInv, Words, See
<1>2. /\ belief' \in Grips /\ Goto("gauge")
      /\ UNCHANGED <<pickVars, mv, hook, grip, corrected, seed, sound, trusted>>
  BY DEF See, Estimates
<1>3. ~exit["placement"]
  BY <1>1 DEF ExitIsTakenBack, PlacementCalls
<1>4. /\ Controls' /\ UNCHANGED <<matched, unread, inWait, matchedAtStart>> /\ pc' = "gauge"
      /\ ExitIsTakenBack' /\ HeldIsOfThisWait' /\ NothingWithoutTheWord'
  BY <1>1, <1>2, <1>3, Called
<1>5. Places'
  BY <1>1, <1>2 DEF Places, pickVars
<1>6. Flags'
  BY <1>1, <1>2, <1>4 DEF Flags
<1>7. Axis'
  BY <1>1, <1>2, <1>4 DEF Axis, HookAtCommand, SeedIsCommand, CorrectionReady, PlacementLoop,
     PlacementCalls
<1> QED
  BY <1>4, <1>5, <1>6, <1>7, TypeParts DEF IInv, Words

\* The correction: on top of the command it was measured at, and within the clamp of it.
LEMMA Correction ==
    ASSUME NEW m \in Int, NEW h \in Int, NEW b \in Int, NEW d \in Int, d = 0 - (h + b),
           Within(h - m, Tolerance)
    PROVE  /\ m + Clamped(d) \in Int
           /\ Within((m + Clamped(d)) - m, MaxCorrection)
           /\ -MaxCorrection <= d /\ d <= MaxCorrection => Within((m + Clamped(d)) + b, Tolerance)
<1>1. /\ Clamped(d) \in Int /\ Within(Clamped(d), MaxCorrection)
      /\ -MaxCorrection <= d /\ d <= MaxCorrection => Clamped(d) = d
  BY ClampedType
<1>2. Within((m + Clamped(d)) - m, MaxCorrection)
  BY <1>1, ParameterTypes DEF Within
<1>3. ASSUME Clamped(d) = d PROVE Within((m + Clamped(d)) + b, Tolerance)
  BY <1>3, ParameterTypes DEF Within
<1> QED
  BY <1>1, <1>2, <1>3

LEMMA GaugeIInv == IInv /\ Gauge => IInv'
<1> SUFFICES ASSUME IInv, Gauge PROVE IInv'
  OBVIOUS
<1>1. Places /\ Flags /\ ExitIsTakenBack /\ Axis /\ pc = "gauge"
  BY TypeParts DEF IInv, Words, Gauge
<1>2. CASE LET d == 0 - (hook + belief) IN
           /\ corrected' = CorrectedHover(Clamped(d))
           /\ sound' = (belief = grip /\ -MaxCorrection <= d /\ d <= MaxCorrection)
           /\ Enter("correct")
           /\ UNCHANGED <<pickVars, mv, hook, grip, belief, seed, trusted>>
  <2>1. PICK d \in Int : /\ d = 0 - (hook + belief) /\ corrected' = mv + Clamped(d)
                         /\ sound' <=> (belief = grip /\ -MaxCorrection <= d /\ d <= MaxCorrection)
                         /\ sound' \in BOOLEAN
    <3>1. 0 - (hook + belief) \in Int
      BY <1>1, ParameterTypes DEF Places
    <3> QED
      BY <1>2, <3>1 DEF CorrectedHover
  <2>2. Enter("correct") /\ UNCHANGED <<pickVars, mv, hook, grip, belief, seed, trusted>>
    BY <1>2
  <2>3. /\ mv \in Int /\ hook \in Int /\ belief \in Int /\ Within(hook - mv, Tolerance)
    BY <1>1, ParameterTypes DEF Places, Axis, HookAtCommand
  <2>4. /\ corrected' \in Int /\ Within(corrected' - mv, MaxCorrection)
        /\ sound' => Within(corrected' + grip, Tolerance)
    BY <2>1, <2>3, Correction
  <2>5. Places'
    BY <1>1, <2>2, <2>4 DEF Places, pickVars
  <2>6. sound' \in BOOLEAN /\ trusted' \in BOOLEAN
    BY <1>1, <2>1, <2>2 DEF Flags
  <2>7. ASSUME pc' = "correct" PROVE Axis'
    BY <1>1, <2>2, <2>4, <2>7 DEF Axis, HookAtCommand, SeedIsCommand, CorrectionReady,
       PlacementLoop, PlacementCalls
  <2>8. "correct" \in PlacementLoop
    BY DEF PlacementLoop
  <2> QED
    BY <2>2, <2>5, <2>6, <2>7, <2>8, EnterLoopIInv
<1>3. CASE LoopFails("placement")
  BY <1>1, <1>3, LoopFailsToIdle, IdleIInv DEF PlacementCalls
<1> QED
  BY <1>2, <1>3 DEF Gauge

LEMMA ShiftIInv == IInv /\ Shift => IInv'
<1> SUFFICES ASSUME IInv, Shift PROVE IInv'
  OBVIOUS
<1>1. Places /\ Flags /\ ExitIsTakenBack /\ Axis /\ pc = "shift"
  BY TypeParts DEF IInv, Words, Shift
<1>2. CASE /\ hook' \in Near(mv)
           /\ Enter("measure")
           /\ UNCHANGED <<pickVars, mv, grip, belief, corrected, seed, sound, trusted>>
  <2>1. hook' \in Int /\ Within(hook' - mv, Tolerance)
    BY <1>1, <1>2, NearType DEF Places
  <2>2. Places' /\ sound' \in BOOLEAN /\ trusted' \in BOOLEAN
    BY <1>1, <1>2, <2>1 DEF Places, pickVars, Flags
  <2>3. ASSUME pc' = "measure" PROVE Axis'
    BY <1>1, <1>2, <2>1, <2>3 DEF Axis, HookAtCommand, SeedIsCommand, CorrectionReady,
       PlacementLoop, PlacementCalls
  <2>4. "measure" \in PlacementLoop
    BY DEF PlacementLoop
  <2> QED
    BY <1>2, <2>2, <2>3, <2>4, EnterLoopIInv
<1>3. CASE LoopFails("placement")
  BY <1>1, <1>3, LoopFailsToIdle, IdleIInv DEF PlacementCalls
<1> QED
  BY <1>2, <1>3 DEF Shift

LEMMA PlaceIInv == IInv /\ Place => IInv'
<1> SUFFICES ASSUME IInv, Place PROVE IInv'
  OBVIOUS
<1>1. TypeOK /\ HeldIsOfThisWait /\ Controls /\ Flags /\ Places
  BY TypeParts DEF IInv, Words
<1>2. /\ hook' \in Near(Entry) /\ Goto("idle")
      /\ UNCHANGED <<pickVars, mv, grip, belief, corrected, seed, sound, trusted>>
  BY DEF Place
<1>3. /\ Controls' /\ UNCHANGED <<matched, unread, inWait, matchedAtStart>> /\ pc' = "idle"
      /\ ExitIsTakenBack' /\ HeldIsOfThisWait' /\ NothingWithoutTheWord'
  BY <1>1, <1>2, Called
<1>4. hook' \in Int
  <2>1. Entry \in Int
    BY <1>1 DEF Entry, Places
  <2> QED
    BY <1>2, <2>1, NearType
<1>5. Places' /\ Flags'
  BY <1>1, <1>2, <1>3, <1>4 DEF Places, Flags, pickVars
<1>6. Axis'
  BY <1>3 DEF Axis, HookAtCommand, SeedIsCommand, CorrectionReady, PlacementLoop, PlacementCalls
<1> QED
  BY <1>3, <1>5, <1>6, TypeParts DEF IInv, Words

-----------------------------------------------------------------------------
(* The waits. *)

\* A command is read: the wait stays, or ends on its word or on the exit.
LEMMA ReadFrame ==
    ASSUME NEW w \in Waits, OnRunning(w)
    PROVE  /\ pc = w /\ unread /\ unread' = FALSE
           /\ UNCHANGED <<newest, matched, inWait, matchedAtStart>>
BY DEF OnRunning

LEMMA ExitIInv == ASSUME IInv, NEW w \in Waits, OnRunning(w), Exit(w) PROVE IInv'
<1>1. /\ pc = w /\ unread /\ unread' = FALSE
      /\ UNCHANGED <<newest, matched, inWait, matchedAtStart>>
  BY ReadFrame
<1>2. TypeOK /\ HeldIsOfThisWait /\ Axis /\ Controls /\ Flags /\ Places
  BY TypeParts DEF IInv, Words
<1>3. /\ newest = ExitOf(w) /\ received' = newest
      /\ exit' = [exit EXCEPT ![LoopOf(w)] = TRUE]
      /\ pc' = ExitAsSuccess(LoopOf(w), TRUE)
      /\ UNCHANGED <<pickVars, placeVars>>
  BY DEF Exit, Accept
<1>4. w \in Loops
  BY <1>1, <1>2, <1>3 DEF HeldIsOfThisWait, ExitOf
<1>5. \/ w \in PickupLoop /\ LoopOf(w) = "pickup" /\ pc' = "grip" /\ received' = "pick"
      \/ w \in PlacementLoop /\ LoopOf(w) = "placement" /\ pc' = "place" /\ received' = "place"
  BY <1>3, <1>4 DEF ExitOf, LoopOf, ExitAsSuccess, Loops, PickupLoop, PlacementLoop
<1>6. exit' \in [{"pickup", "placement"} -> BOOLEAN]
  BY <1>2, <1>3, <1>5 DEF Controls
<1>7. Controls'
  BY <1>1, <1>2, <1>3, <1>5, <1>6 DEF Controls, Calls, Commands
<1>8. Places'
  BY <1>2, <1>3, SamePlaces
<1>9. Flags'
  BY <1>1, <1>2, <1>3 DEF Flags, placeVars
<1>10. ExitIsTakenBack' /\ HeldIsOfThisWait' /\ NothingWithoutTheWord'
  BY <1>1, <1>5 DEF ExitIsTakenBack, HeldIsOfThisWait, NothingWithoutTheWord, PickupCalls,
     PlacementCalls, PickupLoop, PlacementLoop, Waits, Loops
<1>11. Axis'
  <2>1. CASE pc' = "grip"
    BY <1>2, <1>3, <2>1, SameAxis DEF PlacementLoop, PlacementCalls
  <2>2. CASE w \in PlacementLoop /\ pc' = "place"
    BY <1>1, <1>2, <1>3, <2>2
       DEF Axis, HookAtCommand, SeedIsCommand, CorrectionReady, placeVars, PlacementLoop,
           PlacementCalls
  <2> QED
    BY <1>5, <2>1, <2>2
<1> QED
  BY <1>7, <1>8, <1>9, <1>10, <1>11, TypeParts DEF IInv, Words

\* A hook within the tolerance of its command is within the clamp and the tolerance of
\* one that is corrected.
LEMMA StepTo ==
    ASSUME NEW h \in Int, NEW m \in Int, NEW c \in Int,
           Within(h - m, Tolerance), Within(c - m, MaxCorrection)
    PROVE  Within(c - h, MaxCorrection + Tolerance)
BY ParameterTypes DEF Within

LEMMA ProceedIInv == ASSUME IInv, NEW w \in Waits, OnRunning(w), Proceed(w) PROVE IInv'
<1>1. /\ pc = w /\ unread /\ unread' = FALSE
      /\ UNCHANGED <<newest, matched, inWait, matchedAtStart>>
  BY ReadFrame
<1>2. TypeOK /\ HeldIsOfThisWait /\ ExitIsTakenBack /\ Axis /\ Controls /\ Flags /\ Places
  BY TypeParts DEF IInv, Words
<1>3. /\ newest = w /\ received' = newest /\ pc' = After(w)
      /\ pickup' = IF w = "pickup_correct" THEN correctedPickup ELSE pickup
      /\ IF w = "correct" THEN mv' = corrected /\ seed' = corrected /\ trusted' = sound
                          ELSE UNCHANGED <<mv, seed, trusted>>
      /\ UNCHANGED <<exit, correctedPickup, hook, grip, belief, corrected, sound>>
  BY DEF Proceed, Accept
<1>4. \/ w = "acquire" /\ pc' = "task"
      \/ w = "pickup_hover" /\ pc' = "above"
      \/ w = "pickup_measure" /\ pc' = "sight"
      \/ w = "pickup_correct" /\ pc' = "follow"
      \/ w = "hover" /\ pc' = "carry"
      \/ w = "measure" /\ pc' = "see"
      \/ w = "correct" /\ pc' = "shift"
  BY <1>3 DEF After, Waits, Loops, PickupLoop, PlacementLoop
<1>5. Controls'
  BY <1>1, <1>2, <1>3, <1>4 DEF Controls, Calls, Commands
<1>6. Places'
  BY <1>2, <1>3 DEF Places
<1>7. Flags'
  <2>1. trusted' \in BOOLEAN
    BY <1>2, <1>3 DEF Flags
  <2> QED
    BY <1>1, <1>2, <1>3, <2>1 DEF Flags
<1>8. ExitIsTakenBack'
  BY <1>1, <1>2, <1>3, <1>4 DEF ExitIsTakenBack, PickupCalls, PlacementCalls, PickupLoop,
     PlacementLoop
<1>9. HeldIsOfThisWait' /\ NothingWithoutTheWord'
  BY <1>1, <1>3, <1>4 DEF HeldIsOfThisWait, NothingWithoutTheWord, Waits, Loops, PickupLoop,
     PlacementLoop
<1>10. Axis'
  <2>1. CASE w = "correct"
    <3>1. pc' = "shift" /\ mv' = corrected /\ seed' = corrected /\ trusted' = sound
      BY <1>3, <1>4, <2>1
    <3>2. /\ Within(hook - mv, Tolerance) /\ Within(corrected - mv, MaxCorrection)
          /\ sound => Within(corrected + grip, Tolerance)
      BY <1>1, <1>2, <2>1 DEF Axis, HookAtCommand, CorrectionReady, PlacementLoop
    <3>3. Within(corrected - hook, MaxCorrection + Tolerance)
      BY <1>2, <3>2, StepTo DEF Places
    <3> QED
      BY <1>3, <3>1, <3>2, <3>3
         DEF Axis, HookAtCommand, SeedIsCommand, CorrectionReady, PlacementLoop
  <2>2. CASE w = "measure"
    BY <1>1, <1>2, <1>3, <1>4, <2>2
       DEF Axis, HookAtCommand, SeedIsCommand, CorrectionReady, PlacementLoop, PlacementCalls
  <2>3. CASE w \notin PlacementLoop
    <3>1. pc' \notin PlacementLoop \cup PlacementCalls \cup {"place"}
      BY <1>4, <2>3 DEF PlacementLoop, PlacementCalls
    <3> QED
      BY <3>1 DEF Axis, HookAtCommand, SeedIsCommand, CorrectionReady, PlacementLoop,
         PlacementCalls
  <2> QED
    BY <2>1, <2>2, <2>3 DEF PlacementLoop
<1> QED
  BY <1>5, <1>6, <1>7, <1>8, <1>9, <1>10, TypeParts DEF IInv, Words

\* A step that keeps the tree where it is, and what was said to it.
LEMMA StayIInv ==
    ASSUME IInv, UNCHANGED <<pc, received, exit, matchedAtStart, pickVars, placeVars>>,
           newest' \in Commands \/ newest' = newest,
           unread' \in BOOLEAN, matched' \in BOOLEAN, inWait' \in BOOLEAN,
           HeldIsOfThisWait'
    PROVE  IInv'
<1>1. Axis /\ Controls /\ Flags /\ Places /\ ExitIsTakenBack /\ NothingWithoutTheWord
  BY TypeParts DEF IInv, Words
<1>2. Controls'
  BY <1>1 DEF Controls
<1>3. Flags'
  BY <1>1 DEF Flags, placeVars
<1>4. Places'
  BY <1>1, SamePlaces
<1>5. ExitIsTakenBack' /\ NothingWithoutTheWord'
  BY <1>1 DEF ExitIsTakenBack, NothingWithoutTheWord
<1>6. Axis'
  BY <1>1, SameAxis
<1> QED
  BY <1>2, <1>3, <1>4, <1>5, <1>6, TypeParts DEF IInv, Words

LEMMA OnRunningIInv == ASSUME IInv, NEW w \in Waits, OnRunning(w) PROVE IInv'
<1>1. Flags /\ HeldIsOfThisWait
  BY TypeParts DEF IInv, Words
<1>2. CASE Ignore(w)
  <2>1. /\ UNCHANGED <<pc, received, exit, pickVars, placeVars>>
        /\ unread' = FALSE /\ UNCHANGED <<newest, matched, inWait, matchedAtStart>>
    BY <1>2, ReadFrame DEF Ignore
  <2>2. HeldIsOfThisWait'
    BY <1>1, <2>1 DEF HeldIsOfThisWait
  <2>3. unread' \in BOOLEAN /\ matched' \in BOOLEAN /\ inWait' \in BOOLEAN
    BY <1>1, <2>1 DEF Flags
  <2> QED
    BY <2>1, <2>2, <2>3, StayIInv
<1> QED
  BY <1>2, ExitIInv, ProceedIInv DEF OnRunning

-----------------------------------------------------------------------------
(* The operator, the middleware and the action server. *)

LEMMA IssueIInv == ASSUME IInv, NEW c \in Commands, Issue(c) PROVE IInv'
<1>1. Flags /\ HeldIsOfThisWait
  BY TypeParts DEF IInv, Words
<1>2. /\ newest' = c /\ unread' = (matched /\ pc \in Waits) /\ inWait' = (pc \in Waits)
      /\ UNCHANGED <<pc, matched, matchedAtStart, received, exit, pickVars, placeVars>>
  BY DEF Issue
<1>3. c # None
  BY DEF Commands, None, Waits, Loops, PickupLoop, PlacementLoop
<1>4. HeldIsOfThisWait'
  BY <1>1, <1>2, <1>3 DEF HeldIsOfThisWait
<1>5. unread' \in BOOLEAN /\ matched' \in BOOLEAN /\ inWait' \in BOOLEAN
  BY <1>1, <1>2 DEF Flags
<1> QED
  BY <1>2, <1>4, <1>5, StayIInv

LEMMA DiscoverIInv == IInv /\ Discover => IInv'
<1> SUFFICES ASSUME IInv, Discover PROVE IInv'
  OBVIOUS
<1>1. Flags /\ HeldIsOfThisWait
  BY TypeParts DEF IInv, Words
<1>2. /\ ~matched /\ matched' = TRUE /\ unread' = (newest # None /\ pc \in Waits)
      /\ UNCHANGED <<pc, newest, inWait, matchedAtStart, received, exit, pickVars, placeVars>>
  BY DEF Discover, Latched
<1>3. HeldIsOfThisWait'
  BY <1>1, <1>2 DEF HeldIsOfThisWait
<1>4. unread' \in BOOLEAN /\ matched' \in BOOLEAN /\ inWait' \in BOOLEAN
  BY <1>1, <1>2 DEF Flags
<1> QED
  BY <1>2, <1>3, <1>4, StayIInv

LEMMA StartRunIInv == IInv /\ StartRun => IInv'
<1> SUFFICES ASSUME IInv, StartRun PROVE IInv'
  OBVIOUS
<1>1. Controls /\ Flags /\ Places
  BY TypeParts DEF IInv, Words
<1>2. /\ pc' = "acquire" /\ exit' = exit /\ inWait' = FALSE
      /\ matchedAtStart' = FALSE /\ UNCHANGED <<newest, received>>
      /\ unread' = FALSE /\ matched' = FALSE
  BY DEF StartRun, Start, Loops, PickupLoop, PlacementLoop
<1>3. /\ pickup' = 0 /\ correctedPickup' = 0 /\ mv' = 0 /\ hook' = 0 /\ corrected' = 0
      /\ seed' = 0 /\ sound' = FALSE /\ trusted' = FALSE /\ UNCHANGED <<grip, belief>>
  BY DEF StartRun
<1>4. Controls'
  BY <1>1, <1>2 DEF Controls, Waits
<1>5. Flags' /\ Places'
  <2>1. Flags'
    BY <1>1, <1>2, <1>3 DEF Flags
  <2>2. Places'
    BY <1>1, <1>3 DEF Places
  <2> QED
    BY <2>1, <2>2
<1>6. ExitIsTakenBack' /\ HeldIsOfThisWait' /\ NothingWithoutTheWord' /\ Axis'
  BY <1>2 DEF ExitIsTakenBack, HeldIsOfThisWait, NothingWithoutTheWord, Axis, HookAtCommand,
     SeedIsCommand, CorrectionReady, PickupCalls, PlacementCalls, PickupLoop, PlacementLoop
<1> QED
  BY <1>4, <1>5, <1>6, TypeParts DEF IInv, Words

LEMMA CancelIInv == IInv /\ Cancel => IInv'
<1> SUFFICES ASSUME IInv, Cancel PROVE IInv'
  OBVIOUS
<1>1. Controls /\ Flags /\ Places
  BY TypeParts DEF IInv, Words
<1>2. /\ pc' = "idle" /\ unread' = FALSE /\ inWait' = FALSE
      /\ UNCHANGED <<newest, matched, matchedAtStart, received, exit, pickVars, placeVars>>
  BY DEF Cancel
<1>3. Controls'
  BY <1>1, <1>2 DEF Controls
<1>4. Flags'
  BY <1>1, <1>2 DEF Flags, placeVars
<1>5. Places'
  BY <1>1, <1>2, SamePlaces
<1>6. ExitIsTakenBack' /\ HeldIsOfThisWait' /\ NothingWithoutTheWord' /\ Axis'
  BY <1>2 DEF ExitIsTakenBack, HeldIsOfThisWait, NothingWithoutTheWord, Axis, HookAtCommand,
     SeedIsCommand, CorrectionReady, PickupCalls, PlacementCalls, PickupLoop, PlacementLoop,
     Waits, Loops
<1> QED
  BY <1>3, <1>4, <1>5, <1>6, TypeParts DEF IInv, Words

LEMMA InitIInv == Init => IInv
<1> SUFFICES ASSUME Init PROVE IInv
  OBVIOUS
<1>1. Controls
  BY DEF Init, Controls
<1>2. Flags /\ Places
  <2>1. Flags
    BY DEF Init, Flags
  <2>2. Places
    BY DEF Init, Places
  <2> QED
    BY <2>1, <2>2
<1>3. ExitIsTakenBack /\ HeldIsOfThisWait /\ NothingWithoutTheWord /\ Axis
  BY DEF Init, ExitIsTakenBack, HeldIsOfThisWait, NothingWithoutTheWord, Axis, HookAtCommand,
     SeedIsCommand, CorrectionReady, PickupCalls, PlacementCalls, PickupLoop, PlacementLoop
<1> QED
  BY <1>1, <1>2, <1>3, TypeParts DEF IInv, Words

LEMMA NextIInv == IInv /\ [Next]_vars => IInv'
<1> SUFFICES ASSUME IInv, [Next]_vars PROVE IInv'
  OBVIOUS
<1>1. CASE Calling
  BY <1>1, TaskIInv, AboveIInv, SightIInv, FollowIInv, GripIInv, CarryIInv, SeeIInv, GaugeIInv,
     ShiftIInv, PlaceIInv DEF Calling
<1>2. CASE \E w \in Waits : OnRunning(w)
  BY <1>2, OnRunningIInv
<1>3. CASE Discover \/ StartRun \/ Cancel
  BY <1>3, DiscoverIInv, StartRunIInv, CancelIInv
<1>4. CASE \E c \in Commands : Issue(c)
  BY <1>4, IssueIInv
<1>5. CASE UNCHANGED vars
  <2>1. /\ UNCHANGED <<pc, received, exit, matchedAtStart, pickVars, placeVars>>
        /\ UNCHANGED <<newest, unread, matched, inWait>>
    BY <1>5 DEF vars, waitVars
  <2>2. Flags /\ HeldIsOfThisWait
    BY TypeParts DEF IInv, Words
  <2>3. unread' \in BOOLEAN /\ matched' \in BOOLEAN /\ inWait' \in BOOLEAN /\ HeldIsOfThisWait'
    BY <2>1, <2>2 DEF Flags, HeldIsOfThisWait
  <2> QED
    BY <2>1, <2>3, StayIInv
<1> QED
  BY <1>1, <1>2, <1>3, <1>4, <1>5 DEF Next, TreeNext

LEMMA InvariantHolds == Spec => []IInv
BY InitIInv, NextIInv, PTL DEF Spec

-----------------------------------------------------------------------------
(* The theorems. *)

\* Every variable keeps its type: positions stay whole numbers on the axis.
THEOREM TypeCorrect == Spec => []TypeOK
<1>1. IInv => TypeOK
  BY DEF IInv, Words
<1> QED
  BY <1>1, InvariantHolds, PTL

\* No grip, no descent and no shift of a carried block without the operator's word for
\* it, whichever measurements and moves fail in between.
THEOREM WordFirst == Spec => []NothingWithoutTheWord
<1>1. IInv => NothingWithoutTheWord
  BY DEF IInv, Words
<1> QED
  BY <1>1, InvariantHolds, PTL

\* A sound correction is in the placement once, from any hover and under any clamp.
THEOREM OneCorrection == Spec => []CorrectionCountsOnce
<1>1. ASSUME IInv PROVE CorrectionCountsOnce
  <2>1. Places /\ Axis
    BY <1>1, TypeParts DEF IInv, Words
  <2>2. mv \in Int /\ hook \in Int /\ grip \in Int /\ seed \in Int
    BY <2>1, ParameterTypes DEF Places
  <2>3. ASSUME trusted, pc \in {"measure", "correct", "place"}
        PROVE  Miss \in -(2 * Tolerance) .. 2 * Tolerance
    <3>1. Within(hook - mv, Tolerance) /\ Within(mv + grip, Tolerance)
      BY <2>1, <2>3 DEF Axis, HookAtCommand, SeedIsCommand, PlacementLoop
    <3> QED
      BY <2>2, <3>1, ParameterTypes DEF Miss, Within
  <2>4. ASSUME trusted, pc = "place" PROVE Entry + grip \in -Tolerance .. Tolerance
    <3>1. seed = mv /\ Within(mv + grip, Tolerance)
      BY <2>1, <2>4 DEF Axis, SeedIsCommand
    <3> QED
      BY <2>2, <3>1, ParameterTypes DEF Entry, Within
  <2> QED
    BY <2>3, <2>4 DEF CorrectionCountsOnce
<1> QED
  BY <1>1, InvariantHolds, PTL

\* A wait that began with the panel found ends only on what was published since.
THEOREM AnswerIsFresh == Spec => AnswerIsOfThisWait
<1>1. ASSUME IInv, Next, matchedAtStart, pc \in Waits, pc' \notin {pc, "idle"} PROVE inWait
  <2>1. HeldIsOfThisWait
    BY <1>1 DEF IInv, Words
  <2>2. CASE Calling
    BY <1>1, <2>2 DEF Calling, Task, Above, Sight, Follow, Grip, Carry, See, Gauge, Shift, Place,
       Waits, Loops, PickupLoop, PlacementLoop
  <2>3. CASE \E w \in Waits : OnRunning(w)
    BY <1>1, <2>1, <2>3 DEF OnRunning, HeldIsOfThisWait
  <2>4. CASE Discover \/ StartRun \/ Cancel \/ \E c \in Commands : Issue(c)
    BY <1>1, <2>4 DEF Discover, StartRun, Cancel, Issue, Waits, Loops, PickupLoop, PlacementLoop
  <2> QED
    BY <1>1, <2>2, <2>3, <2>4 DEF Next, TreeNext
<1>2. IInv /\ [Next]_vars =>
        [matchedAtStart /\ pc \in Waits /\ pc' \notin {pc, "idle"} => inWait]_vars
  BY <1>1
<1> QED
  BY <1>2, InvariantHolds, PTL DEF Spec, AnswerIsOfThisWait

LEMMA StepOver ==
    ASSUME NEW h \in Int, NEW m \in Int, NEW a \in Int,
           Within(m - h, MaxCorrection + Tolerance), Within(a - m, Tolerance)
    PROVE  a - h \in -(MaxCorrection + 2 * Tolerance) .. (MaxCorrection + 2 * Tolerance)
BY ParameterTypes DEF Within

\* No estimate moves the loaded hook further than the clamp and two tolerances.
THEOREM StepIsBounded == Spec => StepBounded
<1>1. ASSUME IInv, Next, pc = "shift"
      PROVE  hook' - hook \in -(MaxCorrection + 2 * Tolerance) .. (MaxCorrection + 2 * Tolerance)
  <2>1. Places /\ Within(mv - hook, MaxCorrection + Tolerance)
    BY <1>1, TypeParts DEF IInv, Words, Axis, HookAtCommand
  <2>2. mv \in Int /\ hook \in Int
    BY <2>1 DEF Places
  <2>3. hook' = hook \/ hook' \in Near(mv)
    <3>1. CASE Calling
      BY <1>1, <3>1 DEF Calling, Task, Above, Sight, Follow, Grip, Carry, See, Gauge, Shift,
         Place, LoopFails, placeVars
    <3>2. CASE \E w \in Waits : OnRunning(w)
      BY <1>1, <3>2 DEF OnRunning, Waits, Loops, PickupLoop, PlacementLoop
    <3>3. CASE Discover \/ StartRun \/ Cancel \/ \E c \in Commands : Issue(c)
      BY <1>1, <3>3 DEF Discover, StartRun, Cancel, Issue, placeVars
    <3> QED
      BY <1>1, <3>1, <3>2, <3>3 DEF Next, TreeNext
  <2>4. CASE hook' = hook
    <3>1. hook - hook \in -(MaxCorrection + 2 * Tolerance) .. (MaxCorrection + 2 * Tolerance)
      BY <2>2, ParameterTypes
    <3> QED
      BY <2>4, <3>1
  <2>5. CASE hook' \in Near(mv)
    <3>1. hook' \in Int /\ Within(hook' - mv, Tolerance)
      BY <2>2, <2>5, NearType
    <3> QED
      BY <2>1, <2>2, <3>1, StepOver
  <2> QED
    BY <2>3, <2>4, <2>5
<1>2. IInv /\ [Next]_vars =>
        [pc = "shift" =>
          hook' - hook \in -(MaxCorrection + 2 * Tolerance) .. (MaxCorrection + 2 * Tolerance)]_vars
  BY <1>1
<1> QED
  BY <1>2, InvariantHolds, PTL DEF Spec, StepBounded
=============================================================================
