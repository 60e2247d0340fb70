---------------------------- MODULE OperatorGuided ----------------------------
(***************************************************************************)
(* OperatorGuidedSingleBlock: one block picked and placed, every stage on  *)
(* an operator's command, with a measure-and-correct loop over the pickup  *)
(* and one over the placement (WaitForOperatorCommand,                     *)
(* OperatorExitAsSuccess, EvaluatePickupResidual, RunPoseEstimation,       *)
(* EvaluatePlacementResidual).                                             *)
(*                                                                         *)
(* Every wait is a node with a latched subscription of depth 1 of its own, *)
(* which it reads only while it is ticked.  Positions are integers on one  *)
(* horizontal axis; those at the pickup count from the planned pickup,     *)
(* those at the placement from the planned hover.  A waiter is named by    *)
(* the command it expects.  The picks, places and moves are calls that     *)
(* succeed or fail; modules BlockCycle, PlaceBlock, CbsMove have them.     *)
(***************************************************************************)
EXTENDS Integers

CONSTANTS
    Sightings,      \* where the world model may have the ground block
    Grips,          \* block centre off the hook, in the jaws and as it is believed
    Tolerance,      \* how far off its target a move ends at most
    Disturbance,    \* initial_hover_x, where the block is carried first
    MaxCorrection   \* max_correction_m

ASSUME AxisAssumption ==
    /\ Sightings \subseteq Int /\ Grips \subseteq Int /\ Grips # {}
    /\ Tolerance \in Nat /\ Disturbance \in Int /\ MaxCorrection \in Nat \ {0}

VARIABLES
    pc,             \* the wait, or the call, the tree is at
    newest,         \* the command the operator's panel published last
    matched,        \* the subscriptions of this tree have met the panel's publisher
    unread,         \* the subscription of the present wait holds a command
    received,       \* the command accepted last
    exit,           \* pickup_exit_requested and placement_exit_requested
    pickup,         \* pickup_x
    correctedPickup,
    mv,             \* mv_x, 0 while it is one of the pickup
    hook,           \* where the hook is, 0 while it is at the pickup
    grip,           \* where the block is in the jaws
    belief,         \* where the world model has it in the jaws
    corrected,      \* corrected_hover_x
    seed,           \* seed_off_x
    inWait,         \* history: newest was published during the present wait
    matchedAtStart, \* history: matched, when the present wait began
    sound,          \* history: corrected is for the true grip, in full
    trusted         \* history: so was the correction commanded last

waitVars  == <<newest, matched, unread, inWait, matchedAtStart>>
pickVars  == <<pickup, correctedPickup>>
placeVars == <<mv, hook, grip, belief, corrected, seed, sound, trusted>>
vars == <<pc, waitVars, received, exit, pickVars, placeVars>>

None == "none"

PickupLoop    == {"pickup_measure", "pickup_correct"}
PlacementLoop == {"measure", "correct"}
Loops == PickupLoop \cup PlacementLoop
Waits == {"acquire", "pickup_hover", "hover"} \cup Loops
Calls == {"task", "above", "sight", "follow", "grip", "carry", "see", "gauge", "shift", "place"}

LoopOf(w) == IF w \in PickupLoop THEN "pickup" ELSE "placement"

\* failure_commands.
ExitOf(w) == IF w \notin Loops THEN None ELSE IF w \in PickupLoop THEN "pick" ELSE "place"

Commands == Waits \cup {"pick", "place"}

TypeOK ==
    /\ pc \in {"idle"} \cup Waits \cup Calls
    /\ newest \in Commands \cup {None} /\ received \in Commands \cup {None}
    /\ exit \in [{"pickup", "placement"} -> BOOLEAN]
    /\ matched \in BOOLEAN /\ unread \in BOOLEAN /\ inWait \in BOOLEAN
    /\ matchedAtStart \in BOOLEAN /\ sound \in BOOLEAN /\ trusted \in BOOLEAN
    /\ pickup \in Int /\ correctedPickup \in Int /\ mv \in Int /\ hook \in Int
    /\ corrected \in Int /\ seed \in Int
    /\ grip \in Grips /\ belief \in Grips

-----------------------------------------------------------------------------
(* WaitForOperatorCommand. *)

\* Mutant: what was cached before the wait is not drained.
Undrained == matched /\ newest # None

\* What the subscription of a wait holds once onStart() has drained it; what came while
\* the tree was elsewhere goes with it.
Drained == FALSE

\* onStart: drain the subscription and take the exit back.
Start(w, found) ==
    /\ pc' = w
    /\ exit' = IF w \in Loops THEN [exit EXCEPT ![LoopOf(w)] = FALSE] ELSE exit
    /\ inWait' = FALSE
    /\ matchedAtStart' = found
    /\ UNCHANGED <<newest, received>>

Enter(w) == Start(w, matched) /\ unread' = Drained /\ UNCHANGED matched

Goto(call) == pc' = call /\ UNCHANGED <<waitVars, received, exit>>

\* The call that follows an expected command.
After(w) ==
    CASE w = "acquire" -> "task"
      [] w = "pickup_hover" -> "above"
      [] w = "pickup_measure" -> "sight"
      [] w = "pickup_correct" -> "follow"
      [] w = "hover" -> "carry"
      [] w = "measure" -> "see"
      [] w = "correct" -> "shift"

\* The last argument of OperatorExitAsSuccess is exit_requested.
\* Mutant: every failure of the loop leaves it as the operator's exit does.
AnyFailureExits(loop, requested) == IF loop = "pickup" THEN "grip" ELSE "place"

\* What follows a loop that failed.
ExitAsSuccess(loop, requested) ==
    IF ~requested THEN "idle" ELSE IF loop = "pickup" THEN "grip" ELSE "place"

\* setOutput("received").
Accept == received' = newest

\* A failure command: FAILURE with exit_requested set.
Exit(w) ==
    /\ newest = ExitOf(w)
    /\ Accept
    /\ exit' = [exit EXCEPT ![LoopOf(w)] = TRUE]
    /\ pc' = ExitAsSuccess(LoopOf(w), TRUE)
    /\ UNCHANGED <<pickVars, placeVars>>

\* The expected command; the tree commands a correction with it.
Proceed(w) ==
    /\ newest = w
    /\ Accept
    /\ pc' = After(w)
    /\ pickup' = IF w = "pickup_correct" THEN correctedPickup ELSE pickup
    /\ IF w = "correct" THEN mv' = corrected /\ seed' = corrected /\ trusted' = sound
                        ELSE UNCHANGED <<mv, seed, trusted>>
    /\ UNCHANGED <<exit, correctedPickup, hook, grip, belief, corrected, sound>>

Ignore(w) ==
    /\ newest \notin {w, ExitOf(w)}
    /\ UNCHANGED <<pc, received, exit, pickVars, placeVars>>

\* onRunning, with a command since onStart.
OnRunning(w) ==
    /\ pc = w
    /\ unread
    /\ unread' = FALSE
    /\ Exit(w) \/ Proceed(w) \/ Ignore(w)
    /\ UNCHANGED <<newest, matched, inWait, matchedAtStart>>

-----------------------------------------------------------------------------
(* The calls. *)

\* A call outside the loops that fails ends the run; one in a loop ends the loop.
Fails == Goto("idle") /\ UNCHANGED <<pickVars, placeVars>>
LoopFails(loop) == Goto(ExitAsSuccess(loop, exit[loop])) /\ UNCHANGED <<pickVars, placeVars>>

\* GetNextAssemblyTask.
Task ==
    /\ pc = "task"
    /\ \/ Enter("pickup_hover") /\ pickup' = 0 /\ UNCHANGED <<correctedPickup, placeVars>>
       \/ Fails

\* SubTreeMoveAbove over the planned pickup.
Above ==
    /\ pc = "above"
    /\ \/ /\ mv' = 0 /\ hook' = 0
          /\ Enter("pickup_measure")
          /\ UNCHANGED <<pickVars, grip, belief, corrected, seed, sound, trusted>>
       \/ Fails

CorrectedPickup(observed) == 0 + observed

\* EvaluatePickupResidual: expected minus observed, and the command against it.
Sight ==
    /\ pc = "sight"
    /\ \/ \E observed \in Sightings : correctedPickup' = CorrectedPickup(observed)
          /\ Enter("pickup_correct")
          /\ UNCHANGED <<pickup, placeVars>>
       \/ LoopFails("pickup")

\* SubTreeMoveAbove over the corrected pickup.
Follow ==
    /\ pc = "follow"
    /\ \/ Enter("pickup_measure") /\ UNCHANGED <<pickVars, placeVars>>
       \/ LoopFails("pickup")

\* SubTreePickFromHover.
Grip ==
    /\ pc = "grip"
    /\ \/ grip' \in Grips /\ belief' \in Grips
          /\ Enter("hover")
          /\ UNCHANGED <<pickVars, mv, hook, corrected, seed, sound, trusted>>
       \/ Fails

\* Where a move to x may end.
Near(x) == (x - Tolerance) .. (x + Tolerance)

\* SubTreeMoveAbove to the first hover, and seed_off := 0.
Carry ==
    /\ pc = "carry"
    /\ \/ mv' = Disturbance /\ hook' \in Near(Disturbance) /\ seed' = 0
          /\ trusted' = FALSE
          /\ Enter("measure")
          /\ UNCHANGED <<pickVars, grip, belief, corrected, sound>>
       \/ Fails

Estimates == Grips

\* RunPoseEstimation under ForceSuccess: an estimate, good or bad, or what was believed.
See ==
    /\ pc = "see"
    /\ belief' \in Estimates
    /\ Goto("gauge")
    /\ UNCHANGED <<pickVars, mv, hook, grip, corrected, seed, sound, trusted>>

\* The correction clamped to max_correction_m.
Clamped(d) ==
    IF d > MaxCorrection THEN MaxCorrection ELSE IF d < -MaxCorrection THEN -MaxCorrection ELSE d

CorrectedHover(d) == mv + d

\* EvaluatePlacementResidual: expected minus observed, on top of the present hover.
Gauge ==
    /\ pc = "gauge"
    /\ \/ LET d == 0 - (hook + belief) IN
          /\ corrected' = CorrectedHover(Clamped(d))
          /\ sound' = (belief = grip /\ -MaxCorrection <= d /\ d <= MaxCorrection)
          /\ Enter("correct")
          /\ UNCHANGED <<pickVars, mv, hook, grip, belief, seed, trusted>>
       \/ LoopFails("placement")

\* SubTreeDescendTo to the corrected hover.
Shift ==
    /\ pc = "shift"
    /\ \/ hook' \in Near(mv)
          /\ Enter("measure")
          /\ UNCHANGED <<pickVars, mv, grip, belief, corrected, seed, sound, trusted>>
       \/ LoopFails("placement")

\* Mutant: place_x is corrected as well as the seed.
PlaceAndSeed == corrected + seed

\* Where SubTreePlaceFinish starts: the planned place, and the seed on it, before the
\* place's own correction (module PlaceBlock).
Entry == 0 + seed

\* SubTreePlaceFromHover ends the run, either way; the hook comes to rest at the entry.
Place ==
    /\ pc = "place"
    /\ hook' \in Near(Entry)
    /\ Goto("idle")
    /\ UNCHANGED <<pickVars, mv, grip, belief, corrected, seed, sound, trusted>>

-----------------------------------------------------------------------------
(* The operator, the middleware and the action server. *)

\* A command is published; a subscription that is matched has it for the one before.
Issue(c) ==
    /\ newest' = c
    /\ unread' = (matched /\ pc \in Waits)
    /\ inWait' = (pc \in Waits)
    /\ UNCHANGED <<pc, matched, matchedAtStart, received, exit, pickVars, placeVars>>

\* Mutant: a command is not kept for a subscription that is late.
NotLatched == FALSE

\* Commands are latched: the last one is delivered to a subscription as it is found.
Latched == newest # None /\ pc \in Waits

Discover ==
    /\ ~matched
    /\ matched' = TRUE
    /\ unread' = Latched
    /\ UNCHANGED <<pc, newest, inWait, matchedAtStart, received, exit, pickVars, placeVars>>

\* A goal is accepted: every goal builds the tree anew, with new subscriptions.  What the
\* blackboard keeps of the last run is written before it is read, and counts as cleared.
StartRun ==
    /\ pc = "idle"
    /\ Start("acquire", FALSE) /\ unread' = FALSE /\ matched' = FALSE
    /\ pickup' = 0 /\ correctedPickup' = 0
    /\ mv' = 0 /\ hook' = 0 /\ corrected' = 0 /\ seed' = 0
    /\ sound' = FALSE /\ trusted' = FALSE
    /\ UNCHANGED <<grip, belief>>

\* The goal is canceled: no wait is present any more.
Cancel ==
    /\ pc # "idle"
    /\ pc' = "idle"
    /\ unread' = FALSE /\ inWait' = FALSE
    /\ UNCHANGED <<newest, matched, matchedAtStart, received, exit, pickVars, placeVars>>

Init ==
    /\ pc = "idle" /\ newest = None /\ matched = FALSE /\ unread = FALSE
    /\ received = None /\ exit = [l \in {"pickup", "placement"} |-> FALSE]
    /\ pickup = 0 /\ correctedPickup = 0
    /\ mv = 0 /\ hook = 0 /\ corrected = 0 /\ seed = 0
    /\ grip \in Grips /\ belief = grip
    /\ inWait = FALSE /\ matchedAtStart = FALSE /\ sound = FALSE /\ trusted = FALSE

Calling ==
    \/ Task \/ Above \/ Sight \/ Follow \/ Grip
    \/ Carry \/ See \/ Gauge \/ Shift \/ Place

TreeNext == Calling \/ \E w \in Waits : OnRunning(w)

Next ==
    \/ TreeNext
    \/ Discover
    \/ StartRun
    \/ Cancel
    \/ \E c \in Commands : Issue(c)

Spec == Init /\ [][Next]_vars

\* A wait is ticked, and the middleware finds the panel.  No call need end: those that move
\* the crane wait for the operator's approval.
FairSpec == Spec /\ WF_vars(\E w \in Waits : OnRunning(w)) /\ WF_vars(Discover)

-----------------------------------------------------------------------------
(* What the operator relies on. *)

\* A command moves the tree only if it was published after the wait it ends began, if the
\* subscription had been found by then (onStart() drains what was cached).
AnswerIsOfThisWait ==
    [][matchedAtStart /\ pc \in Waits /\ pc' \notin {pc, "idle"} => inWait]_vars

\* The block is gripped only on "pick", set down only on "place", and the hook follows a
\* correction only on "correct": a failed measurement or move leaves no loop as the
\* operator's exit does (OperatorExitAsSuccess).
NothingWithoutTheWord ==
    /\ pc = "grip" => received = "pick"
    /\ pc = "place" => received = "place"
    /\ pc = "shift" => received = "correct"

\* A correction that was measured right and not cut brings the carried block within the
\* tolerances of two moves of the target, from any hover (it goes on top of the hover it
\* was measured at), and it is in the placement once: the descent starts within the
\* tolerance of one move of where the block has to go (place_x stays planned, seed_off_x
\* has it).
Miss == hook + grip
CorrectionCountsOnce ==
    /\ trusted /\ pc \in {"measure", "correct", "place"}
       => Miss \in -(2 * Tolerance) .. 2 * Tolerance
    /\ trusted /\ pc = "place" => Entry + grip \in -Tolerance .. Tolerance

\* No estimate, however bad, moves the loaded hook by more than the clamp and the
\* tolerances of two moves (max_correction_m).
StepBounded ==
    [][pc = "shift" =>
        hook' - hook \in -(MaxCorrection + 2 * Tolerance) .. (MaxCorrection + 2 * Tolerance)]_vars

\* A fitting command published during a wait is acted on, also when the subscription is
\* found only afterwards, unless another command replaces it.
Answered == pc \in Waits /\ inWait /\ newest \in {pc, ExitOf(pc)}
AnswerIsHeard ==
    Answered ~> ~Answered
=============================================================================
