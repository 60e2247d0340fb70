------------------------------ MODULE BlockCycle ------------------------------
(***************************************************************************)
(* The assembly loop over a whole plan, run after run: wall_assembly asks  *)
(* for the next task, SubTreePickAndPlaceBlock takes the block over or     *)
(* picks it, regrips a crooked grip, places it and writes its status.      *)
(*                                                                         *)
(* A call of an action or a service is a step.  The place is reduced to    *)
(* what module Placement promises: it writes the record of a block that    *)
(* rests on the ground, opens the jaws, clears the payload and lifts away. *)
(* Between two runs the operator may tidy up and crane_mpc may restart.    *)
(* Blocks are numbered in the order of the plan.                           *)
(***************************************************************************)
EXTENDS Integers, FiniteSets

CONSTANTS
    Count,          \* blocks of the plan
    Attempts,       \* num_attempts around GetNextAssemblyTask
    MpcDrives       \* a2b_mpc_drives

ASSUME PlanAssumption == Count \in Nat \ {0} /\ Attempts \in Nat \ {0}

ASSUME DriveAssumption == MpcDrives \in BOOLEAN

VARIABLES
    pc,             \* the call the tree makes next
    outcome,        \* how the last run ended
    attempt,        \* to get a task
    planHasTask,    \* plan_has_task
    task,           \* target_block_id
    coarse,         \* where target_block_pose_coarse has its block
    pickup,         \* where pickup_* points
    place,          \* where place_* points
    errand,         \* within the cycle: the wall, or the set-down or re-pick of a regrip
    at,             \* where each block is
    status,         \* its task_status in the world model
    payload,        \* crane_mpc models a block on the hook
    owed,           \* the last set_payload request that timed out and may still be served
    tidy            \* history: this run began with empty jaws and a true record

taskVars == <<planHasTask, task, coarse>>
goalVars == <<pickup, place, errand>>
mpcVars  == <<payload, owed>>
vars == <<pc, outcome, attempt, taskVars, goalVars, at, status, mpcVars, tidy>>

Blocks == 1..Count
NoTask == 0

Spots == {"stock", "spot", "slot", "astray"}
Nowhere == "nowhere"    \* a place where no block is

Picking  == {"hover", "open", "descend", "close", "grasp"}
Carrying == {"mark", "load", "recover", "reload", "lift", "gauge", "carry", "record", "letgo"}

ControlOK ==
    /\ pc \in {"idle", "ask", "survey", "status", "signal", "clear", "away", "finish"}
                \cup Picking \cup Carrying
    /\ outcome \in {"none", "SUCCESS", "FAILURE", "CANCELLED"}

CountOK ==
    /\ attempt \in 1..Attempts
    /\ task \in 0..Count
    /\ coarse \in Spots
    /\ pc \notin {"idle", "ask", "survey"} => task \in Blocks

GoalOK ==
    /\ pickup \in Spots \cup {Nowhere}
    /\ place \in {"slot", "spot"}
    /\ errand \in {"wall", "setdown", "repick"}

BlockOK ==
    /\ at \in [Blocks -> Spots \cup {"jaws"}]
    /\ status \in [Blocks -> {"FREE", "MOVE", "PLACED"}]

FlagOK ==
    /\ planHasTask \in BOOLEAN
    /\ tidy \in BOOLEAN

MpcOK ==
    /\ payload \in BOOLEAN
    /\ owed \in {"none", "load", "clear"}

TypeOK == ControlOK /\ CountOK /\ GoalOK /\ BlockOK /\ FlagOK /\ MpcOK

JawsEmpty == \A b \in Blocks : at[b] # "jaws"

Unplaced == {b \in Blocks : status[b] # "PLACED"}

-----------------------------------------------------------------------------
(* Where a call leads. *)

Goto(step) == pc' = step /\ UNCHANGED outcome

\* The loop ends with its first failure, and PlanComplete tells what that means.
PlanComplete(hasTask) ==
    /\ pc' = "idle"
    /\ outcome' = IF hasTask THEN "FAILURE" ELSE "SUCCESS"

Fail == PlanComplete(planHasTask)

\* Mutant: the attempts are not counted.
AskForEver(hasTask) == Goto("ask") /\ UNCHANGED attempt

\* Mutant: one attempt too many.
AskOnceMore(hasTask) ==
    IF attempt <= Attempts THEN attempt' = attempt + 1 /\ Goto("ask")
                           ELSE PlanComplete(hasTask) /\ UNCHANGED attempt

AskAgain(hasTask) ==
    IF attempt < Attempts THEN attempt' = attempt + 1 /\ Goto("ask")
                          ELSE PlanComplete(hasTask) /\ UNCHANGED attempt

\* Mutant: a block on record as carried is picked again.
AlwaysPick == Goto("hover")

TakeOverOrPick == IF status[task] = "MOVE" THEN Goto("signal") ELSE Goto("hover")

\* The payload is set anew: crane_mpc may have been restarted.
TakeOver == Goto("reload")

\* Mutant: the jaws open before the placed pose is written.
OpenUnrecorded == Goto("letgo")

BeforeOpening == Goto("record")

\* Mutant: the targets of the wall are not kept across the regrip.
TargetsLost == UNCHANGED place

TargetsBack == place' = "slot"

\* Mutant: the take-over goes on without a grasp signal.
NoSignalNeeded == TRUE

\* The signal says that the jaws hold something, and not what.
Squeezed == ~JawsEmpty

-----------------------------------------------------------------------------
(* The assembly loop. *)

\* The server hands out the first block of the plan that is not on record as placed,
\* or waits for that block to be seen.
Offer ==
    /\ \E b \in Unplaced :
          /\ \A c \in Unplaced : b <= c
          /\ task' = b
          /\ coarse' = IF at[b] = "jaws" THEN "stock" ELSE at[b]
          /\ pickup' = coarse'
    /\ planHasTask' = TRUE
    /\ place' = "slot"
    /\ errand' = "wall"
    /\ Goto("status")
    /\ UNCHANGED attempt

\* The answer is written to the blackboard before the node fails on it.  An answer
\* that does not come, or cannot be transformed, leaves the flag as it was.
NoTaskYet ==
    /\ \/ planHasTask' = (Unplaced # {})
       \/ UNCHANGED planHasTask
    /\ IF planHasTask' THEN Goto("survey") /\ UNCHANGED attempt ELSE AskAgain(planHasTask')
    /\ UNCHANGED <<task, coarse, goalVars>>

Ask ==
    /\ pc = "ask"
    /\ Offer \/ NoTaskYet
    /\ UNCHANGED <<at, status, mpcVars, tidy>>

\* The discovery move and the discovery may fail: the attempt has failed anyway.
Survey ==
    /\ pc = "survey"
    /\ AskAgain(planHasTask)
    /\ UNCHANGED <<taskVars, goalVars, at, status, mpcVars, tidy>>

\* SetBlockTaskStatus: the last call of a cycle.
Finish ==
    /\ pc = "finish"
    /\ \/ /\ status' = [status EXCEPT ![task] = "PLACED"]
          /\ attempt' = 1
          /\ Goto("ask")
       \/ /\ status' \in {status, [status EXCEPT ![task] = "PLACED"]}
          /\ Fail
          /\ UNCHANGED attempt
    /\ UNCHANGED <<taskVars, goalVars, at, mpcVars, tidy>>

-----------------------------------------------------------------------------
(* Calls that move the crane or look, and leave the block where it is. *)

Call(step, next) ==
    /\ pc = step
    /\ Goto(next) \/ Fail
    /\ UNCHANGED <<attempt, taskVars, goalVars, at, status, mpcVars, tidy>>

Approach == Call("descend", "close")

Lift == Call("lift", "gauge")

\* EvaluatePickupResidual under the pick: what the target is seen off its coarse pose
\* goes on top of the pickup.
Refined(seen) ==
    IF pickup = coarse THEN seen ELSE IF seen = coarse THEN pickup ELSE Nowhere

\* SubTreeMoveAbove, and a look at the target, under ForceSuccess.
Hover ==
    /\ pc = "hover"
    /\ \/ Fail /\ UNCHANGED pickup
       \/ Goto("open") /\ UNCHANGED pickup
       \/ at[task] # "jaws" /\ Goto("open") /\ pickup' = Refined(at[task])
    /\ UNCHANGED <<attempt, taskVars, place, errand, at, status, mpcVars, tidy>>

\* GetBlockTaskStatus.
Look ==
    /\ pc = "status"
    /\ TakeOverOrPick \/ Fail
    /\ UNCHANGED <<attempt, taskVars, goalVars, at, status, mpcVars, tidy>>

\* WaitForGraspSignal of the take-over.
AwaitSignal ==
    /\ pc = "signal"
    /\ \/ Squeezed /\ Goto("recover")
       \/ Fail
    /\ UNCHANGED <<attempt, taskVars, goalVars, at, status, mpcVars, tidy>>

\* CaptureBlockGraspOffset of the take-over.
Recover ==
    /\ pc = "recover"
    /\ TakeOver \/ Fail
    /\ UNCHANGED <<attempt, taskVars, goalVars, at, status, mpcVars, tidy>>

\* WaitForGraspSignal and CaptureBlockGraspOffset of the pick; the signal may be late.
Grasp ==
    /\ pc = "grasp"
    /\ \/ Squeezed /\ Goto("mark")
       \/ Fail
    /\ UNCHANGED <<attempt, taskVars, goalVars, at, status, mpcVars, tidy>>

\* The carrying part of a place, to the ground.
Carry ==
    /\ pc = "carry"
    /\ BeforeOpening \/ Fail
    /\ UNCHANGED <<attempt, taskVars, goalVars, at, status, mpcVars, tidy>>

-----------------------------------------------------------------------------
(* The pick. *)

\* Whatever the jaws still hold falls.
Emptied == [b \in Blocks |-> IF at[b] = "jaws" THEN "astray" ELSE at[b]]

Open ==
    /\ pc = "open"
    /\ \/ at' = Emptied /\ Goto("descend")
       \/ at' \in {at, Emptied} /\ Fail
    /\ UNCHANGED <<attempt, taskVars, goalVars, status, mpcVars, tidy>>

\* The jaws close on what they reach: the block, if it is where the pick went.
Close ==
    /\ pc = "close"
    /\ \/ at' = at
       \/ at[task] = pickup /\ at' = [at EXCEPT ![task] = "jaws"]
    /\ Goto("grasp") \/ Fail
    /\ UNCHANGED <<attempt, taskVars, goalVars, status, mpcVars, tidy>>

\* SetBlockTaskStatus TASK_MOVE: a call that is not answered may have been served.
Mark ==
    /\ pc = "mark"
    /\ \/ status' = [status EXCEPT ![task] = "MOVE"] /\ Goto("load")
       \/ status' \in {status, [status EXCEPT ![task] = "MOVE"]} /\ Fail
    /\ UNCHANGED <<attempt, taskVars, goalVars, at, mpcVars, tidy>>

\* Mutant: an answer does not mean that the requests before it have been served.
AnsweredOutOfTurn == owed

\* Requests are served in their order, so with the answer nothing is owed.
AfterAnswer == "none"

\* SetMpcPayload is fatal only where crane_mpc drives.  A request that is refused, or
\* not answered in time, may have been served, be served later, or never.
SetPayload(step, carries, next) ==
    /\ pc = step
    /\ \/ payload' = carries /\ owed' = AfterAnswer /\ Goto(next)
       \/ /\ \/ UNCHANGED mpcVars
             \/ payload' = carries /\ owed' = "none"
             \/ UNCHANGED payload /\ owed' = IF carries THEN "load" ELSE "clear"
          /\ IF MpcDrives THEN Fail ELSE Goto(next)
    /\ UNCHANGED <<attempt, taskVars, goalVars, at, status, tidy>>

Load == SetPayload("load", TRUE, "lift") \/ SetPayload("reload", TRUE, "gauge")

\* MeasureBlockFromGripper and the tilt gate.  Only the first grip of a cycle passes
\* the gate: a block that was gripped again goes to the wall as it hangs.
Gauge ==
    /\ pc = "gauge"
    /\ \/ Fail /\ UNCHANGED goalVars
       \/ errand = "wall" /\ Goto("carry") /\ UNCHANGED goalVars
       \/ /\ errand = "wall"
          /\ place' = "spot"
          /\ errand' = "setdown"
          /\ Goto("carry") /\ UNCHANGED pickup
       \/ /\ errand = "repick"
          /\ TargetsBack
          /\ errand' = "wall"
          /\ Goto("carry") /\ UNCHANGED pickup
    /\ UNCHANGED <<attempt, taskVars, at, status, mpcVars, tidy>>

-----------------------------------------------------------------------------
(* The release. *)

\* WriteBlockPoseFromGripper.
Record ==
    /\ pc = "record"
    /\ \/ status' = [status EXCEPT ![task] = "PLACED"] /\ Goto("letgo")
       \/ status' \in {status, [status EXCEPT ![task] = "PLACED"]} /\ Fail
    /\ UNCHANGED <<attempt, taskVars, goalVars, at, mpcVars, tidy>>

LetGo ==
    /\ pc = "letgo"
    /\ \/ at' = [at EXCEPT ![task] = place] /\ Goto("clear")
       \/ at' \in {at, [at EXCEPT ![task] = place]} /\ Fail
    /\ UNCHANGED <<attempt, taskVars, goalVars, status, mpcVars, tidy>>

Clear == SetPayload("clear", FALSE, "away")

\* The set-down of a regrip goes on to the re-pick, at the same spot.
Away ==
    /\ pc = "away"
    /\ \/ Fail /\ UNCHANGED <<pickup, errand>>
       \/ errand = "wall" /\ Goto("finish") /\ UNCHANGED <<pickup, errand>>
       \/ errand = "setdown" /\ Goto("hover") /\ pickup' = "spot" /\ errand' = "repick"
    /\ UNCHANGED <<attempt, taskVars, place, at, status, mpcVars, tidy>>

-----------------------------------------------------------------------------
(* Between two runs. *)

StartRun ==
    /\ pc = "idle"
    /\ pc' = "ask"
    /\ outcome' = "none"
    /\ attempt' = 1
    /\ planHasTask' = TRUE
    /\ task' = NoTask
    /\ UNCHANGED coarse
    /\ tidy' = (JawsEmpty /\ \A b \in Blocks : status[b] = "PLACED" => at[b] = "slot")
    /\ UNCHANGED <<goalVars, at, status, mpcVars>>

\* The operator takes a block off the hook, or one that fell, and puts it back.
PutBack(b) ==
    /\ pc = "idle"
    /\ at[b] \in {"jaws", "astray"}
    /\ at' = [at EXCEPT ![b] = "stock"]
    /\ UNCHANGED <<pc, outcome, attempt, taskVars, goalVars, status, mpcVars, tidy>>

\* The operator has found the block out of the jaws and resets its status.
Reset(b) ==
    /\ pc = "idle"
    /\ status[b] = "MOVE"
    /\ at[b] # "jaws"
    /\ status' = [status EXCEPT ![b] = "FREE"]
    /\ UNCHANGED <<pc, outcome, attempt, taskVars, goalVars, at, mpcVars, tidy>>

\* crane_mpc comes to a request that is no longer waited for.
ServeLate ==
    /\ owed # "none"
    /\ payload' = (owed = "load")
    /\ owed' = "none"
    /\ UNCHANGED <<pc, outcome, attempt, taskVars, goalVars, at, status, tidy>>

RestartMpc ==
    /\ pc = "idle"
    /\ payload' = FALSE /\ owed' = "none"
    /\ UNCHANGED <<pc, outcome, attempt, taskVars, goalVars, at, status, tidy>>

\* The run is cancelled between two calls.
Cancel ==
    /\ pc # "idle"
    /\ pc' = "idle"
    /\ outcome' = "CANCELLED"
    /\ UNCHANGED <<attempt, taskVars, goalVars, at, status, mpcVars, tidy>>

Init ==
    /\ pc = "idle"
    /\ outcome = "none"
    /\ attempt = 1
    /\ planHasTask = TRUE
    /\ task = NoTask
    /\ coarse = "stock" /\ pickup = "stock"
    /\ place = "slot"
    /\ errand = "wall"
    /\ at = [b \in Blocks |-> "stock"]
    /\ status = [b \in Blocks |-> "FREE"]
    /\ payload = FALSE /\ owed = "none"
    /\ tidy = TRUE

Tree ==
    \/ Ask \/ Survey \/ Look \/ Hover \/ AwaitSignal \/ Recover
    \/ Approach \/ Open \/ Close \/ Grasp \/ Mark \/ Load \/ Lift \/ Gauge
    \/ Carry \/ Record \/ LetGo \/ Clear \/ Away \/ Finish

Next ==
    \/ Tree
    \/ StartRun
    \/ \E b \in Blocks : PutBack(b) \/ Reset(b)
    \/ ServeLate
    \/ RestartMpc
    \/ Cancel

Spec == Init /\ [][Next]_vars

\* The calls in which the arm or the jaws move.  Each waits in GetUserApproval, which has no
\* timeout, and then for the end of its goal.
Motion ==
    \/ Survey \/ Hover \/ Approach \/ Open \/ Close \/ Lift
    \/ Carry \/ LetGo \/ Away

\* The calls in which they do not: each has a timeout or a window of its own.
Service ==
    \/ Ask \/ Look \/ AwaitSignal \/ Recover \/ Grasp \/ Mark \/ Load \/ Gauge
    \/ Record \/ Clear \/ Finish

\* What the code itself guarantees: no service call keeps the tree for ever.
FairSpec == Spec /\ WF_vars(Service)

\* An assumption about the operator, which no line of the code enforces: every motion the
\* tree asks for is confirmed, and ends, with success or with failure.
MotionsAreConfirmed == WF_vars(Motion)

-----------------------------------------------------------------------------
(* Properties. *)

\* From the mark to the opening of the jaws it is the block of the task that hangs in
\* them, and no other, also where a run goes on with what the one before left: the
\* grasp signal says that something is held and not what.
CarriesItsTask == pc \in Carrying => \A b \in Blocks : at[b] = "jaws" <=> b = task

\* A block on record as carried that hangs in the jaws is taken over: the pick neither
\* flies, nor opens the jaws, over it (issue 274).
HeldIsTakenOver ==
    pc \in {"hover", "open"} => \A b \in Blocks : at[b] = "jaws" => status[b] # "MOVE"

\* No move that carries a block is solved for an empty hook where crane_mpc drives,
\* though it may have been restarted since the block was gripped, and though it may
\* come to a request of an earlier place only now.
MpcKnowsTheLoad == pc \in {"lift", "gauge", "carry"} /\ MpcDrives => payload

\* A run that began with empty jaws and a true record, and succeeds, has built the wall.
TidyRunBuilds ==
    tidy /\ outcome = "SUCCESS" => \A b \in Blocks : at[b] = "slot"

\* A block that stands in its slot is never taken out again, whatever is cut off and
\* run again, and whatever is reset in between.
StaysInSlot == [][\A b \in Blocks : at[b] = "slot" => at'[b] = "slot"]_vars

\* Every run whose motions are confirmed ends: the loop cannot serve one block again and
\* again, and asking ends.
RunEnds == MotionsAreConfirmed => (pc # "idle" ~> pc = "idle")

\* The blocks still to be asked for: the one at hand is marked and placed again and again
\* in its cycle, and counts as served.
Waiting == Unplaced \ {task}

\* How many calls the tree can make yet before it asks for the next block: the attempts to
\* get one, the pick, the place, and before those the set-down and the re-pick of a regrip.
AskCalls == 2 * Attempts

RegripCalls == 14

CallsFrom(step, tries) ==
    CASE step = "idle"    -> 0
      [] step = "survey"  -> AskCalls - 2 * tries + 1
      [] step = "ask"     -> AskCalls - 2 * tries + 2
      [] step = "finish"  -> AskCalls + 1
      [] step = "away"    -> AskCalls + 2
      [] step = "clear"   -> AskCalls + 3
      [] step = "letgo"   -> AskCalls + 4
      [] step = "record"  -> AskCalls + 5
      [] step = "carry"   -> AskCalls + 6
      [] step = "gauge"   -> AskCalls + 7
      [] step \in {"lift", "reload"}    -> AskCalls + 8
      [] step \in {"load", "recover"}   -> AskCalls + 9
      [] step \in {"mark", "signal"}    -> AskCalls + 10
      [] step = "grasp"   -> AskCalls + 11
      [] step = "close"   -> AskCalls + 12
      [] step = "descend" -> AskCalls + 13
      [] step = "open"    -> AskCalls + 14
      [] step = "hover"   -> AskCalls + 15
      [] step = "status"  -> AskCalls + 16

Placing == {"carry", "record", "letgo", "clear", "away", "finish"}

MayRegrip ==
    /\ pc \notin {"ask", "survey"}
    /\ errand = IF pc \in Placing THEN "setdown" ELSE "wall"

CallsLeft ==
    IF pc = "idle" THEN 0
    ELSE CallsFrom(pc, attempt) + (IF MayRegrip THEN RegripCalls ELSE 0)
            + Cardinality(Waiting) * (AskCalls + 16 + RegripCalls)

\* Every call of a run, whatever comes of it, uses up one of a number that is known when
\* the run begins: no regrip, no status that is written back and no failed attempt makes
\* the loop serve a block anew.
CallsRunOut == [][Tree => CallsLeft' \in 0..(CallsLeft - 1)]_vars

\* What PlanComplete says: the loop's failure becomes a success only when the wall is
\* actually done.
SuccessMeansBuilt == outcome = "SUCCESS" => \A b \in Blocks : at[b] = "slot"

\* What SubTreeRegrip says: the block is set down at regrip_* and gripped again, so the
\* second descent goes to where the block stands.
JawsGoToTheBlock == pc = "descend" /\ errand = "repick" => pickup = at[task]
=============================================================================
