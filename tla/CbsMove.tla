------------------------------- MODULE CbsMove -------------------------------
(***************************************************************************)
(* SubTreeCbsA2BMovement, the subtree every crane move is executed by:     *)
(* the operator's approval around activate, execute, deactivate, settle.   *)
(*                                                                         *)
(* The execution is a Parallel of the branch that drives the crane and, on *)
(* a descent with the block, the load-off gate (module LoadOff), and ends  *)
(* with the first child that ends.  One tick of the tree is one step.  The *)
(* Sleep nodes and WaitForMoveComplete run on the wall clock, the gate on  *)
(* the node's ROS clock, which is simulated time under Gazebo.             *)
(*                                                                         *)
(* External, as this subtree uses them: the approval decorator, the        *)
(* controller manager, the joint trajectory controller, crane_mpc.         *)
(***************************************************************************)
EXTENDS LoadOff, Sequences

CONSTANTS
    ShortNap,       \* the Sleep before a gated descent
    LongNap,        \* the Sleep that keeps a landing's driving branch running
    WaitTimeout,    \* timeout_ms of the two WaitForMoveComplete
    Kinds,          \* which moves to consider, a subset of Kind
    Cancels,        \* whether a run may be cancelled, which halts the tree
    SwitchFaults,   \* whether a deactivation may be refused or time out
    SlowClock,      \* whether the ROS clock may lag behind the wall clock
    Backlog         \* bound: unanswered switch requests a new move starts with

\* above: the A2B move crane_planning publishes itself.  The others are grip plans
\* the tree hands to the MPC: lift, the watched descent to a waypoint, the landing.
Kind == {"above", "lift", "watch", "land"}

ASSUME NapAssumption ==
    /\ ShortNap \in Nat /\ LongNap \in Nat /\ WaitTimeout \in Nat
    /\ ShortNap > Reference
    /\ LongNap > Timeout /\ LongNap >= WaitTimeout /\ LongNap >= ShortNap

ASSUME ScenarioAssumption ==
    /\ Kinds \subseteq Kind
    /\ {Cancels, SwitchFaults, SlowClock} \subseteq BOOLEAN
    /\ Backlog \in Nat

VARIABLES
    mpcDrives,      \* a2b_mpc_drives, bound at launch
    kind,           \* the move in hand
    step,           \* where the subtree stands
    leg,            \* where the driving branch of the Parallel stands
    nap,            \* wall time the current leg has run
    due,            \* the tree has not ticked in this unit of time
    result,         \* how the last move ended
    approved,       \* the operator holds the deadman
    controller,     \* trajectory_controller_a2b
    requests,       \* switch requests the controller manager has yet to answer
    answer,         \* its last answer
    goal,           \* the FollowJointTrajectory goal
    horizon         \* crane_mpc is driving towards a reference

treeVars == <<kind, step, leg, nap, result>>
outVars  == <<controller, requests, answer, goal, horizon>>
moveVars == <<mpcDrives, treeVars, due, approved, outVars>>
allVars  == <<vars, moveVars>>

MoveTypeOK ==
    /\ TypeOK
    /\ mpcDrives \in BOOLEAN
    /\ kind \in Kind
    /\ step \in {"idle", "approve", "activate", "move", "deactivate", "settle", "undo"}
    /\ leg \in {"none", "sleep", "wait", "goal", "hold"}
    /\ nap \in 0..LongNap
    /\ due \in BOOLEAN
    /\ result \in {"none", "SUCCESS", "FAILURE", "CANCELLED"}
    /\ approved \in BOOLEAN
    /\ controller \in {"inactive", "active"}
    /\ requests \in Seq({"activate", "deactivate"})
    /\ answer \in {"ok", "refused"}
    /\ goal \in {"none", "live", "reached", "aborted"}
    /\ horizon \in BOOLEAN

Gated == kind \in {"watch", "land"}

\* The crane moves: an active controller and somebody who commands it.
Motion == controller = "active" /\ (goal = "live" \/ horizon)

-----------------------------------------------------------------------------
(* Parts of a tick. *)

Ask(request) == requests' = Append(requests, request)

\* A halted action node cancels its goal.
DropGoal == goal' = "none"

HaltGate == IF gate = "RUNNING" THEN OnHalted ELSE UNCHANGED vars

\* Mutant: the switch call is left out.
UndoHeld == step' = "undo" /\ UNCHANGED <<result, requests>>

\* The Sequence goes on to the deactivation; the Fallback's second child.
GoOn == step' = "deactivate" /\ Ask("deactivate") /\ UNCHANGED result
Undo == step' = "undo" /\ Ask("deactivate") /\ UNCHANGED result

Finish(how) == step' = "idle" /\ result' = how /\ UNCHANGED requests

Stay == UNCHANGED <<step, result, requests>>

\* The driving branch hands the reference to the MPC, or sends the action goal.
Drive ==
    /\ nap' = 0
    /\ leg' = IF ~mpcDrives THEN "goal" ELSE IF kind = "land" THEN "hold" ELSE "wait"
    /\ horizon' = (horizon \/ (mpcDrives /\ kind # "above"))

\* Mutant: no Sleep before a gated descent.
RestedAtOnce == TRUE

\* The Sleep before a gated descent is over.
Rested == nap >= ShortNap

\* The driving branch keeps running.  On a landing the end of the goal decides
\* nothing and the long Sleep follows it.
LegRuns ==
    \/ leg = "sleep" /\ ~Rested /\ UNCHANGED <<leg, nap, horizon>>
    \/ leg = "sleep" /\ Rested /\ Drive
    \/ leg = "wait" /\ nap < WaitTimeout /\ UNCHANGED <<leg, nap, horizon>>
    \/ leg = "goal" /\ goal = "live" /\ UNCHANGED <<leg, nap, horizon>>
    \/ /\ leg = "goal" /\ goal \in {"reached", "aborted"} /\ kind = "land"
       /\ leg' = "hold" /\ nap' = 0 /\ UNCHANGED horizon
    \/ leg = "hold" /\ nap < LongNap /\ UNCHANGED <<leg, nap, horizon>>

\* The goal of a branch that keeps running: sent when the leg begins.
KeepGoal == goal' = IF leg' # "goal" THEN "none" ELSE IF leg = "goal" THEN goal ELSE "live"

\* Mutants: a goal that is reached ends a landing too; nothing bounds a landing.
GoalEndsAnyLeg ==
    \/ leg = "wait"
    \/ leg = "goal" /\ goal = "reached"
    \/ leg = "hold" /\ nap >= LongNap

HoldHasNoEnd == leg = "wait" \/ (leg = "goal" /\ goal = "reached" /\ kind # "land")

\* It ends: the arrival oracle or the goal decides, or the long Sleep is over.
LegSucceeds ==
    \/ leg = "wait"
    \/ leg = "goal" /\ goal = "reached" /\ kind # "land"
    \/ leg = "hold" /\ nap >= LongNap

\* PublishMpcReference finds no trajectory to drive, or one without a joint it drives.
PublishFails == mpcDrives /\ kind # "above"

LegFails ==
    \/ leg = "sleep" /\ Rested /\ PublishFails
    \/ leg = "wait"
    \/ leg = "goal" /\ goal = "aborted" /\ kind # "land"

-----------------------------------------------------------------------------
(* The ticks of the subtree. *)

\* A move begins, its caller having cleared load_off.  For an A2B move the planner has
\* already published the reference the MPC follows.
StartMove(k) ==
    /\ step = "idle"
    /\ Len(requests) <= Backlog
    /\ kind' = k
    /\ step' = "approve"
    /\ leg' = "none"
    /\ result' = "none"
    /\ nap' = 0
    /\ horizon' = (horizon \/ (k = "above" /\ mpcDrives))
    /\ NextMove
    /\ UNCHANGED <<mpcDrives, approved, controller, requests, answer, goal>>

\* Mutant: the controller is activated while the operator is still asked.
ActivateUnasked ==
    /\ step = "approve"
    /\ IF approved THEN step' = "activate" /\ UNCHANGED requests
                   ELSE requests = << >> /\ Ask("activate") /\ UNCHANGED step
    /\ UNCHANGED <<vars, mpcDrives, kind, leg, nap, result, approved, controller,
                   answer, goal, horizon>>

AwaitApproval ==
    /\ step = "approve"
    /\ IF approved THEN step' = "activate" /\ Ask("activate")
                   ELSE UNCHANGED <<step, requests>>
    /\ UNCHANGED <<vars, mpcDrives, kind, leg, nap, result, approved, controller,
                   answer, goal, horizon>>

\* The decorator reads the deadman every tick and halts its child without it.
Released ==
    /\ step \in {"activate", "move", "deactivate", "settle"}
    /\ ~approved
    /\ HaltGate
    /\ DropGoal
    /\ Undo
    /\ UNCHANGED <<mpcDrives, kind, leg, nap, approved, controller, answer, horizon>>

\* A switch call is answered once everything asked before it has been; a call that
\* is not answered in time is a failed one.
Answered(how) ==
    \/ requests = << >> /\ answer = how
    \/ requests # << >> /\ how = "refused" /\ SwitchFaults

AwaitAnswer ==
    /\ step \in {"activate", "deactivate", "undo"}
    /\ step = "undo" \/ approved
    /\ requests # << >>
    /\ UNCHANGED <<vars, mpcDrives, treeVars, approved, outVars>>

\* The Parallel's first tick: the driving branch starts, then the gate.
Activated ==
    /\ step = "activate" /\ approved
    /\ \/ /\ Answered("ok")
          /\ step' = "move"
          /\ UNCHANGED <<result, requests>>
          /\ IF Gated
             THEN /\ leg' = "sleep" /\ nap' = 0 /\ UNCHANGED horizon
                  /\ OnStart /\ watching' = (kind = "watch")
             ELSE Drive /\ UNCHANGED vars
          /\ KeepGoal
       \/ /\ Answered("refused") \/ (Answered("ok") /\ ~Gated /\ PublishFails)
          /\ Undo
          /\ UNCHANGED <<vars, leg, nap, goal, horizon>>
    /\ UNCHANGED <<mpcDrives, kind, approved, controller, answer>>

\* The Parallel: the driving branch first, the gate only if that keeps running.
Move ==
    /\ step = "move" /\ approved
    /\ \/ /\ LegSucceeds
          /\ GoOn
          /\ HaltGate
          /\ DropGoal
          /\ UNCHANGED <<leg, nap, horizon>>
       \/ /\ LegFails
          /\ Undo
          /\ HaltGate
          /\ DropGoal
          /\ UNCHANGED <<leg, nap, horizon>>
       \/ /\ ~Gated
          /\ LegRuns
          /\ KeepGoal
          /\ Stay
          /\ UNCHANGED vars
       \/ /\ Gated
          /\ LegRuns
          /\ OnRunning
          /\ \/ gate' = "RUNNING" /\ KeepGoal /\ Stay
             \/ gate' = "SUCCESS" /\ DropGoal /\ GoOn
             \/ gate' = "FAILURE" /\ DropGoal /\ Undo
    /\ UNCHANGED <<mpcDrives, kind, approved, controller, answer>>

\* A landing is over; so is a move the oracle has already seen settle.
Deactivated ==
    /\ step = "deactivate" /\ approved
    /\ \/ /\ Answered("ok")
          /\ IF mpcDrives \/ kind = "land"
             THEN Finish("SUCCESS") /\ UNCHANGED nap
             ELSE step' = "settle" /\ nap' = 0 /\ UNCHANGED <<result, requests>>
       \/ /\ Answered("refused")
          /\ Undo
          /\ UNCHANGED nap
    /\ UNCHANGED <<vars, mpcDrives, kind, leg, approved, controller, answer, goal,
                   horizon>>

Settle ==
    /\ step = "settle" /\ approved
    /\ \/ nap < WaitTimeout /\ Stay
       \/ Finish("SUCCESS")
       \/ Undo
    /\ UNCHANGED <<vars, mpcDrives, kind, leg, nap, approved, controller, answer, goal,
                   horizon>>

\* ForceFailure: whatever the manager answers, the move has failed.
Undone ==
    /\ step = "undo"
    /\ Answered("ok") \/ Answered("refused")
    /\ Finish("FAILURE")
    /\ UNCHANGED <<vars, mpcDrives, kind, leg, nap, approved, controller, answer, goal,
                   horizon>>

\* A cancelled run halts the tree where it stands.  No node of the subtree
\* deactivates the controller when it is halted.
Cancel ==
    /\ Cancels
    /\ step # "idle"
    /\ HaltGate
    /\ DropGoal
    /\ step' = "idle"
    /\ result' = "CANCELLED"
    /\ UNCHANGED <<mpcDrives, kind, leg, nap, due, approved, controller, requests, answer,
                   horizon>>

Tick ==
    /\ due
    /\ due' = FALSE
    /\ AwaitApproval \/ AwaitAnswer \/ Released \/ Activated \/ Move \/ Deactivated
       \/ Settle \/ Undone

-----------------------------------------------------------------------------
(* The surroundings. *)

\* The tree ticks at least once in every unit of time.
Time ==
    /\ step # "idle"
    /\ ~due
    /\ due' = TRUE
    /\ nap' = Older(nap, LongNap)
    /\ \/ ClockTick
       \/ (gate # "RUNNING" \/ SlowClock) /\ UNCHANGED vars
    /\ UNCHANGED <<mpcDrives, kind, step, leg, result, approved, outVars>>

\* The manager answers in the order it was asked; an activation may be refused.
ManagerAnswers ==
    /\ requests # << >>
    /\ requests' = Tail(requests)
    /\ \/ /\ answer' = "ok"
          /\ controller' = IF Head(requests) = "activate" THEN "active" ELSE "inactive"
          /\ goal' = IF Head(requests) = "deactivate" /\ goal = "live" THEN "aborted" ELSE goal
       \/ /\ Head(requests) = "activate" \/ SwitchFaults
          /\ answer' = "refused"
          /\ UNCHANGED <<controller, goal>>
    /\ UNCHANGED <<vars, mpcDrives, treeVars, due, approved, horizon>>

GoalEnds ==
    /\ goal = "live"
    /\ \/ goal' = "reached" /\ controller = "active"
       \/ goal' = "aborted"
    /\ UNCHANGED <<vars, mpcDrives, treeVars, due, approved, controller, requests, answer,
                   horizon>>

\* max_reference_age past the end of the plan, or an escalation.
MpcStops ==
    /\ horizon
    /\ horizon' = FALSE
    /\ UNCHANGED <<vars, mpcDrives, treeVars, due, approved, controller, requests, answer,
                   goal>>

OperatorMoves ==
    /\ approved' = ~approved
    /\ UNCHANGED <<vars, mpcDrives, treeVars, due, outVars>>

Sensors ==
    /\ \/ \E e \in Efforts \cup {Unreadable} : PublishJointState(e)
       \/ \E h \in Heights : PublishTransform(h)
       \/ TransformFreezes
    /\ UNCHANGED moveVars

-----------------------------------------------------------------------------

MoveInit ==
    /\ Init
    /\ mpcDrives \in BOOLEAN
    /\ kind \in Kinds
    /\ step = "idle"
    /\ leg = "none"
    /\ nap = 0
    /\ due = FALSE
    /\ result = "none"
    /\ approved = FALSE
    /\ controller = "inactive"
    /\ requests = << >>
    /\ answer = "ok"
    /\ goal = "none"
    /\ horizon = FALSE

MoveNext ==
    \/ (\E k \in Kinds : StartMove(k)) /\ due' = TRUE
    \/ Tick
    \/ Cancel
    \/ Time
    \/ ManagerAnswers
    \/ GoalEnds
    \/ MpcStops
    \/ OperatorMoves
    \/ Sensors

MoveSpec == MoveInit /\ [][MoveNext]_allVars

\* The tree is ticked, time passes, and what the tree calls answers it.
MoveFairSpec ==
    /\ MoveSpec
    /\ WF_allVars(Tick)
    /\ WF_allVars(Time)
    /\ WF_allVars(ManagerAnswers)
    /\ WF_allVars(GoalEnds)

-----------------------------------------------------------------------------
(* Properties. *)

\* A landing that succeeded was ended by the gate: the driving branch of the
\* Parallel, which only sleeps once it has started the descent, never ends it.
LandingIsSeen == kind = "land" /\ result = "SUCCESS" => gate = "SUCCESS" /\ loadOff

\* The descent does not start before the gate has taken the hanging reference
\* from the readings it has.
ReferenceAtRest ==
    /\ step = "move" /\ Gated /\ leg # "sleep"
    /\ gate = "RUNNING" /\ lowest # Unset /\ window # NoReadings
    => reference # Unset

\* Nothing moves before the operator has confirmed the move.
NothingMovesUnconfirmed == step = "approve" => ~Motion

\* A move that is over leaves the controller inactive, whichever node of the
\* subtree ended it and however the answers and the deadman raced.
EndsInactive == result \in {"SUCCESS", "FAILURE"} => controller = "inactive"

\* What the caller of a watched descent reads as early contact is the gate's word on
\* this move, not on the descent before it; a descent that arrived, and a move without a
\* gate, leave nothing to be taken for contact.
ContactIsOfThisMove ==
    /\ kind = "watch" /\ result = "FAILURE" /\ loadOff => leg # "none" /\ gate = "FAILURE"
    /\ kind = "watch" /\ result = "SUCCESS" => ~loadOff
    /\ ~Gated /\ result # "none" => ~loadOff

\* A confirmed move ends, the wall clock and the gate's clock each bounding the
\* legs the other cannot.
ConfirmedMoveEnds == step \notin {"idle", "approve"} ~> step = "idle"
=============================================================================
