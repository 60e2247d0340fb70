# A verification project for concrete_block_behavior_tree

This directory specifies, model-checks and proves properties of the behaviour
trees, behaviour-tree nodes and helper nodes that make the PZS100 crane pick
concrete blocks and build walls of them.  Paths are relative to the repository.

## 1. The system

A behaviour tree runs in one process and is ticked at a fixed rate.  Its leaves
call services and actions of other packages (planners, controller manager,
world model, `crane_mpc`), and subscribe to topics.  A leaf that subscribes has a
callback group and an executor of its own that is spun only inside its ticks.
The subtrees share one flat blackboard, so an entry such as `load_off` or
`slow_down` outlives the subtree that wrote it.

| component | state it keeps | operations | talks to |
|---|---|---|---|
| `WaitForMoveComplete` (arrival oracle, settle wait) | newest joint state and sway verdict, since when each reads still, last horizon, plan end | `onStart` (skip, refuse, start), `onRunning`, `onHalted`, three callbacks | `/joint_states`, `/crane/sway_settled`, `/crane/mpc/horizon` |
| `WaitForLoadOff` (end of a loaded descent) | reference window, reference, newest effort, running dip, lowest height, `load_off` on the blackboard | `onStart` (drains), `onRunning`, callback | `/joint_states`, tf |
| `SubTreeCbsA2BMovement` (every crane move) | position in the tree, `load_off` | approval, activate, drive, gate, deactivate, settle, ForceFailure branch | deadman, controller manager, JTC, `crane_mpc`, the two nodes above |
| place subtrees (`SubTreePlaceBlock`, `SubTreePlaceFromHover`, `SubTreeSetDown`, `SubTreeRelease`, early contact) | `still_off`, `corr_done`, `load_off`, `slow_down`, retry and repeat counters | approach, measure, shift, entry, touchdown, release, lift-clear | pose services, world model, `SetMpcPayload`, gripper, the move subtree |
| `SubTreePickAndPlaceBlock`, `SubTreePickBlock`, `SubTreeResumeCarry`, `SubTreeRegrip` | position, status of the block | resume, regrip, pick | plan server, world model, grasp signal |
| `wall_assembly`, `GetNextAssemblyTask`, `PlanComplete` | `plan_has_task`, the task | next task, status writes, retry, discovery | plan server, tf |
| `SetMpcPayload`, `PublishGripperState` | the request it waits for | tell the MPC, and the planner, what hangs on the hook | `crane_mpc`, planner |
| `gripper_grasp_detector` (a process of its own) | last stamp, candidate and signal times | joint-state callback, publishing timer | `/joint_states`, `/gripper/grasp_detected` |
| `WaitForGraspSignal` | the flag, start time | `onStart`, `onRunning`, `onHalted`, callback | `/gripper/grasp_detected` |
| `operator_guided_single_block.xml`, `WaitForOperatorCommand`, `OperatorExitAsSuccess` | last command and sequence number of every wait, exits, hover, seed | seven waits, two measure-and-correct loops | the operator panel, world model |
| `EvaluatePickupResidual`, `EvaluatePlacementResidual`, `RunPoseEstimation` | none | residual, clamp, corrected command | world model, tf |
| `gazebo_grasp_weld.py` | one joint per block, what was commanded | attach, detach, re-send | Gazebo |

What is hard in it:

- **Interleaving.**  Callbacks, ticks and two clocks (a steady or wall clock and the
  node's ROS clock, which is simulated time under Gazebo and may stall).  Messages
  pile up between ticks and between moves.
- **Stale state.**  Cached verdicts, mailboxes and blackboard entries that a move
  inherits from the one before it.
- **Partial failure.**  A switch call that is refused or not answered, a lift whose
  plan fails, a write that was served but not answered.
- **Cut-off.**  A run may be cancelled between any two calls and another run starts
  from what is left: the controllers, the jaws and the record in the world model.
- **Bounds.**  Every wait but the one for the operator needs an end, and two of these ends
  must not race.

What makes each component correct:

- the oracle reports arrival only after the crane *and* the load stood still for a
  whole dwell of this move, it gives no dwell up that could still end, and it ends;
- the load-off gate reports a landing only for a loss of load that lasted, in this
  descent, and tells a landing from early contact;
- a move never starts before it is confirmed, a landing is ended by its gate only,
  and a move that is over leaves the controller inactive;
- a place never lets go of a block in the air or off the record, enters a slot only
  measured, and goes on with nothing once the block is down;
- a run never works against what hangs from the hook, and a complete plan is built;
- the grasp signal speaks of a recent grip, of this epoch of the clock, and a signal that
  stays up is heard;
- a stage of the operator's tree follows a command given for it, and what the operator
  corrected reaches the block exactly once.

## 2. Modules

| module | models | correspondence |
|---|---|---|
| `MoveComplete` | `wait_for_move_complete.{hpp,cpp}` | one action per operation; the five-message topics are bounded queues; time points are kept as ages |
| `MCMoveComplete` | alphabets for TLC | |
| `MoveCompleteProofs` | theorems on `MoveComplete` | section 5 |
| `LoadOff` | `wait_for_load_off.{hpp,cpp}` | `OnStart`, `OnRunning` with every early return, `OnHalted`; the window is how many readings it has of each effort, `Median` its `nth_element`; `watching` is which of the tree's two instances is at work, the landing's or the watch for early contact, which never runs both; `NextMove` is the Script that clears `load_off` |
| `MCLoadOff` | efforts and heights for TLC | |
| `LoadOffProofs` | theorems on `LoadOff` | section 5 |
| `CbsMove` (EXTENDS `LoadOff`) | `cbs_subtree_a2b_movement.xml` with the gate inside it | one action per tick of the subtree; approval, controller manager, JTC, MPC and operator are external actions |
| `MCCbsMove` | efforts and heights for TLC | |
| `CbsMoveProofs` | theorems on `CbsMove` | section 5 |
| `PlaceBlock` | `subtree_place_block.xml`, `subtree_lift.xml`, `SubTreeSetDown` of `subtree_pick_and_place_block.xml` | one action per call of a leaf or subtree |
| `PlaceBlockProofs` | theorems on `PlaceBlock` | section 5 |
| `Placement` | what a place promises | the abstract specification `PlaceBlock` implements |
| `BlockCycle` | `wall_assembly.xml`, `subtree_pick_and_place_block.xml`, `subtree_pick_block.xml`, `SubTreeRelease`, and the services they call | one action per call of an action or a service, over a whole plan and run after run; the descent of a place is reduced to what `Placement` promises of it |
| `BlockCycleProofs` | theorems on `BlockCycle` | section 5 |
| `GraspSignal` | `gripper_grasp_detector.cpp` with `wait_for_grasp_signal.{hpp,cpp}` | `Loose` and `Squeeze` are the joint-state callback, `PublishTimer` its timer, `Starts` its constructor; `OnStart`, `OnRunning`, `OnHalted` the waiter |
| `GraspSignalProofs` | theorems on `GraspSignal` | section 5 |
| `OperatorGuided` | `operator_guided_single_block.xml`, `wait_for_operator_command.cpp`, `evaluate_pickup_residual.cpp`, `evaluate_placement_residual.cpp`, `run_pose_estimation.cpp` | a wait is named by the command it expects; one action per call, `OnRunning(w)` per command read |
| `MCOperatorGuided` | positions for TLC | |
| `OperatorGuidedProofs` | theorems on `OperatorGuided` | section 5 |

How the state maps to the code:

- *Ages.*  The nodes store time points and only ever subtract them from the current
  time.  The models store the difference, which stops growing at the bound it is
  compared with, so that the state space is finite without cutting behaviours.
- *Messages* are abstracted to what the gates test: a joint sample is `near` (all
  joints at the goal) and `moving` (some joint over its bound); a verdict is its
  reading and whether its rates are under the node's own bound.
- *Heights and efforts* are integers relative to the target and to the drop `m g r`
  asks for.
- *The tool's transform* in `LoadOff` is missing until the first one arrives.  After that the
  lookup does not fail: tf's buffer keeps the last one for seconds, and a running gate fails
  on one older than 0.2 s.  A clock set back clears that buffer and is not modelled there.
- *A lateral miss* is one of the bands the place scripts tell apart: under 1 cm, under
  5 cm, more.
- *A descent* inside `PlaceBlock` has the outcomes `CbsMove` gives it: it arrives, ends
  on load-off, or fails, each with the block hanging or touching.
- *The plan server, the jaws and the operator* in `BlockCycle` are external.  The server
  hands out the first block of the plan that is not on record as placed, or waits; the
  grasp signal is true only over jaws that hold something, and does not say what; the
  operator works between runs only, puts back what hangs in the jaws or has fallen, and
  resets a status only of a block found out of the jaws, as the log of
  `GetBlockTaskStatus` asks.  A call that is not answered may have been served.
- *A payload request* of `BlockCycle` that is not answered in time may have been served, may
  never be, or is owed: `crane_mpc` comes to it later, also in another run.  Requests are
  served in their order, so an answered one leaves nothing owed.
- *Clocks* in `GraspSignal`: the detector's ROS clock may stall, and be set back, at most
  once between two joint states; the waiter's timeout and the detector's timer are on the
  wall clock.  Within one epoch of the clock the stamps of joint states do not go back.  The
  detector notices that its clock was set back by a stamp before `last_sample_time_`; whether
  the clock has passed that stamp again by the next joint state is left open, and if it has
  nothing is reset.
- *The operator's tree* counts positions on one axis, at the pickup from the planned pickup
  and at the placement from the planned hover.  A command is delivered as it is published,
  so one that is still under way when a wait begins is not covered.
  Every goal builds the tree, and so the subscriptions, anew, and a subscription may find
  the panel late, which then delivers the last command.  Entries the blackboard keeps from
  the run before are written before they are read and count as cleared.
- *Where a block is* in `BlockCycle` is the stock, the regrip spot, its own slot, the jaws, or
  astray; `pickup_*` and `place_*` are one of these.  Two blocks at the regrip spot do not
  get into each other's way there.
- *History variables* (declared as such) record what the properties speak of and the
  code does not store; no guard reads them.
- Definitions whose comment begins with *Mutant* are changed forms of the definition
  that follows, each a plausible bug; substituting it breaks the property named in
  `PROJECT.json`.  No specification uses them.

## 3. Runs

`tlc -config X.cfg M` with the module that `PROJECT.json` names for the run.

| run | question | instance |
|---|---|---|
| `MoveComplete` | is a success a whole dwell of this move, is no dwell cut off, does UNKNOWN never settle, and does every wait end? | all three modes, the node judging the rates itself, `Hold = 2 > MaxAge = 1`, the horizon bound exactly as long as the assertion asks, queues of 1, producer dying, ROS clock stalling |
| `LoadOff` | is a landing a dip that lasted, of this descent, from a reference that a minority of readings cannot shift, told from contact by the lowest height, and does the gate end? | two efforts around the drop, three heights (below the floor, on target, above), descent after descent |
| `CbsMoveLanding` | does nothing move unconfirmed, does only the gate end a landing, is the reference taken at rest, is `load_off` of this move, does a finished move leave the controller inactive? | A2B moves, watched descents and landings in any order, no refused switch, ROS clock at the wall clock's pace |
| `CbsMoveFaults` | does a confirmed landing end? | landings in a row, refused or unanswered switches, cancelled runs, a ROS clock that may stand still |
| `PlaceBlock` | is the block let go on the ground and on record only, the entry measured, does a place implement `Placement`, does it end within a number of calls known when it begins, and does it end if every motion is confirmed? | all four routes, the retry and cycle counts of the XML (2 and 3) |
| `BlockCycle` | does a run carry its own block and take over what hangs in the jaws, does `crane_mpc` know of it, does a run that starts tidy build the wall, is no block served anew, and does every run end if every motion is confirmed? | three blocks, the three attempts of the XML, any number of runs, each cut off anywhere, payload requests served late |
| `GraspSignal` | does a success speak of a recent grip of this epoch, is a signal that stays up heard, and does a wait end? | a queue of 2, joint states up to one unit late, a clock set back by one unit, noticed or not, a detector that dies and starts |
| `OperatorGuided` | does every stage follow its own command, does a correction count once, and is a command heard? | two sightings of the ground block, three grips, estimates right and wrong, residuals within and over the clamp, a panel found late, calls that fail, canceled goals |

The bounds and why they are enough:

- `Hold`, `MaxAge`, `Grace`, `HorizonMaxAge`, `Timeout`: 2, 1, 1, 3 and 3 for the code's 2.7 s,
  1 s, 3 s, 4.92 s (41 knots of 120 ms) and 60 to 120 s.  `Hold` stays over `MaxAge`, and
  `HorizonMaxAge` is the least the `static_assert` admits (`Hold + MaxAge`, 3.7 s).  `Grace` is
  shorter than `Hold`, unlike in the code, and `Timeout` no longer than it has to be, so that
  every way of giving up meets dwells that are not complete; ages saturate, so a longer wait
  repeats a state.  The theorems of `MoveCompleteProofs` hold for all values.
- `Verdicts` of `MoveComplete`: NO with slow rates, which settles, and UNKNOWN with slow rates,
  which never does.  A YES with rates over the bound restarts the dwell as UNKNOWN
  does, so it is left to `MoveCompleteProofs`, which holds for every set of verdicts.
- `Depth`: 1 is enough to lose messages and to read a message published before the
  tick that began a move; the runs on stale verdicts and on the grasp signal use 2 so that
  two can pile up.  The code's depth of the grasp signal is 10; `GraspSignalProofs` holds
  for every depth.
- `Hold`, `Duration`, `Timeout`, `MaxDelay`, `MaxBack` of `GraspSignal`: one unit each, and two for the
  timeout: the take-over waits 2 s for a signal that lasts 1 s by default.  On the machine
  it lasts longer than the wait; `GraspSignalProofs` holds for every order of these but asks
  that joint states are not later than the signal lasts.
- `Sightings`, `Grips`, `Tolerance`, `Disturbance`, `MaxCorrection` of `OperatorGuided`: the first hover is
  further off than the clamp, so that a correction may be cut, or reach in one round or
  two; the grips are off to both sides.  `OperatorGuidedProofs` holds for all integers.
- `MaxWindow`: readings of one effort the reference window counts, 2; the median of
  two efforts is then taken over ties, majorities and single readings.
- `Kinds`: `CbsMoveLanding` has the move without a gate, both gated ones, and both commanders;
  a lift is a move without a gate whose reference the tree publishes, and both parts are
  there.  `CbsMoveFaults` has the landing alone, the one kind whose driving branch has no end
  of its own: the others end with their goal, or with the wait that `MoveEnds` is about.
  `CbsMoveProofs` is for all four, with or without faults and cancelled runs.
- `Heights` of `CbsMove`: on the target; that the load comes off too high is, in its runs, what
  a watched descent sees.  The heights of a landing are the matter of `LoadOff`.
- `Backlog`: requests a new move may find unanswered at the controller manager, 1.
- `MaxPace`: overrides left on `slow_down`; the counter saturates.
- `Attempts`, `Passes`: as in the XML.
- `Count`: three blocks give the task one before and one after it in the plan, which is all
  that its properties relate; `BlockCycleProofs` holds for every plan.  The two runs of
  `BlockCycle` that are violated use two for a short counterexample.
- `SlowClock`, `SwitchFaults`, `Cancels`: scenario switches, so that a property can be
  stated for the situations in which the code guarantees it.

Runs expected to be violated, each one property that a comment or a test of the
repository states and the code does not keep:

| run | statement | what happens |
|---|---|---|
| `MoveCompleteStale` | nothing latched before the move can satisfy it (`wait_for_move_complete.hpp:65`) | `onStart()` clears the caches, then reads queues that were filled before the move |
| `CbsMoveCancel` | no active controller before the confirmation (`cbs_subtree_a2b_movement.xml:19`) | halting the tree deactivates nothing |
| `BlockCycleBuilt` | the loop's failure becomes a success only when the wall is done (`plan_complete.hpp:15`) | TASK_PLACED is written before the jaws open, and at a regrip's set-down too; a run cut off there leaves a block the server never offers again |
| `BlockCycleRepick` | a regrip grips its block again where it set it down (`subtree_pick_and_place_block.xml:86`, `:124`) | the look before the re-pick corrects the pickup, now at the regrip spot, by how far the block is seen from the pose it was handed out at, so a detection sends the jaws beside the block; without one the pickup stands |

Further limits of the code, each the reason for a scenario switch or a restriction:

- with `SwitchFaults` a refused deactivation in the ForceFailure branch leaves the
  controller active, so `EndsInactive` is stated without them;
- with `SlowClock` the 600 ms Sleep may be over before the gate has its 500 ms of ROS time,
  and the 600 s Sleep of a landing, on the wall clock, before the gate's 150 s on the ROS
  clock, so `ReferenceAtRest` and `LandingIsSeen` are stated without it, although
  `cbs_subtree_a2b_movement.xml:97` says that the move branch never ends a landing;
- the joint dwell of `WaitForMoveComplete` has no bound on the age of its samples, so one
  sample under the rate bound completes it by time alone, although
  `wait_for_move_complete.hpp:52` says that one sample is no stop; only the sway dwell is
  held to more than one message (`OneVerdictIsNoDwell`);
- a carrying lift whose plan fails skips the Script that restores `slow_down`
  (`subtree_lift.xml:46`), so the retry goes on with the multiplied value, although
  `test_cbs_a2b_tree.py:246` says that it has to be restored; `pace` of `PlaceBlock` counts it,
  and no run is spent on it;
- after the detector's clock was set back its timer compares a time of the old epoch with
  the new clock, and may raise an expired signal again until the next joint state.  That one
  takes it down only if its stamp is before `last_sample_time_`; a clock that has caught up by
  then leaves a signal up that rests on readings of the old epoch, until it expires or the
  jaws squeeze for a hold.  `doubt` records this: `DownAfterReset` speaks of signals without it,
  `SuccessIsRecent` of messages published without it (`sound`).  A detector that died leaves its
  last messages in the waiter's queue, which are not `sound` either;
- `ReferenceAtRest` speaks of a gate that has readings when the descent starts: without one
  until then, the reference is taken from the first readings of the descent itself;
- nothing ends a motion that is not confirmed: `GetUserApproval` waits without a timeout
  (`cbs_subtree_a2b_movement.xml:32`), so `PlaceEnds` and `RunEnds` have the operator's
  confirmation as their premise (section 4);
- a subscription that finds the panel only after `onStart()` is handed the last command of an
  earlier stage or run, and takes it for an answer, although
  `wait_for_operator_command.cpp:92` says that only a command issued after the wait began
  is accepted; `AnswerIsOfThisWait` speaks of waits that began with the panel found;
- a wrong estimate is commanded like a right one, within the clamp; `CorrectionCountsOnce`
  speaks of the last correction if its estimate was right and it was not cut;
- jaws that hold a block not yet on record as carried are opened by the next run's pick,
  so `HeldIsTakenOver` speaks of marked blocks.

`TidyRunBuilds` is what is true of `SuccessMeansBuilt`: a run that begins with empty jaws
and a true record, and succeeds, has built the wall, whatever happens within it.

## 4. Fairness

- `MoveComplete`, `LoadOff`: weak fairness of the node's tick (the tree ticks a running
  node at its rate) and of the clock the timeout is read off (the steady clock of
  `MoveComplete`; the ROS clock of `LoadOff`, whose gate alone would not end if that
  clock stood still).  Nothing is assumed of publishers, the producer or, in
  `MoveComplete`, of the ROS clock that `plan_end_` is compared with.
- `CbsMove`: weak fairness of the tick, of time, of the controller manager's answers and
  of the end of a goal.  The approval is not assumed to come: `ConfirmedMoveEnds` starts
  from a confirmed move, and is checked for the landing.  The ROS clock may stand still;
  the Sleep on the wall clock ends the landing then.
- `GraspSignal`: weak fairness of the waiter's tick, of the wall clock and of the timer of a
  running detector.  Nothing is assumed of joint states, the ROS clock or the detector's
  life.
- `OperatorGuided`: weak fairness of the tick of the wait the tree is at, and of the
  middleware's discovery.  No call of the tree need end, and the operator need not answer:
  `AnswerIsHeard` begins with an answer.
- `PlaceBlock`, `BlockCycle`: the code guarantees weak fairness of the calls that move nothing
  (`Service`), and `FairSpec` has no more.  A service call ends by its answer or by
  `server_timeout`, `WaitForGraspSignal` and `SetMpcPayload` by `timeout_ms`,
  `MeasureBlockFromGripper` with its window, which is on the ROS clock and so takes that to
  advance.  Nothing is assumed of the answers: a server that waits for ever uses the
  attempts up, and every cycle that succeeds leaves one more block on record.
- **An assumption about the operator.**  The calls that move the arm or the jaws (`Motion`)
  are not fair.  Each waits in `GetUserApproval`, which has no timeout
  (`cbs_subtree_a2b_movement.xml:85`, `subtree_execute_trajectory.xml:4`; line 32 of the former
  says that every approval node blocks when nothing publishes its topic), and the
  `server_timeout` of `FollowJointTrajectory` bounds the acceptance of its goal only.  A place or
  a run that nobody confirms waits for ever.  `PlaceEnds` and `RunEnds` therefore read
  `MotionsAreConfirmed => (...)`: *if* the operator confirms every motion the tree asks for, and
  the motion then ends, well or badly, the place or the run ends.  Without that premise what
  is left is `CallsRunOut`, which assumes no fairness: the calls a place or a run can make are
  bounded, so it ends or it waits at one call.

## 5. Proofs

`MoveCompleteProofs` proves, for every hold, bound, queue depth and alphabet,

- `TypeCorrect`, `UnbrokenDwell`, `OwnDwell`, `TurningPointIsRefused`, `UnknownIsRefused`,
  `SilenceRespectsDwell`,

from the assumptions `ModeAssumption`, `TimeAssumption` (naturals; the age of a move
saturates past what it is compared with), `TopicAssumption` and `HorizonOutlastsDwell`, which
is the `static_assert` of the header.  The properties are not inductive: they speak of
the state in which a tick succeeds and say nothing of how the cached time points relate
before.  `IInv` adds that a running dwell is never older than the last message that
broke it (`DwellsFollowBreaks`) nor than the move (`DwellsWithinMove`), that a dwell carried
by one verdict is no older than that verdict or the verdict is already stale
(`LoneVerdictCarriesNothing`), that a success has passed the gates, and that a running
move has not been given up.  Each callback keeps these relations (`TakeJointStateStep`,
`TakeVerdictStep`), the clock keeps the order of ages that grow together
(`OlderKeepsOrder`), and a tick's verdict is read off the caches it leaves (`DecideStep`).

`PlaceBlockProofs` proves, for every choice of routes, attempts and cycles,

- `TypeCorrect`, `NeverDropped`, `AlwaysRecorded`, `ContactEndsDescent`, `MeasuredEntry`,
  `LoadedLift`, of every call `PlaceRunsOut`, and `Implements`: the place subtrees refine `Placement`,

from `RouteAssumption` and `BoundAssumption` (attempts and cycles are positive).  Its `IInv`
says what every call may rely on: where the block is (`JawsFollowTheCall`), what the
record says of it (`RecordFollowsTheCall`), what `crane_mpc` models (`PayloadFollowsTheCall`),
and that a shift follows its measurement at once (`ShiftFollowsMeasurement`).  The
properties alone are not inductive, since none says that a block about to be released
rests on the ground.  The refinement has one lemma per group of calls: the approach is
the promise's `Carry`, the write its `Record`, the opening its `LetGo`, the payload its `Clear`.
`PlaceRunsOut` is what can be proved here behind `PlaceEnds`: `CallsLeft`, a natural number (34 when a
place begins with the attempts and cycles of the XML), falls with every call.  Within an
attempt it is the place of the call (`WithinAttempt`), and a new attempt costs more than all
calls of the old one can have left.

`BlockCycleProofs` proves, for plans of every length and every number of attempts,

- `TypeCorrect`, `OwnBlockCarried`, `CarriedIsTakenOver`, `LoadKnown`, `TidyRunsBuild` and, of every
  step, `SlotsKept` and `RunRunsOut`,

from `PlanAssumption` (a block and an attempt at least) and `DriveAssumption`.  The properties
are not inductive: after a cut-off nothing in them says whose block hangs in the jaws.
`IInv` joins three parts.  `Ledger` holds between runs too: a block in its slot is on record
as placed, the jaws hold one block at most, a block on record as carried is the one they
hold if they hold any, and it comes after placed blocks only.  From the last clause the
first unplaced block, which is what the server offers, is the marked one if there is one
(`TaskIsFirst`), so the take-over finds its own block in the jaws.  `Course` says what the
jaws, the record and the targets are at each call, and `Tidiness` that in a run which began
tidy only the block of the task may be placed on record and not in its slot.  There is
one lemma per action, over lemmas for what all failures (`CutOff`), all calls that leave
the block alone (`SameCourse`) and all status writes (`WrittenLedger`) have in common.
`RunRunsOut` is what can be proved here of `RunEnds`: `CallsLeft` (36 calls a block and 6 to find
that there is none left, with the three attempts of the XML) falls with every call.  The number
of unplaced blocks alone would not do, since a regrip writes its block placed and marks it
again; the task at hand counts as served (`Waiting`), and while the tree asks, the task
before is on record as placed (`Served`).

`LoadOffProofs` proves, for all efforts, heights and bounds,

- `TypeCorrect`, `ReferenceResists`, `UnbrokenDip`, `OwnReadings`, `LandingToldFromContact`, and, of the
  median, `MedianExists` and `MedianIsUnique`,

from `EffortAssumption` (finitely many efforts, a positive drop), `MarkAssumption`,
`HeightAssumption` and `DurationAssumption`.  `Median` is a choice, so what it returns has to be
proved: the effort at which half the readings have been passed exists in every window
that counts any (`MedianExists`, by the least element of a finite set of integers,
`FirstExists`), no other has that property (`MedianIsUnique`), and it lies within every interval
that holds most of the readings (`MedianResists`).  `Counted` is the first invariant: the types, a
window that has room for the reading in the mailbox (`MailFits`), and a reference that is
the median of the window it was taken from, which does not change any more
(`ReferenceFollows`).  `IInv` stands on it and adds that a running dip is younger than the last
loaded reading (`DipFollowsLoad`) and that `lowest_` is the lowest height seen since
`onStart()` (`LowestTells`).

`CbsMoveProofs` first shows that nothing the subtree does to the gate is foreign to it
(`GateInside`: every behaviour of the move is one of `LoadOff`), so the gate's promises hold in
every move (`GatePromises`).  Then it proves the types (`MoveTypeCorrect`) and four arguments on
the subtree, each in the scenario it needs:

- `ConfirmedFirst` and `LeftInactive`, without cancelled runs and switch faults (`~Cancels`,
  `~SwitchFaults`).  `Switches` says, for each step of the tree, which requests the controller
  manager still has to answer and hence what the controller will be; the hard case is the
  recovery, which may find the Sequence's own request unanswered;
- `LandingSeen`, with a ROS clock at the wall clock's pace (`~SlowClock`).  `GateLeads` keeps the
  gate ahead of the driving branch, so that the gate's timeout comes before the Sleep's end;
- `AtRest`, in the same scenario: the driving branch leaves its Sleep in a tick that finds the
  gate older than the time the reference is taken over (`GateLeads`), and such a tick leaves
  the gate with a reference or with nothing to take it of (`TickTakesReference`); `RestFirst`
  is the inductive form;
- `ContactIsOwn`, with every fault: the `load_off` a watched descent ends with was written by
  its own gate (`ContactFollowsTheGate`).

`GraspSignalProofs` proves, for every hold, duration, depth, timeout and delay,

- `TypeCorrect`, `OneHold`, `OldSignalIsDown`, `FirmIsHeard`, and, for joint states that are no later than
  `signal_duration_s` (`PromptJointStates`), `RecentSuccess`.

`IInv` says how old the readings of a candidate may be (`HoldSpans`), that within an epoch of
the clock the signal has no more than its duration left (`EpochLeft`), and that behind a signal that stays up the waiter's queue has one
lowered message less with every tick (`FirmQueue`).  `RecentSuccess` needs a second invariant,
`MessagesAge`: the place of a message in the queue bounds the age of the grip it speaks of,
since a running detector publishes in every unit of time and pushes the oldest one out.

`OperatorGuidedProofs` proves, for any estimates, tolerance, clamp and disturbance,

- `TypeCorrect`, `WordFirst`, `OneCorrection`, `AnswerIsFresh`, `StepIsBounded`.

`IInv` has two parts.  `Words`: a loop goes on only where its wait has taken the exit back
(`ExitIsTakenBack`), and what a matched subscription holds was published during the wait
(`HeldIsOfThisWait`).  `Axis`: the hook is at its command but for the tolerance
(`HookAtCommand`), the seed is the command while the correction commanded last is trusted
(`SeedIsCommand`), and a correction not yet commanded is within the clamp of the hover it was
measured at (`CorrectionReady`).

Theorems whose property is in no run (`AlwaysRecorded`, `OneHold`, `StepIsBounded`, the facts on the
median, and every type invariant but `MoveTypeOK`, which takes in that of `LoadOff`) need none:
they hold for every instance.

Only model-checked: the liveness properties, since fairness and `ENABLED` are outside the
prover's reach; of `PlaceEnds` and `RunEnds` the falling number of calls is proved, which needs
neither the fairness nor the operator.  Every
other property of a passing run is a theorem.

## 6. What is not modelled

- `basic_pick_and_place.xml`: one pick and one place at fixed targets, without a record.
- `CaptureBlockGraspOffset` and `MeasureBlockFromGripper`: calls that succeed or fail; their
  transforms and averages are real-valued arithmetic on poses.  Of the residuals one axis
  is modelled; frames, yaw and markers are left out.
- `PublishGripperState`: one publication without state or answer.
- `gazebo_grasp_weld.py`: a stand-in for friction in the simulator, which the trees do not
  know of.  Its re-sent commands are listed as a hazard; what they meet is the simulator,
  of which the repository has nothing.
- `status_text` (formatting), `GetSlowDown` (one parameter), spawner, oracle, report and probe
  scripts (no part of a run), launch and configuration files, and the two trees that make
  a single empty move, about which `CbsMove` says everything.

What could be added: a refinement of `BlockCycle`'s release to `Placement`, so that the two
share one promise as a theorem and not by construction; a geometry of the regrip spot with
two blocks at it; the second horizontal axis and the yaw of the residuals.
