---------------------------- MODULE MoveComplete ----------------------------
(***************************************************************************)
(* WaitForMoveComplete, the arrival oracle of an A2B crane move.           *)
(*                                                                         *)
(* A behaviour-tree node that is ticked by the tree.  Its subscriptions    *)
(* have an executor of their own which is spun only inside onRunning(), so *)
(* between two ticks messages pile up in the keep-last queues of the       *)
(* middleware, and while no move runs nobody empties those queues.  The    *)
(* same instance serves every move of a tree, one after the other.         *)
(*                                                                         *)
(* Every time point the node keeps is only ever subtracted from the time   *)
(* at which it is read, so the model keeps the difference: an age in units *)
(* of the steady clock, which stops growing past the bound it is held to.  *)
(* The node's ROS clock (simulated time under Gazebo) is only compared     *)
(* with plan_end_: planLeft is the part of the plan still to be played.    *)
(* That clock may stall while the steady clock runs.                       *)
(***************************************************************************)
EXTENDS Integers, Sequences

CONSTANTS
    Modes,          \* which instances of the node to consider, a subset of Mode
    SwayBounded,    \* sway_bound > 0: the node judges the rates itself
    Hold,           \* hold_s, the dwell asked of both stillness gates
    MaxAge,         \* kSettledMaxAge
    Grace,          \* kProducerGrace
    HorizonMaxAge,  \* kHorizonMaxAge
    Timeout,        \* timeout_ms
    MaxElapsed,     \* where the age of a move stops growing, past what it is held to
    PlanTime,       \* time_from_start of the plan's last point
    Depth,          \* history depth of the two QoS(10) subscriptions
    Samples,        \* what /joint_states may carry, a subset of Sample
    Verdicts        \* what /crane/sway_settled may carry, a subset of Verdict

\* A joint state as the gates read it: every checked joint within its
\* tolerance, any checked joint over dq_a_bound.  A missing name, a missing
\* rate and a NaN read as off the goal and as moving.
Sample == [near : BOOLEAN, moving : BOOLEAN]

\* A sway verdict: the producer's own reading, and whether every rate in it is
\* within sway_bound.
Verdict == [settled : {"UNKNOWN", "NO", "YES"}, under : BOOLEAN]

\* The instances a tree builds, told apart by a2b_mpc_drives and settle_only:
\* the arrival oracle of a move crane_mpc drives, the settle wait after an
\* action goal, and the oracle on an arm where the action goal is the oracle.
Mode == {"oracle", "settle", "action"}

ASSUME ModeAssumption ==
    /\ Modes \subseteq Mode
    /\ SwayBounded \in BOOLEAN

ASSUME TimeAssumption ==
    /\ Hold \in Nat
    /\ MaxAge \in Nat
    /\ Grace \in Nat
    /\ HorizonMaxAge \in Nat
    /\ Timeout \in Nat
    /\ MaxElapsed \in Nat
    /\ MaxElapsed > Timeout /\ MaxElapsed > Grace /\ MaxElapsed >= Hold
    /\ PlanTime \in Nat

\* The static_assert of the header, for the longest hold a caller may ask for.
ASSUME HorizonOutlastsDwell == HorizonMaxAge >= Hold + MaxAge

ASSUME TopicAssumption ==
    /\ Depth \in Nat \ {0}
    /\ Samples \subseteq Sample
    /\ Verdicts \subseteq Verdict

VARIABLES
    mode,            \* which instance this is, fixed when it is built
    planLeft,        \* plan_end_ minus the node's clock, never below 0
    status,          \* what the last tick returned, IDLE before the first and after a halt
    why,             \* not_arrived_reason() of the last tick
    cause,           \* which give-up bound ended the move, if one did
    elapsed,         \* age of start_time_
    jointState,      \* joint_state_
    jointHeld,       \* age of dq_a_still_since_, Never when it is unset
    settled,         \* settled_
    verdictAge,      \* age of settled_received_
    settledHeld,     \* age of settled_since_, Never when it is unset
    horizonQuiet,    \* age of horizon_received_
    jointQ,          \* undelivered joint states, oldest first
    settledQ,        \* undelivered verdicts, oldest first
    horizonQ,        \* whether a horizon is waiting (depth 1)
    producer,        \* somebody publishes /crane/sway_settled
    movingAge,       \* history: age of the last moving sample read in this move
    unsettledAge,    \* history: age of the last verdict read that is not still
    dwellVerdicts,   \* history: verdicts read in the current sway dwell, 2 for more
    stale,           \* history: queued verdicts published before this move began
    ownVerdict       \* history: the newest verdict read was published in this move

tickVars  == <<status, why, cause>>
cacheVars == <<jointState, jointHeld, settled, settledHeld>>
clockVars == <<elapsed, verdictAge, horizonQuiet, planLeft>>
topicVars == <<jointQ, settledQ, horizonQ>>
histVars  == <<movingAge, unsettledAge, dwellVerdicts, stale, ownVerdict>>
vars == <<mode, tickVars, cacheVars, clockVars, topicVars, producer, histVars>>

Never == -1

\* The empty caches.  No sample reads as off the goal and no verdict as not
\* still, which is what the two optional caches lead to.
NoSample  == [near |-> FALSE, moving |-> TRUE]
NoVerdict == [settled |-> "NONE", under |-> FALSE]

TypeOK ==
    /\ mode \in Mode
    /\ planLeft \in Nat
    /\ status \in {"IDLE", "SKIPPED", "RUNNING", "SUCCESS", "FAILURE"}
    /\ why \in {"none", "plan", "joints", "moving", "jointDwell", "noVerdict",
                "unsettled", "swayDwell"}
    /\ cause \in {"none", "horizon", "producer", "timeout"}
    /\ elapsed \in 0..MaxElapsed
    /\ jointState \in Sample
    /\ jointHeld \in Never..Hold
    /\ settled \in Verdict \cup {NoVerdict}
    /\ verdictAge \in 0..(MaxAge + 1)
    /\ settledHeld \in Never..Hold
    /\ horizonQuiet \in 0..(HorizonMaxAge + 1)
    /\ jointQ \in Seq(Samples)
    /\ settledQ \in Seq(Verdicts)
    /\ horizonQ \in BOOLEAN
    /\ producer \in BOOLEAN
    /\ movingAge \in Never..Hold
    /\ unsettledAge \in Never..Hold
    /\ dwellVerdicts \in 0..2
    /\ stale \in Nat
    /\ ownVerdict \in BOOLEAN

-----------------------------------------------------------------------------
(* The gates. *)

\* horizon_sub_ exists only where the MPC is the commander of the move.
WatchesHorizon == mode = "oracle"

\* Mutant: the producer's word is left out where the node judges the rates.
StillByRatesAlone(v) == IF SwayBounded THEN v.under ELSE v.settled = "YES"

\* still(): the verdict's YES, or its rates against sway_bound; never UNKNOWN.
Still(v) ==
    \/ v.settled = "YES" /\ ~SwayBounded
    \/ v.settled \in {"YES", "NO"} /\ SwayBounded /\ v.under

\* A gate's unbroken run of stillness has lasted hold_.
Held(age) == age # Never /\ age >= Hold

\* Mutant: any verdict will do, however old.
AnyVerdict == settled # NoVerdict

FreshVerdict == settled # NoVerdict /\ verdictAge <= MaxAge

\* not_arrived_reason(): the first gate that is not met.
NotArrivedReason ==
    IF planLeft > 0 THEN "plan"
    ELSE IF ~jointState.near THEN "joints"
    ELSE IF jointState.moving THEN "moving"
    ELSE IF ~Held(jointHeld) THEN "jointDwell"
    ELSE IF ~FreshVerdict THEN "noVerdict"
    ELSE IF ~Still(settled) THEN "unsettled"
    ELSE IF ~Held(settledHeld) THEN "swayDwell"
    ELSE "none"

\* Mutant: the horizon is held to the bound of the verdict (issue 239).
SilentAsAVerdict == WatchesHorizon /\ horizonQuiet >= MaxAge /\ elapsed > Grace

\* Mutant: the watchdog is kept where there is a commander only.
TimedOutOnTheHorizon == WatchesHorizon /\ elapsed > Timeout

\* The three bounds that give a move up, tested in this order.
CommanderSilent ==
    WatchesHorizon /\ horizonQuiet > HorizonMaxAge /\ elapsed > Grace

ProducerGone == elapsed > Grace /\ ~producer

TimedOut == elapsed > Timeout

GiveUpCause ==
    IF CommanderSilent THEN "horizon"
    ELSE IF ProducerGone THEN "producer"
    ELSE IF TimedOut THEN "timeout"
    ELSE "none"

-----------------------------------------------------------------------------
(* The executor.  spin_some() hands over at most one message of each          *)
(* subscription; the callbacks stamp what they cache with the steady clock.   *)

Capped(n) == IF n >= 2 THEN 2 ELSE n + 1

\* Mutant: what is not still leaves the dwell running.
DwellRunsOn(still, held) == IF still /\ held = Never THEN 0 ELSE held

\* A callback's dwell: anything that is not still restarts it.
Dwell(still, held) ==
    IF ~still THEN Never ELSE IF held = Never THEN 0 ELSE held

TakeJointState(state, held, seen) ==
    IF jointQ = << >>
    THEN /\ jointState' = state
         /\ jointHeld' = held
         /\ movingAge' = seen
         /\ UNCHANGED jointQ
    ELSE LET msg == Head(jointQ) IN
         /\ jointQ' = Tail(jointQ)
         /\ jointState' = msg
         /\ jointHeld' = Dwell(~msg.moving, held)
         /\ movingAge' = IF msg.moving THEN 0 ELSE seen

TakeVerdict(last, held, seen, count, old) ==
    IF settledQ = << >>
    THEN /\ settled' = last
         /\ settledHeld' = held
         /\ unsettledAge' = seen
         /\ dwellVerdicts' = count
         /\ stale' = 0
         /\ UNCHANGED <<settledQ, verdictAge, ownVerdict>>
    ELSE LET msg == Head(settledQ) IN
         /\ settledQ' = Tail(settledQ)
         /\ settled' = msg
         /\ verdictAge' = 0
         /\ settledHeld' = Dwell(Still(msg), held)
         /\ unsettledAge' = IF Still(msg) THEN seen ELSE 0
         /\ dwellVerdicts' = IF Still(msg) THEN Capped(count) ELSE 0
         /\ stale' = IF old = 0 THEN 0 ELSE old - 1
         /\ ownVerdict' = (old = 0)

TakeHorizon(quiet) ==
    /\ horizonQuiet' = IF horizonQ THEN 0 ELSE quiet
    /\ horizonQ' = FALSE

\* What onRunning() returns, read off the caches the executor has just filled.
Decide ==
    /\ why' = NotArrivedReason'
    /\ cause' = IF why' = "none" THEN "none" ELSE GiveUpCause'
    /\ status' = IF why' = "none" THEN "SUCCESS"
                 ELSE IF cause' = "none" THEN "RUNNING" ELSE "FAILURE"

-----------------------------------------------------------------------------
(* The node's operations. *)

OnRunning ==
    /\ status = "RUNNING"
    /\ TakeJointState(jointState, jointHeld, movingAge)
    /\ TakeVerdict(settled, settledHeld, unsettledAge, dwellVerdicts, stale)
    /\ TakeHorizon(horizonQuiet)
    /\ UNCHANGED <<mode, elapsed, planLeft, producer>>
    /\ Decide

\* Neither the commander nor the settle wait: the action goal is the oracle.
OnStartSkipped ==
    /\ status # "RUNNING"
    /\ mode = "action"
    /\ status' = "SKIPPED"
    /\ UNCHANGED <<mode, why, cause, cacheVars, clockVars, topicVars, producer,
                   histVars>>

\* No trajectory, one with a narrow last point, or a joint it does not carry.
\* This returns before any cache is cleared.
OnStartRefused ==
    /\ status # "RUNNING"
    /\ mode # "action"
    /\ status' = "FAILURE"
    /\ cause' = "none"
    /\ UNCHANGED <<mode, why, cacheVars, clockVars, topicVars, producer, histVars>>

\* Mutant: the caches of the move before are kept.
OnStartKeepingCaches ==
    /\ status # "RUNNING"
    /\ mode # "action"
    /\ elapsed' = 0
    /\ planLeft' = IF mode = "settle" THEN 0 ELSE PlanTime
    /\ TakeJointState(jointState, jointHeld, Never)
    /\ TakeVerdict(settled, settledHeld, Never, dwellVerdicts, Len(settledQ))
    /\ TakeHorizon(0)
    /\ UNCHANGED <<mode, producer>>
    /\ Decide

\* The caches are cleared and the clocks armed, and the first tick runs at
\* once.  What was queued before the move stays queued.
OnStart ==
    /\ status # "RUNNING"
    /\ mode # "action"
    /\ elapsed' = 0
    /\ planLeft' = IF mode = "settle" THEN 0 ELSE PlanTime
    /\ TakeJointState(NoSample, Never, Never)
    /\ TakeVerdict(NoVerdict, Never, Never, 0, Len(settledQ))
    /\ TakeHorizon(0)
    /\ UNCHANGED <<mode, producer>>
    /\ Decide

\* The tree halts a running node: a sibling of its Parallel ended, the operator
\* let the deadman go, or the tree was cancelled.
OnHalted ==
    /\ status = "RUNNING"
    /\ status' = "IDLE"
    /\ jointState' = NoSample
    /\ jointHeld' = Never
    /\ settled' = NoVerdict
    /\ settledHeld' = Never
    /\ dwellVerdicts' = 0
    /\ UNCHANGED <<mode, why, cause, clockVars, topicVars, producer, movingAge,
                   unsettledAge, stale, ownVerdict>>

-----------------------------------------------------------------------------
(* The environment: the clocks, the drivers that publish the joint states,   *)
(* and crane_mpc, which publishes the verdicts and the horizons.             *)

Older(age, most) == IF age = Never \/ age >= most THEN age ELSE age + 1

\* The ROS clock may stand still while the steady clock runs.  Between two
\* moves nobody reads a clock, so time is not counted there.
ClockTick ==
    /\ status = "RUNNING"
    /\ elapsed' = Older(elapsed, MaxElapsed)
    /\ verdictAge' = Older(verdictAge, MaxAge + 1)
    /\ horizonQuiet' = Older(horizonQuiet, HorizonMaxAge + 1)
    /\ jointHeld' = Older(jointHeld, Hold)
    /\ settledHeld' = Older(settledHeld, Hold)
    /\ movingAge' = Older(movingAge, Hold)
    /\ unsettledAge' = Older(unsettledAge, Hold)
    /\ planLeft' \in {planLeft, planLeft - 1} \cap Nat
    /\ UNCHANGED <<mode, tickVars, jointState, settled, topicVars, producer,
                   dwellVerdicts, stale, ownVerdict>>

\* A keep-last queue drops its oldest message when a new one does not fit.
Enqueue(queue, msg) ==
    IF Len(queue) < Depth THEN Append(queue, msg) ELSE Append(Tail(queue), msg)

PublishJointState(sample) ==
    /\ jointQ' = Enqueue(jointQ, sample)
    /\ UNCHANGED <<mode, clockVars, tickVars, cacheVars, settledQ, horizonQ,
                   producer, histVars>>

PublishVerdict(verdict) ==
    /\ producer
    /\ settledQ' = Enqueue(settledQ, verdict)
    /\ stale' = IF Len(settledQ) < Depth \/ stale = 0 THEN stale ELSE stale - 1
    /\ UNCHANGED <<mode, clockVars, tickVars, cacheVars, jointQ, horizonQ, producer,
                   movingAge, unsettledAge, dwellVerdicts, ownVerdict>>

PublishHorizon ==
    /\ producer
    /\ WatchesHorizon
    /\ horizonQ' = TRUE
    /\ UNCHANGED <<mode, clockVars, tickVars, cacheVars, jointQ, settledQ, producer,
                   histVars>>

ProducerDies ==
    /\ producer
    /\ producer' = FALSE
    /\ UNCHANGED <<mode, clockVars, tickVars, cacheVars, topicVars, histVars>>

ProducerStarts ==
    /\ ~producer
    /\ producer' = TRUE
    /\ UNCHANGED <<mode, clockVars, tickVars, cacheVars, topicVars, histVars>>

-----------------------------------------------------------------------------

Init ==
    /\ mode \in Modes
    /\ planLeft = 0
    /\ status = "IDLE"
    /\ why = "none"
    /\ cause = "none"
    /\ elapsed = 0
    /\ jointState = NoSample
    /\ jointHeld = Never
    /\ settled = NoVerdict
    /\ verdictAge = 0
    /\ settledHeld = Never
    /\ horizonQuiet = 0
    /\ jointQ = << >>
    /\ settledQ = << >>
    /\ horizonQ = FALSE
    /\ producer \in BOOLEAN
    /\ movingAge = Never
    /\ unsettledAge = Never
    /\ dwellVerdicts = 0
    /\ stale = 0
    /\ ownVerdict = FALSE

Node == OnStartSkipped \/ OnStartRefused \/ OnStart \/ OnRunning \/ OnHalted

Environment ==
    \/ ClockTick
    \/ \E sample \in Samples : PublishJointState(sample)
    \/ \E verdict \in Verdicts : PublishVerdict(verdict)
    \/ PublishHorizon
    \/ ProducerDies
    \/ ProducerStarts

Next == Node \/ Environment

Spec == Init /\ [][Next]_vars

\* The tree ticks a running node at its own rate, and time passes.  Nothing is
\* assumed of the publishers or of the ROS clock.
FairSpec == Spec /\ WF_vars(OnRunning) /\ WF_vars(ClockTick)

-----------------------------------------------------------------------------
(* Properties. *)

\* A move that succeeded has read nothing moving and nothing unsettled for a
\* whole dwell: any message that is not still restarts the gate it belongs to,
\* however the messages of the two topics and the ticks interleave.
DwellWasUnbroken ==
    status = "SUCCESS" =>
        /\ movingAge # Never => movingAge >= Hold
        /\ unsettledAge # Never => unsettledAge >= Hold

\* A move never succeeds sooner than one dwell after its own start: stillness
\* cached for the move before it, or for one that was halted, is not carried over.
DwellBelongsToThisMove ==
    status = "SUCCESS" => elapsed >= Hold

\* A dwell longer than kSettledMaxAge takes at least two verdicts, since a lone
\* YES goes stale inside it: the turning point of a swing is not a settled load.
OneVerdictIsNoDwell ==
    status = "SUCCESS" /\ Hold > MaxAge => dwellVerdicts >= 2

\* The horizon bound gives a move up only once a dwell that began before the
\* commander fell silent has had the time to end (issue 239).
SilenceCutsNoDwell ==
    cause = "horizon" =>
        /\ why = "jointDwell" => jointHeld < horizonQuiet
        /\ why = "swayDwell" => settledHeld < horizonQuiet

\* SETTLED_UNKNOWN never reads as settled, also where the node judges the rates
\* itself and the rates of an UNKNOWN verdict lie within its bound.
UnknownNeverSettles == status = "SUCCESS" => settled.settled # "UNKNOWN"

\* A move always ends, whatever falls silent and even if the ROS clock that
\* plan_end_ is compared with stands still: the watchdog is on the steady clock.
MoveEnds == status = "RUNNING" ~> status # "RUNNING"

\* What the header says of the caches: nothing latched before the move can
\* satisfy it.
NothingLatchedBeforeTheMove == status = "SUCCESS" => ownVerdict
=============================================================================
