----------------------------- MODULE GraspSignal -----------------------------
(***************************************************************************)
(* The grasp signal: gripper_grasp_detector, a node of its own that judges *)
(* the effort of the jaws, and WaitForGraspSignal, which the tree asks     *)
(* whether the jaws hold a block.                                          *)
(*                                                                         *)
(* The detector stamps with its ROS clock, which may stall, or be set back *)
(* by a simulation that starts over; its timer and the waiter's timeout    *)
(* run on the wall clock.  Time points are kept as differences: ages and   *)
(* what is left of the signal.  A joint state without the joint, or        *)
(* without its effort, changes nothing and is left out.                    *)
(***************************************************************************)
EXTENDS Integers, Sequences

CONSTANTS
    Hold,           \* hold_time_s
    Duration,       \* signal_duration_s
    Depth,          \* history depth of the waiter's subscription, QoS(10)
    Timeout,        \* timeout_ms
    MaxDelay,       \* bound: age of a joint state when the detector gets it
    MaxBack         \* bound: how far the ROS clock is set back

ASSUME ParameterAssumption ==
    /\ Hold \in Nat /\ Duration \in Nat /\ Timeout \in Nat
    /\ Depth \in Nat \ {0}
    /\ MaxDelay \in Nat /\ MaxBack \in Nat

VARIABLES
    on,             \* the detector runs
    spoken,         \* its timer has published in this unit of time
    sampleAge,      \* age of last_sample_time_, Never before the first
    setBack,        \* the clock has been set back since last_sample_time_
    held,           \* last_sample_time_ - candidate_since_, Never without a candidate
    active,         \* signal_active_
    left,           \* signal_until_ minus the clock, Expired when it has passed
    queue,          \* messages the waiter has not taken, oldest first
    status,         \* what the waiter's last tick returned
    elapsed,        \* age of start_time_
    detected,       \* grasp_detected_
    gripAge,        \* history: age of the reading that last raised the signal
    breakAge,       \* history: age of the last reading no hold may span
    span,           \* history: from that reading to the one that raised the signal
    doubt,          \* history: the signal may rest on readings of an epoch before
    firm            \* history: ticks of this wait since all that is published is true

clockVars    == <<sampleAge, setBack, left>>
detectorVars == <<on, spoken, held, active>>
waiterVars   == <<status, elapsed, detected>>
gripVars     == <<gripAge, breakAge, span>>
vars == <<clockVars, detectorVars, queue, waiterVars, gripVars, doubt, firm>>

Never   == -1
Expired == -1

\* What is published, and whether the detector that published it still runs and did so
\* without doubt.
Message == [grasped : BOOLEAN, sound : BOOLEAN]

\* Ages stop growing where nothing tells them apart any more.
MaxSampleAge == Hold + MaxDelay
MaxGripAge   == Duration + Depth + MaxDelay + 1

TypeOK ==
    /\ on \in BOOLEAN /\ spoken \in BOOLEAN /\ setBack \in BOOLEAN
    /\ active \in BOOLEAN /\ detected \in BOOLEAN /\ doubt \in BOOLEAN
    /\ sampleAge \in Never..MaxSampleAge
    /\ held \in Never..Hold
    /\ left \in Expired..(Duration + MaxBack)
    /\ queue \in Seq(Message) /\ Len(queue) <= Depth
    /\ status \in {"IDLE", "RUNNING", "SUCCESS", "FAILURE"}
    /\ elapsed \in 0..(Timeout + 1)
    /\ gripAge \in Never..MaxGripAge
    /\ breakAge \in Never..MaxSampleAge
    /\ span \in Never..MaxSampleAge
    /\ firm \in Never..Depth

-----------------------------------------------------------------------------
(* Time. *)

Least(a, b) == IF a <= b THEN a ELSE b

Older(age, bound) == IF age = Never THEN Never ELSE Least(age + 1, bound)

\* Mutant: the waiter measures its timeout with the ROS clock.
WaitedOnRosTime(runs) == IF runs THEN Least(elapsed + 1, Timeout + 1) ELSE elapsed

\* start_time_ is on the steady clock, whether the ROS clock runs or not.
Waited(runs) == Least(elapsed + 1, Timeout + 1)

\* A unit of wall time.  The timer of a running detector publishes at least once in it.
Time ==
    /\ on => spoken
    /\ spoken' = FALSE
    /\ \E runs \in BOOLEAN :
          /\ elapsed' = Waited(runs)
          /\ IF runs
             THEN /\ sampleAge' = Older(sampleAge, MaxSampleAge)
                  /\ left' = IF left = Expired THEN Expired ELSE left - 1
                  /\ gripAge' = Older(gripAge, MaxGripAge)
                  /\ breakAge' = Older(breakAge, MaxSampleAge)
             ELSE UNCHANGED <<sampleAge, left, gripAge, breakAge>>
    /\ UNCHANGED <<setBack, on, held, active, queue, status, detected, span, doubt, firm>>

\* A simulation that starts over sets the clock back, which nothing tells the detector:
\* it has the stamp of the next joint state only.
SetBack ==
    /\ on /\ sampleAge # Never /\ ~setBack
    /\ setBack' = TRUE
    /\ doubt' = TRUE
    /\ left' \in left..(left + MaxBack)
    /\ UNCHANGED <<sampleAge, detectorVars, queue, waiterVars, gripVars, firm>>

-----------------------------------------------------------------------------
(* The detector. *)

\* publishSignal: the oldest of more messages than the waiter's queue keeps is lost.
Publish(grasped, sound) ==
    /\ queue' = LET all == Append(queue, [grasped |-> grasped, sound |-> sound])
                IN  IF Len(all) > Depth THEN Tail(all) ELSE all
    /\ firm' = IF ~grasped THEN Never ELSE IF firm = Never THEN 0 ELSE firm

\* Mutant: a raised signal is never taken back.
RaisedForEver == active

Raised == active /\ left # Expired

PublishTimer ==
    /\ on
    /\ spoken' = TRUE
    /\ Publish(Raised, ~doubt)
    /\ UNCHANGED <<clockVars, on, held, active, waiterVars, gripVars, doubt>>

ResetCandidate == held' = Never

\* A joint state of that age, and whether stamp < last_sample_time_.  Within one epoch of
\* the clock stamps do not go back.  A clock that was set back may have passed the last
\* stamp again by then; signal_until_ is signal_duration_s past that stamp at most.
Stamped(age, back) ==
    \/ back /\ setBack
    \/ ~back /\ sampleAge = Never
    \/ ~back /\ age <= sampleAge /\ (setBack => left + age <= Duration \/ left = Expired)

\* The times there may be between two stamps in order: less than has passed, if the clock
\* was set back between them.
Gaps(age) == IF setBack THEN 0..(sampleAge - age) ELSE {sampleAge - age}

\* Mutant: the signal of the epoch before stays up.
StayUp(back) == UNCHANGED <<active, left>>

\* stamp < last_sample_time_ resets the candidate and takes the signal down.
TakeDown(back) ==
    /\ active' = (active /\ ~back)
    /\ left' = IF back THEN Expired ELSE left

Loose(age, back) ==
    /\ on /\ Stamped(age, back)
    /\ ResetCandidate
    /\ sampleAge' = age
    /\ setBack' = FALSE
    /\ TakeDown(back)
    /\ doubt' = (doubt /\ ~back /\ active')
    /\ breakAge' = age
    /\ UNCHANGED <<on, spoken, queue, waiterVars, gripAge, span, firm>>

\* How long the candidate is held with that reading.
HeldFor(age, back) ==
    \/ (held = Never \/ back) /\ held' = 0
    \/ /\ held # Never /\ ~back
       /\ \E gap \in Gaps(age) : held' = Least(held + gap, Hold)

\* The jaws squeeze within the position window.  Held for long enough the reading
\* raises the signal, which it publishes itself.
Squeeze(age, back) ==
    /\ on /\ Stamped(age, back)
    /\ HeldFor(age, back)
    /\ sampleAge' = age
    /\ setBack' = FALSE
    /\ breakAge' = IF sampleAge = Never \/ back THEN age ELSE breakAge
    /\ IF held' >= Hold
       THEN /\ active' = TRUE
            /\ left' = IF age <= Duration THEN Duration - age ELSE Expired
            /\ gripAge' = age
            /\ span' = breakAge' - age
            /\ doubt' = FALSE
            /\ Publish(TRUE, TRUE)
       ELSE /\ TakeDown(back)
            /\ doubt' = (doubt /\ ~back /\ active')
            /\ UNCHANGED <<gripAge, span, queue, firm>>
    /\ UNCHANGED <<on, spoken, waiterVars>>

\* What the detector knew is gone; what the waiter has been sent is still in its queue.
Dies ==
    /\ on
    /\ on' = FALSE
    /\ sampleAge' = Never /\ setBack' = FALSE /\ left' = Expired
    /\ held' = Never /\ active' = FALSE
    /\ gripAge' = Never /\ breakAge' = Never /\ span' = Never
    /\ doubt' = FALSE
    /\ queue' = [i \in DOMAIN queue |-> [queue[i] EXCEPT !.sound = FALSE]]
    /\ UNCHANGED <<spoken, waiterVars, firm>>

\* The constructor publishes at once.
Starts ==
    /\ ~on
    /\ on' = TRUE
    /\ spoken' = TRUE
    /\ Publish(FALSE, TRUE)
    /\ UNCHANGED <<clockVars, held, active, waiterVars, gripVars, doubt>>

-----------------------------------------------------------------------------
(* The waiter. *)

\* spin_some and callback: the oldest message, and at most one.
Spin(before) ==
    IF queue = << >>
    THEN detected' = before /\ UNCHANGED queue
    ELSE /\ detected' = Head(queue).grasped
         /\ queue' = Tail(queue)

\* Mutant: only onStart() spins.
SpinNothing(before) == detected' = before /\ UNCHANGED queue

Listen(before) == Spin(before)

Answer(waited) ==
    status' = IF detected' THEN "SUCCESS" ELSE IF waited > Timeout THEN "FAILURE"
              ELSE "RUNNING"

\* onStart clears the flag and leaves the queue.
OnStart ==
    /\ status # "RUNNING"
    /\ Spin(FALSE)
    /\ elapsed' = 0
    /\ Answer(0)
    /\ firm' = Never
    /\ UNCHANGED <<clockVars, detectorVars, gripVars, doubt>>

OnRunning ==
    /\ status = "RUNNING"
    /\ Listen(detected)
    /\ Answer(elapsed)
    /\ firm' = Older(firm, Depth)
    /\ UNCHANGED <<clockVars, detectorVars, elapsed, gripVars, doubt>>

OnHalted ==
    /\ status = "RUNNING"
    /\ status' = "IDLE"
    /\ detected' = FALSE
    /\ UNCHANGED <<clockVars, detectorVars, queue, elapsed, gripVars, doubt, firm>>

-----------------------------------------------------------------------------

Init ==
    /\ on = FALSE /\ spoken = FALSE
    /\ sampleAge = Never /\ setBack = FALSE /\ left = Expired
    /\ held = Never /\ active = FALSE
    /\ queue = << >>
    /\ status = "IDLE" /\ elapsed = 0 /\ detected = FALSE
    /\ gripAge = Never /\ breakAge = Never /\ span = Never
    /\ doubt = FALSE /\ firm = Never

Detector ==
    \/ PublishTimer
    \/ \E age \in 0..MaxDelay, back \in BOOLEAN : Loose(age, back) \/ Squeeze(age, back)
    \/ Dies
    \/ Starts

Next ==
    \/ Time
    \/ SetBack
    \/ Detector
    \/ OnStart \/ OnRunning \/ OnHalted

Spec == Init /\ [][Next]_vars

\* The tree ticks a running waiter, a running detector's timer fires, and time passes.
FairSpec ==
    /\ Spec
    /\ WF_vars(OnRunning)
    /\ WF_vars(Time)
    /\ WF_vars(PublishTimer /\ ~spoken)

-----------------------------------------------------------------------------
(* Properties. *)

\* The signal is up only after readings that all squeeze, from one to another that is
\* hold_time_s later, and none of them from before a stamp that went back.
RaisedByOneHold == active => span >= Hold

\* The message the waiter reads next is sound.
SoundAhead == queue # << >> /\ Head(queue).sound

\* The waiter says that a block is held at most signal_duration_s after the readings
\* said so, and the time its queue spans, however long it was not spun before and
\* whatever the jaws have done since.
SuccessIsRecent ==
    [][(OnStart \/ OnRunning) /\ status' = "SUCCESS" /\ SoundAhead
       => gripAge \in 0..(Duration + Depth)]_vars

\* After a clock that was set back the first joint state whose stamp went back takes down
\* what was held up before, and from it on, or from the next grip, the signal is up for
\* signal_duration_s from its readings on.
DownAfterReset ==
    active /\ left # Expired /\ ~doubt => gripAge # Never /\ gripAge + left <= Duration

\* A wait does not fail over a signal that has been up for as many of its ticks as its
\* queue is deep.
FirmSignalIsHeard == status = "FAILURE" => firm < Depth

\* A wait ends, also without a detector and with a ROS clock that stands still.
WaitEnds == status = "RUNNING" ~> status # "RUNNING"
=============================================================================
