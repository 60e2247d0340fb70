------------------------- MODULE MoveCompleteProofs -------------------------
(***************************************************************************)
(* What WaitForMoveComplete guarantees for every hold, age bound, timeout, *)
(* queue depth and message alphabet that satisfy the assumptions.          *)
(***************************************************************************)
EXTENDS MoveComplete, TLAPS

(* The inductive invariant: how the cached time points relate.  A dwell is   *)
(* never older than the last message that broke it nor than the move; one    *)
(* that a single verdict carries is no older than that verdict.              *)

DwellsFollowBreaks ==
    /\ movingAge = Never \/ jointHeld <= movingAge
    /\ unsettledAge = Never \/ settledHeld <= unsettledAge

DwellsWithinMove == jointHeld <= elapsed /\ settledHeld <= elapsed

LoneVerdictCarriesNothing ==
    /\ dwellVerdicts = 0 => settledHeld = Never
    /\ dwellVerdicts = 1 => settledHeld <= verdictAge \/ verdictAge > MaxAge

SuccessPassedTheGates ==
    status = "SUCCESS" => Held(jointHeld) /\ FreshVerdict /\ Held(settledHeld)

RunningIsNotGivenUp == status = "RUNNING" => cause = "none"

IInv ==
    /\ TypeOK
    /\ DwellsFollowBreaks
    /\ DwellsWithinMove
    /\ LoneVerdictCarriesNothing
    /\ SuccessPassedTheGates
    /\ RunningIsNotGivenUp
    /\ SilenceCutsNoDwell

-----------------------------------------------------------------------------
(* The queues. *)

\* Dropping the oldest message and appending a new one stays within the alphabet.
LEMMA EnqueueType ==
    ASSUME NEW S, NEW q \in Seq(S), NEW msg \in S
    PROVE  Enqueue(q, msg) \in Seq(S)
<1>1. CASE Len(q) < Depth
  BY <1>1 DEF Enqueue
<1>2. CASE ~(Len(q) < Depth)
  <2>1. q # << >>
    BY <1>2, TopicAssumption
  <2>2. Tail(q) \in Seq(S)
    BY <2>1
  <2> QED
    BY <1>2, <2>2 DEF Enqueue
<1> QED
  BY <1>1, <1>2

\* The oldest message of a queue is one of its alphabet, and so are the others.
LEMMA TakeType ==
    ASSUME NEW S, NEW q \in Seq(S), q # << >>
    PROVE  Head(q) \in S /\ Tail(q) \in Seq(S)
OBVIOUS

-----------------------------------------------------------------------------
(* One tick of the node.  The executor's part is the same in onStart() and    *)
(* onRunning(); the lemmas say what it does to the caches it is given.        *)

\* Reading a joint state keeps the joint dwell no older than the last moving
\* sample and no older than the one it was given.
LEMMA TakeJointStateStep ==
    ASSUME TypeOK,
           NEW state \in Sample, NEW held \in Never..Hold,
           NEW seen \in Never..Hold,
           seen = Never \/ held <= seen,
           TakeJointState(state, held, seen)
    PROVE  /\ jointQ' \in Seq(Samples)
           /\ jointState' \in Sample
           /\ jointHeld' \in Never..Hold
           /\ movingAge' \in Never..Hold
           /\ movingAge' = Never \/ jointHeld' <= movingAge'
           /\ jointHeld' <= held \/ jointHeld' = 0
<1> USE TimeAssumption, TopicAssumption DEF Never
<1>1. CASE jointQ = << >>
  <2>1. /\ jointState' = state
        /\ jointHeld' = held
        /\ movingAge' = seen
        /\ jointQ' = jointQ
    BY <1>1 DEF TakeJointState
  <2>2. jointQ' \in Seq(Samples)
    BY <2>1 DEF TypeOK
  <2>3. jointHeld' \in Never..Hold /\ movingAge' \in Never..Hold
    BY <2>1
  <2>4. movingAge' = Never \/ jointHeld' <= movingAge'
    BY <2>1
  <2>5. jointHeld' <= held
    BY <2>1
  <2> QED
    BY <2>1, <2>2, <2>3, <2>4, <2>5
<1>2. CASE jointQ # << >>
  <2>1. Head(jointQ) \in Sample /\ Tail(jointQ) \in Seq(Samples)
    BY <1>2, TakeType DEF TypeOK
  <2>2. Head(jointQ).moving \in BOOLEAN
    BY <2>1 DEF Sample
  <2>3. CASE Head(jointQ).moving
    BY <1>2, <2>1, <2>3 DEF TakeJointState, Dwell
  <2>4. CASE ~Head(jointQ).moving
    BY <1>2, <2>1, <2>4 DEF TakeJointState, Dwell
  <2> QED
    BY <2>2, <2>3, <2>4
<1> QED
  BY <1>1, <1>2

\* Reading a verdict keeps the sway dwell no older than the last verdict that
\* broke it, and a dwell of one verdict no older than that verdict.
LEMMA TakeVerdictStep ==
    ASSUME TypeOK,
           NEW last \in Verdict \cup {NoVerdict}, NEW held \in Never..Hold,
           NEW seen \in Never..Hold, NEW count \in 0..2, NEW old \in Nat,
           seen = Never \/ held <= seen,
           count = 0 => held = Never,
           count = 1 => held <= verdictAge \/ verdictAge > MaxAge,
           TakeVerdict(last, held, seen, count, old)
    PROVE  /\ settledQ' \in Seq(Verdicts)
           /\ settled' \in Verdict \cup {NoVerdict}
           /\ verdictAge' \in 0..(MaxAge + 1)
           /\ settledHeld' \in Never..Hold
           /\ unsettledAge' \in Never..Hold
           /\ dwellVerdicts' \in 0..2
           /\ stale' \in Nat
           /\ ownVerdict' \in BOOLEAN
           /\ unsettledAge' = Never \/ settledHeld' <= unsettledAge'
           /\ settledHeld' <= held \/ settledHeld' = 0
           /\ dwellVerdicts' = 0 => settledHeld' = Never
           /\ dwellVerdicts' = 1 => settledHeld' <= verdictAge' \/ verdictAge' > MaxAge
<1> USE TimeAssumption, TopicAssumption DEF Never
<1>1. CASE settledQ = << >>
  BY <1>1 DEF TakeVerdict, TypeOK
<1>2. CASE settledQ # << >>
  <2>1. Head(settledQ) \in Verdict /\ Tail(settledQ) \in Seq(Verdicts)
    BY <1>2, TakeType DEF TypeOK
  <2>2. /\ settledQ' \in Seq(Verdicts)
        /\ settled' \in Verdict
        /\ verdictAge' = 0
        /\ stale' \in Nat
        /\ ownVerdict' \in BOOLEAN
    BY <1>2, <2>1 DEF TakeVerdict
  <2>3. CASE Still(Head(settledQ))
    <3>1. /\ settledHeld' = IF held = Never THEN 0 ELSE held
          /\ unsettledAge' = seen
          /\ dwellVerdicts' = Capped(count)
      BY <1>2, <2>3 DEF TakeVerdict, Dwell
    <3> QED
      BY <2>2, <3>1 DEF Capped
  <2>4. CASE ~Still(Head(settledQ))
    <3>1. settledHeld' = Never /\ unsettledAge' = 0 /\ dwellVerdicts' = 0
      BY <1>2, <2>4 DEF TakeVerdict, Dwell
    <3> QED
      BY <2>2, <3>1
  <2> QED
    BY <2>3, <2>4
<1> QED
  BY <1>1, <1>2

\* Reading a horizon keeps its age within the bound.
LEMMA TakeHorizonStep ==
    ASSUME TypeOK, NEW quiet \in 0..(HorizonMaxAge + 1), TakeHorizon(quiet)
    PROVE  horizonQuiet' \in 0..(HorizonMaxAge + 1) /\ horizonQ' \in BOOLEAN
<1>1. horizonQ' \in BOOLEAN
  BY DEF TakeHorizon
<1>2. horizonQuiet' = 0 \/ horizonQuiet' = quiet
  BY DEF TakeHorizon
<1> QED
  BY <1>1, <1>2, TimeAssumption

\* What a tick returns is backed by the caches it leaves behind.
LEMMA DecideStep ==
    ASSUME Decide,
           jointHeld' \in Never..Hold, settledHeld' \in Never..Hold,
           elapsed' \in Nat, horizonQuiet' \in Nat
    PROVE  /\ status' \in {"RUNNING", "SUCCESS", "FAILURE"}
           /\ why' \in {"none", "plan", "joints", "moving", "jointDwell", "noVerdict",
                        "unsettled", "swayDwell"}
           /\ cause' \in {"none", "horizon", "producer", "timeout"}
           /\ SuccessPassedTheGates'
           /\ RunningIsNotGivenUp'
           /\ SilenceCutsNoDwell'
<1>1. /\ why' \in {"none", "plan", "joints", "moving", "jointDwell", "noVerdict",
                   "unsettled", "swayDwell"}
      /\ why' = "none" => Held(jointHeld') /\ FreshVerdict' /\ Held(settledHeld')
      /\ why' = "jointDwell" => ~Held(jointHeld')
      /\ why' = "swayDwell" => ~Held(settledHeld')
  BY DEF Decide, NotArrivedReason, Held
<1>2. /\ cause' \in {"none", "horizon", "producer", "timeout"}
      /\ cause' = "horizon" => horizonQuiet' > HorizonMaxAge
  BY DEF Decide, GiveUpCause, CommanderSilent
<1>3. /\ status' \in {"RUNNING", "SUCCESS", "FAILURE"}
      /\ status' = "SUCCESS" => why' = "none"
      /\ status' = "RUNNING" => cause' = "none"
  BY DEF Decide
<1>4. SuccessPassedTheGates'
  BY <1>1, <1>3 DEF SuccessPassedTheGates, Held
<1>5. SilenceCutsNoDwell'
  <2>1. HorizonMaxAge >= Hold
    BY HorizonOutlastsDwell, TimeAssumption
  <2> QED
    BY <1>1, <1>2, <2>1, TimeAssumption DEF SilenceCutsNoDwell, Held, Never
<1> QED
  BY <1>1, <1>2, <1>3, <1>4, <1>5 DEF RunningIsNotGivenUp

-----------------------------------------------------------------------------
(* The invariant. *)

\* An instance that has not been ticked satisfies the invariant.
LEMMA InitIInv == Init => IInv
<1> SUFFICES ASSUME Init PROVE IInv
  OBVIOUS
<1> USE ModeAssumption, TimeAssumption, TopicAssumption DEF Init, Never
<1>1. TypeOK
  <2>1. mode \in Mode /\ jointState \in Sample
    BY DEF NoSample, Sample
  <2>2. jointQ \in Seq(Samples) /\ settledQ \in Seq(Verdicts)
    OBVIOUS
  <2>3. /\ horizonQ \in BOOLEAN
        /\ producer \in BOOLEAN
        /\ ownVerdict \in BOOLEAN
    OBVIOUS
  <2>4. /\ elapsed \in 0..MaxElapsed
        /\ jointHeld \in Never..Hold
        /\ verdictAge \in 0..(MaxAge + 1)
        /\ settledHeld \in Never..Hold
        /\ horizonQuiet \in 0..(HorizonMaxAge + 1)
        /\ movingAge \in Never..Hold
        /\ unsettledAge \in Never..Hold
        /\ dwellVerdicts \in 0..2
    OBVIOUS
  <2>5. planLeft \in Nat /\ stale \in Nat /\ settled \in Verdict \cup {NoVerdict}
    OBVIOUS
  <2>6. /\ status \in {"IDLE", "SKIPPED", "RUNNING", "SUCCESS", "FAILURE"}
        /\ why \in {"none", "plan", "joints", "moving", "jointDwell", "noVerdict",
                     "unsettled", "swayDwell"}
        /\ cause \in {"none", "horizon", "producer", "timeout"}
    OBVIOUS
  <2> HIDE DEF Init, Never
  <2> QED
    BY <2>1, <2>2, <2>3, <2>4, <2>5, <2>6 DEF TypeOK
<1>2. DwellsFollowBreaks /\ DwellsWithinMove /\ LoneVerdictCarriesNothing
  BY DEF DwellsFollowBreaks, DwellsWithinMove, LoneVerdictCarriesNothing
<1> QED
  BY <1>1, <1>2 DEF IInv, SuccessPassedTheGates, RunningIsNotGivenUp, SilenceCutsNoDwell

\* A tick: the executor, then the decision.
LEMMA OnRunningIInv == ASSUME IInv, OnRunning PROVE IInv'
<1> USE TimeAssumption DEF Never
<1>1. /\ TakeJointState(jointState, jointHeld, movingAge)
      /\ TakeVerdict(settled, settledHeld, unsettledAge, dwellVerdicts, stale)
      /\ TakeHorizon(horizonQuiet)
      /\ UNCHANGED <<mode, elapsed, planLeft, producer>>
      /\ Decide
  BY DEF OnRunning
<1>2. /\ jointQ' \in Seq(Samples)
      /\ jointState' \in Sample
      /\ jointHeld' \in Never..Hold
      /\ movingAge' \in Never..Hold
      /\ movingAge' = Never \/ jointHeld' <= movingAge'
      /\ jointHeld' <= jointHeld \/ jointHeld' = 0
  BY <1>1, TakeJointStateStep DEF IInv, TypeOK, DwellsFollowBreaks
<1>3. /\ settledQ' \in Seq(Verdicts)
      /\ settled' \in Verdict \cup {NoVerdict}
      /\ verdictAge' \in 0..(MaxAge + 1)
      /\ settledHeld' \in Never..Hold
      /\ unsettledAge' \in Never..Hold
      /\ dwellVerdicts' \in 0..2
      /\ stale' \in Nat
      /\ ownVerdict' \in BOOLEAN
      /\ unsettledAge' = Never \/ settledHeld' <= unsettledAge'
      /\ settledHeld' <= settledHeld \/ settledHeld' = 0
      /\ dwellVerdicts' = 0 => settledHeld' = Never
      /\ dwellVerdicts' = 1 => settledHeld' <= verdictAge' \/ verdictAge' > MaxAge
  <2>1. /\ TypeOK
        /\ settled \in Verdict \cup {NoVerdict}
        /\ settledHeld \in Never..Hold
        /\ unsettledAge \in Never..Hold
        /\ dwellVerdicts \in 0..2
        /\ stale \in Nat
    BY DEF IInv, TypeOK
  <2>2. /\ unsettledAge = Never \/ settledHeld <= unsettledAge
        /\ dwellVerdicts = 0 => settledHeld = Never
        /\ dwellVerdicts = 1 => settledHeld <= verdictAge \/ verdictAge > MaxAge
    BY DEF IInv, DwellsFollowBreaks, LoneVerdictCarriesNothing
  <2> QED
    BY <1>1, <2>1, <2>2, TakeVerdictStep
<1>4. horizonQuiet' \in 0..(HorizonMaxAge + 1) /\ horizonQ' \in BOOLEAN
  BY <1>1, TakeHorizonStep DEF IInv, TypeOK
<1>5. /\ mode' \in Mode
      /\ elapsed' = elapsed
      /\ elapsed' \in 0..MaxElapsed
      /\ planLeft' \in Nat
      /\ producer' \in BOOLEAN
  BY <1>1 DEF IInv, TypeOK
<1>6. /\ status' \in {"RUNNING", "SUCCESS", "FAILURE"}
      /\ why' \in {"none", "plan", "joints", "moving", "jointDwell", "noVerdict",
                   "unsettled", "swayDwell"}
      /\ cause' \in {"none", "horizon", "producer", "timeout"}
      /\ SuccessPassedTheGates'
      /\ RunningIsNotGivenUp'
      /\ SilenceCutsNoDwell'
  BY <1>1, <1>2, <1>3, <1>4, <1>5, DecideStep
<1>7. TypeOK'
  BY <1>2, <1>3, <1>4, <1>5, <1>6 DEF TypeOK
<1>8. DwellsWithinMove'
  BY <1>2, <1>3, <1>5 DEF IInv, TypeOK, DwellsWithinMove
<1> QED
  BY <1>2, <1>3, <1>6, <1>7, <1>8 DEF IInv, DwellsFollowBreaks, LoneVerdictCarriesNothing

\* The first tick of a move, on caches that have just been cleared.
LEMMA OnStartIInv == ASSUME IInv, OnStart PROVE IInv'
<1> USE TimeAssumption DEF Never
<1>1. /\ TakeJointState(NoSample, Never, Never)
      /\ TakeVerdict(NoVerdict, Never, Never, 0, Len(settledQ))
      /\ TakeHorizon(0)
      /\ elapsed' = 0
      /\ planLeft' = IF mode = "settle" THEN 0 ELSE PlanTime
      /\ UNCHANGED <<mode, producer>>
      /\ Decide
  BY DEF OnStart
<1>2. /\ jointQ' \in Seq(Samples)
      /\ jointState' \in Sample
      /\ jointHeld' \in Never..Hold
      /\ movingAge' \in Never..Hold
      /\ movingAge' = Never \/ jointHeld' <= movingAge'
      /\ jointHeld' <= Never \/ jointHeld' = 0
  <2>1. NoSample \in Sample /\ Never \in Never..Hold
    BY DEF NoSample, Sample
  <2> QED
    BY <1>1, <2>1, TakeJointStateStep DEF IInv
<1>3. /\ settledQ' \in Seq(Verdicts)
      /\ settled' \in Verdict \cup {NoVerdict}
      /\ verdictAge' \in 0..(MaxAge + 1)
      /\ settledHeld' \in Never..Hold
      /\ unsettledAge' \in Never..Hold
      /\ dwellVerdicts' \in 0..2
      /\ stale' \in Nat
      /\ ownVerdict' \in BOOLEAN
      /\ unsettledAge' = Never \/ settledHeld' <= unsettledAge'
      /\ settledHeld' <= Never \/ settledHeld' = 0
      /\ dwellVerdicts' = 0 => settledHeld' = Never
      /\ dwellVerdicts' = 1 => settledHeld' <= verdictAge' \/ verdictAge' > MaxAge
  <2>1. TypeOK /\ Never \in Never..Hold /\ Len(settledQ) \in Nat
    BY DEF IInv, TypeOK
  <2>2. NoVerdict \in Verdict \cup {NoVerdict} /\ 0 \in 0..2
    OBVIOUS
  <2> HIDE DEF Never
  <2>3. /\ Never = Never \/ Never <= Never
        /\ 0 = 0 => Never = Never
        /\ 0 = 1 => Never <= verdictAge \/ verdictAge > MaxAge
    OBVIOUS
  <2> QED
    BY <1>1, <2>1, <2>2, <2>3, TakeVerdictStep
<1>4. horizonQuiet' \in 0..(HorizonMaxAge + 1) /\ horizonQ' \in BOOLEAN
  <2>1. TypeOK /\ 0 \in 0..(HorizonMaxAge + 1)
    BY DEF IInv
  <2> QED
    BY <1>1, <2>1, TakeHorizonStep
<1>5. /\ mode' \in Mode
      /\ elapsed' \in 0..MaxElapsed
      /\ planLeft' \in Nat
      /\ producer' \in BOOLEAN
  BY <1>1 DEF IInv, TypeOK
<1>6. /\ status' \in {"RUNNING", "SUCCESS", "FAILURE"}
      /\ why' \in {"none", "plan", "joints", "moving", "jointDwell", "noVerdict",
                   "unsettled", "swayDwell"}
      /\ cause' \in {"none", "horizon", "producer", "timeout"}
      /\ SuccessPassedTheGates'
      /\ RunningIsNotGivenUp'
      /\ SilenceCutsNoDwell'
  BY <1>1, <1>2, <1>3, <1>4, <1>5, DecideStep
<1>7. TypeOK'
  BY <1>2, <1>3, <1>4, <1>5, <1>6 DEF TypeOK
<1>8. DwellsWithinMove'
  BY <1>1, <1>2, <1>3 DEF DwellsWithinMove
<1> QED
  BY <1>2, <1>3, <1>6, <1>7, <1>8 DEF IInv, DwellsFollowBreaks, LoneVerdictCarriesNothing

\* A refused start leaves the caches of the move before it, and no success.
LEMMA OnStartRefusedIInv == ASSUME IInv, OnStartRefused PROVE IInv'
<1>1. /\ status' = "FAILURE"
      /\ cause' = "none"
      /\ UNCHANGED <<mode, why, cacheVars, clockVars, topicVars, producer, histVars>>
  BY DEF OnStartRefused
<1> USE <1>1 DEF IInv, cacheVars, clockVars, topicVars, histVars
<1>2. TypeOK'
  BY DEF TypeOK
<1>3. DwellsFollowBreaks' /\ DwellsWithinMove' /\ LoneVerdictCarriesNothing'
  BY DEF DwellsFollowBreaks, DwellsWithinMove, LoneVerdictCarriesNothing
<1> QED
  BY <1>2, <1>3 DEF SuccessPassedTheGates, RunningIsNotGivenUp, SilenceCutsNoDwell

\* A skipped oracle holds nothing and has succeeded at nothing.
LEMMA OnStartSkippedIInv == ASSUME IInv, OnStartSkipped PROVE IInv'
<1>1. /\ status' = "SKIPPED"
      /\ UNCHANGED <<mode, why, cause, cacheVars, clockVars, topicVars, producer,
                     histVars>>
  BY DEF OnStartSkipped
<1> USE <1>1 DEF IInv, cacheVars, clockVars, topicVars, histVars
<1>2. TypeOK'
  BY DEF TypeOK
<1>3. DwellsFollowBreaks' /\ DwellsWithinMove' /\ LoneVerdictCarriesNothing'
  BY DEF DwellsFollowBreaks, DwellsWithinMove, LoneVerdictCarriesNothing
<1> QED
  BY <1>2, <1>3 DEF SuccessPassedTheGates, RunningIsNotGivenUp, SilenceCutsNoDwell

\* A halt empties the caches, so that no dwell is left to relate to anything.
LEMMA OnHaltedIInv == ASSUME IInv, OnHalted PROVE IInv'
<1> USE TimeAssumption DEF Never
<1>1. /\ status' = "IDLE" /\ cause' = cause /\ why' = why
      /\ jointState' = NoSample /\ settled' = NoVerdict
      /\ jointHeld' = Never /\ settledHeld' = Never
      /\ dwellVerdicts' = 0
  BY DEF OnHalted
<1>2. /\ UNCHANGED <<mode, elapsed, verdictAge, horizonQuiet, planLeft, producer>>
      /\ UNCHANGED <<jointQ, settledQ, horizonQ, movingAge, unsettledAge, stale,
                     ownVerdict>>
  BY DEF OnHalted, clockVars, topicVars
<1>3. cause # "horizon"
  BY DEF OnHalted, IInv, RunningIsNotGivenUp
<1>4. TypeOK'
  <2>1. NoSample \in Sample
    BY DEF NoSample, Sample
  <2>2. jointHeld' \in Never..Hold /\ settledHeld' \in Never..Hold
    BY <1>1
  <2>3. dwellVerdicts' \in 0..2    BY <1>1
  <2> QED
    BY <1>1, <1>2, <2>1, <2>2, <2>3 DEF IInv, TypeOK
<1>5. DwellsFollowBreaks' /\ DwellsWithinMove' /\ LoneVerdictCarriesNothing'
  BY <1>1, <1>2, <1>4 DEF TypeOK, DwellsFollowBreaks, DwellsWithinMove,
     LoneVerdictCarriesNothing
<1>6. SuccessPassedTheGates' /\ RunningIsNotGivenUp' /\ SilenceCutsNoDwell'
  BY <1>1, <1>3 DEF SuccessPassedTheGates, RunningIsNotGivenUp, SilenceCutsNoDwell
<1> QED
  BY <1>4, <1>5, <1>6 DEF IInv

\* Two ages that grow together, each up to its own bound, keep their order as
\* long as the older one may grow at least as far.
LEMMA OlderKeepsOrder ==
    ASSUME NEW most \in Nat, NEW limit \in Nat, most <= limit,
           NEW a \in Never..most, NEW b \in Never..limit, b # Never, a <= b
    PROVE  Older(a, most) <= Older(b, limit)
BY DEF Older, Never

\* An age that grows stays within its bound.
LEMMA OlderType ==
    ASSUME NEW most \in Nat, NEW a \in Never..most
    PROVE  /\ Older(a, most) \in Never..most
           /\ a # Never => Older(a, most) \in 0..most
           /\ a = Never <=> Older(a, most) = Never
BY DEF Older, Never

\* Time passes: every age grows at once, so none overtakes another.
LEMMA ClockTickIInv == ASSUME IInv, ClockTick PROVE IInv'
<1>1. /\ elapsed' = Older(elapsed, MaxElapsed)
      /\ verdictAge' = Older(verdictAge, MaxAge + 1)
      /\ horizonQuiet' = Older(horizonQuiet, HorizonMaxAge + 1)
      /\ jointHeld' = Older(jointHeld, Hold)
      /\ settledHeld' = Older(settledHeld, Hold)
      /\ movingAge' = Older(movingAge, Hold)
      /\ unsettledAge' = Older(unsettledAge, Hold)
  BY DEF ClockTick
<1>2. /\ status = "RUNNING"
      /\ planLeft' \in Nat
      /\ UNCHANGED <<mode, status, why, cause, jointState, settled>>
      /\ UNCHANGED <<jointQ, settledQ, horizonQ, producer>>
      /\ UNCHANGED <<dwellVerdicts, stale, ownVerdict>>
  BY DEF ClockTick, tickVars, topicVars
<1>3. /\ elapsed \in 0..MaxElapsed /\ Hold <= MaxElapsed
      /\ verdictAge \in 0..(MaxAge + 1)
      /\ horizonQuiet \in 0..(HorizonMaxAge + 1)
      /\ jointHeld \in Never..Hold
      /\ settledHeld \in Never..Hold
      /\ movingAge \in Never..Hold
      /\ unsettledAge \in Never..Hold
      /\ Hold \in Nat /\ MaxElapsed \in Nat /\ MaxAge + 1 \in Nat
      /\ HorizonMaxAge + 1 \in Nat
  BY TimeAssumption DEF IInv, TypeOK
<1>4. /\ elapsed' \in 0..MaxElapsed
      /\ verdictAge' \in 0..(MaxAge + 1)
      /\ horizonQuiet' \in 0..(HorizonMaxAge + 1)
      /\ jointHeld' \in Never..Hold
      /\ settledHeld' \in Never..Hold
      /\ movingAge' \in Never..Hold
      /\ unsettledAge' \in Never..Hold
  BY <1>1, <1>3 DEF Older, Never
<1>5. TypeOK'
  BY <1>2, <1>4 DEF IInv, TypeOK
<1>6. DwellsFollowBreaks'
  BY <1>1, <1>3 DEF IInv, DwellsFollowBreaks, Older, Never
<1>7. DwellsWithinMove'
  BY <1>1, <1>3 DEF IInv, DwellsWithinMove, Older, Never
<1>8. LoneVerdictCarriesNothing'
  BY <1>1, <1>2, <1>3, TimeAssumption DEF IInv, LoneVerdictCarriesNothing, Older, Never
<1>9. SuccessPassedTheGates' /\ RunningIsNotGivenUp' /\ SilenceCutsNoDwell'
  BY <1>2 DEF IInv, SuccessPassedTheGates, RunningIsNotGivenUp, SilenceCutsNoDwell
<1> QED
  BY <1>5, <1>6, <1>7, <1>8, <1>9 DEF IInv

\* What the environment publishes changes the queues alone.
LEMMA TopicsIInv ==
    ASSUME IInv,
           jointQ' \in Seq(Samples), settledQ' \in Seq(Verdicts),
           horizonQ' \in BOOLEAN, producer' \in BOOLEAN, stale' \in Nat,
           UNCHANGED <<mode, clockVars, tickVars, cacheVars, movingAge, unsettledAge,
                       dwellVerdicts, ownVerdict>>
    PROVE  IInv'
<1> USE DEF IInv, clockVars, tickVars, cacheVars
<1>1. TypeOK'
  BY DEF TypeOK
<1>2. DwellsFollowBreaks' /\ DwellsWithinMove' /\ LoneVerdictCarriesNothing'
  BY DEF DwellsFollowBreaks, DwellsWithinMove, LoneVerdictCarriesNothing
<1>3. SuccessPassedTheGates'
  BY DEF SuccessPassedTheGates, Held, FreshVerdict
<1> QED
  BY <1>1, <1>2, <1>3 DEF RunningIsNotGivenUp, SilenceCutsNoDwell

\* Every operation of the node and of its surroundings keeps the invariant.
LEMMA NextIInv == IInv /\ [Next]_vars => IInv'
<1> SUFFICES ASSUME IInv, [Next]_vars PROVE IInv'
  OBVIOUS
<1>1. CASE OnStartSkipped
  BY <1>1, OnStartSkippedIInv
<1>2. CASE OnStartRefused
  BY <1>2, OnStartRefusedIInv
<1>3. CASE OnStart
  BY <1>3, OnStartIInv
<1>4. CASE OnRunning
  BY <1>4, OnRunningIInv
<1>5. CASE OnHalted
  BY <1>5, OnHaltedIInv
<1>6. CASE ClockTick
  BY <1>6, ClockTickIInv
<1>7. ASSUME NEW sample \in Samples, PublishJointState(sample) PROVE IInv'
  <2>1. jointQ \in Seq(Samples) /\ jointQ' = Enqueue(jointQ, sample)
    BY <1>7 DEF PublishJointState, IInv, TypeOK
  <2>2. jointQ' \in Seq(Samples)
    BY <2>1, EnqueueType
  <2>3. UNCHANGED <<mode, clockVars, tickVars, cacheVars, settledQ, horizonQ,
                    producer, histVars>>
    BY <1>7 DEF PublishJointState
  <2> QED
    BY <2>2, <2>3, TopicsIInv DEF IInv, TypeOK, histVars
<1>8. ASSUME NEW verdict \in Verdicts, PublishVerdict(verdict) PROVE IInv'
  <2>1. settledQ \in Seq(Verdicts) /\ settledQ' = Enqueue(settledQ, verdict)
    BY <1>8 DEF PublishVerdict, IInv, TypeOK
  <2>2. settledQ' \in Seq(Verdicts)
    BY <2>1, EnqueueType
  <2>3. stale \in Nat
    BY DEF IInv, TypeOK
  <2>4. stale' \in Nat
    BY <1>8, <2>3 DEF PublishVerdict
  <2>5. UNCHANGED <<mode, clockVars, tickVars, cacheVars, jointQ, horizonQ, producer,
                    movingAge, unsettledAge, dwellVerdicts, ownVerdict>>
    BY <1>8 DEF PublishVerdict
  <2> QED
    BY <2>2, <2>4, <2>5, TopicsIInv DEF IInv, TypeOK
<1>9. CASE PublishHorizon
  BY <1>9, TopicsIInv DEF PublishHorizon, IInv, TypeOK, histVars
<1>10. CASE ProducerDies
  BY <1>10, TopicsIInv DEF ProducerDies, IInv, TypeOK, histVars, topicVars
<1>11. CASE ProducerStarts
  BY <1>11, TopicsIInv DEF ProducerStarts, IInv, TypeOK, histVars, topicVars
<1>12. CASE UNCHANGED vars
  BY <1>12, TopicsIInv DEF vars, IInv, TypeOK, histVars, topicVars
<1> QED
  BY <1>1, <1>2, <1>3, <1>4, <1>5, <1>6, <1>7, <1>8, <1>9, <1>10, <1>11, <1>12
     DEF Next, Node, Environment

\* The invariant holds of every reachable state.
LEMMA SpecIInv == Spec => []IInv
BY InitIInv, NextIInv, PTL DEF Spec

-----------------------------------------------------------------------------
(* The theorems. *)

\* The caches, the queues and the ages stay within their types.
THEOREM TypeCorrect == Spec => []TypeOK
BY SpecIInv, PTL DEF IInv

\* A success is preceded by a whole dwell in which the node read nothing moving
\* and nothing unsettled: for every hold and every interleaving of the topics.
THEOREM UnbrokenDwell == Spec => []DwellWasUnbroken
<1>1. IInv => DwellWasUnbroken
  BY TimeAssumption DEF IInv, TypeOK, DwellsFollowBreaks, SuccessPassedTheGates,
     DwellWasUnbroken, Held, Never
<1> QED
  BY <1>1, SpecIInv, PTL

\* No dwell outlives the move it belongs to: onStart() and onHalted() between
\* them leave nothing a later move could succeed on early.
THEOREM OwnDwell == Spec => []DwellBelongsToThisMove
<1>1. IInv => DwellBelongsToThisMove
  BY TimeAssumption DEF IInv, TypeOK, DwellsWithinMove, SuccessPassedTheGates,
     DwellBelongsToThisMove, Held, Never
<1> QED
  BY <1>1, SpecIInv, PTL

\* Wherever hold_s exceeds kSettledMaxAge, one YES at the turning point of a swing
\* cannot end a move.
THEOREM TurningPointIsRefused == Spec => []OneVerdictIsNoDwell
<1>1. IInv => OneVerdictIsNoDwell
  BY TimeAssumption DEF IInv, TypeOK, LoneVerdictCarriesNothing,
     SuccessPassedTheGates, OneVerdictIsNoDwell, Held, FreshVerdict, Never
<1> QED
  BY <1>1, SpecIInv, PTL

\* Given the static_assert, a horizon falling silent never ends a move whose dwell
\* had begun before the silence.
THEOREM SilenceRespectsDwell == Spec => []SilenceCutsNoDwell
BY SpecIInv, PTL DEF IInv

\* A tick that succeeds has asked still() of the verdict it goes on.
LEMMA DecideNeedsStill == Decide => UnknownNeverSettles'
<1> SUFFICES ASSUME Decide, status' = "SUCCESS" PROVE settled'.settled # "UNKNOWN"
  BY DEF UnknownNeverSettles
<1>1. why' = "none" /\ why' = NotArrivedReason'
  BY DEF Decide
<1>2. Still(settled)'
  BY <1>1 DEF NotArrivedReason
<1> QED
  BY <1>2 DEF Still

LEMMA NextKnowsTheVerdict == UnknownNeverSettles /\ [Next]_vars => UnknownNeverSettles'
<1> SUFFICES ASSUME UnknownNeverSettles, [Next]_vars PROVE UnknownNeverSettles'
  OBVIOUS
<1>1. CASE OnStart \/ OnRunning
  BY <1>1, DecideNeedsStill DEF OnStart, OnRunning
<1>2. CASE status' # "SUCCESS"
  BY <1>2 DEF UnknownNeverSettles
<1>3. CASE UNCHANGED <<status, settled>>
  BY <1>3 DEF UnknownNeverSettles
<1>4. OnStartSkipped \/ OnStartRefused \/ OnHalted => status' # "SUCCESS"
  BY DEF OnStartSkipped, OnStartRefused, OnHalted
<1>5. ClockTick \/ UNCHANGED vars => UNCHANGED <<status, settled>>
  BY DEF ClockTick, vars, tickVars, cacheVars
<1>6. Environment /\ ~ClockTick => UNCHANGED <<status, settled>>
  BY DEF Environment, PublishJointState, PublishVerdict, PublishHorizon, ProducerDies,
         ProducerStarts, tickVars, cacheVars
<1> QED
  BY <1>1, <1>2, <1>3, <1>4, <1>5, <1>6 DEF Next, Node

\* Wherever the node judges the rates itself, and wherever it does not, no verdict
\* UNKNOWN ends a move (still()).
THEOREM UnknownIsRefused == Spec => []UnknownNeverSettles
<1>1. Init => UnknownNeverSettles
  BY DEF Init, UnknownNeverSettles
<1> QED
  BY <1>1, NextKnowsTheVerdict, PTL DEF Spec
=============================================================================
