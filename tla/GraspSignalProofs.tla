--------------------------- MODULE GraspSignalProofs ---------------------------
(***************************************************************************)
(* The grasp signal, proved for every hold, duration, queue depth, timeout *)
(* and delay.                                                              *)
(***************************************************************************)
EXTENDS GraspSignal, TLAPS

(* The inductive invariant. *)

\* The candidate is no older than the reading it may not span; past its bound that
\* reading is a whole hold before any that may still come.
HoldSpans ==
    /\ sampleAge = Never => held = Never
    /\ sampleAge # Never =>
          /\ breakAge # Never /\ sampleAge <= breakAge
          /\ held # Never => held <= breakAge - sampleAge \/ breakAge = MaxSampleAge

\* Behind a firm signal the queue has fewer false messages by one with every tick, and
\* a wait that still runs has a true one ahead.
FirmQueue ==
    firm # Never =>
        /\ \A i \in 1..Len(queue) : ~queue[i].grasped => i + firm < Depth
        /\ status = "RUNNING" => queue # << >> /\ queue[Len(queue)].grasped

RunningHasNotHeard == status = "RUNNING" => ~detected

\* Within one epoch of the clock, which the first reading begins, the signal does not
\* outlast its duration.
EpochLeft ==
    /\ sampleAge = Never => ~setBack
    /\ ~setBack => left <= Duration

\* The type invariant in parts: what is two-valued, and what counts.
Switches ==
    /\ on \in BOOLEAN /\ spoken \in BOOLEAN /\ setBack \in BOOLEAN
    /\ active \in BOOLEAN /\ detected \in BOOLEAN /\ doubt \in BOOLEAN

Clocks ==
    /\ sampleAge \in Never..MaxSampleAge
    /\ held \in Never..Hold
    /\ left \in Expired..(Duration + MaxBack)
    /\ elapsed \in 0..(Timeout + 1)
    /\ gripAge \in Never..MaxGripAge
    /\ breakAge \in Never..MaxSampleAge
    /\ span \in Never..MaxSampleAge

Messages ==
    /\ queue \in Seq(Message) /\ Len(queue) <= Depth
    /\ status \in {"IDLE", "RUNNING", "SUCCESS", "FAILURE"}
    /\ firm \in Never..Depth

IInv ==
    /\ TypeOK
    /\ HoldSpans
    /\ EpochLeft
    /\ FirmQueue
    /\ RunningHasNotHeard
    /\ RaisedByOneHold
    /\ DownAfterReset
    /\ FirmSignalIsHeard

\* Inductive beside IInv where joint states are prompt, see below.
\* A true message that is still sound has aged by the messages behind it: a unit of time
\* passes only over a detector that has published in it.
MessagesAge ==
    /\ ~on => \A i \in 1..Len(queue) : ~queue[i].sound
    /\ \A i \in 1..Len(queue) :
          queue[i].grasped /\ queue[i].sound =>
              /\ gripAge # Never
              /\ gripAge <= Duration + (Len(queue) - i) + (IF spoken THEN 0 ELSE 1)

\* Joint states are no older than the signal they raise lasts.
PromptJointStates == MaxDelay <= Duration

-----------------------------------------------------------------------------
(* Types and bounds. *)

LEMMA TypeParts ==
    /\ TypeOK <=> Switches /\ Clocks /\ Messages
    /\ TypeOK' <=> Switches' /\ Clocks' /\ Messages'
BY DEF TypeOK, Switches, Clocks, Messages

LEMMA Bounds ==
    /\ MaxSampleAge \in Nat /\ MaxSampleAge = Hold + MaxDelay
    /\ MaxGripAge \in Nat /\ MaxGripAge = Duration + Depth + MaxDelay + 1
    /\ Hold \in Nat /\ Duration \in Nat /\ Timeout \in Nat /\ MaxDelay \in Nat
    /\ MaxBack \in Nat /\ Depth \in Nat \ {0}
BY ParameterAssumption DEF MaxSampleAge, MaxGripAge

-----------------------------------------------------------------------------
(* The queue. *)

\* The messages of a queue after a publication: the new one last, one place further up
\* where the oldest is lost.
LEMMA PublishedQueue ==
    ASSUME NEW g \in BOOLEAN, NEW s \in BOOLEAN, TypeOK, Publish(g, s)
    PROVE  /\ queue' \in Seq(Message) /\ Len(queue') \in 1..Depth
           /\ queue'[Len(queue')] = [grasped |-> g, sound |-> s]
           /\ \A i \in 1..(Len(queue') - 1) :
                 \E j \in 1..Len(queue) : /\ queue'[i] = queue[j]
                                          /\ i <= j /\ Len(queue') - i = Len(queue) - j + 1
<1> DEFINE msg == [grasped |-> g, sound |-> s]
           all == Append(queue, msg)
<1>1. msg \in Message /\ queue \in Seq(Message) /\ Len(queue) \in 0..Depth /\ Depth \in Nat \ {0}
  BY ParameterAssumption DEF Message, TypeOK
<1>2. all \in Seq(Message) /\ Len(all) = Len(queue) + 1 /\ all[Len(all)] = msg
      /\ \A i \in 1..Len(queue) : all[i] = queue[i]
  BY <1>1
<1>3. queue' = IF Len(all) > Depth THEN Tail(all) ELSE all
  BY DEF Publish
<1> HIDE DEF msg, all
<1>4. CASE Len(all) > Depth
  <2>1. queue' = Tail(all) /\ Len(queue') = Len(queue) /\ Len(queue) = Depth
        /\ queue' \in Seq(Message)
    BY <1>1, <1>2, <1>3, <1>4
  <2>2. \A i \in 1..Len(queue') : queue'[i] = all[i + 1]
    BY <1>2, <2>1
  <2>3. \A i \in 1..(Len(queue') - 1) : i + 1 \in 1..Len(queue) /\ queue'[i] = queue[i + 1]
    BY <1>1, <1>2, <2>1, <2>2
  <2>4. queue'[Len(queue')] = msg
    BY <1>1, <1>2, <2>1, <2>2
  <2>5. ASSUME NEW i \in 1..(Len(queue') - 1)
        PROVE  \E j \in 1..Len(queue) : /\ queue'[i] = queue[j]
                                        /\ i <= j /\ Len(queue') - i = Len(queue) - j + 1
    <3>1. i + 1 \in 1..Len(queue) /\ queue'[i] = queue[i + 1]
      BY <2>3
    <3>2. i <= i + 1 /\ Len(queue') - i = Len(queue) - (i + 1) + 1
      BY <1>1, <2>1
    <3> QED
      BY <3>1, <3>2
  <2> QED
    BY <1>1, <2>1, <2>4, <2>5 DEF msg
<1>5. CASE ~(Len(all) > Depth)
  <2>1. queue' = all
    BY <1>3, <1>5
  <2> QED
    BY <1>1, <1>2, <1>5, <2>1 DEF msg
<1> QED
  BY <1>4, <1>5

\* What a publication leaves of the two claims on the queue.  The signal it is about may
\* have been raised again.
LEMMA PublishedMessages ==
    ASSUME NEW g \in BOOLEAN, NEW s \in BOOLEAN, TypeOK, MessagesAge, Publish(g, s),
           on, on',
           gripAge' \in Never..MaxGripAge,
           gripAge' = gripAge \/ gripAge' \in 0..Duration,
           g /\ s => gripAge' \in 0..Duration
    PROVE  MessagesAge'
<1> USE ParameterAssumption DEF Never
<1>1. /\ queue' \in Seq(Message) /\ Len(queue') \in 1..Depth /\ Len(queue) \in 0..Depth
      /\ queue'[Len(queue')] = [grasped |-> g, sound |-> s]
      /\ \A i \in 1..(Len(queue') - 1) :
            \E j \in 1..Len(queue) : /\ queue'[i] = queue[j]
                                     /\ i <= j /\ Len(queue') - i = Len(queue) - j + 1
  <2>1. Len(queue) \in 0..Depth
    BY DEF TypeOK
  <2> QED
    BY <2>1, PublishedQueue
<1>2. ASSUME NEW i \in 1..Len(queue'), queue'[i].grasped, queue'[i].sound
      PROVE  /\ gripAge' # Never
             /\ gripAge' <= Duration + (Len(queue') - i) + (IF spoken' THEN 0 ELSE 1)
  <2>1. CASE gripAge' \in 0..Duration
    BY <1>1, <2>1
  <2>2. CASE gripAge' = gripAge /\ i # Len(queue')
    <3>1. i \in 1..(Len(queue') - 1)
      BY <1>1, <2>2
    <3>2. PICK j \in 1..Len(queue) : /\ queue'[i] = queue[j]
                                     /\ Len(queue') - i = Len(queue) - j + 1
      BY <1>1, <3>1
    <3>3. gripAge # Never /\ gripAge <= Duration + (Len(queue) - j) + 1
      <4>1. /\ gripAge # Never
            /\ gripAge <= Duration + (Len(queue) - j) + (IF spoken THEN 0 ELSE 1)
        BY <1>2, <3>2 DEF MessagesAge
      <4>2. gripAge \in Int /\ Len(queue) \in Int /\ Duration \in Int
        BY <1>1, Bounds DEF TypeOK
      <4> QED
        BY <4>1, <4>2
    <3> QED
      BY <1>1, <2>2, <3>2, <3>3, Bounds DEF TypeOK
  <2>3. CASE i = Len(queue')
    BY <1>1, <1>2, <2>1, <2>3
  <2> QED
    BY <2>1, <2>2, <2>3
<1> QED
  BY <1>2 DEF MessagesAge

LEMMA PublishedFirm ==
    ASSUME NEW g \in BOOLEAN, NEW s \in BOOLEAN, TypeOK, FirmQueue, Publish(g, s),
           status' = status
    PROVE  FirmQueue' /\ firm' \in Never..Depth /\ (firm' # Never => g /\ firm' \in {0, firm})
<1> USE ParameterAssumption DEF Never
<1>1. /\ queue' \in Seq(Message) /\ Len(queue') \in 1..Depth /\ Len(queue) \in 0..Depth
      /\ queue'[Len(queue')] = [grasped |-> g, sound |-> s]
      /\ \A i \in 1..(Len(queue') - 1) :
            \E j \in 1..Len(queue) : queue'[i] = queue[j] /\ i <= j
  <2>1. Len(queue) \in 0..Depth
    BY DEF TypeOK
  <2>2. \A i \in 1..(Len(queue') - 1) :
           \E j \in 1..Len(queue) : queue'[i] = queue[j] /\ i <= j
    BY PublishedQueue
  <2> QED
    BY <2>1, <2>2, PublishedQueue
<1>2. firm' = IF ~g THEN Never ELSE IF firm = Never THEN 0 ELSE firm
  BY DEF Publish
<1>3. firm \in Never..Depth
  BY DEF TypeOK
<1>4. ASSUME firm' # Never PROVE FirmQueue'
  <2>1. g /\ firm' = IF firm = Never THEN 0 ELSE firm
    BY <1>2, <1>4
  <2>2. ASSUME NEW i \in 1..Len(queue'), ~queue'[i].grasped PROVE i + firm' < Depth
    <3>1. i \in 1..(Len(queue') - 1)
      BY <1>1, <2>1, <2>2
    <3>2. PICK j \in 1..Len(queue) : queue'[i] = queue[j] /\ i <= j
      BY <1>1, <3>1
    <3>3. CASE firm = Never
      BY <1>1, <2>1, <3>1, <3>3
    <3>4. CASE firm # Never
      <4>1. j + firm < Depth
        BY <2>2, <3>2, <3>4 DEF FirmQueue
      <4> QED
        BY <1>1, <1>3, <2>1, <3>2, <3>4, <4>1
    <3> QED
      BY <3>3, <3>4
  <2>3. queue' # << >> /\ queue'[Len(queue')].grasped
    BY <1>1, <2>1
  <2> QED
    BY <2>2, <2>3 DEF FirmQueue
<1> QED
  BY <1>2, <1>3, <1>4 DEF FirmQueue

LEMMA Published ==
    ASSUME NEW g \in BOOLEAN, NEW s \in BOOLEAN, IInv, Publish(g, s), status' = status
    PROVE  /\ FirmQueue' /\ firm' \in Never..Depth /\ (firm' # Never => firm' \in {0, firm})
           /\ queue' \in Seq(Message) /\ Len(queue') <= Depth
<1>1. TypeOK /\ FirmQueue
  BY DEF IInv
<1>2. FirmQueue' /\ firm' \in Never..Depth /\ (firm' # Never => firm' \in {0, firm})
  BY <1>1, PublishedFirm
<1>3. queue' \in Seq(Message) /\ Len(queue') \in 1..Depth
  BY <1>1, PublishedQueue
<1> QED
  BY <1>2, <1>3, Bounds

-----------------------------------------------------------------------------
(* Time, and the clock set back. *)

LEMMA InitIInv == Init => IInv
<1> SUFFICES ASSUME Init PROVE IInv
  OBVIOUS
<1>1. Switches /\ Clocks /\ Messages
  <2>1. Switches
    BY DEF Init, Switches
  <2>2. Clocks
    BY Bounds DEF Init, Clocks, Never, Expired
  <2>3. Messages
    BY Bounds DEF Init, Messages, Never
  <2> QED
    BY <2>1, <2>2, <2>3
<1>2. HoldSpans /\ EpochLeft /\ FirmQueue /\ RunningHasNotHeard
      /\ RaisedByOneHold /\ DownAfterReset /\ FirmSignalIsHeard
  BY Bounds DEF Init, HoldSpans, EpochLeft, FirmQueue, RunningHasNotHeard,
     RaisedByOneHold, DownAfterReset, FirmSignalIsHeard, Never, Expired
<1> QED
  BY <1>1, <1>2, TypeParts DEF IInv

\* An age grows by one at most, within its bound.
LEMMA OlderType ==
    ASSUME NEW bound \in Nat, NEW a \in Never..bound
    PROVE  /\ Older(a, bound) \in Never..bound
           /\ Older(a, bound) <= a + 1
           /\ Older(a, bound) = Never <=> a = Never
           /\ a # Never => Older(a, bound) = a + 1 \/ (a = bound /\ Older(a, bound) = bound)
BY DEF Older, Least, Never

\* Two ages that grow within one bound keep their order, and their distance until the
\* greater is at the bound.
LEMMA AgesApart ==
    ASSUME NEW bound \in Nat, NEW a \in 0..bound, NEW b \in 0..bound, a <= b
    PROVE  /\ Older(a, bound) <= Older(b, bound)
           /\ Older(b, bound) = bound \/ Older(b, bound) - Older(a, bound) = b - a
           /\ b = bound => Older(b, bound) = bound
BY DEF Older, Least, Never

LEMMA SumStays ==
    ASSUME NEW a \in Int, NEW b \in Int, NEW c \in Int, NEW bound \in Int,
           a + b <= bound, c <= a + 1
    PROVE  c + (b - 1) <= bound
OBVIOUS

LEMMA TimeIInv == IInv /\ Time => IInv'
<1> SUFFICES ASSUME IInv, Time PROVE IInv'
  OBVIOUS
<1> USE Bounds DEF Never, Expired
<1>1. /\ UNCHANGED <<setBack, on, held, active, queue, status, detected, span, doubt,
                     firm>>
      /\ spoken' = FALSE /\ (on => spoken)
      /\ elapsed' = Least(elapsed + 1, Timeout + 1)
  BY DEF Time, Waited
<1>2. Switches /\ Clocks /\ Messages
  BY TypeParts DEF IInv
<1>3. Switches' /\ Messages' /\ elapsed' \in 0..(Timeout + 1)
  <2>1. Switches'
    BY <1>1, <1>2 DEF Switches
  <2>2. Messages'
    BY <1>1, <1>2 DEF Messages
  <2>3. elapsed' \in 0..(Timeout + 1)
    BY <1>1, <1>2 DEF Clocks, Least
  <2> QED
    BY <2>1, <2>2, <2>3
<1>4. CASE UNCHANGED <<sampleAge, left, gripAge, breakAge>>
  <2>1. Clocks'
    BY <1>1, <1>2, <1>3, <1>4 DEF Clocks
  <2>2. HoldSpans' /\ EpochLeft' /\ FirmQueue' /\ RunningHasNotHeard' /\ RaisedByOneHold'
        /\ DownAfterReset' /\ FirmSignalIsHeard'
    BY <1>1, <1>4 DEF IInv, HoldSpans, EpochLeft, FirmQueue, RunningHasNotHeard,
       RaisedByOneHold, DownAfterReset, FirmSignalIsHeard
  <2> QED
    BY <1>3, <2>1, <2>2, TypeParts DEF IInv
<1>5. CASE /\ sampleAge' = Older(sampleAge, MaxSampleAge)
           /\ left' = IF left = Expired THEN Expired ELSE left - 1
           /\ gripAge' = Older(gripAge, MaxGripAge)
           /\ breakAge' = Older(breakAge, MaxSampleAge)
  <2>1. sampleAge' \in Never..MaxSampleAge /\ (sampleAge' = Never <=> sampleAge = Never)
    BY <1>2, <1>5, OlderType DEF Clocks
  <2>2. breakAge' \in Never..MaxSampleAge /\ (breakAge' = Never <=> breakAge = Never)
    BY <1>2, <1>5, OlderType DEF Clocks
  <2>3. /\ gripAge' \in Never..MaxGripAge /\ gripAge' <= gripAge + 1
        /\ (gripAge' = Never <=> gripAge = Never)
    BY <1>2, <1>5, OlderType DEF Clocks
  <2>4. left' \in Expired..(Duration + MaxBack) /\ left' <= left
    BY <1>2, <1>5 DEF Clocks
  <2>5. Clocks'
    BY <1>1, <1>2, <1>3, <2>1, <2>2, <2>3, <2>4 DEF Clocks
  <2>6. HoldSpans'
    <3>1. CASE sampleAge = Never
      BY <1>1, <2>1, <3>1 DEF IInv, HoldSpans
    <3>2. CASE sampleAge # Never
      <4>1. /\ breakAge # Never /\ sampleAge <= breakAge
            /\ held # Never => held <= breakAge - sampleAge \/ breakAge = MaxSampleAge
        BY <3>2 DEF IInv, HoldSpans
      <4>2. sampleAge \in 0..MaxSampleAge /\ breakAge \in 0..MaxSampleAge
        BY <1>2, <3>2, <4>1 DEF Clocks
      <4>3. /\ sampleAge' <= breakAge'
            /\ breakAge' = MaxSampleAge \/ breakAge' - sampleAge' = breakAge - sampleAge
            /\ breakAge = MaxSampleAge => breakAge' = MaxSampleAge
        BY <1>5, <4>1, <4>2, AgesApart
      <4> QED
        BY <1>1, <2>1, <2>2, <3>2, <4>1, <4>3 DEF HoldSpans
    <3> QED
      BY <3>1, <3>2
  <2>7. FirmQueue' /\ RunningHasNotHeard' /\ RaisedByOneHold' /\ FirmSignalIsHeard'
    BY <1>1 DEF IInv, FirmQueue, RunningHasNotHeard, RaisedByOneHold, FirmSignalIsHeard
  <2>8. DownAfterReset'
    <3>1. SUFFICES ASSUME active, left' # Expired, ~doubt
                   PROVE  gripAge' # Never /\ gripAge' + left' <= Duration
      BY <1>1 DEF DownAfterReset
    <3>2. left # Expired /\ left' = left - 1
      BY <1>5, <3>1
    <3>3. gripAge # Never /\ gripAge + left <= Duration
      BY <3>1, <3>2 DEF IInv, DownAfterReset
    <3>4. /\ gripAge \in Int /\ left \in Int /\ gripAge' \in Int /\ gripAge' <= gripAge + 1
          /\ Duration \in Int
      BY <1>2, <2>3 DEF Clocks
    <3>5. gripAge' + left' <= Duration
      <4>1. gripAge' + (left - 1) <= Duration
        BY <3>3, <3>4, SumStays
      <4> QED
        BY <3>2, <4>1
    <3> QED
      BY <2>3, <3>3, <3>5
  <2>9. EpochLeft'
    BY <1>1, <1>2, <2>1, <2>4 DEF IInv, EpochLeft, Clocks
  <2> QED
    BY <1>3, <2>5, <2>6, <2>7, <2>8, <2>9, TypeParts DEF IInv
<1> QED
  BY <1>4, <1>5 DEF Time

LEMMA SetBackIInv == IInv /\ SetBack => IInv'
<1> SUFFICES ASSUME IInv, SetBack PROVE IInv'
  OBVIOUS
<1> USE Bounds DEF Never, Expired
<1>1. /\ UNCHANGED <<sampleAge, on, spoken, held, active, queue, status, elapsed, detected,
                     gripAge, breakAge, span, firm>>
      /\ setBack' = TRUE /\ doubt' = TRUE /\ ~setBack /\ sampleAge # Never
      /\ left' \in left..(left + MaxBack)
  BY DEF SetBack, detectorVars, waiterVars, gripVars
<1>2. Switches /\ Clocks /\ Messages /\ left <= Duration
  BY <1>1, TypeParts DEF IInv, EpochLeft
<1>3. left' \in Expired..(Duration + MaxBack)
  BY <1>1, <1>2 DEF Clocks
<1>4. Switches' /\ Clocks' /\ Messages'
  BY <1>1, <1>2, <1>3 DEF Switches, Clocks, Messages
<1>5. HoldSpans' /\ EpochLeft' /\ FirmQueue' /\ RunningHasNotHeard' /\ RaisedByOneHold'
      /\ DownAfterReset' /\ FirmSignalIsHeard'
  BY <1>1 DEF IInv, HoldSpans, EpochLeft, FirmQueue, RunningHasNotHeard, RaisedByOneHold,
     DownAfterReset, FirmSignalIsHeard
<1> QED
  BY <1>4, <1>5, TypeParts DEF IInv

-----------------------------------------------------------------------------
(* The detector. *)

LEMMA PublishTimerIInv == IInv /\ PublishTimer => IInv'
<1> SUFFICES ASSUME IInv, PublishTimer PROVE IInv'
  OBVIOUS
<1> USE Bounds DEF Never, Expired
<1>1. /\ UNCHANGED <<sampleAge, setBack, left, on, held, active, status, elapsed, detected,
                     gripAge, breakAge, span, doubt>>
      /\ spoken' = TRUE /\ Publish(Raised, ~doubt)
  BY DEF PublishTimer, clockVars, waiterVars, gripVars
<1>2. Switches /\ Clocks /\ Messages /\ TypeOK /\ FirmQueue
  BY TypeParts DEF IInv
<1>3. PICK g \in BOOLEAN, s \in BOOLEAN : Publish(g, s)
  <2>1. Raised \in BOOLEAN /\ (~doubt) \in BOOLEAN
    BY DEF Raised
  <2> QED
    BY <1>1, <2>1
<1>4. /\ FirmQueue' /\ firm' \in Never..Depth /\ (firm' # Never => firm' \in {0, firm})
      /\ queue' \in Seq(Message) /\ Len(queue') <= Depth
  BY <1>1, <1>3, Published
<1>5. Switches' /\ Clocks' /\ Messages'
  BY <1>1, <1>2, <1>4 DEF Switches, Clocks, Messages
<1>6. HoldSpans' /\ EpochLeft' /\ RunningHasNotHeard' /\ RaisedByOneHold' /\ DownAfterReset'
  BY <1>1 DEF IInv, HoldSpans, EpochLeft, RunningHasNotHeard, RaisedByOneHold, DownAfterReset
<1>7. FirmSignalIsHeard'
  BY <1>1, <1>4 DEF IInv, FirmSignalIsHeard
<1> QED
  BY <1>4, <1>5, <1>6, <1>7, TypeParts DEF IInv

\* A stamp in order leaves a signal of an epoch before no more than its duration.
LEMMA InOrderLeft ==
    ASSUME NEW age \in 0..MaxDelay, IInv, Stamped(age, FALSE)
    PROVE  left <= Duration
<1> USE Bounds DEF Never, Expired
<1>1. Clocks /\ EpochLeft /\ HoldSpans
  BY TypeParts DEF IInv
<1>2. CASE ~setBack
  BY <1>1, <1>2 DEF EpochLeft
<1>3. CASE setBack /\ left = Expired
  BY <1>3
<1>4. CASE setBack /\ sampleAge # Never /\ left + age <= Duration
  BY <1>1, <1>4 DEF Clocks
<1>5. CASE sampleAge = Never
  BY <1>1, <1>5 DEF EpochLeft
<1> QED
  BY <1>2, <1>3, <1>4, <1>5 DEF Stamped

\* What a reading makes of the signal that it does not raise.
LEMMA ReadSignal ==
    ASSUME NEW age \in 0..MaxDelay, NEW back \in BOOLEAN, IInv, Stamped(age, back),
           TakeDown(back), doubt' = (doubt /\ ~back /\ active'), setBack' = FALSE,
           gripAge' = gripAge
    PROVE  /\ active' \in BOOLEAN /\ doubt' \in BOOLEAN /\ left' \in Expired..(Duration + MaxBack)
           /\ active' => active
           /\ EpochLeft' /\ DownAfterReset'
<1> USE Bounds DEF Never, Expired
<1>1. active' = (active /\ ~back) /\ left' = IF back THEN Expired ELSE left
  BY DEF TakeDown
<1>2. Switches /\ Clocks /\ DownAfterReset
  BY TypeParts DEF IInv
<1>3. CASE back
  <2>1. ~active' /\ left' = Expired /\ ~doubt'
    BY <1>1, <1>3
  <2> QED
    BY <1>1, <1>3, <2>1 DEF EpochLeft, DownAfterReset
<1>4. CASE ~back
  <2>1. active' = active /\ left' = left /\ doubt' = (doubt /\ active)
    BY <1>1, <1>2, <1>4 DEF Switches
  <2>2. left <= Duration
    BY <1>4, InOrderLeft
  <2>3. EpochLeft' /\ DownAfterReset'
    BY <1>2, <2>1, <2>2 DEF EpochLeft, DownAfterReset
  <2> QED
    BY <1>2, <2>1, <2>3 DEF Switches, Clocks
<1> QED
  BY <1>3, <1>4

LEMMA LooseIInv ==
    ASSUME NEW age \in 0..MaxDelay, NEW back \in BOOLEAN, IInv, Loose(age, back) PROVE IInv'
<1> USE Bounds DEF Never, Expired
<1>1. /\ UNCHANGED <<on, spoken, queue, status, elapsed, detected, gripAge, span, firm>>
      /\ held' = Never /\ sampleAge' = age /\ setBack' = FALSE /\ breakAge' = age
      /\ Stamped(age, back) /\ TakeDown(back) /\ doubt' = (doubt /\ ~back /\ active')
  BY DEF Loose, ResetCandidate, waiterVars
<1>2. Switches /\ Clocks /\ Messages
  BY TypeParts DEF IInv
<1>3. /\ active' \in BOOLEAN /\ doubt' \in BOOLEAN /\ left' \in Expired..(Duration + MaxBack)
      /\ active' => active
      /\ EpochLeft' /\ DownAfterReset'
  BY <1>1, ReadSignal
<1>4. Switches' /\ Messages'
  BY <1>1, <1>2, <1>3 DEF Switches, Messages
<1>5. Clocks'
  BY <1>1, <1>2, <1>3 DEF Clocks
<1>6. FirmQueue' /\ RunningHasNotHeard' /\ RaisedByOneHold' /\ FirmSignalIsHeard'
  BY <1>1, <1>3 DEF IInv, FirmQueue, RunningHasNotHeard, RaisedByOneHold, FirmSignalIsHeard
<1>7. HoldSpans'
  BY <1>1 DEF HoldSpans
<1> QED
  BY <1>3, <1>4, <1>5, <1>6, <1>7, TypeParts DEF IInv

\* What one more squeezing reading makes of the candidate.
LEMMA SqueezeHold ==
    ASSUME NEW age \in 0..MaxDelay, NEW back \in BOOLEAN, IInv, Squeeze(age, back)
    PROVE  /\ HoldSpans' /\ held' \in Never..Hold
           /\ breakAge' \in 0..MaxSampleAge /\ age <= breakAge'
           /\ held' >= Hold => breakAge' - age >= Hold
<1> USE Bounds DEF Never
<1>1. /\ HeldFor(age, back) /\ sampleAge' = age
      /\ breakAge' = IF sampleAge = Never \/ back THEN age ELSE breakAge
      /\ Stamped(age, back)
  BY DEF Squeeze
<1>2. Switches /\ Clocks /\ HoldSpans
  BY TypeParts DEF IInv
<1>3. CASE sampleAge = Never \/ back
  <2>1. held' = 0 /\ breakAge' = age
    BY <1>1, <1>2, <1>3 DEF HoldSpans, HeldFor
  <2>2. age # Never /\ age <= age /\ 0 <= age - age /\ age \in 0..MaxSampleAge
    OBVIOUS
  <2>3. HoldSpans'
    BY <1>1, <2>1, <2>2 DEF HoldSpans
  <2>4. 0 >= Hold => age - age >= Hold
    OBVIOUS
  <2> QED
    BY <2>1, <2>2, <2>3, <2>4
<1>4. CASE sampleAge # Never /\ ~back
  <2>1. /\ breakAge' = breakAge /\ breakAge # Never /\ age <= sampleAge /\ sampleAge <= breakAge
        /\ held # Never => held <= breakAge - sampleAge \/ breakAge = MaxSampleAge
    BY <1>1, <1>2, <1>4 DEF HoldSpans, Stamped
  <2>2. sampleAge \in Int /\ breakAge \in 0..MaxSampleAge /\ held \in Never..Hold
    BY <1>2, <2>1 DEF Clocks
  <2>3. /\ held' \in 0..Hold
        /\ held' <= breakAge - age \/ breakAge = MaxSampleAge
    <3>1. CASE held' = 0
      BY <2>1, <2>2, <3>1
    <3>2. CASE held # Never /\ \E gap \in Gaps(age) : held' = Least(held + gap, Hold)
      <4>1. PICK gap \in Gaps(age) : held' = Least(held + gap, Hold)
        BY <3>2
      <4>2. gap \in 0..(sampleAge - age)
        BY <2>1, <2>2 DEF Gaps
      <4> QED
        BY <2>1, <2>2, <3>2, <4>1, <4>2 DEF Least
    <3> QED
      BY <1>1, <1>4, <3>1, <3>2 DEF HeldFor
  <2> QED
    BY <1>1, <2>1, <2>2, <2>3 DEF HoldSpans
<1> QED
  BY <1>3, <1>4

LEMMA SqueezeIInv ==
    ASSUME NEW age \in 0..MaxDelay, NEW back \in BOOLEAN, IInv, Squeeze(age, back) PROVE IInv'
<1> USE Bounds DEF Never, Expired
<1>1. /\ UNCHANGED <<on, spoken, status, elapsed, detected>>
      /\ sampleAge' = age /\ setBack' = FALSE /\ Stamped(age, back)
  BY DEF Squeeze, waiterVars
<1>2. Switches /\ Clocks /\ Messages /\ TypeOK /\ FirmQueue
  BY TypeParts DEF IInv
<1>3. /\ HoldSpans' /\ held' \in Never..Hold
      /\ breakAge' \in 0..MaxSampleAge /\ age <= breakAge'
      /\ held' >= Hold => breakAge' - age >= Hold
  BY SqueezeHold
<1>4. CASE held' >= Hold
  <2>1. /\ active' = TRUE /\ gripAge' = age /\ span' = breakAge' - age /\ doubt' = FALSE
        /\ Publish(TRUE, TRUE)
        /\ left' = IF age <= Duration THEN Duration - age ELSE Expired
    BY <1>4 DEF Squeeze
  <2>2. /\ FirmQueue' /\ firm' \in Never..Depth /\ (firm' # Never => firm' \in {0, firm})
        /\ queue' \in Seq(Message) /\ Len(queue') <= Depth
    BY <1>1, <2>1, Published
  <2>9. Switches'
    BY <1>1, <1>2, <2>1 DEF Switches
  <2>3. Messages'
    BY <1>1, <1>2, <2>1, <2>2 DEF Messages
  <2>4. span' \in Never..MaxSampleAge /\ span' >= Hold /\ breakAge' \in Never..MaxSampleAge
    <3>1. PICK b \in 0..MaxSampleAge : b = breakAge'
      BY <1>3
    <3>2. age <= b /\ span' = b - age /\ b - age >= Hold
      BY <1>3, <1>4, <2>1, <3>1
    <3>3. b - age \in Never..MaxSampleAge /\ b \in Never..MaxSampleAge
      BY <3>2
    <3> QED
      BY <3>1, <3>2, <3>3
  <2>8. left' \in Expired..Duration
    BY <2>1
  <2>5. Clocks'
    <3>1. age \in Never..MaxSampleAge /\ age \in Never..MaxGripAge
      OBVIOUS
    <3>2. left' \in Expired..(Duration + MaxBack)
      BY <2>8
    <3>3. sampleAge' = age /\ gripAge' = age /\ elapsed' = elapsed /\ elapsed \in 0..(Timeout + 1)
      BY <1>1, <1>2, <2>1 DEF Clocks
    <3> QED
      BY <1>3, <2>4, <3>1, <3>2, <3>3 DEF Clocks
  <2>6. EpochLeft' /\ RaisedByOneHold' /\ DownAfterReset'
    <3>1. RaisedByOneHold'
      BY <2>4 DEF RaisedByOneHold
    <3>4. EpochLeft'
      <4>1. left' <= Duration
        BY <2>8
      <4> QED
        BY <1>1, <4>1 DEF EpochLeft
    <3>2. age # Never /\ age + (Duration - age) <= Duration
      OBVIOUS
    <3>3. DownAfterReset'
      BY <2>1, <3>2 DEF DownAfterReset
    <3> QED
      BY <3>1, <3>3, <3>4
  <2>7. RunningHasNotHeard' /\ FirmSignalIsHeard'
    BY <1>1, <2>2 DEF IInv, RunningHasNotHeard, FirmSignalIsHeard
  <2> QED
    BY <1>3, <2>2, <2>3, <2>5, <2>6, <2>7, <2>9, TypeParts DEF IInv
<1>5. CASE ~(held' >= Hold)
  <2>1. /\ UNCHANGED <<gripAge, span, queue, firm>>
        /\ TakeDown(back) /\ doubt' = (doubt /\ ~back /\ active')
    BY <1>5 DEF Squeeze
  <2>2. /\ active' \in BOOLEAN /\ doubt' \in BOOLEAN
        /\ left' \in Expired..(Duration + MaxBack)
        /\ active' => active
        /\ EpochLeft' /\ DownAfterReset'
    BY <1>1, <2>1, ReadSignal
  <2>3. Switches' /\ Messages'
    BY <1>1, <1>2, <2>1, <2>2 DEF Switches, Messages
  <2>4. Clocks'
    BY <1>1, <1>2, <1>3, <2>1, <2>2 DEF Clocks
  <2>5. FirmQueue' /\ RunningHasNotHeard' /\ RaisedByOneHold' /\ FirmSignalIsHeard'
    BY <1>1, <2>1, <2>2 DEF IInv, FirmQueue, RunningHasNotHeard, RaisedByOneHold,
       FirmSignalIsHeard
  <2> QED
    BY <1>3, <2>2, <2>3, <2>4, <2>5, TypeParts DEF IInv
<1> QED
  BY <1>4, <1>5

\* A detector that dies takes the soundness of its messages with it, and nothing else.
LEMMA DeadMessages ==
    ASSUME TypeOK, Dies
    PROVE  /\ queue' \in Seq(Message) /\ Len(queue') = Len(queue)
           /\ \A i \in 1..Len(queue) : ~queue'[i].sound /\ (queue'[i].grasped <=> queue[i].grasped)
<1>1. queue \in Seq(Message)
  BY DEF TypeOK
<1>2. /\ queue' = [i \in 1..Len(queue) |-> [queue[i] EXCEPT !.sound = FALSE]]
      /\ Len(queue) \in Nat
  BY <1>1 DEF Dies
<1>3. ASSUME NEW i \in 1..Len(queue)
      PROVE  /\ queue'[i] \in Message /\ ~queue'[i].sound
             /\ (queue'[i].grasped <=> queue[i].grasped)
  <2>1. queue[i] \in Message /\ queue'[i] = [queue[i] EXCEPT !.sound = FALSE]
    BY <1>1, <1>2
  <2> QED
    BY <2>1 DEF Message
<1>4. queue' \in [1..Len(queue) -> Message]
  BY <1>2, <1>3
<1>5. queue' \in Seq(Message) /\ Len(queue') = Len(queue)
  BY <1>2, <1>4
<1> QED
  BY <1>3, <1>5

LEMMA DiesIInv == IInv /\ Dies => IInv'
<1> SUFFICES ASSUME IInv, Dies PROVE IInv'
  OBVIOUS
<1> USE Bounds DEF Never, Expired
<1>1. /\ UNCHANGED <<spoken, status, elapsed, detected, firm>>
      /\ on' = FALSE /\ sampleAge' = Never /\ setBack' = FALSE /\ left' = Expired
      /\ held' = Never /\ active' = FALSE /\ doubt' = FALSE
      /\ gripAge' = Never /\ breakAge' = Never /\ span' = Never
  BY DEF Dies, waiterVars
<1>2. Switches /\ Clocks /\ Messages /\ TypeOK
  BY TypeParts DEF IInv
<1>3. /\ queue' \in Seq(Message) /\ Len(queue') = Len(queue)
      /\ \A i \in 1..Len(queue) : queue'[i].grasped <=> queue[i].grasped
  BY <1>2, DeadMessages
<1>4. Switches' /\ Clocks' /\ Messages'
  <2>1. Switches'
    BY <1>1, <1>2 DEF Switches
  <2>2. Clocks'
    BY <1>1, <1>2 DEF Clocks
  <2>3. Messages'
    BY <1>1, <1>2, <1>3 DEF Messages
  <2> QED
    BY <2>1, <2>2, <2>3
<1>5. HoldSpans' /\ EpochLeft' /\ RunningHasNotHeard' /\ RaisedByOneHold' /\ DownAfterReset'
      /\ FirmSignalIsHeard'
  BY <1>1 DEF IInv, HoldSpans, EpochLeft, RunningHasNotHeard, RaisedByOneHold, DownAfterReset,
     FirmSignalIsHeard
<1>6. FirmQueue'
  <2>1. queue # << >> => Len(queue) \in 1..Len(queue) /\ queue' # << >>
    BY <1>2, <1>3 DEF Messages
  <2> QED
    BY <1>1, <1>3, <2>1 DEF IInv, FirmQueue
<1> QED
  BY <1>4, <1>5, <1>6, TypeParts DEF IInv

LEMMA StartsIInv == IInv /\ Starts => IInv'
<1> SUFFICES ASSUME IInv, Starts PROVE IInv'
  OBVIOUS
<1> USE Bounds DEF Never, Expired
<1>1. /\ UNCHANGED <<sampleAge, setBack, left, held, active, status, elapsed, detected,
                     gripAge, breakAge, span, doubt>>
      /\ on' = TRUE /\ spoken' = TRUE
      /\ Publish(FALSE, TRUE)
  BY DEF Starts, clockVars, waiterVars, gripVars
<1>2. Switches /\ Clocks /\ Messages /\ TypeOK
  BY TypeParts DEF IInv
<1>3. queue' \in Seq(Message) /\ Len(queue') <= Depth
  BY <1>1, Published
<1>4. firm' = Never
  BY <1>1 DEF Publish
<1>5. Switches' /\ Clocks' /\ Messages'
  BY <1>1, <1>2, <1>3, <1>4 DEF Switches, Clocks, Messages
<1>6. HoldSpans' /\ EpochLeft' /\ FirmQueue' /\ RunningHasNotHeard' /\ RaisedByOneHold'
      /\ DownAfterReset' /\ FirmSignalIsHeard'
  BY <1>1, <1>4 DEF IInv, HoldSpans, EpochLeft, FirmQueue, RunningHasNotHeard, RaisedByOneHold,
     DownAfterReset, FirmSignalIsHeard
<1> QED
  BY <1>5, <1>6, TypeParts DEF IInv

-----------------------------------------------------------------------------
(* The waiter. *)

\* A tick takes the head of the queue, if there is one.
LEMMA SpunQueue ==
    ASSUME NEW before \in BOOLEAN, TypeOK, Spin(before)
    PROVE  /\ detected' \in BOOLEAN
           /\ queue' \in Seq(Message) /\ Len(queue') <= Len(queue)
           /\ queue = << >> => /\ queue' = queue /\ (detected' <=> before)
           /\ queue # << >> =>
                 /\ Len(queue) \in Nat \ {0} /\ Len(queue') = Len(queue) - 1
                 /\ detected' <=> queue[1].grasped
                 /\ \A i \in 1..Len(queue') : queue'[i] = queue[i + 1]
<1>1. queue \in Seq(Message)
  BY DEF TypeOK
<1>2. CASE queue = << >>
  BY <1>1, <1>2 DEF Spin
<1>3. CASE queue # << >>
  <2>1. detected' = queue[1].grasped /\ queue' = Tail(queue)
    BY <1>1, <1>3 DEF Spin
  <2>2. queue[1] \in Message /\ Len(queue) \in Nat \ {0}
    BY <1>1, <1>3
  <2>3. /\ queue' \in Seq(Message) /\ Len(queue') = Len(queue) - 1
        /\ \A i \in 1..Len(queue') : queue'[i] = queue[i + 1]
    BY <1>1, <1>3, <2>1
  <2>4. queue[1].grasped \in BOOLEAN
    BY <2>2 DEF Message
  <2>5. Len(queue') <= Len(queue)
    BY <2>2, <2>3
  <2> QED
    BY <1>3, <2>1, <2>2, <2>3, <2>4, <2>5
<1> QED
  BY <1>2, <1>3

LEMMA OnStartIInv == IInv /\ OnStart => IInv'
<1> SUFFICES ASSUME IInv, OnStart PROVE IInv'
  OBVIOUS
<1> USE Bounds DEF Never, Expired
<1>1. /\ UNCHANGED <<sampleAge, setBack, left, on, spoken, held, active, gripAge, breakAge, span,
                     doubt>>
      /\ Spin(FALSE) /\ elapsed' = 0 /\ firm' = Never
      /\ status' = IF detected' THEN "SUCCESS" ELSE IF 0 > Timeout THEN "FAILURE" ELSE "RUNNING"
  BY DEF OnStart, Answer, clockVars, detectorVars, gripVars
<1>2. Switches /\ Clocks /\ Messages /\ TypeOK
  BY TypeParts DEF IInv
<1>3. /\ detected' \in BOOLEAN
      /\ queue' \in Seq(Message) /\ Len(queue') <= Len(queue)
  BY <1>1, <1>2, SpunQueue
<1>4. Switches' /\ Clocks'
  BY <1>1, <1>2, <1>3 DEF Switches, Clocks
<1>5. Messages'
  BY <1>1, <1>2, <1>3 DEF Messages
<1>6. HoldSpans' /\ EpochLeft' /\ RaisedByOneHold' /\ DownAfterReset'
  BY <1>1 DEF IInv, HoldSpans, EpochLeft, RaisedByOneHold, DownAfterReset
<1>7. FirmQueue' /\ RunningHasNotHeard' /\ FirmSignalIsHeard'
  BY <1>1 DEF FirmQueue, RunningHasNotHeard, FirmSignalIsHeard
<1> QED
  BY <1>4, <1>5, <1>6, <1>7, TypeParts DEF IInv

LEMMA OneFurther ==
    ASSUME NEW i \in Int, NEW a \in Int, NEW b \in Int,
           (i + 1) + a < Depth, b <= a + 1
    PROVE  i + b < Depth
BY Bounds

LEMMA OnRunningIInv == IInv /\ OnRunning => IInv'
<1> SUFFICES ASSUME IInv, OnRunning PROVE IInv'
  OBVIOUS
<1> USE Bounds DEF Never, Expired
<1>1. /\ UNCHANGED <<sampleAge, setBack, left, on, spoken, held, active, elapsed, gripAge,
                     breakAge, span, doubt>>
      /\ status = "RUNNING" /\ Spin(detected) /\ firm' = Older(firm, Depth)
      /\ status' = IF detected' THEN "SUCCESS" ELSE IF elapsed > Timeout THEN "FAILURE"
                   ELSE "RUNNING"
  BY DEF OnRunning, Listen, Answer, clockVars, detectorVars, gripVars
<1>2. Switches /\ Clocks /\ Messages /\ TypeOK /\ ~detected
  BY <1>1, TypeParts DEF IInv, RunningHasNotHeard
<1>3. /\ detected' \in BOOLEAN
      /\ queue' \in Seq(Message) /\ Len(queue') <= Len(queue)
      /\ queue # << >> =>
            /\ Len(queue) \in Nat \ {0} /\ Len(queue') = Len(queue) - 1
            /\ detected' <=> queue[1].grasped
            /\ \A i \in 1..Len(queue') : queue'[i] = queue[i + 1]
  <2>1. detected \in BOOLEAN
    BY <1>2 DEF Switches
  <2> QED
    BY <1>1, <1>2, <2>1, SpunQueue
<1>4. /\ firm' \in Never..Depth /\ (firm' = Never <=> firm = Never)
      /\ firm # Never => firm' = firm + 1 \/ (firm = Depth /\ firm' = Depth)
  BY <1>1, <1>2, OlderType DEF Messages
<1>5. Switches' /\ Clocks'
  BY <1>1, <1>2, <1>3 DEF Switches, Clocks
<1>6. Messages'
  BY <1>1, <1>2, <1>3, <1>4 DEF Messages
<1>7. HoldSpans' /\ EpochLeft' /\ RunningHasNotHeard' /\ RaisedByOneHold' /\ DownAfterReset'
  BY <1>1 DEF IInv, HoldSpans, EpochLeft, RunningHasNotHeard, RaisedByOneHold, DownAfterReset
<1>8. CASE firm = Never
  BY <1>1, <1>4, <1>5, <1>6, <1>7, <1>8, TypeParts DEF IInv, FirmQueue, FirmSignalIsHeard
<1>9. CASE firm # Never
  <2>1. /\ queue # << >> /\ queue[Len(queue)].grasped
        /\ \A i \in 1..Len(queue) : ~queue[i].grasped => i + firm < Depth
    BY <1>1, <1>9 DEF IInv, FirmQueue
  <2>2. firm \in 0..Depth /\ firm' \in 0..Depth
    BY <1>2, <1>4, <1>9 DEF Messages
  <2>3. ASSUME NEW i \in 1..Len(queue'), ~queue'[i].grasped PROVE i + firm' < Depth
    <3>1. i + 1 \in 1..Len(queue) /\ ~queue[i + 1].grasped
      BY <1>3, <2>1, <2>3
    <3>2. (i + 1) + firm < Depth
      BY <2>1, <3>1
    <3>3. firm' <= firm + 1
      BY <1>4, <1>9, <2>2
    <3>4. i \in Int /\ firm \in Int /\ firm' \in Int
      BY <1>3, <2>1, <2>2
    <3> QED
      BY <3>2, <3>3, <3>4, OneFurther
  <2>4. ASSUME ~detected' PROVE 1 + firm < Depth /\ Len(queue) # 1
    <3>1. 1 \in 1..Len(queue) /\ ~queue[1].grasped
      BY <1>3, <2>1, <2>4
    <3> QED
      BY <2>1, <3>1
  <2>5. status' = "RUNNING" => queue' # << >> /\ queue'[Len(queue')].grasped
    <3>1. SUFFICES ASSUME ~detected' PROVE queue' # << >> /\ queue'[Len(queue')].grasped
      BY <1>1
    <3>2. Len(queue') \in 1..Len(queue') /\ Len(queue') + 1 = Len(queue)
      BY <1>3, <2>1, <2>4, <3>1
    <3>3. queue'[Len(queue')] = queue[Len(queue)]
      BY <1>3, <2>1, <3>2
    <3> QED
      BY <2>1, <3>2, <3>3
  <2>6. FirmQueue'
    BY <2>3, <2>5 DEF FirmQueue
  <2>7. FirmSignalIsHeard'
    BY <1>1, <1>4, <2>2, <2>4 DEF FirmSignalIsHeard
  <2> QED
    BY <1>5, <1>6, <1>7, <2>6, <2>7, TypeParts DEF IInv
<1> QED
  BY <1>8, <1>9

LEMMA OnHaltedIInv == IInv /\ OnHalted => IInv'
<1> SUFFICES ASSUME IInv, OnHalted PROVE IInv'
  OBVIOUS
<1>1. /\ UNCHANGED <<sampleAge, setBack, left, on, spoken, held, active, queue, elapsed,
                     gripAge, breakAge, span, doubt, firm>>
      /\ status' = "IDLE" /\ detected' = FALSE
  BY DEF OnHalted, clockVars, detectorVars, gripVars
<1>2. Switches /\ Clocks /\ Messages
  BY TypeParts DEF IInv
<1>3. Switches' /\ Clocks' /\ Messages'
  BY <1>1, <1>2 DEF Switches, Clocks, Messages
<1>4. HoldSpans' /\ EpochLeft' /\ FirmQueue' /\ RunningHasNotHeard' /\ RaisedByOneHold'
      /\ DownAfterReset' /\ FirmSignalIsHeard'
  BY <1>1 DEF IInv, HoldSpans, EpochLeft, FirmQueue, RunningHasNotHeard, RaisedByOneHold,
     DownAfterReset, FirmSignalIsHeard
<1> QED
  BY <1>3, <1>4, TypeParts DEF IInv

LEMMA NextIInv == IInv /\ [Next]_vars => IInv'
<1> SUFFICES ASSUME IInv, [Next]_vars PROVE IInv'
  OBVIOUS
<1>1. CASE Next
  BY <1>1, TimeIInv, SetBackIInv, PublishTimerIInv, LooseIInv, SqueezeIInv, DiesIInv,
     StartsIInv, OnStartIInv, OnRunningIInv, OnHaltedIInv DEF Next, Detector
<1>2. CASE UNCHANGED vars
  <2>1. UNCHANGED <<sampleAge, setBack, left, on, spoken, held, active, queue, status, elapsed,
                    detected, gripAge, breakAge, span, doubt, firm>>
    BY <1>2 DEF vars, clockVars, detectorVars, waiterVars, gripVars
  <2>2. Switches' /\ Clocks' /\ Messages'
    BY <2>1, TypeParts DEF IInv, Switches, Clocks, Messages
  <2>3. HoldSpans' /\ EpochLeft' /\ FirmQueue' /\ RunningHasNotHeard' /\ RaisedByOneHold'
        /\ DownAfterReset' /\ FirmSignalIsHeard'
    BY <2>1 DEF IInv, HoldSpans, EpochLeft, FirmQueue, RunningHasNotHeard, RaisedByOneHold,
       DownAfterReset, FirmSignalIsHeard
  <2> QED
    BY <2>2, <2>3, TypeParts DEF IInv
<1> QED
  BY <1>1, <1>2

LEMMA InvariantHolds == Spec => []IInv
BY InitIInv, NextIInv, PTL DEF Spec

-----------------------------------------------------------------------------
(* The age of the messages, where joint states are prompt. *)

LEMMA InitMessagesAge == Init => MessagesAge
BY DEF Init, MessagesAge

\* A step that leaves the queue alone, and lets a unit of time pass at most after the
\* detector has published in it.
LEMMA TimeMessages == IInv /\ MessagesAge /\ Time => MessagesAge'
<1> SUFFICES ASSUME IInv, MessagesAge, Time PROVE MessagesAge'
  OBVIOUS
<1> USE Bounds DEF Never
<1>1. UNCHANGED <<on, queue>> /\ spoken' = FALSE /\ (on => spoken)
  BY DEF Time
<1>2. gripAge \in Never..MaxGripAge /\ Len(queue) \in Nat
  BY TypeParts DEF IInv, Clocks, Messages
<1>3. gripAge' \in Int /\ gripAge' <= gripAge + 1 /\ (gripAge' = Never <=> gripAge = Never)
  <2>1. gripAge' = gripAge \/ gripAge' = Older(gripAge, MaxGripAge)
    BY DEF Time
  <2>2. /\ Older(gripAge, MaxGripAge) \in Never..MaxGripAge
        /\ Older(gripAge, MaxGripAge) <= gripAge + 1
        /\ Older(gripAge, MaxGripAge) = Never <=> gripAge = Never
    BY <1>2, OlderType
  <2>3. gripAge \in Int /\ gripAge <= gripAge + 1
    BY <1>2
  <2>4. CASE gripAge' = gripAge
    BY <2>3, <2>4
  <2>5. CASE gripAge' = Older(gripAge, MaxGripAge)
    BY <2>2, <2>5
  <2> QED
    BY <2>1, <2>4, <2>5
<1>4. ASSUME on, NEW i \in 1..Len(queue), queue[i].grasped, queue[i].sound
      PROVE  gripAge' # Never /\ gripAge' <= Duration + (Len(queue) - i) + 1
  <2>1. gripAge # Never /\ gripAge <= Duration + (Len(queue) - i) + 0
    BY <1>1, <1>4 DEF MessagesAge
  <2> QED
    BY <1>2, <1>3, <2>1
<1> QED
  BY <1>1, <1>4 DEF MessagesAge

LEMMA SpinMessages ==
    ASSUME IInv, MessagesAge, NEW before \in BOOLEAN, Spin(before),
           UNCHANGED <<on, spoken, gripAge>>
    PROVE  MessagesAge'
<1>1. TypeOK
  BY DEF IInv
<1>2. CASE queue = << >>
  BY <1>1, <1>2, SpunQueue DEF MessagesAge
<1>3. CASE queue # << >>
  <2>1. /\ Len(queue) \in Nat \ {0} /\ Len(queue') = Len(queue) - 1
        /\ \A i \in 1..Len(queue') : queue'[i] = queue[i + 1]
    BY <1>1, <1>3, SpunQueue
  <2>2. ASSUME NEW i \in 1..Len(queue')
        PROVE  /\ i + 1 \in 1..Len(queue) /\ queue'[i] = queue[i + 1]
               /\ Len(queue') - i = Len(queue) - (i + 1)
    BY <2>1
  <2> QED
    BY <2>2 DEF MessagesAge
<1> QED
  BY <1>2, <1>3

LEMMA SameMessages ==
    MessagesAge /\ UNCHANGED <<on, spoken, gripAge, queue>> => MessagesAge'
BY DEF MessagesAge

LEMMA DetectorMessages ==
    ASSUME PromptJointStates, IInv, MessagesAge, Detector
    PROVE  MessagesAge'
<1> USE Bounds DEF Never
<1>1. Switches /\ Clocks /\ Messages /\ TypeOK
  BY TypeParts DEF IInv
<1>2. CASE PublishTimer
  <2>1. on /\ on' = on /\ gripAge' = gripAge /\ Publish(Raised, ~doubt)
    BY <1>2 DEF PublishTimer, gripVars
  <2>2. PICK g \in BOOLEAN, s \in BOOLEAN :
           Publish(g, s) /\ (g /\ s => active /\ left # Expired /\ ~doubt)
    <3>1. Raised \in BOOLEAN /\ (~doubt) \in BOOLEAN
      BY DEF Raised
    <3>2. Raised /\ ~doubt => active /\ left # Expired /\ ~doubt
      BY DEF Raised
    <3> QED
      BY <2>1, <3>1, <3>2
  <2>3. active /\ left # Expired /\ ~doubt => gripAge \in 0..Duration
    BY <1>1 DEF IInv, DownAfterReset, Clocks, Expired
  <2>4. gripAge' \in Never..MaxGripAge /\ (g /\ s => gripAge' \in 0..Duration)
    BY <1>1, <2>1, <2>2, <2>3 DEF Clocks
  <2> QED
    BY <1>1, <2>1, <2>2, <2>4, PublishedMessages
<1>3. CASE \E age \in 0..MaxDelay, back \in BOOLEAN : Loose(age, back)
  BY <1>3, SameMessages DEF Loose
<1>4. ASSUME NEW age \in 0..MaxDelay, NEW back \in BOOLEAN, Squeeze(age, back)
      PROVE  MessagesAge'
  <2>1. on /\ UNCHANGED <<on, spoken>>
    BY <1>4 DEF Squeeze
  <2>2. CASE held' >= Hold
    <3>1. gripAge' = age /\ Publish(TRUE, TRUE)
      BY <1>4, <2>2 DEF Squeeze
    <3>2. gripAge' \in 0..Duration /\ gripAge' \in Never..MaxGripAge
      BY <3>1 DEF PromptJointStates
    <3> QED
      BY <1>1, <2>1, <3>1, <3>2, PublishedMessages
  <2>3. CASE ~(held' >= Hold)
    BY <1>4, <2>1, <2>3, SameMessages DEF Squeeze
  <2> QED
    BY <2>2, <2>3
<1>5. CASE Dies
  <2>1. on' = FALSE
    BY <1>5 DEF Dies
  <2> QED
    BY <1>1, <1>5, <2>1, DeadMessages DEF MessagesAge
<1>6. CASE Starts
  <2>1. ~on /\ on' = TRUE /\ Publish(FALSE, TRUE)
    BY <1>6 DEF Starts
  <2>2. /\ Len(queue') \in Nat /\ ~queue'[Len(queue')].grasped
        /\ \A i \in 1..(Len(queue') - 1) : \E j \in 1..Len(queue) : queue'[i] = queue[j]
    <3>1. /\ Len(queue') \in 1..Depth
          /\ queue'[Len(queue')] = [grasped |-> FALSE, sound |-> TRUE]
      BY <1>1, <2>1, PublishedQueue
    <3>2. \A i \in 1..(Len(queue') - 1) : \E j \in 1..Len(queue) : queue'[i] = queue[j]
      BY <1>1, <2>1, PublishedQueue
    <3> QED
      BY <3>1, <3>2
  <2>3. ASSUME NEW i \in 1..Len(queue') PROVE ~(queue'[i].grasped /\ queue'[i].sound)
    <3>1. CASE i = Len(queue')
      BY <2>2, <3>1
    <3>2. CASE i # Len(queue')
      <4>1. PICK j \in 1..Len(queue) : queue'[i] = queue[j]
        BY <2>2, <3>2
      <4> QED
        BY <2>1, <4>1 DEF MessagesAge
    <3> QED
      BY <3>1, <3>2
  <2> QED
    BY <2>1, <2>3 DEF MessagesAge
<1> QED
  BY <1>2, <1>3, <1>4, <1>5, <1>6 DEF Detector

LEMMA NextMessagesAge ==
    ASSUME PromptJointStates
    PROVE  IInv /\ MessagesAge /\ [Next]_vars => MessagesAge'
<1> SUFFICES ASSUME IInv, MessagesAge, [Next]_vars PROVE MessagesAge'
  OBVIOUS
<1>1. CASE Time
  BY <1>1, TimeMessages
<1>2. CASE SetBack
  BY <1>2, SameMessages DEF SetBack, detectorVars, gripVars
<1>3. CASE Detector
  BY <1>3, DetectorMessages
<1>4. CASE OnStart
  <2>1. Spin(FALSE) /\ UNCHANGED <<on, spoken, gripAge>>
    BY <1>4 DEF OnStart, detectorVars, gripVars
  <2> QED
    BY <2>1, SpinMessages
<1>5. CASE OnRunning
  <2>1. Spin(detected) /\ UNCHANGED <<on, spoken, gripAge>> /\ detected \in BOOLEAN
    BY <1>5, TypeParts DEF OnRunning, Listen, detectorVars, gripVars, IInv, Switches
  <2> QED
    BY <2>1, SpinMessages
<1>6. CASE OnHalted
  BY <1>6, SameMessages DEF OnHalted, detectorVars, gripVars
<1>7. CASE UNCHANGED vars
  BY <1>7, SameMessages DEF vars, detectorVars, gripVars
<1> QED
  BY <1>1, <1>2, <1>3, <1>4, <1>5, <1>6, <1>7 DEF Next

\* What a tick that succeeds has read.
LEMMA RecentStep ==
    ASSUME IInv, MessagesAge, OnStart \/ OnRunning, status' = "SUCCESS", SoundAhead
    PROVE  gripAge \in 0..(Duration + Depth)
<1> USE Bounds DEF Never
<1>1. TypeOK /\ Clocks /\ Messages
  BY TypeParts DEF IInv
<1>2. PICK before \in BOOLEAN : Spin(before) /\ ~before
  <2>1. CASE OnStart
    BY <2>1 DEF OnStart
  <2>2. CASE OnRunning
    <3>1. Spin(detected) /\ ~detected /\ detected \in BOOLEAN
      BY <2>2, TypeParts DEF OnRunning, Listen, IInv, RunningHasNotHeard, Switches
    <3> QED
      BY <3>1
  <2> QED
    BY <2>1, <2>2
<1>3. detected'
  BY DEF OnStart, OnRunning, Answer
<1>4. /\ Len(queue) \in Nat \ {0} /\ queue[1].grasped /\ queue[1].sound
  <2>1. /\ queue # << >> => Len(queue) \in Nat \ {0} /\ (detected' <=> queue[1].grasped)
        /\ queue \in Seq(Message)
    BY <1>1, <1>2, SpunQueue DEF TypeOK
  <2> QED
    BY <1>3, <2>1 DEF SoundAhead
<1>5. /\ gripAge # Never
      /\ gripAge <= Duration + (Len(queue) - 1) + (IF spoken THEN 0 ELSE 1)
  BY <1>4 DEF MessagesAge
<1>6. Len(queue) <= Depth /\ gripAge \in Never..MaxGripAge
  BY <1>1 DEF Messages, Clocks
<1> QED
  BY <1>4, <1>5, <1>6

-----------------------------------------------------------------------------
(* The theorems. *)

\* Every variable keeps its type, and the queue its depth.
THEOREM TypeCorrect == Spec => []TypeOK
<1>1. IInv => TypeOK
  BY DEF IInv
<1> QED
  BY <1>1, InvariantHolds, PTL

\* The signal is up only after readings that all squeeze over a whole hold_time_s,
\* whatever their delay, and none of them from before a stamp that went back.
THEOREM OneHold == Spec => []RaisedByOneHold
<1>1. IInv => RaisedByOneHold
  BY DEF IInv
<1> QED
  BY <1>1, InvariantHolds, PTL

\* After the first joint state whose stamp went back the signal is of this epoch's
\* readings, and up for signal_duration_s from them.
THEOREM OldSignalIsDown == Spec => []DownAfterReset
<1>1. IInv => DownAfterReset
  BY DEF IInv
<1> QED
  BY <1>1, InvariantHolds, PTL

\* A wait does not time out over a signal that stood for as many ticks as its queue is
\* deep, whatever the depth and the timeout.
THEOREM FirmIsHeard == Spec => []FirmSignalIsHeard
<1>1. IInv => FirmSignalIsHeard
  BY DEF IInv
<1> QED
  BY <1>1, InvariantHolds, PTL

\* A wait that succeeds does so over readings no older than the signal's duration and
\* the time its queue spans, where a joint state arrives within that duration.
THEOREM RecentSuccess == ASSUME PromptJointStates PROVE Spec => SuccessIsRecent
<1>1. Init => IInv /\ MessagesAge
  BY InitIInv, InitMessagesAge
<1>2. IInv /\ MessagesAge /\ [Next]_vars => (IInv /\ MessagesAge)'
  BY NextIInv, NextMessagesAge
<1>3. IInv /\ MessagesAge /\ [Next]_vars =>
        [(OnStart \/ OnRunning) /\ status' = "SUCCESS" /\ SoundAhead
         => gripAge \in 0..(Duration + Depth)]_vars
  BY RecentStep
<1> QED
  BY <1>1, <1>2, <1>3, PTL DEF Spec, SuccessIsRecent
=============================================================================
