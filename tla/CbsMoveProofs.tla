----------------------------- MODULE CbsMoveProofs -----------------------------
(***************************************************************************)
(* The execution of a move, proved for all timeouts, efforts and heights.  *)
(*                                                                         *)
(* Every step of the subtree is a step of its gate or leaves that alone    *)
(* (GateSteps), so all the gate promises it promises here as well.  Where  *)
(* no deactivation is refused or lost and no run cancelled, what the       *)
(* controller manager still has to answer says where the controller will   *)
(* be (Switches).  Where the ROS clock keeps the pace of the wall clock,   *)
(* the gate is ahead of the driving branch (GateLeads), and has taken its  *)
(* reference by the time that branch moves (RestFirst).  Whatever fails,   *)
(* load_off is the gate's word on this move (ContactFollowsTheGate).       *)
(***************************************************************************)
EXTENDS CbsMove, LoadOffProofs, SequenceTheorems, TLAPS

-----------------------------------------------------------------------------
(* The gate inside the subtree. *)

LEMMA HaltGateStep == HaltGate => [OnHalted]_vars
BY DEF HaltGate

LEMMA GateSteps == [MoveNext]_allVars => [Next]_vars
<1> SUFFICES ASSUME [MoveNext]_allVars PROVE [Next]_vars
  OBVIOUS
<1> USE DEF Next, Node
<1>1. ASSUME NEW k \in Kinds, StartMove(k) PROVE NextMove
  BY <1>1 DEF StartMove
<1>2. CASE Tick
  <2>1. CASE Released \/ Move
    BY <2>1, HaltGateStep DEF Released, Move
  <2>2. CASE Activated
    BY <2>2 DEF Activated
  <2>3. AwaitApproval \/ AwaitAnswer \/ Deactivated \/ Settle \/ Undone => UNCHANGED vars
    BY DEF AwaitApproval, AwaitAnswer, Deactivated, Settle, Undone
  <2> QED
    BY <1>2, <2>1, <2>2, <2>3 DEF Tick
<1>3. CASE Cancel
  BY <1>3, HaltGateStep DEF Cancel
<1>4. CASE Time
  BY <1>4 DEF Time, Environment
<1>5. CASE Sensors
  BY <1>5 DEF Sensors, Environment
<1>6. ManagerAnswers \/ GoalEnds \/ MpcStops \/ OperatorMoves \/ UNCHANGED allVars
      => UNCHANGED vars
  BY DEF ManagerAnswers, GoalEnds, MpcStops, OperatorMoves, allVars
<1> QED
  BY <1>1, <1>2, <1>3, <1>4, <1>5, <1>6 DEF MoveNext

\* What the subtree does to its gate is what a gate may be put through: it starts it, ticks
\* it, halts it, or lets it be (the Parallel of cbs_subtree_a2b_movement.xml).
THEOREM GateInside == MoveSpec => Spec
<1>1. MoveInit => Init
  BY DEF MoveInit
<1> QED
  BY <1>1, GateSteps, PTL DEF MoveSpec, Spec

\* So the gate keeps its promises in every move that is halted, refused or cancelled.
THEOREM GatePromises ==
    MoveSpec => [](/\ DipWasUnbroken
                   /\ ReadsThisDescent
                   /\ OutliersShiftNoReference
                   /\ LoadOffTellsLandingFromContact)
BY GateInside, UnbrokenDip, OwnReadings, ReferenceResists, LandingToldFromContact, PTL

-----------------------------------------------------------------------------
(* The types of the subtree, on top of those of its gate. *)

Requests == Seq({"activate", "deactivate"})

\* MoveTypeOK without the gate's types.
TreeTypeOK ==
    /\ mpcDrives \in BOOLEAN
    /\ kind \in Kind
    /\ step \in {"idle", "approve", "activate", "move", "deactivate", "settle", "undo"}
    /\ leg \in {"none", "sleep", "wait", "goal", "hold"}
    /\ nap \in 0..LongNap
    /\ due \in BOOLEAN
    /\ result \in {"none", "SUCCESS", "FAILURE", "CANCELLED"}
    /\ approved \in BOOLEAN
    /\ controller \in {"inactive", "active"}
    /\ requests \in Requests
    /\ answer \in {"ok", "refused"}
    /\ goal \in {"none", "live", "reached", "aborted"}
    /\ horizon \in BOOLEAN

LEMMA InitTreeTypes == MoveInit => TreeTypeOK
<1> SUFFICES ASSUME MoveInit PROVE TreeTypeOK
  OBVIOUS
<1>1. kind \in Kind
  BY ScenarioAssumption DEF MoveInit
<1>2. nap \in 0..LongNap
  BY NapAssumption DEF MoveInit
<1>3. requests \in Requests
  BY DEF MoveInit, Requests
<1> QED
  BY <1>1, <1>2, <1>3 DEF MoveInit, TreeTypeOK

LEMMA AskTypes ==
    ASSUME NEW r \in {"activate", "deactivate"}, requests \in Requests, Ask(r)
    PROVE  requests' \in Requests
BY DEF Ask, Requests

LEMMA DriveTypes ==
    ASSUME TreeTypeOK, Drive
    PROVE  leg' \in {"wait", "goal", "hold"} /\ nap' \in 0..LongNap /\ horizon' \in BOOLEAN
<1>1. leg' \in {"wait", "goal", "hold"} /\ nap' \in 0..LongNap
  BY NapAssumption DEF Drive
<1>2. horizon' \in BOOLEAN
  BY DEF Drive, TreeTypeOK
<1> QED
  BY <1>1, <1>2

LEMMA LegRunsTypes ==
    ASSUME TreeTypeOK, LegRuns
    PROVE  /\ leg' \in {"none", "sleep", "wait", "goal", "hold"} /\ nap' \in 0..LongNap
           /\ horizon' \in BOOLEAN
BY DriveTypes, NapAssumption DEF LegRuns, TreeTypeOK

\* How the subtree goes on from a step.
LEMMA GoesOnTypes ==
    ASSUME TreeTypeOK,
           GoOn \/ Undo \/ Stay \/ Finish("SUCCESS") \/ Finish("FAILURE")
    PROVE  /\ step' \in {"idle", "approve", "activate", "move", "deactivate", "settle", "undo"}
           /\ result' \in {"none", "SUCCESS", "FAILURE", "CANCELLED"}
           /\ requests' \in Requests
BY AskTypes DEF GoOn, Undo, Stay, Finish, TreeTypeOK

LEMMA TickTreeTypes == TreeTypeOK /\ Tick => TreeTypeOK'
<1> SUFFICES ASSUME TreeTypeOK, Tick PROVE TreeTypeOK'
  OBVIOUS
<1>1. due' = FALSE /\ UNCHANGED <<mpcDrives, kind, approved, controller, answer>>
  BY DEF Tick, AwaitApproval, AwaitAnswer, Released, Activated, Move, Deactivated, Settle,
         Undone, treeVars, outVars
<1>2. ASSUME /\ step' \in {"idle", "approve", "activate", "move", "deactivate", "settle", "undo"}
             /\ result' \in {"none", "SUCCESS", "FAILURE", "CANCELLED"}
             /\ requests' \in Requests,
             leg' \in {"none", "sleep", "wait", "goal", "hold"}, nap' \in 0..LongNap,
             goal' \in {"none", "live", "reached", "aborted"}, horizon' \in BOOLEAN
      PROVE  TreeTypeOK'
  BY <1>1, <1>2 DEF TreeTypeOK
<1>3. CASE AwaitApproval
  <2>1. requests' \in Requests
    BY <1>3, AskTypes DEF AwaitApproval, TreeTypeOK
  <2> QED
    BY <1>2, <1>3, <2>1 DEF AwaitApproval, TreeTypeOK
<1>4. CASE AwaitAnswer
  BY <1>2, <1>4 DEF AwaitAnswer, TreeTypeOK, treeVars, outVars
<1>5. CASE Released
  BY <1>2, <1>5, GoesOnTypes DEF Released, DropGoal, TreeTypeOK
<1>6. CASE Activated
  <2>1. CASE step' = "move" /\ UNCHANGED <<result, requests>> /\ KeepGoal
             /\ ((leg' = "sleep" /\ nap' = 0 /\ UNCHANGED horizon) \/ Drive)
    <3>1. /\ leg' \in {"none", "sleep", "wait", "goal", "hold"} /\ nap' \in 0..LongNap
          /\ horizon' \in BOOLEAN
      BY <2>1, DriveTypes, NapAssumption DEF TreeTypeOK
    <3> QED
      BY <1>2, <2>1, <3>1 DEF KeepGoal, TreeTypeOK
  <2>2. CASE Undo /\ UNCHANGED <<leg, nap, goal, horizon>>
    BY <1>2, <2>2, GoesOnTypes DEF TreeTypeOK
  <2> QED
    BY <1>6, <2>1, <2>2 DEF Activated
<1>7. CASE Move
  <2>1. /\ leg' \in {"none", "sleep", "wait", "goal", "hold"} /\ nap' \in 0..LongNap
        /\ horizon' \in BOOLEAN
    BY <1>7, LegRunsTypes DEF Move, TreeTypeOK
  <2>2. goal' \in {"none", "live", "reached", "aborted"}
    BY <1>7 DEF Move, KeepGoal, DropGoal, TreeTypeOK
  <2>3. GoOn \/ Undo \/ Stay
    BY <1>7 DEF Move
  <2> QED
    BY <1>2, <2>1, <2>2, <2>3, GoesOnTypes
<1>8. CASE Deactivated
  <2>1. nap' \in 0..LongNap
    BY <1>8, NapAssumption DEF Deactivated, TreeTypeOK
  <2> QED
    BY <1>2, <1>8, <2>1, GoesOnTypes DEF Deactivated, TreeTypeOK
<1>9. CASE Settle
  BY <1>2, <1>9, GoesOnTypes DEF Settle, TreeTypeOK
<1>10. CASE Undone
  BY <1>2, <1>10, GoesOnTypes DEF Undone, TreeTypeOK
<1> QED
  BY <1>3, <1>4, <1>5, <1>6, <1>7, <1>8, <1>9, <1>10 DEF Tick

LEMMA NextTreeTypes == TreeTypeOK /\ [MoveNext]_allVars => TreeTypeOK'
<1> SUFFICES ASSUME TreeTypeOK, [MoveNext]_allVars PROVE TreeTypeOK'
  OBVIOUS
<1>1. ASSUME NEW k \in Kinds, StartMove(k), due' = TRUE PROVE TreeTypeOK'
  BY <1>1, NapAssumption, ScenarioAssumption DEF StartMove, TreeTypeOK
<1>2. CASE Cancel
  BY <1>2 DEF Cancel, DropGoal, TreeTypeOK
<1>3. CASE Time
  <2>1. nap' \in 0..LongNap
    BY <1>3, NapAssumption, MarkAssumption DEF Time, Older, TreeTypeOK
  <2> QED
    BY <1>3, <2>1 DEF Time, TreeTypeOK, outVars
<1>4. CASE ManagerAnswers
  <2>1. requests' \in Requests
    BY <1>4 DEF ManagerAnswers, TreeTypeOK, Requests
  <2> QED
    BY <1>4, <2>1 DEF ManagerAnswers, TreeTypeOK, treeVars
<1>5. CASE GoalEnds \/ MpcStops \/ OperatorMoves
  BY <1>5 DEF GoalEnds, MpcStops, OperatorMoves, TreeTypeOK, treeVars, outVars
<1>6. CASE UNCHANGED moveVars
  BY <1>6 DEF TreeTypeOK, moveVars, treeVars, outVars
<1> QED
  BY <1>1, <1>2, <1>3, <1>4, <1>5, <1>6, TickTreeTypes DEF MoveNext, Sensors, allVars

\* The subtree never leaves its types: whatever is refused, cancelled or released, the
\* requests stay switch requests and the naps within their bound.
THEOREM MoveTypeCorrect == MoveSpec => []MoveTypeOK
<1>1. TypeOK /\ TreeTypeOK => MoveTypeOK
  BY DEF MoveTypeOK, TreeTypeOK, Requests
<1> QED
  BY InitTreeTypes, NextTreeTypes, GateInside, TypeCorrect, <1>1, PTL DEF MoveSpec

-----------------------------------------------------------------------------
(* The controller and the requests it has yet to see. *)

Steps == {"idle", "approve", "activate", "move", "deactivate", "settle", "undo"}

\* What the requests that are not answered, and the last answer, say of the controller.
\* A request is never behind more than one other.
Switches ==
    /\ step \in Steps
    /\ step # "idle" => result = "none"
    /\ step \in {"idle", "approve"} => requests = << >> /\ controller = "inactive"
    /\ step = "activate" => requests \in {<< >>, <<"activate">>}
    /\ step = "activate" /\ requests # << >> => controller = "inactive"
    /\ step = "move" => requests = << >>
    /\ step = "deactivate" => requests \in {<< >>, <<"deactivate">>}
    /\ step = "deactivate" /\ requests = << >> => answer = "ok" /\ controller = "inactive"
    /\ step = "settle" => requests = << >> /\ controller = "inactive"
    /\ step = "undo" => requests \in {<< >>, <<"deactivate">>, <<"activate", "deactivate">>,
                                      <<"deactivate", "deactivate">>}
    /\ step = "undo" /\ requests = << >> => controller = "inactive"
    /\ EndsInactive

LEMMA InitSwitches == MoveInit => Switches
BY DEF MoveInit, Switches, Steps, EndsInactive

\* A call of the switch service is answered as the manager answered last.
LEMMA AnsweredInOrder ==
    ASSUME ~SwitchFaults, NEW how, Answered(how)
    PROVE  requests = << >> /\ answer = how
BY DEF Answered

LEMMA AppendToNone == ASSUME NEW a PROVE Append(<< >>, a) = <<a>>
OBVIOUS

LEMMA AppendToOne == ASSUME NEW a, NEW b PROVE Append(<<a>>, b) = <<a, b>>
<1> DEFINE S == {a, b}
           s == Append(<<a>>, b)
           t == <<a, b>>
<1>1. s \in Seq(S) /\ t \in Seq(S)
  OBVIOUS
<1>2. Len(s) = 2 /\ Len(t) = 2 /\ s[1] = t[1] /\ s[2] = t[2]
  OBVIOUS
<1> HIDE DEF S, s, t
<1>3. s = t
  BY <1>1, <1>2, SeqEqual
<1> QED
  BY <1>3 DEF s, t

LEMMA TailOfOne == ASSUME NEW a PROVE Tail(<<a>>) = << >> /\ Head(<<a>>) = a
OBVIOUS

LEMMA TailOfTwo == ASSUME NEW a, NEW b PROVE Tail(<<a, b>>) = <<b>> /\ Head(<<a, b>>) = a
<1> DEFINE S == {a, b}
           s == Tail(<<a, b>>)
           t == <<b>>
<1>1. s \in Seq(S) /\ t \in Seq(S)
  OBVIOUS
<1>2. Len(s) = 1 /\ Len(t) = 1 /\ s[1] = t[1] /\ Head(<<a, b>>) = a
  OBVIOUS
<1> HIDE DEF S, s, t
<1>3. s = t
  BY <1>1, <1>2, SeqEqual
<1> QED
  BY <1>2, <1>3 DEF s, t

LEMMA TickSwitches == ~Cancels /\ ~SwitchFaults /\ Switches /\ Tick => Switches'
<1> SUFFICES ASSUME ~Cancels, ~SwitchFaults, Switches, Tick PROVE Switches'
  OBVIOUS
<1> USE DEF Switches, Steps, EndsInactive, treeVars, outVars
<1>1. CASE AwaitApproval
  BY <1>1 DEF AwaitApproval, Ask
<1>2. CASE AwaitAnswer
  BY <1>2 DEF AwaitAnswer
<1>3. CASE Released
  <2>1. /\ step' = "undo" /\ requests' = Append(requests, "deactivate")
        /\ UNCHANGED <<result, controller, answer>>
    BY <1>3 DEF Released, Undo, Ask
  <2>2. requests \in {<< >>, <<"activate">>, <<"deactivate">>} /\ result = "none"
    BY <1>3 DEF Released
  <2>3. requests' \in {<<"deactivate">>, <<"activate", "deactivate">>,
                       <<"deactivate", "deactivate">>}
    BY <2>1, <2>2, AppendToNone, AppendToOne
  <2> QED
    BY <2>1, <2>2, <2>3
<1>4. CASE Activated
  <2>1. CASE step' = "move"
    BY <1>4, <2>1, AnsweredInOrder DEF Activated, Undo
  <2>2. CASE Undo
    <3>1. requests = << >>
      BY <1>4, AnsweredInOrder DEF Activated
    <3> QED
      BY <1>4, <2>2, <3>1 DEF Activated, Undo, Ask
  <2> QED
    BY <1>4, <2>1, <2>2 DEF Activated
<1>5. CASE Move
  <2>1. \/ GoOn \/ Undo \/ Stay
    BY <1>5 DEF Move
  <2>2. UNCHANGED <<controller, answer>> /\ step = "move"
    BY <1>5 DEF Move
  <2> QED
    BY <2>1, <2>2 DEF GoOn, Undo, Ask, Stay
<1>6. CASE Deactivated
  BY <1>6, AnsweredInOrder DEF Deactivated, Undo, Ask, Finish
<1>7. CASE Settle
  BY <1>7 DEF Settle, Undo, Ask, Finish, Stay
<1>8. CASE Undone
  BY <1>8, AnsweredInOrder DEF Undone, Finish
<1> QED
  BY <1>1, <1>2, <1>3, <1>4, <1>5, <1>6, <1>7, <1>8 DEF Tick

\* The manager answers one request; without faults only an activation is refused.
LEMMA ManagerSwitches == ~SwitchFaults /\ Switches /\ ManagerAnswers => Switches'
<1> SUFFICES ASSUME ~SwitchFaults, Switches, ManagerAnswers PROVE Switches'
  OBVIOUS
<1> USE DEF Switches, Steps, EndsInactive
<1>1. requests' = Tail(requests) /\ UNCHANGED <<step, result>> /\ requests # << >>
  BY DEF ManagerAnswers, treeVars
<1>2. step \in {"activate", "deactivate", "undo"}
  BY <1>1
<1>3. CASE requests = <<"activate">>
  <2>1. requests' = << >> /\ step = "activate"
    BY <1>1, <1>2, <1>3, TailOfOne
  <2> QED
    BY <1>1, <2>1
<1>4. CASE requests = <<"deactivate">>
  <2>1. requests' = << >> /\ step \in {"deactivate", "undo"}
    BY <1>1, <1>2, <1>4, TailOfOne
  <2>2. answer' = "ok" /\ controller' = "inactive"
    BY <1>4, TailOfOne DEF ManagerAnswers
  <2> QED
    BY <1>1, <2>1, <2>2
<1>5. CASE requests \in {<<"activate", "deactivate">>, <<"deactivate", "deactivate">>}
  <2>1. requests' = <<"deactivate">>
    BY <1>1, <1>5, TailOfTwo
  <2>2. step = "undo"
    <3>1. Len(requests) = 2
      BY <1>5
    <3>2. Len(<<"activate">>) = 1 /\ Len(<<"deactivate">>) = 1 /\ Len(<< >>) = 0
      OBVIOUS
    <3> QED
      BY <1>2, <3>1, <3>2
  <2>3. <<"deactivate">> # << >>
    OBVIOUS
  <2>4. step' = "undo" /\ result' = "none" /\ requests' # << >>
    BY <1>1, <2>1, <2>2, <2>3
  <2> QED
    BY <2>1, <2>4
<1> QED
  BY <1>1, <1>2, <1>3, <1>4, <1>5

LEMMA NextSwitches ==
    ~Cancels /\ ~SwitchFaults /\ Switches /\ [MoveNext]_allVars => Switches'
<1> SUFFICES ASSUME ~Cancels, ~SwitchFaults, Switches, [MoveNext]_allVars PROVE Switches'
  OBVIOUS
<1>1. ASSUME NEW k \in Kinds, StartMove(k) PROVE Switches'
  BY <1>1 DEF StartMove, Switches, Steps, EndsInactive
<1>2. ASSUME UNCHANGED <<step, result, controller, requests, answer>> PROVE Switches'
  BY <1>2 DEF Switches, Steps, EndsInactive
<1>3. Time \/ GoalEnds \/ MpcStops \/ OperatorMoves \/ Sensors \/ UNCHANGED allVars
      => UNCHANGED <<step, result, controller, requests, answer>>
  BY DEF Time, GoalEnds, MpcStops, OperatorMoves, Sensors, allVars, moveVars, treeVars,
         outVars
<1> QED
  BY <1>1, <1>2, <1>3, TickSwitches, ManagerSwitches DEF MoveNext, Cancel

\* A move that ended left the controller inactive, whatever raced
\* (cbs_subtree_a2b_movement.xml: the deactivation and the ForceFailure branch).
THEOREM LeftInactive ==
    ASSUME ~Cancels, ~SwitchFaults
    PROVE  MoveSpec => []EndsInactive
<1>1. MoveInit => Switches
  BY InitSwitches
<1>2. Switches /\ [MoveNext]_allVars => Switches'
  BY NextSwitches
<1>3. Switches => EndsInactive
  BY DEF Switches
<1> QED
  BY <1>1, <1>2, <1>3, PTL DEF MoveSpec

\* Nothing moves before the confirmation, as long as no run is cancelled and no
\* deactivation lost (GetUserApproval before the activation).
THEOREM ConfirmedFirst ==
    ASSUME ~Cancels, ~SwitchFaults
    PROVE  MoveSpec => []NothingMovesUnconfirmed
<1>1. MoveInit => Switches
  BY InitSwitches
<1>2. Switches /\ [MoveNext]_allVars => Switches'
  BY NextSwitches
<1>3. Switches => NothingMovesUnconfirmed
  BY DEF Switches, NothingMovesUnconfirmed, Motion
<1> QED
  BY <1>1, <1>2, <1>3, PTL DEF MoveSpec

-----------------------------------------------------------------------------
(* The gate is ahead of the driving branch: its clock has run since before   *)
(* the leg the branch is at, and a tick past its timeout ends it.            *)

GateLeads ==
    /\ step \in Steps /\ nap \in Nat /\ elapsed \in 0..(Timeout + 1)
    /\ gate = "RUNNING" <=> step = "move" /\ Gated
    /\ gate = "RUNNING" /\ elapsed = Timeout + 1 => due
    /\ gate = "RUNNING" /\ leg = "sleep" => nap <= elapsed
    /\ gate = "RUNNING" /\ leg # "sleep" => ShortNap <= elapsed
    /\ gate = "RUNNING" /\ leg = "hold" => nap + ShortNap <= elapsed
    /\ step = "move" /\ kind = "land" => leg # "wait"
    /\ step = "deactivate" /\ kind = "land" => gate = "SUCCESS" /\ loadOff
    /\ step = "settle" => kind # "land"
    /\ step # "idle" => result # "SUCCESS"
    /\ LandingIsSeen

\* A tick of a running gate.
LEMMA GateTick ==
    ASSUME OnRunning
    PROVE  /\ gate = "RUNNING" /\ gate' \in {"RUNNING", "SUCCESS", "FAILURE"}
           /\ UNCHANGED <<elapsed, above>>
           /\ gate' = "RUNNING" => ~Unusable /\ UNCHANGED loadOff
           /\ gate' = "SUCCESS" => loadOff'
           /\ UNCHANGED <<lowest, touched>> \/ Watch
           /\ \/ UNCHANGED loadOff /\ gate' # "SUCCESS"
              \/ Watch /\ loadOff' /\ gate' = IF InReach(lowest') THEN "SUCCESS" ELSE "FAILURE"
BY DEF OnRunning, GiveUp, KeepWaiting, Judge, StillLoaded, Dipping, Off

LEMMA GateHalts ==
    ASSUME HaltGate
    PROVE  /\ gate = "RUNNING" => gate' = "IDLE"
           /\ gate # "RUNNING" => UNCHANGED gate
           /\ UNCHANGED <<loadOff, elapsed, above, lowest>>
BY DEF HaltGate, OnHalted, vars, readVars, gateVars, histVars, envVars

LEMMA InitGateLeads == MoveInit => GateLeads
BY DurationAssumption DEF MoveInit, Init, GateLeads, Steps, LandingIsSeen

LEMMA MoveGateLeads == GateLeads /\ Move /\ due' = FALSE => GateLeads'
<1> SUFFICES ASSUME GateLeads, Move, due' = FALSE PROVE GateLeads'
  OBVIOUS
<1> USE DurationAssumption, NapAssumption DEF GateLeads, Steps, Gated, LandingIsSeen
<1>1. step = "move" /\ UNCHANGED <<kind, mpcDrives>>
  BY DEF Move
<1>2. CASE LegSucceeds /\ GoOn /\ HaltGate /\ UNCHANGED <<leg, nap>>
  <2>1. kind # "land"
    BY <1>1, <1>2 DEF LegSucceeds
  <2>2. step' = "deactivate" /\ result' = result /\ gate' # "RUNNING" /\ elapsed' = elapsed
    BY <1>2, GateHalts DEF GoOn
  <2> QED
    BY <1>1, <1>2, <2>1, <2>2
<1>3. CASE Undo /\ HaltGate /\ UNCHANGED <<leg, nap>>
  <2>1. step' = "undo" /\ result' = result /\ gate' # "RUNNING" /\ elapsed' = elapsed
    BY <1>3, GateHalts DEF Undo
  <2> QED
    BY <1>1, <1>3, <2>1
<1>4. CASE ~Gated /\ LegRuns /\ Stay /\ UNCHANGED vars
  <2>1. gate # "RUNNING" /\ kind # "land" /\ UNCHANGED <<gate, elapsed, loadOff>>
    BY <1>1, <1>4 DEF vars, gateVars
  <2>2. nap' \in Nat
    BY <1>4 DEF LegRuns, Drive
  <2> QED
    BY <1>1, <1>4, <2>1, <2>2 DEF Stay
<1>5. CASE Gated /\ LegRuns /\ OnRunning
  <2>1. gate = "RUNNING" /\ UNCHANGED elapsed /\ (gate' = "RUNNING" => elapsed <= Timeout)
    BY <1>5, GateTick DEF Unusable
  <2>2. /\ nap' \in Nat
        /\ leg' = "sleep" => nap' <= elapsed
        /\ leg' # "sleep" => ShortNap <= elapsed
        /\ leg' = "hold" => nap' + ShortNap <= elapsed
        /\ kind = "land" => leg' # "wait"
    BY <1>1, <1>5, <2>1 DEF LegRuns, Drive, Rested
  <2>3. CASE gate' = "RUNNING" /\ Stay
    <3>1. /\ step' = "move" /\ result' = result /\ kind' = kind
          /\ elapsed' = elapsed /\ elapsed <= Timeout
      BY <1>1, <2>1, <2>3 DEF Stay
    <3>2. step' \in Steps /\ nap' \in Nat /\ elapsed' \in 0..(Timeout + 1)
      BY <2>2, <3>1
    <3>3. Gated' /\ LandingIsSeen'
      BY <1>1, <1>5, <3>1
    <3>4. ~(elapsed' = Timeout + 1)
      BY <3>1
    <3>5. gate' = "RUNNING" <=> step' = "move" /\ Gated'
      BY <2>3, <3>1, <3>3
    <3>6. /\ leg' = "sleep" => nap' <= elapsed'
          /\ leg' # "sleep" => ShortNap <= elapsed'
          /\ leg' = "hold" => nap' + ShortNap <= elapsed'
          /\ kind' = "land" => leg' # "wait"
      BY <2>2, <3>1
    <3>7. step' # "deactivate" /\ step' # "settle" /\ result' # "SUCCESS"
      BY <1>1, <3>1
    <3> QED
      BY <3>2, <3>3, <3>4, <3>5, <3>6, <3>7
  <2>4. CASE gate' = "SUCCESS" /\ GoOn
    BY <1>1, <1>5, <2>1, <2>2, <2>4, GateTick DEF GoOn
  <2>5. CASE gate' = "FAILURE" /\ Undo
    BY <1>1, <1>5, <2>1, <2>2, <2>5 DEF Undo
  <2> QED
    BY <1>5, <2>3, <2>4, <2>5, <1>2, <1>3, <1>4 DEF Move
<1> QED
  BY <1>2, <1>3, <1>4, <1>5 DEF Move

LEMMA TickGateLeads == GateLeads /\ Tick => GateLeads'
<1> SUFFICES ASSUME GateLeads, Tick PROVE GateLeads'
  OBVIOUS
<1> USE DurationAssumption, NapAssumption DEF GateLeads, Steps, Gated, LandingIsSeen
<1>1. due' = FALSE
  BY DEF Tick
<1>2. CASE UNCHANGED <<gate, elapsed, loadOff, kind, leg>> /\ nap' \in Nat
           /\ step # "move" /\ step' # "move"
           /\ (step' = "deactivate" => step = "deactivate")
           /\ (step' = "settle" => kind # "land")
           /\ (result' = result \/ step' = "idle")
           /\ (result' = "SUCCESS" => step \in {"deactivate", "settle"})
           /\ step' \in Steps
  BY <1>2
<1>3. CASE AwaitApproval
  BY <1>2, <1>3 DEF AwaitApproval, Ask, vars, gateVars
<1>4. CASE AwaitAnswer
  BY <1>2, <1>4 DEF AwaitAnswer, treeVars, vars, gateVars
<1>5. CASE Released
  <2>1. step' = "undo" /\ result' = result /\ gate' # "RUNNING" /\ elapsed' = elapsed
        /\ UNCHANGED <<kind, leg, nap>> /\ result # "SUCCESS"
    BY <1>5, GateHalts DEF Released, Undo
  <2> QED
    BY <2>1
<1>6. CASE Activated
  <2>1. CASE step' = "move" /\ Gated /\ OnStart /\ leg' = "sleep" /\ nap' = 0
             /\ UNCHANGED <<result, kind>> /\ step = "activate"
    <3>1. gate' = "RUNNING" /\ elapsed' = 0
      BY <2>1 DEF OnStart
    <3>2. Gated' /\ LandingIsSeen'
      BY <2>1
    <3> QED
      BY <2>1, <3>1, <3>2
  <2>2. CASE step' = "move" /\ ~Gated /\ Drive /\ UNCHANGED vars
             /\ UNCHANGED <<result, kind>> /\ step = "activate"
    <3>1. UNCHANGED <<gate, elapsed, loadOff>> /\ nap' = 0 /\ gate # "RUNNING"
      BY <2>2 DEF vars, gateVars, Drive
    <3> QED
      BY <2>2, <3>1
  <2>3. CASE Undo /\ UNCHANGED <<vars, leg, nap, kind>> /\ step = "activate"
    BY <1>2, <2>3 DEF Undo, vars, gateVars
  <2> QED
    BY <1>6, <2>1, <2>2, <2>3 DEF Activated
<1>7. CASE Move
  BY <1>1, <1>7, MoveGateLeads
<1>8. CASE Deactivated
  BY <1>2, <1>8 DEF Deactivated, Finish, Undo, vars, gateVars
<1>9. CASE Settle
  BY <1>2, <1>9 DEF Settle, Stay, Finish, Undo, vars, gateVars
<1>10. CASE Undone
  BY <1>2, <1>10 DEF Undone, Finish, vars, gateVars
<1> QED
  BY <1>3, <1>4, <1>5, <1>6, <1>7, <1>8, <1>9, <1>10 DEF Tick

\* Of two ages that grow together the older stays ahead.
LEMMA KeepsAhead ==
    ASSUME NEW m \in Nat, NEW n \in Nat, n <= m + 1, NEW e \in Int, NEW d \in Nat
    PROVE  /\ m <= e => n <= e + 1
           /\ d <= e => d <= e + 1
           /\ m + d <= e => n + d <= e + 1
OBVIOUS

\* The ROS clock keeps the pace of the wall clock.
LEMMA TimeGateLeads == ~SlowClock /\ GateLeads /\ Time => GateLeads'
<1> SUFFICES ASSUME ~SlowClock, GateLeads, Time PROVE GateLeads'
  OBVIOUS
<1> USE DurationAssumption, NapAssumption, MarkAssumption
    DEF GateLeads, Steps, Gated, LandingIsSeen
<1>1. /\ due' = TRUE /\ ~due /\ UNCHANGED <<kind, step, leg, result>>
      /\ nap' \in Nat /\ nap' <= nap + 1
  BY DEF Time, Older
<1>2. CASE ClockTick
  <2>1. gate = "RUNNING" /\ UNCHANGED <<gate, loadOff>>
    BY <1>2 DEF ClockTick
  <2>2. elapsed' = elapsed + 1 /\ elapsed < Timeout + 1
    BY <1>1, <1>2, <2>1 DEF ClockTick, Older
  <2>3. /\ step' \in Steps /\ elapsed' \in 0..(Timeout + 1)
        /\ gate' = "RUNNING" <=> step' = "move" /\ Gated'
        /\ LandingIsSeen'
    BY <1>1, <2>1, <2>2
  <2>4. /\ leg' = "sleep" => nap' <= elapsed'
        /\ leg' # "sleep" => ShortNap <= elapsed'
        /\ leg' = "hold" => nap' + ShortNap <= elapsed'
    <3>1. /\ leg = "sleep" => nap <= elapsed
          /\ leg # "sleep" => ShortNap <= elapsed
          /\ leg = "hold" => nap + ShortNap <= elapsed
      BY <2>1
    <3>2. nap \in Nat /\ elapsed \in Int /\ ShortNap \in Nat
      OBVIOUS
    <3>3. leg' = leg /\ nap' \in Nat /\ nap' <= nap + 1 /\ elapsed' = elapsed + 1
      BY <1>1, <2>2
    <3> QED
      BY <3>1, <3>2, <3>3, KeepsAhead
  <2>5. step' = "move" /\ result' # "SUCCESS" /\ (kind' = "land" => leg' # "wait")
    BY <1>1, <2>1
  <2> QED
    BY <1>1, <2>3, <2>4, <2>5
<1>3. CASE gate # "RUNNING" /\ UNCHANGED vars
  <2>1. gate' # "RUNNING" /\ UNCHANGED <<gate, loadOff, elapsed>>
    BY <1>3 DEF vars, gateVars
  <2>2. step' \in Steps /\ elapsed' \in 0..(Timeout + 1) /\ LandingIsSeen'
    BY <1>1, <2>1
  <2>3. /\ ~(step' = "move" /\ Gated')
        /\ step' = "deactivate" /\ kind' = "land" => gate' = "SUCCESS" /\ loadOff'
    BY <1>1, <1>3, <2>1
  <2> QED
    BY <1>1, <2>1, <2>2, <2>3
<1> QED
  BY <1>2, <1>3 DEF Time

LEMMA NextGateLeads == ~SlowClock /\ GateLeads /\ [MoveNext]_allVars => GateLeads'
<1> SUFFICES ASSUME ~SlowClock, GateLeads, [MoveNext]_allVars PROVE GateLeads'
  OBVIOUS
<1>1. ASSUME NEW k \in Kinds, StartMove(k) PROVE GateLeads'
  BY <1>1 DEF StartMove, NextMove, GateLeads, Steps, Gated, LandingIsSeen
<1>2. CASE Cancel
  <2>1. step' = "idle" /\ result' = "CANCELLED" /\ gate' # "RUNNING" /\ elapsed' = elapsed
        /\ nap' = nap
    BY <1>2, GateHalts DEF Cancel
  <2> QED
    BY <2>1 DEF GateLeads, Steps, LandingIsSeen
<1>3. CASE UNCHANGED <<gate, loadOff, elapsed, treeVars, due>>
  BY <1>3 DEF treeVars, GateLeads, Steps, Gated, LandingIsSeen
<1>4. ManagerAnswers \/ GoalEnds \/ MpcStops \/ OperatorMoves \/ UNCHANGED allVars
      => UNCHANGED <<gate, loadOff, elapsed, treeVars, due>>
  BY DEF ManagerAnswers, GoalEnds, MpcStops, OperatorMoves, allVars, moveVars, vars, gateVars
<1>5. Sensors => UNCHANGED <<gate, loadOff, elapsed, treeVars, due>>
  BY DEF Sensors, PublishJointState, PublishTransform, TransformFreezes, moveVars, gateVars
<1> QED
  BY <1>1, <1>2, <1>3, <1>4, <1>5, TickGateLeads, TimeGateLeads DEF MoveNext

\* Only the gate ends a landing well: the long Sleep behind the descent is never over
\* before the gate's timeout, as long as both clocks keep the same pace
\* (cbs_subtree_a2b_movement.xml, "the move branch never ends the move").
THEOREM LandingSeen ==
    ASSUME ~SlowClock
    PROVE  MoveSpec => []LandingIsSeen
<1>1. MoveInit => GateLeads
  BY InitGateLeads
<1>2. GateLeads /\ [MoveNext]_allVars => GateLeads'
  BY NextGateLeads
<1>3. GateLeads => LandingIsSeen
  BY DEF GateLeads
<1> QED
  BY <1>1, <1>2, <1>3, PTL DEF MoveSpec

-----------------------------------------------------------------------------
(* The hanging reference is taken before the driving branch moves: by then the  *)
(* gate's clock is past the time it takes it over.                              *)

RestFirst ==
    /\ gate = "RUNNING" /\ lowest # Unset => tf # "none"
    /\ ReferenceAtRest

LEMMA InitRestFirst == MoveInit => RestFirst
BY DEF MoveInit, Init, RestFirst, ReferenceAtRest

\* A tick of the gate past that time leaves it with the reference, or with nothing to
\* take it of.
LEMMA TickTakesReference ==
    ASSUME Counted, RestFirst, OnRunning, elapsed >= Reference, gate' = "RUNNING",
           lowest' # Unset, window' # NoReadings
    PROVE  reference' # Unset /\ tf' # "none"
<1>1. gate = "RUNNING" /\ UNCHANGED tf
  BY DEF OnRunning
<1>2. tf # "none"
  <2>1. CASE tf = "none"
    BY <1>1, <2>1 DEF OnRunning, RestFirst
  <2> QED
    BY <2>1
<1>3. window' \in Windows
  BY <1>1, SpinCounts DEF OnRunning
<1>4. Median(window') \in Efforts
  BY <1>3, MedianExists
<1>5. \A e \in Efforts : e # Unset
  BY MarkAssumption, EffortAssumption
<1>6. ~(elapsed < Reference)
  BY DurationAssumption DEF Counted, TypeOK
<1>7. reference' # Unset
  BY <1>2, <1>4, <1>5, <1>6 DEF OnRunning, GiveUp, Judge
<1> QED
  BY <1>1, <1>2, <1>7

LEMMA MoveRestFirst ==
    ASSUME Counted, GateLeads, GateLeads', RestFirst, Move
    PROVE  RestFirst'
<1>1. CASE gate' # "RUNNING"
  BY <1>1 DEF RestFirst, ReferenceAtRest
<1>2. CASE gate' = "RUNNING" /\ OnRunning
  <2>1. UNCHANGED <<elapsed, tf>> /\ step' = "move"
    BY <1>2 DEF OnRunning, GateLeads
  <2>2. lowest' # Unset => tf' # "none"
    BY <1>2 DEF OnRunning, RestFirst
  <2>3. leg' # "sleep" => elapsed >= Reference
    BY <1>2, <2>1, NapAssumption, DurationAssumption DEF GateLeads
  <2> QED
    BY <1>2, <2>2, <2>3, TickTakesReference DEF RestFirst, ReferenceAtRest
<1>3. CASE gate' = "RUNNING" /\ ~OnRunning
  <2>1. ~Gated
    BY <1>3, GateHalts DEF Move
  <2>2. gate # "RUNNING" /\ UNCHANGED gate
    BY <1>3, <2>1, GateHalts DEF Move, GateLeads, vars, gateVars
  <2> QED
    BY <1>3, <2>2
<1> QED
  BY <1>1, <1>2, <1>3

LEMMA NextRestFirst ==
    ASSUME Counted, GateLeads, GateLeads', RestFirst, [MoveNext]_allVars
    PROVE  RestFirst'
<1>1. CASE gate' # "RUNNING"
  BY <1>1 DEF RestFirst, ReferenceAtRest
<1>2. ASSUME UNCHANGED <<gate, lowest, tf, window, reference, kind, leg>> PROVE RestFirst'
  BY <1>2 DEF RestFirst, ReferenceAtRest, GateLeads, Gated
<1>3. ASSUME NEW k \in Kinds, StartMove(k) PROVE gate' # "RUNNING"
  BY <1>3 DEF StartMove, NextMove
<1>4. CASE Tick
  <2>1. CASE Move
    BY <2>1, MoveRestFirst
  <2>2. Released => gate' # "RUNNING"
    BY GateHalts DEF Released
  <2>3. CASE Activated
    <3>1. CASE OnStart
      BY <3>1 DEF OnStart, RestFirst, ReferenceAtRest
    <3>2. CASE UNCHANGED vars
      BY <1>1, <2>3, <3>2 DEF Activated, GateLeads, vars, gateVars
    <3> QED
      BY <2>3, <3>1, <3>2 DEF Activated
  <2>4. AwaitApproval \/ AwaitAnswer \/ Deactivated \/ Settle \/ Undone
        => UNCHANGED vars /\ UNCHANGED <<kind, leg>>
    BY DEF AwaitApproval, AwaitAnswer, Deactivated, Settle, Undone, treeVars
  <2>5. CASE UNCHANGED vars /\ UNCHANGED <<kind, leg>>
    BY <1>2, <2>5 DEF vars, readVars, gateVars, envVars
  <2> QED
    BY <1>1, <1>4, <2>1, <2>2, <2>3, <2>4, <2>5 DEF Tick
<1>5. Cancel => gate' # "RUNNING"
  BY GateHalts DEF Cancel
<1>6. Time => UNCHANGED <<gate, lowest, tf, window, reference, kind, leg>>
  BY DEF Time, ClockTick, vars, readVars, gateVars, envVars
<1>7. ManagerAnswers \/ GoalEnds \/ MpcStops \/ OperatorMoves \/ UNCHANGED allVars
      => UNCHANGED <<gate, lowest, tf, window, reference, kind, leg>>
  BY DEF ManagerAnswers, GoalEnds, MpcStops, OperatorMoves, allVars, moveVars, treeVars, vars,
         readVars, gateVars, envVars
<1>8. CASE Sensors
  <2>1. UNCHANGED <<gate, lowest, window, reference, kind, step, leg>>
    BY <1>8 DEF Sensors, PublishJointState, PublishTransform, TransformFreezes, moveVars,
                treeVars, readVars, gateVars
  <2>2. tf' = tf \/ tf' # "none"
    BY <1>8 DEF Sensors, PublishJointState, PublishTransform, TransformFreezes
  <2> QED
    BY <2>1, <2>2 DEF RestFirst, ReferenceAtRest, Gated
<1> QED
  BY <1>1, <1>2, <1>3, <1>4, <1>5, <1>6, <1>7, <1>8 DEF MoveNext

\* The descent does not start before the gate has its reference: the Sleep in front of it
\* is longer than the time the reference is taken over, and both clocks keep the same pace
\* (cbs_subtree_a2b_movement.xml, the Sleep of a gated descent; kReference).
THEOREM AtRest ==
    ASSUME ~SlowClock
    PROVE  MoveSpec => []ReferenceAtRest
<1>1. MoveInit => GateLeads /\ RestFirst
  BY InitGateLeads, InitRestFirst
<1>2. GateLeads /\ [MoveNext]_allVars => GateLeads'
  BY NextGateLeads
<1>3. Counted /\ GateLeads /\ GateLeads' /\ RestFirst /\ [MoveNext]_allVars => RestFirst'
  BY NextRestFirst
<1>4. RestFirst => ReferenceAtRest
  BY DEF RestFirst
<1>5. Spec => []Counted
  BY InitCounted, NextCounted, PTL DEF Spec
<1> QED
  BY <1>1, <1>2, <1>3, <1>4, <1>5, GateInside, PTL DEF MoveSpec

-----------------------------------------------------------------------------
(* load_off through a move: false until the gate of this move has its word, which a  *)
(* watch speaks as a failure only.                                                   *)

ContactFollowsTheGate ==
    /\ step \in Steps
    /\ gate = "RUNNING" => step = "move" /\ watching = (kind = "watch")
    /\ gate = "SUCCESS" => kind # "watch"
    /\ step = "move" => leg # "none"
    /\ step # "idle" => result = "none"
    /\ step \notin {"idle", "undo"} /\ kind # "land" => ~loadOff
    /\ step \in {"approve", "activate", "move"} => ~loadOff
    /\ step = "undo" /\ ~Gated => ~loadOff
    /\ step = "undo" /\ loadOff /\ kind = "watch" => leg # "none" /\ gate = "FAILURE"
    /\ ContactIsOfThisMove

LEMMA InitContact == MoveInit => ContactFollowsTheGate
BY DEF MoveInit, Init, ContactFollowsTheGate, Steps, ContactIsOfThisMove, Gated

\* A watch has no landing to report.
LEMMA WatchNeverLands ==
    ASSUME watching, OnRunning
    PROVE  gate' # "SUCCESS"
BY GateTick DEF InReach

LEMMA TickContact == ContactFollowsTheGate /\ Tick => ContactFollowsTheGate'
<1> SUFFICES ASSUME ContactFollowsTheGate, Tick PROVE ContactFollowsTheGate'
  OBVIOUS
<1> USE DEF ContactFollowsTheGate, Steps, ContactIsOfThisMove, Gated
<1>1. CASE AwaitApproval
  BY <1>1 DEF AwaitApproval, vars, gateVars
<1>2. CASE AwaitAnswer
  BY <1>2 DEF AwaitAnswer, treeVars, vars, gateVars
<1>3. CASE Released
  <2>1. /\ step' = "undo" /\ UNCHANGED <<result, kind, leg, loadOff>>
        /\ gate' # "RUNNING" /\ (gate' = "SUCCESS" => gate = "SUCCESS")
    BY <1>3, GateHalts DEF Released, Undo
  <2>2. result = "none" /\ (kind # "land" => ~loadOff)
    BY <1>3 DEF Released
  <2> QED
    BY <2>1, <2>2
<1>4. CASE Activated
  <2>1. CASE step' = "move" /\ leg' = "sleep" /\ OnStart /\ watching' = (kind = "watch")
             /\ UNCHANGED <<result, kind>> /\ step = "activate"
    <3>1. gate' = "RUNNING" /\ loadOff' = FALSE
      BY <2>1 DEF OnStart
    <3> QED
      BY <2>1, <3>1
  <2>2. CASE step' = "move" /\ Drive /\ UNCHANGED <<vars, result, kind>> /\ step = "activate"
    <3>1. leg' # "none" /\ UNCHANGED <<gate, loadOff, watching>>
      BY <2>2 DEF Drive, vars, gateVars
    <3> QED
      BY <2>2, <3>1
  <2>3. CASE Undo /\ UNCHANGED <<vars, leg, kind>> /\ step = "activate"
    <3>1. step' = "undo" /\ UNCHANGED <<gate, loadOff, result>>
      BY <2>3 DEF Undo, vars, gateVars
    <3> QED
      BY <2>3, <3>1
  <2> QED
    BY <1>4, <2>1, <2>2, <2>3 DEF Activated
<1>5. CASE Move
  <2>1. step = "move" /\ ~loadOff /\ leg # "none" /\ result = "none" /\ UNCHANGED kind
    BY <1>5 DEF Move
  <2>2. CASE HaltGate /\ (GoOn \/ Undo) /\ leg' = leg
    <3>1. /\ gate' # "RUNNING" /\ ~loadOff'
          /\ gate' = "SUCCESS" => gate = "SUCCESS"
      BY <2>1, <2>2, GateHalts
    <3>2. step' \in {"deactivate", "undo"} /\ result' = result
      BY <2>2 DEF GoOn, Undo
    <3> QED
      BY <2>1, <2>2, <3>1, <3>2
  <2>3. CASE LegRuns /\ Stay /\ UNCHANGED vars
    <3>1. leg' # "none" /\ UNCHANGED <<step, result, gate, loadOff, watching>>
      BY <2>1, <2>3 DEF LegRuns, Drive, Stay, vars, gateVars
    <3> QED
      BY <2>1, <3>1
  <2>4. CASE Gated /\ LegRuns /\ OnRunning
    <3>1. /\ leg' # "none" /\ gate = "RUNNING" /\ UNCHANGED watching
          /\ gate' = "RUNNING" => ~loadOff'
          /\ gate' = "SUCCESS" => kind # "watch"
      <4>1. leg' # "none"
        BY <2>1, <2>4 DEF LegRuns, Drive
      <4>2. gate = "RUNNING" /\ UNCHANGED watching
        BY <2>4 DEF OnRunning
      <4>3. gate' = "RUNNING" => ~loadOff'
        BY <2>1, <2>4, GateTick
      <4>4. kind = "watch" => watching
        BY <4>2
      <4> QED
        BY <2>4, <4>1, <4>2, <4>3, <4>4, WatchNeverLands
    <3>2. CASE gate' = "RUNNING" /\ Stay
      BY <2>1, <3>1, <3>2 DEF Stay
    <3>3. CASE gate' = "SUCCESS" /\ GoOn
      BY <2>1, <2>4, <3>1, <3>3 DEF GoOn
    <3>4. CASE gate' = "FAILURE" /\ Undo
      BY <2>1, <2>4, <3>1, <3>4 DEF Undo
    <3> QED
      BY <1>5, <2>2, <2>3, <2>4, <3>2, <3>3, <3>4 DEF Move
  <2> QED
    BY <1>5, <2>2, <2>3, <2>4 DEF Move
<1>6. CASE UNCHANGED <<vars, kind, leg>> /\ step \in {"deactivate", "settle", "undo"}
           /\ (step' = "idle" => result' = IF step = "undo" THEN "FAILURE" ELSE "SUCCESS")
           /\ (step' # "idle" => UNCHANGED result)
           /\ (step' = step \/ (step' \in {"settle", "undo"} /\ step # "undo") \/ step' = "idle")
  <2>1. UNCHANGED <<gate, loadOff, watching>>
    BY <1>6 DEF vars, gateVars
  <2> QED
    BY <1>6, <2>1
<1>7. CASE Deactivated
  BY <1>6, <1>7 DEF Deactivated, Finish, Undo
<1>8. CASE Settle
  BY <1>6, <1>8 DEF Settle, Stay, Finish, Undo
<1>9. CASE Undone
  BY <1>6, <1>9 DEF Undone, Finish
<1> QED
  BY <1>1, <1>2, <1>3, <1>4, <1>5, <1>7, <1>8, <1>9 DEF Tick

LEMMA NextContact == ContactFollowsTheGate /\ [MoveNext]_allVars => ContactFollowsTheGate'
<1> SUFFICES ASSUME ContactFollowsTheGate, [MoveNext]_allVars PROVE ContactFollowsTheGate'
  OBVIOUS
<1> USE DEF ContactFollowsTheGate, Steps, ContactIsOfThisMove, Gated
<1>1. ASSUME NEW k \in Kinds, StartMove(k) PROVE ContactFollowsTheGate'
  BY <1>1 DEF StartMove, NextMove, ClearContact
<1>2. CASE Cancel
  <2>1. /\ step' = "idle" /\ result' = "CANCELLED" /\ UNCHANGED <<kind, leg, loadOff>>
        /\ gate' # "RUNNING" /\ (gate' = "SUCCESS" => gate = "SUCCESS")
    BY <1>2, GateHalts DEF Cancel
  <2>2. kind \notin {"watch", "land"} => ~loadOff
    BY <1>2 DEF Cancel
  <2> QED
    BY <2>1, <2>2
<1>3. ASSUME UNCHANGED <<gate, loadOff, watching, kind, step, leg, result>>
      PROVE  ContactFollowsTheGate'
  BY <1>3
<1>4. Time => UNCHANGED <<gate, loadOff, watching, kind, step, leg, result>>
  BY DEF Time, ClockTick, vars, gateVars
<1>5. ManagerAnswers \/ GoalEnds \/ MpcStops \/ OperatorMoves \/ UNCHANGED allVars
      => UNCHANGED <<gate, loadOff, watching, kind, step, leg, result>>
  BY DEF ManagerAnswers, GoalEnds, MpcStops, OperatorMoves, allVars, moveVars, treeVars, vars,
         gateVars
<1>6. Sensors => UNCHANGED <<gate, loadOff, watching, kind, step, leg, result>>
  BY DEF Sensors, PublishJointState, PublishTransform, TransformFreezes, moveVars, treeVars,
         gateVars
<1> QED
  BY <1>1, <1>2, <1>3, <1>4, <1>5, <1>6, TickContact DEF MoveNext

\* A watched descent that its caller takes for early contact was ended by its own gate, and
\* one that arrived, or a move without a gate, leaves nothing to be taken for it, in spite
\* of cancelled runs, lost switches and landings before it (load_off, cleared by every
\* caller; max_above_target -1 of the watch).
THEOREM ContactIsOwn == MoveSpec => []ContactIsOfThisMove
<1>1. ContactFollowsTheGate => ContactIsOfThisMove
  BY DEF ContactFollowsTheGate
<1> QED
  BY InitContact, NextContact, <1>1, PTL DEF MoveSpec
=============================================================================
