--------------------------- MODULE BlockCycleProofs ---------------------------
(***************************************************************************)
(* What the assembly loop guarantees for plans of every length, however    *)
(* often its runs are cut off and begun again.                             *)
(***************************************************************************)
EXTENDS BlockCycle, FiniteSetTheorems, TLAPS

(* The inductive invariant. *)

\* A task is being worked on.
InCycle == pc \notin {"idle", "ask", "survey"}

\* What holds of the blocks and their record whatever the tree is at.
SlotIsRecorded == \A b \in Blocks : at[b] = "slot" => status[b] = "PLACED"

OneInJaws == \A b, c \in Blocks : at[b] = "jaws" /\ at[c] = "jaws" => b = c

HeldIsMarked == \A b, c \in Blocks : status[b] = "MOVE" /\ at[c] = "jaws" => b = c

MovesInOrder == \A b, c \in Blocks : status[b] = "MOVE" /\ c < b => status[c] = "PLACED"

\* The task is the first block of the plan that was not on record as placed.
TaskIsFirst ==
    InCycle => \A c \in Blocks : /\ c < task => status[c] = "PLACED"
                                 /\ c # task => status[c] # "MOVE"

\* What the jaws hold, and what the record says, at each call.
JawsFollowTheCall ==
    /\ CarriesItsTask
    /\ pc \in {"descend", "close", "clear", "away", "finish"} => JawsEmpty
    /\ pc = "grasp" => \A b \in Blocks : at[b] = "jaws" => b = task

RecordFollowsTheCall ==
    /\ pc \in Picking \cup {"mark"} => status[task] # "MOVE"
    /\ pc \in {"signal"} \cup (Carrying \ {"mark", "letgo"}) => status[task] = "MOVE"
    /\ pc \in {"letgo", "clear", "away", "finish"} => status[task] = "PLACED"

GoalFollowsTheErrand ==
    /\ pickup # "slot"
    /\ InCycle => planHasTask /\ (errand = "wall" <=> place = "slot")
    /\ pc \in {"clear", "away", "finish"} => at[task] = place
    /\ pc = "finish" => errand = "wall"
    /\ pc \in {"status", "hover"} => at[task] # "slot"

\* A move that carries a block is made with the payload told, and no request owed that
\* could be served in mid-move.
LoadIsSettled ==
    pc \in {"lift", "gauge", "carry"} /\ MpcDrives => payload /\ owed = "none"

\* Within a run that began tidy only the block of the task may be on record as placed
\* and elsewhere: between the record and the opening, and during a regrip.
TidyRecord ==
    tidy /\ pc # "idle" =>
        \A b \in Blocks :
            status[b] = "PLACED" /\ at[b] # "slot"
            => InCycle /\ b = task /\ (pc = "letgo" \/ errand # "wall")

TidyDone ==
    tidy /\ pc \in {"ask", "survey"} /\ ~planHasTask => \A b \in Blocks : at[b] = "slot"

Ledger == SlotIsRecorded /\ OneInJaws /\ HeldIsMarked /\ MovesInOrder

Course ==
    /\ TaskIsFirst
    /\ JawsFollowTheCall
    /\ RecordFollowsTheCall
    /\ GoalFollowsTheErrand
    /\ LoadIsSettled

Tidiness == TidyRecord /\ TidyDone /\ TidyRunBuilds

IInv == TypeOK /\ Ledger /\ Course /\ Tidiness

-----------------------------------------------------------------------------
(* What the steps share. *)

\* A run that is over for a failure is at no call, and has built nothing.
LEMMA OverIsHarmless ==
    ASSUME pc' = "idle", outcome' # "SUCCESS", pickup' # "slot"
    PROVE  Course' /\ Tidiness'
BY DEF Course, Tidiness, TaskIsFirst, JawsFollowTheCall, CarriesItsTask, Carrying,
       RecordFollowsTheCall, Picking, GoalFollowsTheErrand, LoadIsSettled, InCycle,
       TidyRecord, TidyDone, TidyRunBuilds

\* Within a cycle there is a task, so a failure is no completed plan.
LEMMA FailIsNoSuccess ==
    ASSUME IInv, InCycle, Fail
    PROVE  pc' = "idle" /\ outcome' = "FAILURE"
BY DEF IInv, Course, GoalFollowsTheErrand, Fail, PlanComplete

\* A step that moves no block and writes no status keeps the ledger.
LEMMA SameLedger ==
    ASSUME Ledger, UNCHANGED <<at, status>>
    PROVE  Ledger'
BY DEF Ledger, SlotIsRecorded, OneInJaws, HeldIsMarked, MovesInOrder

\* A step within a cycle that moves no block, writes no status and sets no target.
LEMMA SameCourse ==
    ASSUME IInv, UNCHANGED <<attempt, taskVars, goalVars, at, status, tidy>>,
           MpcOK', InCycle,
           \/ Fail
           \/ /\ UNCHANGED outcome
              /\ JawsFollowTheCall' /\ RecordFollowsTheCall' /\ LoadIsSettled'
              /\ pc' \in Picking \cup Carrying \cup {"signal", "away"}
              /\ pc' = "away" => pc = "clear"
              /\ pc' = "hover" => pc = "status"
              /\ (pc' = "letgo") = (pc = "letgo")
    PROVE  IInv'
<1> USE DEF taskVars, goalVars, mpcVars
<1>1. ControlOK' /\ GoalOK' /\ FlagOK' /\ MpcOK' /\ BlockOK'
  BY DEF IInv, TypeOK, ControlOK, GoalOK, FlagOK, MpcOK, BlockOK, Fail, PlanComplete,
         Picking, Carrying
<1>2. CountOK'
  BY DEF IInv, TypeOK, CountOK, InCycle
<1>3. Ledger'
  BY SameLedger DEF IInv
<1>4. CASE Fail
  BY <1>1, <1>2, <1>3, <1>4, FailIsNoSuccess, OverIsHarmless
     DEF IInv, TypeOK, Course, GoalFollowsTheErrand
<1>5. CASE ~Fail
  <2>1. TaskIsFirst' /\ GoalFollowsTheErrand'
    BY <1>5 DEF IInv, Course, TaskIsFirst, GoalFollowsTheErrand, InCycle, Picking, Carrying
  <2>2. TidyRecord' /\ TidyDone'
    BY <1>5 DEF IInv, Tidiness, TidyRecord, TidyDone, InCycle, Picking, Carrying
  <2>3. TidyRunBuilds'
    BY <1>5 DEF IInv, Tidiness, TidyRunBuilds
  <2> QED
    BY <1>1, <1>2, <1>3, <1>5, <2>1, <2>2, <2>3 DEF IInv, TypeOK, Course, Tidiness
<1> QED
  BY <1>4, <1>5

-----------------------------------------------------------------------------
(* Calls that leave the block where it is. *)

\* The status decides: a block on record as carried is not picked.
LEMMA LookIInv == ASSUME IInv, Look PROVE IInv'
<1> USE DEF Look, TakeOverOrPick, Goto, Picking, Carrying, taskVars, goalVars, mpcVars
<1>1. CASE Fail
  BY <1>1, SameCourse DEF IInv, TypeOK, MpcOK, InCycle
<1>2. CASE TakeOverOrPick
  <2>1. RecordFollowsTheCall'
    BY <1>2 DEF IInv, Course, RecordFollowsTheCall
  <2>2. JawsFollowTheCall' /\ LoadIsSettled'
    BY <1>2 DEF JawsFollowTheCall, CarriesItsTask, LoadIsSettled
  <2> QED
    BY <1>2, <2>1, <2>2, SameCourse DEF IInv, TypeOK, MpcOK, InCycle
<1> QED
  BY <1>1, <1>2 DEF Look

\* What is squeezed is the block on record as carried, and that is the task's.
LEMMA AwaitSignalIInv == ASSUME IInv, AwaitSignal PROVE IInv'
<1> USE DEF AwaitSignal, Goto, Picking, Carrying, taskVars, goalVars, mpcVars
<1>1. CASE Fail
  BY <1>1, SameCourse DEF IInv, TypeOK, MpcOK, InCycle
<1>2. CASE Squeezed /\ Goto("recover")
  <2>1. status[task] = "MOVE" /\ task \in Blocks
    BY DEF IInv, Course, RecordFollowsTheCall, TypeOK, CountOK
  <2>2. PICK b \in Blocks : at[b] = "jaws"
    BY <1>2 DEF Squeezed, JawsEmpty
  <2>3. \A c \in Blocks : at[c] = "jaws" <=> c = task
    BY <2>1, <2>2 DEF IInv, Ledger, HeldIsMarked
  <2>4. JawsFollowTheCall' /\ RecordFollowsTheCall' /\ LoadIsSettled'
    BY <1>2, <2>1, <2>3 DEF JawsFollowTheCall, CarriesItsTask, RecordFollowsTheCall,
                            LoadIsSettled
  <2> QED
    BY <1>2, <2>4, SameCourse DEF IInv, TypeOK, MpcOK, InCycle
<1> QED
  BY <1>1, <1>2 DEF AwaitSignal

\* The take-over loads the payload before anything moves.
LEMMA RecoverIInv == ASSUME IInv, Recover PROVE IInv'
<1> USE DEF Recover, TakeOver, Goto, Picking, Carrying, taskVars, goalVars, mpcVars
<1>1. CASE Fail
  BY <1>1, SameCourse DEF IInv, TypeOK, MpcOK, InCycle
<1>2. CASE TakeOver
  <2>1. JawsFollowTheCall' /\ RecordFollowsTheCall' /\ LoadIsSettled'
    BY <1>2 DEF IInv, Course, JawsFollowTheCall, CarriesItsTask, RecordFollowsTheCall,
                LoadIsSettled
  <2> QED
    BY <1>2, <2>1, SameCourse DEF IInv, TypeOK, MpcOK, InCycle
<1> QED
  BY <1>1, <1>2 DEF Recover

\* The moves of the pick, empty on the way in, and the lift.
LEMMA MovesIInv == ASSUME IInv, Approach \/ Lift PROVE IInv'
<1> USE DEF Approach, Lift, Call, Goto, Picking, Carrying, taskVars, goalVars, mpcVars
<1>1. InCycle /\ MpcOK'
  BY DEF InCycle, IInv, TypeOK, MpcOK
<1>2. CASE Fail
  BY <1>1, <1>2, SameCourse
<1>3. CASE ~Fail
  <2>1. JawsFollowTheCall' /\ RecordFollowsTheCall' /\ LoadIsSettled'
    BY <1>3 DEF IInv, Course, JawsFollowTheCall, CarriesItsTask, JawsEmpty,
                RecordFollowsTheCall, LoadIsSettled
  <2> QED
    BY <1>1, <1>3, <2>1, SameCourse
<1> QED
  BY <1>2, <1>3

\* Only the block of the task can be what the jaws closed on.
LEMMA GraspIInv == ASSUME IInv, Grasp PROVE IInv'
<1> USE DEF Grasp, Goto, Picking, Carrying, taskVars, goalVars, mpcVars
<1>1. CASE Fail
  BY <1>1, SameCourse DEF IInv, TypeOK, MpcOK, InCycle
<1>2. CASE Squeezed /\ Goto("mark")
  <2>1. PICK b \in Blocks : at[b] = "jaws"
    BY <1>2 DEF Squeezed, JawsEmpty
  <2>2. \A c \in Blocks : at[c] = "jaws" <=> c = task
    BY <2>1 DEF IInv, Course, JawsFollowTheCall
  <2>3. JawsFollowTheCall' /\ RecordFollowsTheCall' /\ LoadIsSettled'
    BY <1>2, <2>2 DEF IInv, Course, JawsFollowTheCall, CarriesItsTask,
                      RecordFollowsTheCall, LoadIsSettled
  <2> QED
    BY <1>2, <2>3, SameCourse DEF IInv, TypeOK, MpcOK, InCycle
<1> QED
  BY <1>1, <1>2 DEF Grasp

\* The block is carried to the ground.
LEMMA CarryIInv == ASSUME IInv, Carry PROVE IInv'
<1> USE DEF Carry, BeforeOpening, Goto, Picking, Carrying, taskVars, goalVars, mpcVars
<1>1. CASE Fail
  BY <1>1, SameCourse DEF IInv, TypeOK, MpcOK, InCycle
<1>2. CASE BeforeOpening
  <2>1. JawsFollowTheCall' /\ RecordFollowsTheCall' /\ LoadIsSettled'
    BY <1>2 DEF IInv, Course, JawsFollowTheCall, CarriesItsTask, RecordFollowsTheCall,
                LoadIsSettled
  <2> QED
    BY <1>2, <2>1, SameCourse DEF IInv, TypeOK, MpcOK, InCycle
<1> QED
  BY <1>1, <1>2 DEF Carry

\* The payload is told, or the failure is fatal where it matters.
LEMMA PayloadIInv == ASSUME IInv, Load \/ Clear PROVE IInv'
<1> USE DEF Load, Clear, SetPayload, AfterAnswer, Goto, Picking, Carrying, taskVars, goalVars, mpcVars
<1>1. InCycle /\ MpcOK'
  BY DEF InCycle, IInv, TypeOK, MpcOK
<1>2. CASE Fail
  BY <1>1, <1>2, SameCourse
<1>3. CASE ~Fail
  <2>1. JawsFollowTheCall' /\ RecordFollowsTheCall' /\ LoadIsSettled'
    BY <1>3 DEF IInv, Course, JawsFollowTheCall, CarriesItsTask, JawsEmpty,
                RecordFollowsTheCall, LoadIsSettled
  <2> QED
    BY <1>1, <1>3, <2>1, SameCourse
<1> QED
  BY <1>2, <1>3

-----------------------------------------------------------------------------
(* Calls that move the block or write its status. *)

\* A run may end at any call: what has been done is done, and nothing else changes.
LEMMA CutOff ==
    ASSUME IInv, InCycle, Fail, UNCHANGED <<attempt, taskVars, goalVars, mpcVars, tidy>>,
           BlockOK', Ledger'
    PROVE  IInv'
<1> USE DEF taskVars, goalVars, mpcVars
<1>1. pc' = "idle" /\ outcome' = "FAILURE"
  BY FailIsNoSuccess
<1>2. Course' /\ Tidiness'
  BY <1>1, OverIsHarmless DEF IInv, Course, GoalFollowsTheErrand
<1>3. ControlOK' /\ GoalOK' /\ FlagOK' /\ MpcOK'
  BY <1>1 DEF IInv, TypeOK, ControlOK, GoalOK, FlagOK, MpcOK
<1>4. CountOK'
  BY <1>1 DEF IInv, TypeOK, CountOK
<1> QED
  BY <1>2, <1>3, <1>4 DEF IInv, TypeOK

\* A call that goes on keeps the counters in range.
LEMMA GoesOn ==
    ASSUME IInv, InCycle, UNCHANGED <<attempt, taskVars, mpcVars, tidy, outcome>>,
           pc' \in {"signal", "clear", "away", "finish"} \cup Picking \cup Carrying
    PROVE  ControlOK' /\ CountOK' /\ FlagOK' /\ MpcOK'
<1> USE DEF taskVars, mpcVars
<1>1. ControlOK' /\ FlagOK' /\ MpcOK'
  BY DEF IInv, TypeOK, ControlOK, FlagOK, MpcOK, Picking, Carrying
<1>2. CountOK'
  BY DEF IInv, TypeOK, CountOK, InCycle, Picking, Carrying
<1> QED
  BY <1>1, <1>2

\* The look from the hover may point the pick elsewhere, and never at a slot.
LEMMA HoverIInv == ASSUME IInv, Hover PROVE IInv'
<1> USE DEF taskVars, goalVars, mpcVars
<1>1. InCycle /\ pc = "hover" /\ task \in Blocks /\ at[task] # "slot"
  BY DEF Hover, InCycle, IInv, TypeOK, CountOK, Course, GoalFollowsTheErrand
<1>2. Ledger' /\ BlockOK' /\ MpcOK'
  BY SameLedger DEF Hover, IInv, TypeOK, BlockOK, MpcOK
<1>3. CASE Fail /\ UNCHANGED pickup
  BY <1>1, <1>2, <1>3, CutOff DEF Hover
<1>4. CASE ~(Fail /\ UNCHANGED pickup)
  <2>1. pc' = "open" /\ outcome' = outcome
    BY <1>4 DEF Hover, Goto
  <2>2. pickup' = pickup \/ (at[task] # "jaws" /\ pickup' \in {pickup, at[task], Nowhere})
    BY <1>4 DEF Hover, Refined
  <2>3. pickup' \in Spots \cup {Nowhere} /\ pickup' # "slot"
    BY <1>1, <2>2 DEF IInv, TypeOK, GoalOK, BlockOK, Course, GoalFollowsTheErrand, Nowhere
  <2>4. TypeOK'
    BY <1>1, <1>2, <2>1, <2>3, GoesOn DEF Hover, TypeOK, IInv, GoalOK, Picking
  <2>5. TaskIsFirst' /\ JawsFollowTheCall' /\ RecordFollowsTheCall' /\ LoadIsSettled'
    BY <1>1, <2>1 DEF Hover, IInv, Course, TaskIsFirst, JawsFollowTheCall, CarriesItsTask,
       RecordFollowsTheCall, LoadIsSettled, InCycle, Picking, Carrying
  <2>6. GoalFollowsTheErrand'
    BY <1>1, <2>1, <2>3 DEF Hover, IInv, Course, GoalFollowsTheErrand, InCycle
  <2>7. Tidiness'
    BY <1>1, <2>1 DEF Hover, IInv, Tidiness, TidyRecord, TidyDone, TidyRunBuilds, InCycle
  <2> QED
    BY <1>2, <2>4, <2>5, <2>6, <2>7 DEF IInv, Course
<1> QED
  BY <1>3, <1>4

\* Only the block of the task is ever marked, and it is marked in the jaws.
LEMMA WrittenLedger ==
    ASSUME IInv, InCycle, at' = at, NEW new \in {"MOVE", "PLACED"},
           status' \in {status, [status EXCEPT ![task] = new]},
           new = "MOVE" => \A b \in Blocks : at[b] = "jaws" <=> b = task
    PROVE  Ledger' /\ BlockOK'
<1>1. task \in Blocks
  BY DEF IInv, TypeOK, CountOK, InCycle
<1>2. BlockOK'
  BY <1>1 DEF IInv, TypeOK, BlockOK
<1>3. CASE status' = status
  BY <1>2, <1>3, SameLedger DEF IInv
<1>4. CASE status' = [status EXCEPT ![task] = new]
  <2>1. \A b \in Blocks : status'[b] = IF b = task THEN new ELSE status[b]
    BY <1>1, <1>4 DEF IInv, TypeOK, BlockOK
  <2>2. \A b \in Blocks : b # task => status[b] # "MOVE"
    BY DEF IInv, Course, TaskIsFirst, InCycle
  <2>3. SlotIsRecorded' /\ OneInJaws'
    BY <1>1, <2>1 DEF IInv, Ledger, SlotIsRecorded, OneInJaws
  <2>4. HeldIsMarked'
    BY <2>1, <2>2 DEF HeldIsMarked
  <2>5. MovesInOrder'
    <3>1. \A c \in Blocks : c < task => status[c] = "PLACED"
      BY DEF IInv, Course, TaskIsFirst, InCycle
    <3>2. \A c \in Blocks : c < task => c # task
      BY <1>1 DEF Blocks
    <3> QED
      BY <2>1, <2>2, <3>1, <3>2 DEF MovesInOrder
  <2> QED
    BY <1>2, <2>3, <2>4, <2>5 DEF Ledger
<1> QED
  BY <1>3, <1>4

\* TASK_MOVE is written for the block in the jaws.
LEMMA MarkIInv == ASSUME IInv, Mark PROVE IInv'
<1> USE DEF taskVars, goalVars, mpcVars
<1>1. InCycle /\ pc = "mark" /\ task \in Blocks
  BY DEF Mark, InCycle, IInv, TypeOK, CountOK
<1>2. \A b \in Blocks : at[b] = "jaws" <=> b = task
  BY <1>1 DEF IInv, Course, JawsFollowTheCall, CarriesItsTask, Carrying
<1>3. Ledger' /\ BlockOK'
  BY <1>1, <1>2, WrittenLedger DEF Mark
<1>4. CASE Fail
  BY <1>1, <1>3, <1>4, CutOff DEF Mark
<1>5. CASE ~Fail
  <2>1. status' = [status EXCEPT ![task] = "MOVE"] /\ pc' = "load" /\ outcome' = outcome
    BY <1>5 DEF Mark, Goto
  <2>2. \A b \in Blocks : status'[b] = IF b = task THEN "MOVE" ELSE status[b]
    BY <1>1, <2>1 DEF IInv, TypeOK, BlockOK
  <2>3. TypeOK'
    BY <1>1, <1>3, <2>1, GoesOn DEF Mark, TypeOK, IInv, GoalOK, Carrying
  <2>4. TaskIsFirst'
    <3>1. \A c \in Blocks : c < task => c # task
      BY <1>1 DEF Blocks
    <3> QED
      BY <1>1, <2>2, <3>1 DEF Mark, IInv, Course, TaskIsFirst, InCycle
  <2>5. JawsFollowTheCall' /\ RecordFollowsTheCall' /\ LoadIsSettled'
    BY <1>1, <1>2, <2>1, <2>2 DEF Mark, JawsFollowTheCall, CarriesItsTask,
       RecordFollowsTheCall, LoadIsSettled, Picking, Carrying
  <2>6. GoalFollowsTheErrand'
    BY <1>1, <2>1 DEF Mark, IInv, Course, GoalFollowsTheErrand, InCycle
  <2>7. Tidiness'
    BY <1>1, <2>1, <2>2 DEF Mark, IInv, Tidiness, TidyRecord, TidyDone, TidyRunBuilds, InCycle
  <2> QED
    BY <1>3, <2>3, <2>4, <2>5, <2>6, <2>7 DEF IInv, Course
<1> QED
  BY <1>4, <1>5

\* The placed pose is written before the jaws open.
LEMMA RecordIInv == ASSUME IInv, Record PROVE IInv'
<1> USE DEF taskVars, goalVars, mpcVars
<1>1. InCycle /\ pc = "record" /\ task \in Blocks
  BY DEF Record, InCycle, IInv, TypeOK, CountOK
<1>2. Ledger' /\ BlockOK'
  BY <1>1, WrittenLedger DEF Record
<1>3. CASE Fail
  BY <1>1, <1>2, <1>3, CutOff DEF Record
<1>4. CASE ~Fail
  <2>1. status' = [status EXCEPT ![task] = "PLACED"] /\ pc' = "letgo" /\ outcome' = outcome
    BY <1>4 DEF Record, Goto
  <2>2. \A b \in Blocks : status'[b] = IF b = task THEN "PLACED" ELSE status[b]
    BY <1>1, <2>1 DEF IInv, TypeOK, BlockOK
  <2>3. TypeOK'
    BY <1>1, <1>2, <2>1, GoesOn DEF Record, TypeOK, IInv, GoalOK, Carrying
  <2>4. TaskIsFirst'
    BY <1>1, <2>2 DEF Record, IInv, Course, TaskIsFirst, InCycle
  <2>5. JawsFollowTheCall' /\ RecordFollowsTheCall' /\ LoadIsSettled'
    BY <1>1, <2>1, <2>2 DEF Record, IInv, Course, JawsFollowTheCall, CarriesItsTask,
       RecordFollowsTheCall, LoadIsSettled, Picking, Carrying
  <2>6. GoalFollowsTheErrand'
    BY <1>1, <2>1 DEF Record, IInv, Course, GoalFollowsTheErrand, InCycle
  <2>7. Tidiness'
    BY <1>1, <2>1, <2>2 DEF Record, IInv, Tidiness, TidyRecord, TidyDone, TidyRunBuilds,
                            InCycle
  <2> QED
    BY <1>2, <2>3, <2>4, <2>5, <2>6, <2>7 DEF IInv, Course
<1> QED
  BY <1>3, <1>4

\* Opening the jaws leaves a block where it was or lets it fall.
LEMMA OpenIInv == ASSUME IInv, Open PROVE IInv'
<1> USE DEF taskVars, goalVars, mpcVars
<1>1. InCycle /\ pc = "open" /\ at' \in {at, Emptied}
  BY DEF Open, InCycle
<1>2. \A b \in Blocks : at'[b] \in {at[b], IF at[b] = "jaws" THEN "astray" ELSE at[b]}
  BY <1>1 DEF Emptied
<1>3. BlockOK'
  BY <1>1 DEF Open, Emptied, IInv, TypeOK, BlockOK, Spots
<1>4. Ledger'
  BY <1>2 DEF Open, IInv, Ledger, SlotIsRecorded, OneInJaws, HeldIsMarked, MovesInOrder
<1>5. CASE Fail
  BY <1>1, <1>3, <1>4, <1>5, CutOff DEF Open
<1>6. CASE ~Fail
  <2>1. at' = Emptied /\ pc' = "descend" /\ outcome' = outcome
    BY <1>6 DEF Open, Goto
  <2>2. \A b \in Blocks : at'[b] = IF at[b] = "jaws" THEN "astray" ELSE at[b]
    BY <2>1 DEF Emptied
  <2>3. TypeOK'
    BY <1>1, <1>3, <2>1, GoesOn DEF Open, TypeOK, IInv, GoalOK, Picking
  <2>4. JawsFollowTheCall'
    BY <2>1, <2>2 DEF JawsFollowTheCall, CarriesItsTask, JawsEmpty, Carrying
  <2>5. TaskIsFirst' /\ RecordFollowsTheCall' /\ GoalFollowsTheErrand' /\ LoadIsSettled'
    BY <1>1, <2>1 DEF Open, IInv, Course, TaskIsFirst, RecordFollowsTheCall,
       GoalFollowsTheErrand, LoadIsSettled, InCycle, Picking, Carrying
  <2>6. Tidiness'
    BY <1>1, <2>1, <2>2 DEF Open, IInv, Tidiness, TidyRecord, TidyDone, TidyRunBuilds, InCycle
  <2> QED
    BY <1>4, <2>3, <2>4, <2>5, <2>6 DEF IInv, Course
<1> QED
  BY <1>5, <1>6

\* The jaws close on the block of the task or on nothing.
LEMMA CloseIInv == ASSUME IInv, Close PROVE IInv'
<1> USE DEF taskVars, goalVars, mpcVars
<1>1. InCycle /\ pc = "close" /\ task \in Blocks
  BY DEF Close, InCycle, IInv, TypeOK, CountOK
<1>2. (JawsEmpty /\ at[task] # "slot") \/ at' = at
  BY <1>1 DEF Close, IInv, Course, JawsFollowTheCall, GoalFollowsTheErrand
<1>3. \A b \in Blocks : at'[b] = at[b] \/ (b = task /\ at'[b] = "jaws" /\ at[b] # "slot")
  <2>1. at' = at \/ at' = [at EXCEPT ![task] = "jaws"]
    BY DEF Close
  <2>2. CASE at' = at
    BY <2>2
  <2>3. CASE at' = [at EXCEPT ![task] = "jaws"]
    BY <1>1, <1>2, <2>3 DEF IInv, TypeOK, BlockOK
  <2> QED
    BY <2>1, <2>2, <2>3
<1>4. \A b \in Blocks : at'[b] = "jaws" => b = task
  BY <1>1, <1>3 DEF IInv, Course, JawsFollowTheCall, JawsEmpty
<1>5. \A b \in Blocks : status[b] # "MOVE"
  BY <1>1 DEF IInv, Course, TaskIsFirst, RecordFollowsTheCall, Picking
<1>6. BlockOK'
  BY <1>1 DEF Close, IInv, TypeOK, BlockOK, Spots
<1>7. SlotIsRecorded'
  BY <1>3 DEF Close, IInv, Ledger, SlotIsRecorded
<1>8. Ledger'
  BY <1>4, <1>5, <1>7 DEF Close, Ledger, OneInJaws, HeldIsMarked, MovesInOrder
<1>9. CASE Fail
  BY <1>1, <1>6, <1>8, <1>9, CutOff DEF Close
<1>10. CASE ~Fail
  <2>1. pc' = "grasp" /\ outcome' = outcome
    BY <1>10 DEF Close, Goto
  <2>2. TypeOK'
    BY <1>1, <1>6, <2>1, GoesOn DEF Close, TypeOK, IInv, GoalOK, Picking
  <2>3. JawsFollowTheCall'
    BY <1>4, <2>1 DEF Close, JawsFollowTheCall, CarriesItsTask, Carrying
  <2>4. TaskIsFirst' /\ RecordFollowsTheCall' /\ GoalFollowsTheErrand' /\ LoadIsSettled'
    BY <1>1, <2>1 DEF Close, IInv, Course, TaskIsFirst, RecordFollowsTheCall,
       GoalFollowsTheErrand, LoadIsSettled, InCycle, Picking, Carrying
  <2>5. TidyRecord'
    BY <1>1, <1>3, <2>1 DEF Close, IInv, Tidiness, TidyRecord, InCycle
  <2>6. TidyDone' /\ TidyRunBuilds'
    BY <1>1, <1>3, <2>1 DEF Close, IInv, Tidiness, TidyDone, TidyRunBuilds
  <2> QED
    BY <1>8, <2>2, <2>3, <2>4, <2>5, <2>6 DEF IInv, Course, Tidiness
<1> QED
  BY <1>9, <1>10

\* The regrip turns on the targets, and the wall's come back with the second grip.
LEMMA GaugeIInv == ASSUME IInv, Gauge PROVE IInv'
<1> USE DEF taskVars, mpcVars
<1>1. InCycle /\ pc = "gauge" /\ Ledger' /\ BlockOK'
  BY SameLedger DEF Gauge, InCycle, IInv, TypeOK, BlockOK
<1>2. CASE Fail /\ UNCHANGED goalVars
  BY <1>1, <1>2, CutOff DEF Gauge
<1>3. CASE ~(Fail /\ UNCHANGED goalVars)
  <2>1. pc' = "carry" /\ outcome' = outcome /\ pickup' = pickup
    BY <1>3 DEF Gauge, Goto, goalVars
  <2>2. /\ place' \in {"slot", "spot"} /\ errand' \in {"wall", "setdown", "repick"}
        /\ errand' = "wall" <=> place' = "slot"
        /\ errand = "wall" \/ errand' = "wall"
    BY <1>1, <1>3 DEF Gauge, TargetsBack, goalVars, IInv, TypeOK, GoalOK, Course,
                      GoalFollowsTheErrand, InCycle
  <2>3. TypeOK'
    BY <1>1, <2>1, <2>2, GoesOn DEF Gauge, TypeOK, IInv, GoalOK, Carrying
  <2>4. TaskIsFirst' /\ JawsFollowTheCall' /\ RecordFollowsTheCall' /\ LoadIsSettled'
    BY <1>1, <2>1 DEF Gauge, IInv, Course, TaskIsFirst, JawsFollowTheCall, CarriesItsTask,
       RecordFollowsTheCall, LoadIsSettled, InCycle, Picking, Carrying
  <2>5. GoalFollowsTheErrand'
    BY <1>1, <2>1, <2>2 DEF Gauge, IInv, Course, GoalFollowsTheErrand, InCycle
  <2>6. TidyRecord'
    BY <1>1, <2>1 DEF Gauge, IInv, Tidiness, TidyRecord, InCycle, Course,
                      RecordFollowsTheCall, Carrying
  <2>7. TidyDone' /\ TidyRunBuilds'
    BY <1>1, <2>1 DEF Gauge, IInv, Tidiness, TidyDone, TidyRunBuilds
  <2> QED
    BY <1>1, <2>3, <2>4, <2>5, <2>6, <2>7 DEF IInv, Course, Tidiness
<1> QED
  BY <1>2, <1>3

\* The jaws open over the target, and the record is true.
LEMMA LetGoIInv == ASSUME IInv, LetGo PROVE IInv'
<1> USE DEF taskVars, goalVars, mpcVars
<1>1. InCycle /\ pc = "letgo" /\ task \in Blocks /\ place \in {"slot", "spot"}
  BY DEF LetGo, InCycle, IInv, TypeOK, CountOK, GoalOK
<1>2. /\ at[task] = "jaws" /\ status[task] = "PLACED"
      /\ \A b \in Blocks : at[b] = "jaws" <=> b = task
      /\ \A b \in Blocks : status[b] # "MOVE"
  BY <1>1 DEF IInv, Course, JawsFollowTheCall, CarriesItsTask, RecordFollowsTheCall,
              TaskIsFirst, InCycle, Carrying
<1>3. BlockOK'
  BY <1>1 DEF LetGo, IInv, TypeOK, BlockOK, Spots
<1>4. at' = at \/ \A b \in Blocks : at'[b] = IF b = task THEN place ELSE at[b]
  BY <1>1 DEF LetGo, IInv, TypeOK, BlockOK
<1>5. SlotIsRecorded' /\ OneInJaws'
  BY <1>1, <1>2, <1>4 DEF LetGo, IInv, Ledger, SlotIsRecorded, OneInJaws
<1>6. Ledger'
  BY <1>2, <1>5 DEF LetGo, Ledger, HeldIsMarked, MovesInOrder
<1>7. CASE Fail
  BY <1>1, <1>3, <1>6, <1>7, CutOff DEF LetGo
<1>8. CASE ~Fail
  <2>1. pc' = "clear" /\ outcome' = outcome
    BY <1>8 DEF LetGo, Goto
  <2>2. \A b \in Blocks : at'[b] = IF b = task THEN place ELSE at[b]
    BY <1>1, <1>8 DEF LetGo, IInv, TypeOK, BlockOK
  <2>3. TypeOK'
    BY <1>1, <1>3, <2>1, GoesOn DEF LetGo, TypeOK, IInv, GoalOK
  <2>4. JawsFollowTheCall'
    BY <1>1, <1>2, <2>1, <2>2 DEF JawsFollowTheCall, CarriesItsTask, JawsEmpty, Carrying
  <2>5. TaskIsFirst' /\ RecordFollowsTheCall' /\ LoadIsSettled'
    BY <1>1, <1>2, <2>1 DEF LetGo, IInv, Course, TaskIsFirst, RecordFollowsTheCall,
       LoadIsSettled, InCycle, Picking, Carrying
  <2>6. GoalFollowsTheErrand'
    BY <1>1, <2>1, <2>2 DEF LetGo, IInv, Course, GoalFollowsTheErrand, InCycle
  <2>7. TidyRecord'
    BY <1>1, <2>1, <2>2 DEF LetGo, IInv, Tidiness, TidyRecord, InCycle, Course,
                            GoalFollowsTheErrand
  <2>8. TidyDone' /\ TidyRunBuilds'
    BY <1>1, <1>2, <2>1, <2>2 DEF LetGo, IInv, Tidiness, TidyDone, TidyRunBuilds
  <2> QED
    BY <1>6, <2>3, <2>4, <2>5, <2>6, <2>7, <2>8 DEF IInv, Course, Tidiness
<1> QED
  BY <1>7, <1>8

\* After a set-down the re-pick goes to the spot, and after the wall's place it ends.
LEMMA AwayIInv == ASSUME IInv, Away PROVE IInv'
<1> USE DEF taskVars, mpcVars
<1>1. InCycle /\ pc = "away" /\ Ledger' /\ BlockOK'
  BY SameLedger DEF Away, InCycle, IInv, TypeOK, BlockOK
<1>2. CASE Fail /\ UNCHANGED <<pickup, errand>>
  BY <1>1, <1>2, CutOff DEF Away, goalVars
<1>3. CASE ~(Fail /\ UNCHANGED <<pickup, errand>>)
  <2>1. /\ outcome' = outcome
        /\ \/ pc' = "finish" /\ errand = "wall" /\ errand' = errand /\ pickup' = pickup
           \/ pc' = "hover" /\ errand = "setdown" /\ errand' = "repick" /\ pickup' = "spot"
    BY <1>3 DEF Away, Goto
  <2>2. TypeOK'
    BY <1>1, <2>1, GoesOn DEF Away, TypeOK, IInv, GoalOK, Spots, Picking
  <2>3. TaskIsFirst' /\ JawsFollowTheCall' /\ RecordFollowsTheCall' /\ LoadIsSettled'
    BY <1>1, <2>1 DEF Away, IInv, Course, TaskIsFirst, JawsFollowTheCall, CarriesItsTask,
       JawsEmpty, RecordFollowsTheCall, LoadIsSettled, InCycle, Picking, Carrying
  <2>4. GoalFollowsTheErrand'
    BY <1>1, <2>1 DEF Away, IInv, Course, GoalFollowsTheErrand, InCycle
  <2>5. Tidiness'
    BY <1>1, <2>1 DEF Away, IInv, Tidiness, TidyRecord, TidyDone, TidyRunBuilds, InCycle
  <2> QED
    BY <1>1, <2>2, <2>3, <2>4, <2>5 DEF IInv, Course
<1> QED
  BY <1>2, <1>3

-----------------------------------------------------------------------------
(* The assembly loop. *)

\* The cycle ends with a block in its slot and on record.
LEMMA FinishIInv == ASSUME IInv, Finish PROVE IInv'
<1> USE DEF taskVars, goalVars, mpcVars
<1>1. InCycle /\ pc = "finish" /\ task \in Blocks
  BY DEF Finish, InCycle, IInv, TypeOK, CountOK
<1>2. status[task] = "PLACED" /\ at[task] = "slot" /\ planHasTask /\ pickup # "slot"
  BY <1>1 DEF IInv, Course, RecordFollowsTheCall, GoalFollowsTheErrand, InCycle, TypeOK,
              GoalOK
<1>3. status' = status
  BY <1>1, <1>2 DEF Finish, IInv, TypeOK, BlockOK
<1>4. Ledger' /\ BlockOK'
  BY <1>3, SameLedger DEF Finish, IInv, TypeOK, BlockOK
<1>5. CASE Fail /\ UNCHANGED attempt
  BY <1>1, <1>4, <1>5, CutOff DEF Finish
<1>6. CASE ~(Fail /\ UNCHANGED attempt)
  <2>1. pc' = "ask" /\ outcome' = outcome /\ attempt' = 1
    BY <1>6 DEF Finish, Goto
  <2>2. CountOK'
    BY <1>1, <2>1, PlanAssumption DEF Finish, IInv, TypeOK, CountOK, Blocks
  <2>3. ControlOK' /\ GoalOK' /\ FlagOK' /\ MpcOK'
    BY <2>1 DEF Finish, IInv, TypeOK, ControlOK, GoalOK, FlagOK, MpcOK
  <2>4. Course'
    BY <1>2, <2>1 DEF Finish, Course, TaskIsFirst, JawsFollowTheCall, CarriesItsTask,
       RecordFollowsTheCall, GoalFollowsTheErrand, LoadIsSettled, InCycle, Picking, Carrying
  <2>5. TidyRecord'
    <3>1. errand = "wall"
      BY <1>1 DEF IInv, Course, GoalFollowsTheErrand
    <3> QED
      BY <1>1, <1>2, <1>3, <2>1, <3>1 DEF Finish, IInv, Tidiness, TidyRecord
  <2>6. TidyDone' /\ TidyRunBuilds'
    BY <1>1, <1>2, <2>1 DEF Finish, IInv, Tidiness, TidyDone, TidyRunBuilds
  <2> QED
    BY <1>4, <2>2, <2>3, <2>4, <2>5, <2>6 DEF IInv, TypeOK, Tidiness
<1> QED
  BY <1>5, <1>6

\* A task is the first block not on record as placed, so no other block is marked.
LEMMA OfferIInv ==
    ASSUME IInv, pc = "ask", Offer, UNCHANGED <<at, status, mpcVars, tidy>>
    PROVE  IInv'
<1> USE DEF goalVars, mpcVars
<1>1. /\ task' \in Blocks /\ status[task'] # "PLACED"
      /\ \A c \in Blocks : status[c] # "PLACED" => task' <= c
      /\ coarse' = IF at[task'] = "jaws" THEN "stock" ELSE at[task']
      /\ pickup' = coarse'
  BY DEF Offer, Unplaced
<1>2. /\ planHasTask' = TRUE /\ place' = "slot" /\ errand' = "wall"
      /\ pc' = "status" /\ outcome' = outcome /\ attempt' = attempt
  BY DEF Offer, Goto
<1>3. Ledger' /\ BlockOK'
  BY SameLedger DEF IInv, TypeOK, BlockOK
<1>4. pickup' # "slot" /\ pickup' \in Spots /\ coarse' \in Spots /\ at'[task'] # "slot"
  BY <1>1 DEF IInv, Ledger, SlotIsRecorded, TypeOK, BlockOK, Spots
<1>5. CountOK'
  BY <1>1, <1>2, <1>4 DEF IInv, TypeOK, CountOK, Blocks
<1>6. ControlOK' /\ GoalOK' /\ FlagOK' /\ MpcOK'
  BY <1>2, <1>4 DEF IInv, TypeOK, ControlOK, GoalOK, FlagOK, MpcOK
<1>7. \A c \in Blocks : c < task' => status[c] = "PLACED"
  BY <1>1 DEF Blocks
<1>8. \A c \in Blocks : c # task' => status[c] # "MOVE"
  <2> SUFFICES ASSUME NEW c \in Blocks, c # task', status[c] = "MOVE" PROVE FALSE
    OBVIOUS
  <2>1. task' < c
    BY <1>1, <1>7 DEF Blocks
  <2> QED
    BY <1>1, <2>1 DEF IInv, Ledger, MovesInOrder
<1>9. TaskIsFirst'
  BY <1>7, <1>8 DEF TaskIsFirst
<1>10. JawsFollowTheCall' /\ RecordFollowsTheCall' /\ LoadIsSettled'
  BY <1>2 DEF JawsFollowTheCall, CarriesItsTask, RecordFollowsTheCall, LoadIsSettled,
              Picking, Carrying
<1>11. GoalFollowsTheErrand'
  BY <1>2, <1>4 DEF GoalFollowsTheErrand
<1>12. Tidiness'
  BY <1>2 DEF IInv, Tidiness, TidyRecord, TidyDone, TidyRunBuilds, InCycle
<1> QED
  BY <1>3, <1>5, <1>6, <1>9, <1>10, <1>11, <1>12 DEF IInv, TypeOK, Course

\* No task: the attempt is over, and with the last attempt so is the loop.
LEMMA AskAgainIInv ==
    ASSUME IInv, pc \in {"ask", "survey"}, planHasTask' \in BOOLEAN,
           UNCHANGED <<task, coarse, goalVars, at, status, mpcVars, tidy>>,
           tidy /\ ~planHasTask' => \A b \in Blocks : at[b] = "slot",
           \/ AskAgain(planHasTask')
           \/ Goto("survey") /\ UNCHANGED attempt
    PROVE  IInv'
<1> USE DEF goalVars, mpcVars
<1>1. Ledger' /\ BlockOK'
  BY SameLedger DEF IInv, TypeOK, BlockOK
<1>2. pc' \in {"ask", "survey", "idle"} /\ outcome' \in {outcome, "FAILURE", "SUCCESS"}
  BY DEF AskAgain, PlanComplete, Goto
<1>3. CountOK'
  <2>1. attempt \in 1..Attempts /\ task \in 0..Count /\ coarse \in Spots
    BY DEF IInv, TypeOK, CountOK
  <2>2. attempt' = attempt \/ (attempt < Attempts /\ attempt' = attempt + 1)
    BY DEF AskAgain
  <2>3. attempt' \in 1..Attempts
    BY <2>1, <2>2, PlanAssumption
  <2> QED
    BY <1>2, <2>1, <2>3 DEF CountOK
<1>4. ControlOK' /\ GoalOK' /\ FlagOK' /\ MpcOK'
  BY <1>2 DEF IInv, TypeOK, ControlOK, GoalOK, FlagOK, MpcOK
<1>5. Course'
  BY <1>2 DEF IInv, Course, TaskIsFirst, JawsFollowTheCall, CarriesItsTask,
     RecordFollowsTheCall, GoalFollowsTheErrand, LoadIsSettled, InCycle, Picking, Carrying
<1>6. TidyRecord' /\ TidyDone'
  BY <1>2 DEF IInv, Tidiness, TidyRecord, TidyDone, InCycle
<1>7. TidyRunBuilds'
  BY DEF AskAgain, PlanComplete, Goto, IInv, Tidiness, TidyRunBuilds
<1> QED
  BY <1>1, <1>3, <1>4, <1>5, <1>6, <1>7 DEF IInv, TypeOK, Tidiness

\* No block is left unplaced in a tidy run only when all are in their slots.
LEMMA AskIInv == ASSUME IInv, Ask PROVE IInv'
<1>1. CASE Offer
  BY <1>1, OfferIInv DEF Ask
<1>2. CASE NoTaskYet
  <2>1. planHasTask' = (Unplaced # {}) \/ planHasTask' = planHasTask
    BY <1>2 DEF NoTaskYet
  <2>2. planHasTask' \in BOOLEAN
    BY <2>1 DEF IInv, TypeOK, FlagOK, MpcOK
  <2>3. tidy /\ Unplaced = {} => \A b \in Blocks : at[b] = "slot"
    BY DEF Ask, Unplaced, IInv, Tidiness, TidyRecord, InCycle
  <2>4. tidy /\ ~planHasTask' => \A b \in Blocks : at[b] = "slot"
    BY <2>1, <2>3 DEF Ask, IInv, Tidiness, TidyDone
  <2>5. AskAgain(planHasTask') \/ (Goto("survey") /\ UNCHANGED attempt)
    BY <1>2 DEF NoTaskYet
  <2> QED
    BY <1>2, <2>2, <2>4, <2>5, AskAgainIInv DEF Ask, NoTaskYet
<1> QED
  BY <1>1, <1>2 DEF Ask

LEMMA SurveyIInv == ASSUME IInv, Survey PROVE IInv'
<1>1. planHasTask' = planHasTask /\ UNCHANGED <<task, coarse>> /\ planHasTask \in BOOLEAN
  BY DEF Survey, taskVars, IInv, TypeOK, FlagOK
<1>2. tidy /\ ~planHasTask' => \A b \in Blocks : at[b] = "slot"
  BY <1>1 DEF Survey, IInv, Tidiness, TidyDone
<1>3. AskAgain(planHasTask')
  BY <1>1 DEF Survey
<1> QED
  BY <1>1, <1>2, <1>3, AskAgainIInv DEF Survey, taskVars

-----------------------------------------------------------------------------
(* Between two runs. *)

\* A run is tidy when what it finds is.
LEMMA StartRunIInv == ASSUME IInv, StartRun PROVE IInv'
<1> USE DEF goalVars, mpcVars
<1>1. Ledger' /\ BlockOK'
  BY SameLedger DEF StartRun, IInv, TypeOK, BlockOK
<1>2. CountOK'
  BY PlanAssumption DEF StartRun, CountOK, NoTask, IInv, TypeOK
<1>3. ControlOK' /\ GoalOK'
  BY DEF StartRun, IInv, TypeOK, ControlOK, GoalOK
<1>4. FlagOK' /\ MpcOK'
  BY DEF StartRun, IInv, TypeOK, FlagOK, MpcOK
<1>5. Course'
  BY DEF StartRun, IInv, Course, TaskIsFirst, JawsFollowTheCall, CarriesItsTask,
     RecordFollowsTheCall, GoalFollowsTheErrand, LoadIsSettled, InCycle, Picking, Carrying
<1>6. Tidiness'
  BY DEF StartRun, Tidiness, TidyRecord, TidyDone, TidyRunBuilds
<1> QED
  BY <1>1, <1>2, <1>3, <1>4, <1>5, <1>6 DEF IInv, TypeOK

\* No run is on while the operator is at work.
LEMMA IdleCourse ==
    ASSUME IInv, pc = "idle", UNCHANGED <<pc, outcome, attempt, taskVars, goalVars, tidy>>,
           MpcOK', Ledger', BlockOK', TidyRunBuilds'
    PROVE  IInv'
<1> USE DEF taskVars, goalVars, mpcVars
<1>1. CountOK'
  BY DEF IInv, TypeOK, CountOK
<1>2. ControlOK' /\ GoalOK' /\ FlagOK' /\ MpcOK'
  BY DEF IInv, TypeOK, ControlOK, GoalOK, FlagOK, MpcOK
<1>3. Course'
  BY DEF IInv, Course, TaskIsFirst, JawsFollowTheCall, CarriesItsTask,
     RecordFollowsTheCall, GoalFollowsTheErrand, LoadIsSettled, InCycle, Picking, Carrying
<1> QED
  BY <1>1, <1>2, <1>3 DEF IInv, TypeOK, Tidiness, TidyRecord, TidyDone

LEMMA PutBackIInv == ASSUME IInv, NEW b \in Blocks, PutBack(b) PROVE IInv'
<1>1. \A c \in Blocks : at'[c] = IF c = b THEN "stock" ELSE at[c]
  BY DEF PutBack, IInv, TypeOK, BlockOK
<1>2. BlockOK' /\ MpcOK
  BY DEF PutBack, IInv, TypeOK, BlockOK, FlagOK, MpcOK, Spots
<1>3. Ledger'
  BY <1>1 DEF PutBack, IInv, Ledger, SlotIsRecorded, OneInJaws, HeldIsMarked, MovesInOrder
<1>4. TidyRunBuilds'
  BY <1>1 DEF PutBack, IInv, Tidiness, TidyRunBuilds
<1> QED
  BY <1>2, <1>3, <1>4, IdleCourse DEF PutBack, MpcOK, mpcVars

LEMMA ResetIInv == ASSUME IInv, NEW b \in Blocks, Reset(b) PROVE IInv'
<1>1. \A c \in Blocks : status'[c] = IF c = b THEN "FREE" ELSE status[c]
  BY DEF Reset, IInv, TypeOK, BlockOK
<1>2. BlockOK' /\ MpcOK
  BY DEF Reset, IInv, TypeOK, BlockOK, FlagOK, MpcOK
<1>3. Ledger'
  BY <1>1 DEF Reset, IInv, Ledger, SlotIsRecorded, OneInJaws, HeldIsMarked, MovesInOrder
<1>4. TidyRunBuilds'
  BY DEF Reset, IInv, Tidiness, TidyRunBuilds
<1> QED
  BY <1>2, <1>3, <1>4, IdleCourse DEF Reset, MpcOK, mpcVars

LEMMA RestartMpcIInv == ASSUME IInv, RestartMpc PROVE IInv'
<1>1. Ledger' /\ BlockOK' /\ TidyRunBuilds' /\ MpcOK'
  BY SameLedger DEF RestartMpc, IInv, TypeOK, BlockOK, MpcOK, Tidiness, TidyRunBuilds
<1> QED
  BY <1>1, IdleCourse DEF RestartMpc

\* Only crane_mpc moves.
LEMMA OnlyMpc ==
    ASSUME IInv, MpcOK', LoadIsSettled',
           UNCHANGED <<pc, outcome, attempt, taskVars, goalVars, at, status, tidy>>
    PROVE  IInv'
<1> USE DEF taskVars, goalVars
<1>1. Ledger' /\ BlockOK'
  BY SameLedger DEF IInv, TypeOK, BlockOK
<1>2. CountOK'
  BY DEF IInv, TypeOK, CountOK
<1>3. ControlOK' /\ GoalOK' /\ FlagOK'
  BY DEF IInv, TypeOK, ControlOK, GoalOK, FlagOK
<1>4. TaskIsFirst' /\ JawsFollowTheCall' /\ RecordFollowsTheCall'
  BY DEF IInv, Course, TaskIsFirst, JawsFollowTheCall, CarriesItsTask, JawsEmpty,
         RecordFollowsTheCall, InCycle
<1>5. GoalFollowsTheErrand'
  BY DEF IInv, Course, GoalFollowsTheErrand, InCycle
<1>6. Tidiness'
  BY DEF IInv, Tidiness, TidyRecord, TidyDone, TidyRunBuilds, InCycle
<1> QED
  BY <1>1, <1>2, <1>3, <1>4, <1>5, <1>6 DEF IInv, TypeOK, Course

\* No request is owed while a block is carried where crane_mpc drives.
LEMMA ServeLateIInv == ASSUME IInv, ServeLate PROVE IInv'
<1>1. MpcOK'
  BY DEF ServeLate, MpcOK
<1>2. LoadIsSettled'
  BY DEF ServeLate, IInv, Course, LoadIsSettled
<1> QED
  BY <1>1, <1>2, OnlyMpc DEF ServeLate

LEMMA CancelIInv == ASSUME IInv, Cancel PROVE IInv'
<1> USE DEF Cancel, taskVars, goalVars, mpcVars
<1>1. Ledger' /\ BlockOK'
  BY SameLedger DEF IInv, TypeOK, BlockOK
<1>2. CountOK'
  BY DEF IInv, TypeOK, CountOK
<1>3. ControlOK' /\ GoalOK' /\ FlagOK' /\ MpcOK'
  BY DEF IInv, TypeOK, ControlOK, GoalOK, FlagOK, MpcOK
<1>4. Course' /\ Tidiness'
  BY OverIsHarmless DEF IInv, Course, GoalFollowsTheErrand
<1> QED
  BY <1>1, <1>2, <1>3, <1>4 DEF IInv, TypeOK

-----------------------------------------------------------------------------
(* The theorems. *)

LEMMA InitIInv == Init => IInv
<1> SUFFICES ASSUME Init PROVE IInv
  OBVIOUS
<1>1. \A b \in Blocks : at[b] = "stock" /\ status[b] = "FREE"
  BY DEF Init
<1>2. CountOK
  BY PlanAssumption DEF Init, CountOK, NoTask, Spots
<1>3. ControlOK /\ GoalOK /\ FlagOK /\ MpcOK
  BY DEF Init, ControlOK, GoalOK, FlagOK, MpcOK, Spots
<1>4. BlockOK
  BY DEF Init, BlockOK, Spots
<1>5. Ledger
  BY <1>1 DEF Ledger, SlotIsRecorded, OneInJaws, HeldIsMarked, MovesInOrder
<1>6. Course
  BY DEF Init, Course, TaskIsFirst, JawsFollowTheCall, CarriesItsTask, RecordFollowsTheCall,
         GoalFollowsTheErrand, LoadIsSettled, InCycle, Picking, Carrying
<1>7. Tidiness
  BY DEF Init, Tidiness, TidyRecord, TidyDone, TidyRunBuilds
<1> QED
  BY <1>2, <1>3, <1>4, <1>5, <1>6, <1>7 DEF IInv, TypeOK

LEMMA StutterIInv == ASSUME IInv, UNCHANGED vars PROVE IInv'
<1>1. MpcOK' /\ LoadIsSettled'
  BY DEF vars, mpcVars, IInv, TypeOK, MpcOK, Course, LoadIsSettled
<1> QED
  BY <1>1, OnlyMpc DEF vars

LEMMA NextIInv == IInv /\ [Next]_vars => IInv'
<1> SUFFICES ASSUME IInv, [Next]_vars PROVE IInv'
  OBVIOUS
<1>1. CASE Ask \/ Survey \/ Finish
  BY <1>1, AskIInv, SurveyIInv, FinishIInv
<1>2. CASE Look \/ Hover \/ AwaitSignal \/ Recover \/ Grasp \/ Carry
  BY <1>2, LookIInv, HoverIInv, AwaitSignalIInv, RecoverIInv, GraspIInv, CarryIInv
<1>3. CASE Approach \/ Lift \/ Load \/ Clear
  BY <1>3, MovesIInv, PayloadIInv
<1>4. CASE Open \/ Close \/ Mark \/ Gauge
  BY <1>4, OpenIInv, CloseIInv, MarkIInv, GaugeIInv
<1>5. CASE Record \/ LetGo \/ Away
  BY <1>5, RecordIInv, LetGoIInv, AwayIInv
<1>6. CASE StartRun \/ ServeLate \/ RestartMpc \/ Cancel
  BY <1>6, StartRunIInv, ServeLateIInv, RestartMpcIInv, CancelIInv
<1>7. CASE \E b \in Blocks : PutBack(b) \/ Reset(b)
  BY <1>7, PutBackIInv, ResetIInv
<1>8. CASE UNCHANGED vars
  BY <1>8, StutterIInv
<1> QED
  BY <1>1, <1>2, <1>3, <1>4, <1>5, <1>6, <1>7, <1>8 DEF Next, Tree

LEMMA Invariance == Spec => []IInv
BY InitIInv, NextIInv, PTL DEF Spec

\* Every variable keeps its type, the count of the attempts its bound, and there is a
\* task whenever the tree works on one.
THEOREM TypeCorrect == Spec => []TypeOK
<1>1. IInv => TypeOK
  BY DEF IInv
<1> QED
  BY <1>1, Invariance, PTL

\* From the mark to the opening of the jaws the tree carries the block of its task and
\* no other, however long the plan, and whatever the runs before have left.
THEOREM OwnBlockCarried == Spec => []CarriesItsTask
<1>1. IInv => CarriesItsTask
  BY DEF IInv, Course, JawsFollowTheCall
<1> QED
  BY <1>1, Invariance, PTL

\* The pick never opens its jaws over a block that is on record as carried: such a
\* block is the first the plan server offers, and it is taken over.
THEOREM CarriedIsTakenOver == Spec => []HeldIsTakenOver
<1>1. IInv => HeldIsTakenOver
  BY DEF IInv, Course, TaskIsFirst, RecordFollowsTheCall, InCycle, Picking, HeldIsTakenOver
<1> QED
  BY <1>1, Invariance, PTL

\* Where crane_mpc drives it is told of the block before any move that carries it.
THEOREM LoadKnown == Spec => []MpcKnowsTheLoad
<1>1. IInv => MpcKnowsTheLoad
  BY DEF IInv, Course, LoadIsSettled, MpcKnowsTheLoad
<1> QED
  BY <1>1, Invariance, PTL

\* A run that begins with empty jaws and a true record succeeds only with every block
\* of the plan in its slot.
THEOREM TidyRunsBuild == Spec => []TidyRunBuilds
<1>1. IInv => TidyRunBuilds
  BY DEF IInv, Tidiness
<1> QED
  BY <1>1, Invariance, PTL

\* A block in its slot is on record as placed, so no pick goes there: whatever is cut
\* off and run again, no step takes it out.
THEOREM SlotsKept == Spec => StaysInSlot
<1>1. ASSUME IInv, [Next]_vars PROVE \A b \in Blocks : at[b] = "slot" => at'[b] = "slot"
  <2>1. CASE UNCHANGED at
    BY <2>1
  <2>2. CASE Open
    BY <2>2 DEF Open, Emptied
  <2>3. CASE Close
    <3>1. at[task] # "slot" \/ at' = at
      BY <1>1, <2>3 DEF Close, IInv, Course, GoalFollowsTheErrand
    <3>2. at' = at \/ at' = [at EXCEPT ![task] = "jaws"]
      BY <2>3 DEF Close
    <3> QED
      BY <1>1, <3>1, <3>2 DEF IInv, TypeOK, BlockOK
  <2>4. CASE LetGo
    <3>1. at[task] # "slot"
      BY <1>1, <2>4 DEF LetGo, IInv, TypeOK, CountOK, Course, JawsFollowTheCall,
                        CarriesItsTask, Carrying
    <3>2. at' = at \/ at' = [at EXCEPT ![task] = place]
      BY <2>4 DEF LetGo
    <3> QED
      BY <1>1, <3>1, <3>2 DEF IInv, TypeOK, BlockOK
  <2>5. CASE \E b \in Blocks : PutBack(b)
    BY <1>1, <2>5 DEF PutBack, IInv, TypeOK, BlockOK
  <2>6. CASE Ask \/ Survey \/ Look \/ Hover \/ AwaitSignal \/ Recover \/ Approach \/ Grasp \/ Mark
             \/ Load \/ Lift \/ Gauge \/ Carry \/ Record \/ Clear \/ Away \/ Finish
    BY <2>1, <2>6 DEF Ask, Survey, Look, Hover, AwaitSignal, Recover, Approach, Grasp, Mark, Load,
       Lift, Gauge, Carry, Record, Clear, Away, Finish, Call, SetPayload
  <2>7. CASE StartRun \/ ServeLate \/ RestartMpc \/ Cancel \/ (\E b \in Blocks : Reset(b)) \/ UNCHANGED vars
    BY <2>1, <2>7 DEF StartRun, ServeLate, RestartMpc, Cancel, Reset, vars
  <2> QED
    BY <1>1, <2>2, <2>3, <2>4, <2>5, <2>6, <2>7 DEF Next, Tree
<1> QED
  BY <1>1, Invariance, PTL DEF Spec, StaysInSlot
-----------------------------------------------------------------------------
(* How many calls a run has left.  The blocks that wait count as many calls as a whole *)
(* cycle each, the call at hand has its place in the cycle, and every call takes from  *)
(* the sum.                                                                            *)

\* While the tree asks for a task the one before is done with.
Served == pc \in {"ask", "survey"} => task \notin Unplaced

LEMMA NextServed == ASSUME IInv, Served, [Next]_vars PROVE Served'
<1> USE DEF Served, Unplaced
<1>1. CASE Ask
  BY <1>1 DEF Ask, Offer, NoTaskYet, AskAgain, PlanComplete, Goto
<1>2. CASE Survey
  BY <1>2 DEF Survey, taskVars
<1>3. CASE Finish
  BY <1>3 DEF Finish, Fail, PlanComplete, taskVars, IInv, TypeOK, BlockOK
<1>4. CASE StartRun
  BY <1>4, PlanAssumption DEF StartRun, NoTask, Blocks
<1>5. CASE \/ Look \/ Hover \/ AwaitSignal \/ Recover \/ Approach \/ Open \/ Close \/ Grasp \/ Mark
           \/ Load \/ Lift \/ Gauge \/ Carry \/ Record \/ LetGo \/ Clear \/ Away \/ Cancel
  BY <1>5 DEF Look, Hover, AwaitSignal, Recover, Approach, Open, Close, Grasp, Mark, Load, Lift, Gauge,
              Carry, Record, LetGo, Clear, Away, Cancel, Call, SetPayload, Fail, PlanComplete, Goto,
              TakeOverOrPick, TakeOver, BeforeOpening
<1>6. CASE ServeLate \/ RestartMpc \/ (\E b \in Blocks : PutBack(b) \/ Reset(b)) \/ UNCHANGED vars
  BY <1>6 DEF ServeLate, RestartMpc, PutBack, Reset, vars, taskVars
<1> QED
  BY <1>1, <1>2, <1>3, <1>4, <1>5, <1>6 DEF Next, Tree

\* The place of the call in its cycle, and the calls of a cycle.
CallsOfCycle == CallsFrom(pc, attempt) + (IF MayRegrip THEN RegripCalls ELSE 0)

OneCycle == AskCalls + 16 + RegripCalls

\* The places of the calls, for an attempt of this state and of the next.
LEMMA CallPlaces ==
    ASSUME NEW n
    PROVE  /\ CallsFrom("survey", n) = AskCalls - 2 * n + 1
           /\ CallsFrom("ask", n) = AskCalls - 2 * n + 2
           /\ CallsFrom("finish", n) = AskCalls + 1
           /\ CallsFrom("away", n) = AskCalls + 2
           /\ CallsFrom("clear", n) = AskCalls + 3
           /\ CallsFrom("letgo", n) = AskCalls + 4
           /\ CallsFrom("record", n) = AskCalls + 5
           /\ CallsFrom("carry", n) = AskCalls + 6
           /\ CallsFrom("gauge", n) = AskCalls + 7
           /\ CallsFrom("lift", n) = AskCalls + 8
           /\ CallsFrom("reload", n) = AskCalls + 8
           /\ CallsFrom("load", n) = AskCalls + 9
           /\ CallsFrom("recover", n) = AskCalls + 9
           /\ CallsFrom("mark", n) = AskCalls + 10
           /\ CallsFrom("signal", n) = AskCalls + 10
           /\ CallsFrom("grasp", n) = AskCalls + 11
           /\ CallsFrom("close", n) = AskCalls + 12
           /\ CallsFrom("descend", n) = AskCalls + 13
           /\ CallsFrom("open", n) = AskCalls + 14
           /\ CallsFrom("hover", n) = AskCalls + 15
           /\ CallsFrom("status", n) = AskCalls + 16
BY DEF CallsFrom

CallsCounted ==
    /\ pc # "idle" => CallsOfCycle \in Nat /\ CallsOfCycle >= 1
    /\ IsFiniteSet(Waiting) /\ Cardinality(Waiting) \in Nat

LEMMA CallsAreCounted == TypeOK => CallsCounted
<1>1. IsFiniteSet(Blocks)
  BY PlanAssumption, FS_Interval DEF Blocks
<1>2. Waiting \subseteq Blocks
  BY DEF Waiting, Unplaced
<1>3. IsFiniteSet(Waiting) /\ Cardinality(Waiting) \in Nat
  BY <1>1, <1>2, FS_Subset, FS_CardinalityType
<1>4. TypeOK /\ pc # "idle" => CallsOfCycle \in Nat /\ CallsOfCycle >= 1
  BY CallPlaces, PlanAssumption
     DEF TypeOK, ControlOK, CountOK, Picking, Carrying, CallsOfCycle, AskCalls, RegripCalls
<1> QED
  BY <1>3, <1>4 DEF CallsCounted

\* What is written of the task alone changes nothing in the blocks that wait.
LEMMA OthersWait ==
    ASSUME TypeOK, task' = task, NEW s,
           status' \in {status, [status EXCEPT ![task] = s]}
    PROVE  Waiting' = Waiting
BY DEF TypeOK, BlockOK, Waiting, Unplaced

\* A call within a cycle leads to a later one, whether the jaws hold the block for the first
\* time or again.
LEMMA WithinCycle ==
    ASSUME IInv, Tree, InCycle, pc' # "idle"
    PROVE  Waiting' = Waiting /\ CallsOfCycle' < CallsOfCycle
<1> USE CallPlaces, PlanAssumption DEF Goto, Fail, PlanComplete, taskVars, goalVars, CallsOfCycle,
        MayRegrip, Placing, AskCalls, RegripCalls
<1>1. TypeOK
  BY DEF IInv
<1>2. CASE Look \/ Hover \/ AwaitSignal \/ Recover \/ Approach
  BY <1>1, <1>2, OthersWait DEF Look, Hover, AwaitSignal, Recover, Approach, Call,
     TakeOverOrPick, TakeOver
<1>3. CASE Open \/ Close \/ Grasp
  BY <1>1, <1>3, OthersWait DEF Open, Close, Grasp
<1>4. CASE Mark \/ Record
  BY <1>1, <1>4, OthersWait DEF Mark, Record
<1>5. CASE Load \/ Clear
  BY <1>1, <1>5, OthersWait DEF Load, Clear, SetPayload
<1>6. CASE Lift \/ Carry \/ LetGo
  BY <1>1, <1>6, OthersWait DEF Lift, Carry, LetGo, Call, BeforeOpening
<1>7. CASE Gauge \/ Away
  BY <1>1, <1>7, OthersWait DEF Gauge, Away, TargetsBack
<1>8. CASE Finish
  BY <1>1, <1>8, OthersWait DEF Finish
<1>9. ~Ask /\ ~Survey
  BY DEF InCycle, Ask, Survey
<1> QED
  BY <1>2, <1>3, <1>4, <1>5, <1>6, <1>7, <1>8, <1>9 DEF Tree

\* An attempt to get a task uses the attempts up, or gets one.
LEMMA AskingEnds ==
    ASSUME IInv, Served, Tree, pc \in {"ask", "survey"}, pc' # "idle"
    PROVE  \/ Waiting' = Waiting /\ CallsOfCycle' < CallsOfCycle
           \/ /\ task' \in Waiting /\ Waiting' = Waiting \ {task'}
              /\ CallsOfCycle' = OneCycle
<1>1. Ask \/ Survey
  BY DEF Tree, Look, Hover, AwaitSignal, Recover, Approach, Open, Close, Grasp, Mark, Load, Lift,
         Gauge, Carry, Record, LetGo, Clear, Away, Finish, Call, SetPayload
<1>2. TypeOK
  BY DEF IInv
<1>3. CASE Ask /\ Offer
  <2>1. task' \in Unplaced /\ status' = status
    BY <1>3 DEF Ask, Offer
  <2>2. task' \in Waiting /\ Waiting' = Waiting \ {task'}
    BY <2>1 DEF Waiting, Unplaced, Served
  <2>3. CallsOfCycle' = OneCycle
    BY <1>3, CallPlaces DEF Offer, Goto, CallsOfCycle, OneCycle, MayRegrip, Placing
  <2> QED
    BY <2>2, <2>3
<1>4. CASE Survey \/ (Ask /\ NoTaskYet)
  <2>1. task' = task /\ status' = status
    BY <1>4 DEF Survey, Ask, NoTaskYet, taskVars
  <2>2. CallsOfCycle' < CallsOfCycle
    BY <1>2, <1>4, CallPlaces, PlanAssumption
       DEF Survey, Ask, NoTaskYet, AskAgain, PlanComplete, Goto, TypeOK, CountOK, CallsOfCycle,
           MayRegrip, AskCalls
  <2> QED
    BY <1>2, <2>1, <2>2, OthersWait
<1>5. Ask => Offer \/ NoTaskYet
  BY DEF Ask
<1> QED
  BY <1>1, <1>3, <1>4, <1>5

LEMMA AnotherCycle ==
    ASSUME NEW n \in Nat, NEW w \in Nat
    PROVE  n * w \in Nat /\ (n + 1) * w = n * w + w
OBVIOUS

LEMMA LessIsLeft ==
    ASSUME NEW c \in Nat, NEW d \in Nat, d < c, NEW rest \in Nat,
           NEW all, all = c + rest, NEW less, less = d + rest
    PROVE  less \in 0..(all - 1)
OBVIOUS

LEMMA CallsTaken ==
    ASSUME IInv, CallsCounted, CallsCounted', Served, Tree
    PROVE  CallsLeft' \in 0..(CallsLeft - 1)
<1>1. pc # "idle"
  BY DEF Tree, Ask, Survey, Look, Hover, AwaitSignal, Recover, Approach, Open, Close, Grasp, Mark, Load,
         Lift, Gauge, Carry, Record, LetGo, Clear, Away, Finish, Call, SetPayload
<1>2. OneCycle \in Nat
  BY PlanAssumption DEF OneCycle, AskCalls, RegripCalls
<1>3. CallsOfCycle \in Nat /\ CallsOfCycle >= 1
  BY <1>1 DEF CallsCounted
<1> DEFINE rest == Cardinality(Waiting) * OneCycle
<1>4. rest \in Nat
  BY <1>2, AnotherCycle DEF CallsCounted
<1>5. CallsLeft = CallsOfCycle + rest
  BY <1>1 DEF CallsLeft, CallsOfCycle, OneCycle
<1>6. CASE pc' = "idle"
  <2>1. CallsLeft' = 0
    BY <1>6 DEF CallsLeft
  <2> HIDE DEF rest
  <2> QED
    BY <1>3, <1>4, <1>5, <2>1
<1>7. CASE pc' # "idle"
  <2>1. CallsOfCycle' \in Nat
    BY <1>7 DEF CallsCounted
  <2>2. CallsLeft' = CallsOfCycle' + Cardinality(Waiting') * OneCycle
    BY <1>7 DEF CallsLeft, CallsOfCycle, OneCycle
  <2>3. CASE Waiting' = Waiting /\ CallsOfCycle' < CallsOfCycle
    <3>1. CallsLeft' = CallsOfCycle' + rest
      BY <2>2, <2>3
    <3> HIDE DEF rest
    <3> QED
      BY <1>3, <1>4, <1>5, <2>1, <2>3, <3>1, LessIsLeft
  <2>4. CASE task' \in Waiting /\ Waiting' = Waiting \ {task'} /\ CallsOfCycle' = OneCycle
    <3> DEFINE less == Cardinality(Waiting') * OneCycle
    <3>1. /\ Cardinality(Waiting') \in Nat
          /\ Cardinality(Waiting) = Cardinality(Waiting') + 1
      <4>1. Cardinality(Waiting \ {task'}) = Cardinality(Waiting) - 1
        BY <2>4, FS_RemoveElement DEF CallsCounted
      <4> QED
        BY <2>4, <4>1 DEF CallsCounted
    <3>2. less \in Nat /\ rest = less + OneCycle
      BY <1>2, <3>1, AnotherCycle
    <3>3. CallsLeft' = OneCycle + less
      BY <2>2, <2>4
    <3> HIDE DEF rest, less
    <3> QED
      BY <1>2, <1>3, <1>5, <3>2, <3>3
  <2> QED
    BY <1>1, <1>7, <2>3, <2>4, WithinCycle, AskingEnds DEF InCycle
<1> QED
  BY <1>6, <1>7

\* A run makes no more calls than are left when it begins, for plans of every length: no
\* regrip, no status that is written back and no attempt that failed has the loop serve a
\* block anew (the KeepRunningUntilFailure of wall_assembly.xml).
THEOREM RunRunsOut == Spec => CallsRunOut
<1>1. Init => Served
  BY DEF Init, Served
<1>2. IInv /\ Served /\ [Next]_vars => Served'
  BY NextServed
<1>3. IInv => CallsCounted
  BY CallsAreCounted DEF IInv
<1>4. IInv /\ CallsCounted /\ CallsCounted' /\ Served /\ [Next]_vars
      => [Tree => CallsLeft' \in 0..(CallsLeft - 1)]_vars
  BY CallsTaken
<1> QED
  BY <1>1, <1>2, <1>3, <1>4, Invariance, PTL DEF Spec, CallsRunOut
=============================================================================
