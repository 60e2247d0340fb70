------------------------------- MODULE LoadOff -------------------------------
(***************************************************************************)
(* WaitForLoadOff, the gate that ends a loaded descent when the hook has   *)
(* lost the load.                                                          *)
(*                                                                         *)
(* A behaviour-tree node with a keep-last-1 subscription of its own, spun  *)
(* in onStart() and onRunning() only.  All its time points are read off    *)
(* the node's ROS clock, so the model keeps their ages on that clock.      *)
(* Efforts and heights are integers; the drop m g r asks for and the       *)
(* heights are those of one descent.                                       *)
(***************************************************************************)
EXTENDS Integers, FiniteSets

CONSTANTS
    Efforts,        \* readings of the boom effort
    Drop,           \* the fall below the reference that counts, drop_fraction * m g r
    Heights,        \* block centre over target_z, as the transform has it
    MaxAbove,       \* max_above_target of a landing
    Floor,          \* floor_below_target of a landing
    Reference,      \* kReference, the time the hanging reference is taken over
    Hold,           \* kHold, the time a dip has to last
    Timeout,        \* timeout_ms
    MaxWindow,      \* bound: readings of one effort the reference window counts
    Unset,          \* an optional value or time point that is not there
    Nothing,        \* an empty mailbox
    Unreadable      \* a joint state without the joint, or without a finite effort

ASSUME EffortAssumption ==
    Efforts \subseteq Int /\ IsFiniteSet(Efforts) /\ Drop \in Nat \ {0}

ASSUME MarkAssumption ==
    /\ {Unset, Nothing, Unreadable} \cap Int = {}
    /\ Nothing # Unreadable

ASSUME HeightAssumption == Heights \subseteq Int /\ MaxAbove \in Int /\ Floor \in Nat

ASSUME DurationAssumption ==
    /\ Reference \in Nat
    /\ Hold \in Nat
    /\ Timeout \in Nat
    /\ Timeout >= Reference
    /\ MaxWindow \in Nat \ {0}

VARIABLES
    gate,           \* what the last tick of the node returned
    loadOff,        \* the load_off entry of the blackboard
    watching,       \* which instance is at work: the watch for early contact, or the landing's
    usable,         \* mass, target_z and s_log_8_* are finite, the mass positive
    elapsed,        \* age of start_
    window,         \* window_: how many readings of each effort
    reference,      \* reference_, Unset before it is taken
    effort,         \* effort_
    fresh,          \* fresh_
    dipAge,         \* age of dropped_since_, Unset when dropped_ is false
    lowest,         \* lowest_, Unset for infinity
    mailbox,        \* the undelivered joint state
    tf,             \* the newest transform of the tool centre point
    above,          \* the height that transform gives
    ownMail,        \* history: the mailbox was filled during this descent
    ownEffort,      \* history: every effort this descent has used is its own
    loadedAge,      \* history: age of the last reading judged to carry the load
    touched         \* history: a height within reach was read

readVars == <<window, effort, fresh>>
gateVars == <<gate, loadOff, watching, usable, elapsed, reference, dipAge, lowest>>
histVars == <<ownEffort, loadedAge, touched>>
envVars  == <<mailbox, ownMail, tf, above>>
vars == <<readVars, gateVars, histVars, envVars>>

TypeOK ==
    /\ gate \in {"IDLE", "RUNNING", "SUCCESS", "FAILURE"}
    /\ loadOff \in BOOLEAN
    /\ watching \in BOOLEAN
    /\ usable \in BOOLEAN
    /\ elapsed \in 0..(Timeout + 1)
    /\ window \in [Efforts -> 0..MaxWindow]
    /\ reference \in Efforts \cup {Unset}
    /\ effort \in Efforts \cup {Unset}
    /\ fresh \in BOOLEAN
    /\ dipAge \in (0..Hold) \cup {Unset}
    /\ lowest \in Heights \cup {Unset}
    /\ mailbox \in Efforts \cup {Nothing, Unreadable}
    /\ tf \in {"none", "live", "frozen"}
    /\ above \in Heights
    /\ ownMail \in BOOLEAN
    /\ ownEffort \in BOOLEAN
    /\ loadedAge \in (0..Hold) \cup {Unset}
    /\ touched \in BOOLEAN

-----------------------------------------------------------------------------
(* The pure parts. *)

\* The readings of some efforts, told apart by a number, and how many they are.
Readings(counts, values) == {r \in values \X (1..MaxWindow) : r[2] <= counts[r[1]]}

Count(counts, values) == Cardinality(Readings(counts, values))

Below(e) == {d \in Efforts : d < e}

Half(counts) == Count(counts, Efforts) \div 2

\* e is where half the readings have been passed, counted from the lowest.
IsMedian(counts, e) ==
    /\ Count(counts, Below(e)) <= Half(counts)
    /\ Half(counts) < Count(counts, Below(e)) + counts[e]

\* Mutant: the first of the sorted readings.
LeastReading(counts) ==
    CHOOSE e \in Efforts : counts[e] > 0 /\ Count(counts, Below(e)) = 0

\* nth_element at half the size: the upper median of the readings.
Median(counts) == CHOOSE e \in Efforts : IsMedian(counts, e)

NoReadings == [e \in Efforts |-> 0]

Dipped(e, ref) == ref - e >= Drop

\* To the watch no height is a landing (max_above_target -1, under all it can be at), and
\* its floor is out of reach.
InReach(h) == ~watching /\ h <= MaxAbove

TooDeep == ~watching /\ above < -Floor

Lower(h) == IF lowest = Unset \/ h < lowest THEN h ELSE lowest

-----------------------------------------------------------------------------
(* The steps a tick is made of. *)

\* callback(): at most the newest joint state, which counts towards the
\* reference until that is taken.
Spin ==
    /\ mailbox' = Nothing
    /\ ownMail' = TRUE
    /\ IF mailbox \in Efforts
       THEN /\ effort' = mailbox
            /\ window' = IF reference = Unset
                         THEN [window EXCEPT ![mailbox] = @ + 1] ELSE window
            /\ ownEffort' = (ownEffort /\ ownMail)
       ELSE UNCHANGED <<effort, window, ownEffort>>

HasFresh == fresh \/ mailbox \in Efforts

GiveUp ==
    /\ gate' = "FAILURE"
    /\ fresh' = HasFresh
    /\ UNCHANGED <<loadOff, reference, dipAge, loadedAge>>

KeepWaiting(stillFresh) == gate' = "RUNNING" /\ fresh' = stillFresh /\ UNCHANGED loadOff

\* Mutant: no timeout.
UnusableWithoutTimeout == ~usable \/ tf = "frozen"

\* Everything a tick asks before it looks at the effort.
Unusable == ~usable \/ elapsed > Timeout \/ tf = "frozen"

\* Mutant: the last height instead of the lowest.
WatchLast ==
    /\ lowest' = above
    /\ touched' = (touched \/ InReach(above))

Watch ==
    /\ lowest' = Lower(above)
    /\ touched' = (touched \/ InReach(above))

\* Mutant: a reading that carries the load leaves the dip running.
StillLoadedDipRuns(ref) ==
    /\ ~Dipped(effort', ref)
    /\ KeepWaiting(FALSE)
    /\ UNCHANGED dipAge
    /\ loadedAge' = 0

\* The reading against the reference, ref: still loaded, dipping, or off the hook.
StillLoaded(ref) ==
    /\ ~Dipped(effort', ref)
    /\ KeepWaiting(FALSE)
    /\ dipAge' = Unset
    /\ loadedAge' = 0

Dip ==
    /\ dipAge' = IF dipAge = Unset THEN 0 ELSE dipAge
    /\ UNCHANGED loadedAge

Dipping(ref) == Dipped(effort', ref) /\ Dip /\ dipAge' < Hold /\ KeepWaiting(FALSE)

Off(ref) ==
    /\ Dipped(effort', ref) /\ Dip /\ dipAge' >= Hold
    /\ loadOff' = TRUE
    /\ fresh' = FALSE
    /\ gate' = IF InReach(lowest') THEN "SUCCESS" ELSE "FAILURE"

Judge(ref) == reference' = ref /\ (StillLoaded(ref) \/ Dipping(ref) \/ Off(ref))

-----------------------------------------------------------------------------
(* The node's operations. *)

\* Mutant: nothing is drained.
OnStartUndrained ==
    /\ gate # "RUNNING"
    /\ window' = NoReadings
    /\ reference' = Unset
    /\ dipAge' = Unset
    /\ fresh' = FALSE
    /\ lowest' = Unset
    /\ elapsed' = 0
    /\ loadOff' = FALSE
    /\ gate' = "RUNNING"
    /\ watching' \in BOOLEAN
    /\ usable' \in BOOLEAN
    /\ ownEffort' = TRUE
    /\ loadedAge' = Unset
    /\ touched' = FALSE
    /\ UNCHANGED <<mailbox, ownMail, effort, tf, above>>

\* The drain keeps what was published before the descent out of the reference.
OnStart ==
    /\ gate # "RUNNING"
    /\ mailbox' = Nothing
    /\ ownMail' = TRUE
    /\ effort' = IF mailbox \in Efforts THEN mailbox ELSE effort
    /\ window' = NoReadings
    /\ reference' = Unset
    /\ dipAge' = Unset
    /\ fresh' = FALSE
    /\ lowest' = Unset
    /\ elapsed' = 0
    /\ loadOff' = FALSE
    /\ gate' = "RUNNING"
    /\ watching' \in BOOLEAN
    /\ usable' \in BOOLEAN
    /\ ownEffort' = TRUE
    /\ loadedAge' = Unset
    /\ touched' = FALSE
    /\ UNCHANGED <<tf, above>>

OnRunning ==
    /\ gate = "RUNNING"
    /\ Spin
    /\ \/ /\ Unusable
          /\ GiveUp
          /\ UNCHANGED <<lowest, touched>>
       \/ /\ ~Unusable /\ tf = "none"
          /\ KeepWaiting(HasFresh)
          /\ UNCHANGED <<reference, dipAge, lowest, loadedAge, touched>>
       \/ /\ ~Unusable /\ tf = "live" /\ TooDeep
          /\ Watch
          /\ GiveUp
       \/ /\ ~Unusable /\ tf = "live" /\ ~TooDeep
          /\ Watch
          /\ \/ /\ reference = Unset /\ (elapsed < Reference \/ window' = NoReadings)
                /\ KeepWaiting(HasFresh)
                /\ UNCHANGED <<reference, dipAge, loadedAge>>
             \/ /\ reference # Unset /\ ~HasFresh
                /\ KeepWaiting(FALSE)
                /\ UNCHANGED <<reference, dipAge, loadedAge>>
             \/ /\ reference = Unset /\ elapsed >= Reference /\ window' # NoReadings
                /\ IF HasFresh THEN Judge(Median(window'))
                   ELSE /\ reference' = Median(window')
                        /\ KeepWaiting(FALSE)
                        /\ UNCHANGED <<dipAge, loadedAge>>
             \/ reference # Unset /\ HasFresh /\ Judge(reference)
    /\ UNCHANGED <<watching, usable, elapsed, tf, above>>

\* onHalted() is empty: every cache is left to the next onStart().
OnHalted ==
    /\ gate = "RUNNING"
    /\ gate' = "IDLE"
    /\ UNCHANGED <<readVars, loadOff, watching, usable, elapsed, reference, dipAge, lowest,
                   histVars, envVars>>

\* Mutant: load_off is left as the descent before wrote it.
KeepContact == UNCHANGED loadOff

\* Every caller clears load_off before the next move.
ClearContact == loadOff' = FALSE

\* The next move begins: the tree has reset a node that ended, and its caller writes
\* load_off.
NextMove ==
    /\ gate # "RUNNING"
    /\ gate' = "IDLE"
    /\ ClearContact
    /\ watching' = FALSE
    /\ UNCHANGED <<readVars, usable, elapsed, reference, dipAge, lowest,
                   histVars, envVars>>

-----------------------------------------------------------------------------
(* The ROS clock, the joint states and the transform of the tool. *)

\* Mutant: an age that outgrows its bound.
OlderForEver(age, most) == IF age = Unset THEN age ELSE age + 1

Older(age, most) == IF age = Unset \/ age = most THEN age ELSE age + 1

ClockTick ==
    /\ gate = "RUNNING"
    /\ elapsed' = Older(elapsed, Timeout + 1)
    /\ dipAge' = Older(dipAge, Hold)
    /\ loadedAge' = Older(loadedAge, Hold)
    /\ UNCHANGED <<readVars, gate, loadOff, watching, usable, reference, lowest,
                   ownEffort, touched, envVars>>

\* Depth 1: the newest joint state replaces the one nobody has read.
PublishJointState(e) ==
    /\ e \in Efforts /\ gate = "RUNNING" /\ reference = Unset => window[e] < MaxWindow
    /\ mailbox' = e
    /\ ownMail' = (gate = "RUNNING")
    /\ UNCHANGED <<readVars, gateVars, histVars, tf, above>>

PublishTransform(h) ==
    /\ tf' = "live"
    /\ above' = h
    /\ UNCHANGED <<readVars, gateVars, histVars, mailbox, ownMail>>

\* No transform for kMaxTfAge.  The lookup does not fail again: the buffer keeps the last
\* one for longer than that, and a running gate ends on its age first.
TransformFreezes ==
    /\ tf = "live"
    /\ tf' = "frozen"
    /\ UNCHANGED <<readVars, gateVars, histVars, mailbox, ownMail, above>>

-----------------------------------------------------------------------------

Init ==
    /\ gate = "IDLE"
    /\ loadOff \in BOOLEAN
    /\ watching = FALSE
    /\ usable = FALSE
    /\ elapsed = 0
    /\ window = NoReadings
    /\ reference = Unset
    /\ effort = Unset
    /\ fresh = FALSE
    /\ dipAge = Unset
    /\ lowest = Unset
    /\ mailbox = Nothing
    /\ tf = "none"
    /\ above \in Heights
    /\ ownMail = TRUE
    /\ ownEffort = TRUE
    /\ loadedAge = Unset
    /\ touched = FALSE

Node == OnStart \/ OnRunning \/ OnHalted \/ NextMove

Environment ==
    \/ ClockTick
    \/ \E e \in Efforts \cup {Unreadable} : PublishJointState(e)
    \/ \E h \in Heights : PublishTransform(h)
    \/ TransformFreezes

Next == Node \/ Environment

Spec == Init /\ [][Next]_vars

\* The tree ticks a running gate, and its clock moves.
FairSpec == Spec /\ WF_vars(OnRunning) /\ WF_vars(ClockTick)

-----------------------------------------------------------------------------
(* Properties. *)

\* The load counts as off only if no reading of the last hold still carried it:
\* any such reading restarts the dip, whatever ticks without a fresh reading lie between.
DipWasUnbroken ==
    loadOff /\ gate \in {"SUCCESS", "FAILURE"} => loadedAge \in {Unset, Hold}

\* The reference and the dip are taken from readings of this descent alone; the
\* joint state left over from before it is drained (issue 258).
ReadsThisDescent == gate # "IDLE" => ownEffort

\* The reference stands where most of the readings lay, however far off the others were:
\* a swing at the start of the descent does not shift what the drop is measured from.
OutliersShiftNoReference ==
    reference # Unset =>
        \A low, high \in Efforts :
            2 * Count(window, {e \in Efforts : low <= e /\ e <= high}) > Count(window, Efforts)
            => low <= reference /\ reference <= high

\* load_off tells the tree which of the two it was: a landing was within reach of
\* its target at some tick of this descent, an early contact never was, and while
\* the gate runs the answer of the descent before is gone.
LoadOffTellsLandingFromContact ==
    /\ gate = "SUCCESS" => loadOff /\ touched
    /\ gate = "FAILURE" /\ loadOff => ~touched
    /\ gate = "RUNNING" => ~loadOff

\* The gate always ends while its clock moves: no reading, no transform and a
\* mailbox of unreadable joint states included.
GateEnds == gate = "RUNNING" ~> gate # "RUNNING"
=============================================================================
