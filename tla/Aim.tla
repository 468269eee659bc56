---------------------------------- MODULE Aim ----------------------------------
(***************************************************************************)
(* Pointing the sensor.  gotoPixel2D, gotoPixel2DandExit and gotoLocation  *)
(* of steppers.c give both motors their targets and poll the positions the *)
(* boards have reported until the motors have arrived, or, andExit, until  *)
(* they will have arrived when the caller has waited.  The scans of        *)
(* brain.c then wait and read the sensor.                                  *)
(*                                                                         *)
(* Time is counted in ticks.  A speed is in locations per tick and changes *)
(* by one in a tick; a report is at most MaxAge ticks old.  What the       *)
(* handle of a motor knows is StepperState; here it is the last report and *)
(* whether the board is attached.                                          *)
(***************************************************************************)
EXTENDS Integers, Sequences

CONSTANTS
  Width, Height,   (* of the picture, in pixels                             *)
  Degrees,         (* ANGLE: the picture in whole degrees                   *)
  StepsPerDegree,  (* 1200 * 16 / 360                                       *)
  MaxSpeed,        (* of each motor: setVelocity                            *)
  Wait,            (* wait_ms, in ticks                                     *)
  MaxAge,          (* of a report, in ticks                                 *)
  Blur,            (* how far from its pixel a reading may be taken         *)
  MaxGotos,        (* bound on the calls                                    *)
  MaxFaults        (* bound on detaches and failing setters                 *)

Axes == {"H", "V"}

ASSUME AimAssumption ==
  /\ Width \in Nat \ {0} /\ Height \in Nat \ {0}
  /\ Degrees \in Nat \ {0} /\ StepsPerDegree \in Nat \ {0}
  /\ MaxSpeed \in [Axes -> Nat \ {0}]
  /\ Wait \in Nat /\ MaxAge \in Nat \ {0} /\ Blur \in Nat
  /\ MaxGotos \in Nat /\ MaxFaults \in Nat

VARIABLES
  pc, fn,          (* the application: its place, and which goto it is in   *)
  row,             (* of the scan                                           *)
  want,            (* horizLoc, vertLoc                                     *)
  loc,             (* sendHorizLoc, sendVertLoc: what the polls returned    *)
  left,            (* ticks until waitMillis returns                        *)
  board,           (* per axis: the motor                                   *)
  way,             (* per axis: targets accepted and not yet executed       *)
  echo, age,       (* per axis: the last report and its age                 *)
  up,              (* per axis: PHIDGET_ATTACHED_FLAG                       *)
  calm,            (* history: no fault, or all at rest again since         *)
  gotos, faults    (* what the bounds count                                 *)

program == <<pc, fn, row, want, loc, left, gotos>>
motors  == <<board, way, echo, age, up>>
vars    == <<program, motors, calm, faults>>

Abs(x)  == IF x < 0 THEN -x ELSE x
Sign(x) == IF x > 0 THEN 1 ELSE IF x < 0 THEN -1 ELSE 0

-----------------------------------------------------------------------------
(***************************************************************************)
(* Faults: what the code might plausibly have done instead.  Each breaks a *)
(* property below; none is part of the specification.                      *)
(***************************************************************************)
CloserAxis ==                  \* offH < offV
  IF Abs(want["H"] - loc["H"]) < Abs(want["V"] - loc["V"]) THEN "H" ELSE "V"

ReportMoving(a) ==             \* the position where it stops is not reported
  /\ up[a] /\ board[a].speed # 0
  /\ echo' = [echo EXCEPT ![a] = [pos |-> board[a].pos, speed |-> board[a].speed]]
  /\ age' = [age EXCEPT ![a] = 0]
  /\ UNCHANGED <<program, board, way, up, calm, faults>>

EarlyFromOne(pixel, size) ==   \* the first pixel is 1
  (Degrees * StepsPerDegree * (pixel - 1)) \div size
-----------------------------------------------------------------------------
(***************************************************************************)
(* The location of a pixel.  gotoPixel2D divides integers first, to whole  *)
(* degrees; gotoPixel2DandExit divides floating-point numbers.             *)
(***************************************************************************)
ExactLocation(pixel, size) == ((Degrees * pixel) \div size) * StepsPerDegree

EarlyLocation(pixel, size) == (Degrees * StepsPerDegree * pixel) \div size

Middle == (Degrees \div 2) * StepsPerDegree

Far == Degrees * StepsPerDegree      \* the far edge: pixel Width or Height
-----------------------------------------------------------------------------
(***************************************************************************)
(* The motors: not part of the repository.  A motor changes its speed so   *)
(* that it gets to its target soonest without running past it, if it was   *)
(* told in time, and brakes if it was not.                                 *)
(***************************************************************************)
Resting(b) == b.pos = b.goal /\ b.speed = 0

CanStop(v, distance) == v * distance >= 0 /\ v * v + Abs(v) <= 2 * Abs(distance)

NextSpeed(a, v, distance) ==
  LET near == {w \in (v - 1)..(v + 1) : Abs(w) <= MaxSpeed[a] /\ CanStop(w, distance)} IN
  IF near = {} THEN v - Sign(v)
               ELSE CHOOSE w \in near : \A u \in near : Abs(u) <= Abs(w)

Moved(a, b) ==
  LET next == b.pos + b.speed IN
  [b EXCEPT !.pos = next, !.speed = NextSpeed(a, @, b.goal - next)]

Tick ==
  /\ pc # "setV"              \* the two setters follow each other at once
  /\ \A a \in Axes : up[a] => way[a] = <<>> /\ age[a] < MaxAge
  /\ board' = [a \in Axes |-> Moved(a, board[a])]
  /\ age' = [a \in Axes |-> IF up[a] THEN age[a] + 1 ELSE age[a]]
  /\ left' = IF left > 0 THEN left - 1 ELSE 0
  /\ UNCHANGED <<pc, fn, row, want, loc, gotos, way, echo, up, calm, faults>>

Execute(a) ==
  /\ up[a] /\ way[a] # <<>>
  /\ board' = [board EXCEPT ![a].goal = Head(way[a])]
  /\ way' = [way EXCEPT ![a] = Tail(@)]
  /\ UNCHANGED <<program, echo, age, up, calm, faults>>

Report(a) ==
  /\ up[a]
  /\ age[a] > 0 \/ echo[a] # [pos |-> board[a].pos, speed |-> board[a].speed]
  /\ echo' = [echo EXCEPT ![a] = [pos |-> board[a].pos, speed |-> board[a].speed]]
  /\ age' = [age EXCEPT ![a] = 0]
  /\ UNCHANGED <<program, board, way, up, calm, faults>>
-----------------------------------------------------------------------------
(***************************************************************************)
(* The gotos: "exact" is gotoPixel2D, "early" gotoPixel2DandExit, "one"     *)
(* gotoPixel with gotoLocation, here of the horizontal motor.              *)
(* The targets come first, then polls in the order H, V.  All return       *)
(* codes of the setters and getters are ignored; a getter that fails       *)
(* because the board is not attached leaves its result alone, and that was *)
(* initialised with the target.                                            *)
(***************************************************************************)
Location(f, a, pixel) ==
  LET size == IF a = "H" THEN Width ELSE Height IN
  IF f = "exact" THEN ExactLocation(pixel, size) ELSE EarlyLocation(pixel, size)

Settled ==
  \A a \in Axes : /\ up[a] /\ way[a] = <<>> /\ Resting(board[a])
                   /\ echo[a] = [pos |-> board[a].pos, speed |-> 0]

Goto ==
  /\ pc = "idle" /\ gotos < MaxGotos
  /\ fn' \in {"exact", "early", "one"}
  /\ row' \in IF gotos = 0 THEN {0} ELSE {row, row + 1} \cap 0..(Height - 1)
  /\ \E column \in 0..Width :    \* mainIST: width - xx in odd rows
       want' = [a \in Axes |-> IF fn' = "one" /\ a = "V" THEN want[a]
                               ELSE Location(fn', a, IF a = "H" THEN column ELSE row')]
  /\ loc' = want'
  /\ pc' = "setH" /\ gotos' = gotos + 1
  /\ calm' = (calm \/ Settled)
  /\ UNCHANGED <<left, motors, faults>>

Accept(a) == way' = [way EXCEPT ![a] = Append(@, want[a])]

SetTarget(a, next) ==
  /\ \/ up[a] /\ Len(way[a]) < 2 /\ Accept(a) /\ UNCHANGED <<calm, faults>>
     \/ ~up[a] /\ UNCHANGED <<way, calm, faults>>            \* EPHIDGET_NOTATTACHED
     \/ /\ up[a] /\ faults < MaxFaults                       \* EPHIDGET_TIMEOUT
        /\ calm' = FALSE /\ faults' = faults + 1 /\ UNCHANGED way
  /\ pc' = next
  /\ UNCHANGED <<fn, row, want, loc, left, gotos, board, echo, age, up>>

SetTargets ==
  \/ pc = "setH" /\ SetTarget("H", IF fn = "one" THEN "pollH" ELSE "setV")
  \/ pc = "setV" /\ SetTarget("V", "pollH")

Polled(a) == IF up[a] THEN [loc EXCEPT ![a] = echo[a].pos] ELSE loc

Arrived(l) == l = want

Return == pc' = "wait" /\ left' = Wait         \* and the scan calls waitMillis

PollH ==
  /\ pc = "pollH"
  /\ loc' = Polled("H")
  /\ \/ fn # "one" /\ pc' = "pollV" /\ left' = left
     \/ fn = "one" /\ loc'["H"] = want["H"] /\ Return
     \/ fn = "one" /\ loc'["H"] # want["H"] /\ pc' = "pollH" /\ left' = left
  /\ UNCHANGED <<fn, row, want, gotos, motors, calm, faults>>

PollV ==
  /\ pc = "pollV"
  /\ loc' = Polled("V")
  /\ \/ Arrived(loc') /\ Return
     \/ ~Arrived(loc') /\ pc' = (IF fn = "early" THEN "velocity" ELSE "pollH") /\ left' = left
  /\ UNCHANGED <<fn, row, want, gotos, motors, calm, faults>>

Off(a) == Abs(want[a] - loc[a])

FartherAxis == IF Off("H") > Off("V") THEN "H" ELSE "V"

(* 1000 * off <= wait_ms * vel.  vel keeps its last value if the board is   *)
(* not attached, which is left open here.                                  *)
TestVelocity ==
  /\ pc = "velocity"
  /\ LET a == FartherAxis IN
     \E v \in IF up[a] THEN {echo[a].speed} ELSE -1..MaxSpeed[a] :
       \/ Off(a) <= Wait * Abs(v) /\ Return
       \/ Off(a) > Wait * Abs(v) /\ pc' = "pollH" /\ left' = left
  /\ UNCHANGED <<fn, row, want, loc, gotos, motors, calm, faults>>

(* After waitMillis the scan calls readTemp.  mainIST then waits once more, *)
(* getMeasurementsFromBranch and dumbCamera do not.                         *)
ReadTemp ==
  /\ pc = "wait" /\ left = 0
  /\ pc' = "rest" /\ left' \in IF fn = "early" THEN {0, Wait} ELSE {0}
  /\ UNCHANGED <<fn, row, want, loc, gotos, motors, calm, faults>>

Rested ==
  /\ pc = "rest" /\ left = 0
  /\ pc' = "idle"
  /\ UNCHANGED <<fn, row, want, loc, left, gotos, motors, calm, faults>>
-----------------------------------------------------------------------------
(* A board is lost; it comes back where it is, with what initAfterOpen      *)
(* reads from it.                                                          *)
Detach(a) ==
  /\ up[a] /\ faults < MaxFaults
  /\ up' = [up EXCEPT ![a] = FALSE]
  /\ way' = [way EXCEPT ![a] = <<>>]
  /\ calm' = FALSE /\ faults' = faults + 1
  /\ UNCHANGED <<program, board, echo, age>>

Attach(a) ==
  /\ ~up[a]
  /\ up' = [up EXCEPT ![a] = TRUE]
  /\ echo' = [echo EXCEPT ![a] = [pos |-> board[a].pos, speed |-> board[a].speed]]
  /\ age' = [age EXCEPT ![a] = 0]
  /\ UNCHANGED <<program, board, way, calm, faults>>

(* main has called the middle its position.  The report that says so has   *)
(* come, or the last one is still from before, when initStepper had called *)
(* the same place 0.                                                       *)
Init ==
  /\ pc = "idle" /\ fn = "exact" /\ row = 0 /\ left = 0
  /\ want = [a \in Axes |-> Middle] /\ loc = want
  /\ board = [a \in Axes |-> [pos |-> Middle, speed |-> 0, goal |-> Middle]]
  /\ way = [a \in Axes |-> <<>>]
  /\ \E p \in {0, Middle} : /\ echo = [a \in Axes |-> [pos |-> p, speed |-> 0]]
                            /\ calm = (p = Middle)
  /\ age = [a \in Axes |-> 0]
  /\ up = [a \in Axes |-> TRUE]
  /\ gotos = 0 /\ faults = 0

Program == SetTargets \/ PollH \/ PollV \/ TestVelocity \/ ReadTemp \/ Rested

Next ==
  \/ Goto \/ Program \/ Tick
  \/ \E a \in Axes : Execute(a) \/ Report(a) \/ Detach(a) \/ Attach(a)

Spec == Init /\ [][Next]_vars

(* Time passes, the boards work and report, the program runs. *)
Fairness ==
  /\ WF_vars(Program) /\ WF_vars(Tick)
  /\ \A a \in Axes : WF_vars(Execute(a)) /\ WF_vars(Report(a)) /\ WF_vars(Attach(a))

FairSpec == Spec /\ Fairness
-----------------------------------------------------------------------------
(***************************************************************************)
(* Every variable stays in its range.  No motor ever leaves the picture,   *)
(* although a goto may come while it is still on its way to the last       *)
(* target, with a speed from which it cannot stop at the new one.          *)
(***************************************************************************)
TypeOK ==
  /\ pc \in {"idle", "setH", "setV", "pollH", "pollV", "velocity", "wait", "rest"}
  /\ fn \in {"exact", "early", "one"} /\ row \in 0..(Height - 1) /\ left \in 0..Wait
  /\ want \in [Axes -> 0..Far] /\ loc \in [Axes -> 0..Far]
  /\ \A a \in Axes :
       /\ board[a] \in [pos : 0..Far, speed : -MaxSpeed[a]..MaxSpeed[a], goal : 0..Far]
       /\ echo[a] \in [pos : 0..Far, speed : -MaxSpeed[a]..MaxSpeed[a]]
       /\ age[a] \in 0..MaxAge /\ Len(way[a]) <= 2
  /\ up \in [Axes -> BOOLEAN] /\ calm \in BOOLEAN
  /\ gotos \in 0..MaxGotos /\ faults \in 0..MaxFaults

(***************************************************************************)
(* When the sensor is read, it looks at the pixel asked for: exactly after *)
(* gotoPixel2D and gotoPixel, within Blur locations after                  *)
(* gotoPixel2DandExit ("breaks in enough time for WAIT_MS", steppers.c:202). *)
(* After a board was lost or a setter failed, again when all has come to   *)
(* rest.                                                                   *)
(***************************************************************************)
ReadAimed ==
  (pc = "wait" /\ left = 0 /\ calm) =>
    \A a \in IF fn = "one" THEN {"H"} ELSE Axes :
      IF fn = "early" THEN Abs(board[a].pos - want[a]) <= Blur
                      ELSE board[a].pos = want[a] /\ board[a].speed = 0

(* The loops of gotoPixel2D and gotoPixel2DandExit end, however the polls    *)
(* and the reports fall, as long as no board is lost and no setter fails.  *)
GotoReturns == (pc = "setH" /\ calm) ~> (pc = "idle" \/ ~calm)
=============================================================================
