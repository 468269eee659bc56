------------------------------ MODULE Aim_proofs ------------------------------
(***************************************************************************)
(* Where the sensor points when it is read, for pictures of any size, any   *)
(* speeds, waits and ages of reports, and any number of gotos and faults.  *)
(* The motors are those of Aim: one that was told in time stops at its     *)
(* target and does not run past it.                                        *)
(***************************************************************************)
EXTENDS Aim, SequenceTheorems, TLAPS

(***************************************************************************)
(* A motor that waits for its next target: at rest where it was sent, with *)
(* nothing under way that would send it elsewhere, and known to be there.  *)
(***************************************************************************)
AtRest(a) == /\ Resting(board[a])
             /\ \A i \in DOMAIN way[a] : way[a][i] = board[a].pos

Still(a) == AtRest(a) /\ echo[a] = [pos |-> board[a].pos, speed |-> 0]

(***************************************************************************)
(* A motor on its way: sent to its target, with a speed from which it can   *)
(* still stop there, or at rest with the target to be executed last.  The  *)
(* last report is not nearer to the target than the motor is, and if it    *)
(* shows the target, it shows the motor at rest.                           *)
(***************************************************************************)
Distance(a, p) == Abs(want[a] - p)

Sent(a) == /\ way[a] = <<>> /\ board[a].goal = want[a]
           /\ CanStop(board[a].speed, want[a] - board[a].pos)

ToBeSent(a) == /\ Resting(board[a]) /\ way[a] # <<>>
               /\ way[a][Len(way[a])] = want[a]
               /\ \A i \in 1..(Len(way[a]) - 1) : way[a][i] = board[a].pos

OnWay(a) == /\ Sent(a) \/ ToBeSent(a)
            /\ Distance(a, board[a].pos) <= Distance(a, echo[a].pos)
            /\ echo[a].pos = want[a] => echo[a].speed = 0

(* What a poll has returned is not nearer than what one would return now. *)
Seen(a) == Distance(a, echo[a].pos) <= Distance(a, loc[a])

(***************************************************************************)
(* Which motors are at rest and which are under way, at each place of the  *)
(* gotos: the vertical motor stays where it is in gotoLocation, and the    *)
(* other gotos send both.  After gotoPixel2DandExit no motor is farther    *)
(* from its target than one of them goes in the wait.                      *)
(***************************************************************************)
Moving == /\ OnWay("H")
          /\ IF fn = "one" THEN Still("V") ELSE OnWay("V")

There == /\ \A a \in Axes : Still(a)
         /\ board["H"].pos = want["H"]
         /\ fn # "one" => board["V"].pos = want["V"]

Near == \E a \in Axes : \A b \in Axes : Distance(b, board[b].pos) <= Wait * MaxSpeed[a]

Place ==
  /\ (pc = "idle" /\ fn # "early") \/ pc = "setH" => \A a \in Axes : Still(a)
  /\ pc = "setV" => fn # "one" /\ OnWay("H") /\ Still("V")
  /\ pc \in {"pollH", "pollV", "velocity"} => Moving
  /\ pc \in {"pollV", "velocity"} => Seen("H") /\ fn # "one"
  /\ pc = "velocity" => Seen("V") /\ fn = "early"
  /\ pc \in {"wait", "rest"} /\ fn # "early" => There
  /\ pc = "wait" /\ fn = "early" => Moving /\ Near

AimInv == calm => (\A a \in Axes : up[a]) /\ Place

(***************************************************************************)
(* What the caller of gotoPixel2DandExit has to see to: that its waits are *)
(* long enough for the motors to come to rest, and for the reports to say  *)
(* so, before the next goto.  mainIST, which waits twice, does so in the   *)
(* instance of MCAim; getMeasurementsFromBranch, which waits once, does    *)
(* not; dumbCamera does not call that function.                            *)
(***************************************************************************)
Patient == (Goto /\ fn = "early" /\ calm) => \A a \in Axes : Still(a)

-----------------------------------------------------------------------------
(* The range of each variable, as functions of the axes. *)
Typed ==
  /\ pc \in {"idle", "setH", "setV", "pollH", "pollV", "velocity", "wait", "rest"}
  /\ fn \in {"exact", "early", "one"} /\ row \in 0..(Height - 1) /\ left \in 0..Wait
  /\ want \in [Axes -> Nat] /\ loc \in [Axes -> Int]
  /\ board \in [Axes -> [pos : Int, speed : Int, goal : Nat]]
  /\ echo \in [Axes -> [pos : Int, speed : Int]]
  /\ way \in [Axes -> Seq(Nat)] /\ age \in [Axes -> 0..MaxAge]
  /\ \A a \in Axes :
       /\ board[a].speed \in -MaxSpeed[a]..MaxSpeed[a]
       /\ echo[a].speed \in -MaxSpeed[a]..MaxSpeed[a]
       /\ Len(way[a]) <= 2
  /\ up \in [Axes -> BOOLEAN] /\ calm \in BOOLEAN
  /\ gotos \in 0..MaxGotos /\ faults \in 0..MaxFaults
-----------------------------------------------------------------------------
(* Arithmetic. *)
LEMMA AbsNat == ASSUME NEW x \in Int PROVE Abs(x) \in Nat /\ (Abs(x) = 0 <=> x = 0)
  BY DEF Abs

LEMMA ProductNat == ASSUME NEW x \in Nat, NEW y \in Nat PROVE x * y \in Nat
  OBVIOUS

LEMMA QuotientNat == ASSUME NEW x \in Nat, NEW y \in Nat \ {0} PROVE x \div y \in Nat
  OBVIOUS

(* A speed with which a motor can still stop has the sign of the distance. *)
LEMMA Towards ==
  ASSUME NEW v \in Int, NEW d \in Int, CanStop(v, d)
  PROVE  /\ d = 0 => v = 0
         /\ v > 0 => v <= d
         /\ v < 0 => d <= v
<1>1. v * d >= 0 /\ v * v + Abs(v) <= 2 * Abs(d)
  BY DEF CanStop
<1>2. CASE v > 0
  <2>1. d >= 0
    <3>1. SUFFICES ASSUME d <= -1 PROVE FALSE
      OBVIOUS
    <3>2. v * d <= v * (-1)
      BY <1>2, <3>1
    <3>3. QED
      BY <1>1, <1>2, <3>2
  <2>2. v * v >= v
    BY <1>2
  <2>3. 2 * v <= 2 * d
    BY <1>1, <1>2, <2>1, <2>2 DEF Abs
  <2>4. QED
    BY <1>2, <2>3
<1>3. CASE v < 0
  <2>1. d <= 0
    <3>1. SUFFICES ASSUME d >= 1 PROVE FALSE
      OBVIOUS
    <3>2. v * d <= v * 1
      BY <1>3, <3>1
    <3>3. QED
      BY <1>1, <1>3, <3>2
  <2>2. v * v >= -v
    BY <1>3
  <2>3. 2 * (-v) <= 2 * (-d)
    BY <1>1, <1>3, <2>1, <2>2 DEF Abs
  <2>4. QED
    BY <1>3, <2>3
<1>4. CASE v = 0
  BY <1>4
<1>5. QED
  BY <1>2, <1>3, <1>4

(* ... and braking by one keeps it so. *)
LEMMA Braking ==
  ASSUME NEW v \in Int, NEW d \in Int, CanStop(v, d)
  PROVE  CanStop(v - Sign(v), d - v)
<1>1. v * v + Abs(v) <= 2 * Abs(d)
  BY DEF CanStop
<1>2. CASE v > 0
  <2>1. v <= d
    BY <1>2, Towards
  <2>2. (v - 1) * (d - v) >= 0
    BY <1>2, <2>1, ProductNat
  <2>3. (v - 1) * (v - 1) = v * v - 2 * v + 1
    OBVIOUS
  <2>4. (v - 1) * (v - 1) + (v - 1) <= 2 * (d - v)
    BY <1>1, <1>2, <2>1, <2>3 DEF Abs
  <2>5. QED
    BY <1>2, <2>1, <2>2, <2>4 DEF CanStop, Sign, Abs
<1>3. CASE v < 0
  <2>1. d <= v
    BY <1>3, Towards
  <2>2. (v + 1) * (d - v) >= 0
    <3>1. (-(v + 1)) * (v - d) >= 0
      BY <1>3, <2>1, ProductNat
    <3>2. (-(v + 1)) * (v - d) = (v + 1) * (d - v)
      OBVIOUS
    <3>3. QED
      BY <3>1, <3>2
  <2>3. (v + 1) * (v + 1) = v * v + 2 * v + 1
    OBVIOUS
  <2>4. (v + 1) * (v + 1) - (v + 1) <= 2 * (v - d)
    BY <1>1, <1>3, <2>1, <2>3 DEF Abs
  <2>5. QED
    BY <1>3, <2>1, <2>2, <2>4 DEF CanStop, Sign, Abs
<1>4. CASE v = 0
  BY <1>1, <1>4 DEF CanStop, Sign, Abs
<1>5. QED
  BY <1>2, <1>3, <1>4

(* Of three speeds, one is the fastest. *)
LEMMA Fastest ==
  ASSUME NEW x \in Int, NEW y \in Int, NEW z \in Int, NEW S, S # {}, S \subseteq {x, y, z}
  PROVE  \E w \in S : \A u \in S : Abs(u) <= Abs(w)
<1>1. SUFFICES ASSUME \A w \in S : \E u \in S : Abs(u) > Abs(w) PROVE FALSE
  BY AbsNat
<1>2. PICK a \in S : TRUE
  OBVIOUS
<1>3. PICK b \in S : Abs(b) > Abs(a)
  BY <1>1
<1>4. PICK c \in S : Abs(c) > Abs(b)
  BY <1>1
<1>5. PICK d \in S : Abs(d) > Abs(c)
  BY <1>1
<1>6. QED
  BY <1>3, <1>4, <1>5, AbsNat

(***************************************************************************)
(* A motor keeps within its speed, and one that can still stop at its      *)
(* target after braking also chooses a speed with which it can; any other  *)
(* one brakes.                                                             *)
(***************************************************************************)
LEMMA NextSpeedFacts ==
  ASSUME NEW a \in Axes, NEW v \in -MaxSpeed[a]..MaxSpeed[a], NEW d \in Int
  PROVE  /\ NextSpeed(a, v, d) \in -MaxSpeed[a]..MaxSpeed[a]
         /\ CanStop(v - Sign(v), d) => CanStop(NextSpeed(a, v, d), d)
         /\ NextSpeed(a, v, d) = v - Sign(v) \/ CanStop(NextSpeed(a, v, d), d)
<1> DEFINE near == {w \in (v - 1)..(v + 1) : Abs(w) <= MaxSpeed[a] /\ CanStop(w, d)}
<1>0. MaxSpeed[a] \in Nat \ {0}
  BY AimAssumption
<1>1. CASE near = {}
  <2>1. NextSpeed(a, v, d) = v - Sign(v)
    BY <1>1 DEF NextSpeed
  <2>2. v - Sign(v) \in -MaxSpeed[a]..MaxSpeed[a] /\ v - Sign(v) \in (v - 1)..(v + 1)
    BY <1>0 DEF Sign
  <2>3. Abs(v - Sign(v)) <= MaxSpeed[a]
    BY <1>0, <2>2 DEF Abs
  <2>4. QED
    BY <1>1, <2>1, <2>2, <2>3
<1>2. CASE near # {}
  <2>1. \E w \in near : \A u \in near : Abs(u) <= Abs(w)
    <3>1. near \subseteq {v - 1, v, v + 1}
      OBVIOUS
    <3>2. v - 1 \in Int /\ v \in Int /\ v + 1 \in Int
      OBVIOUS
    <3> HIDE DEF near
    <3>3. QED
      BY <1>2, <3>1, <3>2, Fastest
  <2>2. NextSpeed(a, v, d) = CHOOSE w \in near : \A u \in near : Abs(u) <= Abs(w)
    BY <1>2 DEF NextSpeed
  <2>3. NextSpeed(a, v, d) \in near
    BY <2>1, <2>2
  <2>4. QED
    BY <1>0, <2>3 DEF Abs
<1>3. QED
  BY <1>1, <1>2

(***************************************************************************)
(* A tick: the motor goes on to its goal and can still stop there, it gets *)
(* no farther from it, and one that rests stays where it is.               *)
(***************************************************************************)
Motor == [pos : Int, speed : Int, goal : Nat]

LEMMA MovedFacts ==
  ASSUME NEW a \in Axes, NEW b \in Motor, b.speed \in -MaxSpeed[a]..MaxSpeed[a]
  PROVE  /\ Moved(a, b) \in Motor
         /\ Moved(a, b).speed \in -MaxSpeed[a]..MaxSpeed[a]
         /\ Moved(a, b).goal = b.goal
         /\ CanStop(b.speed, b.goal - b.pos) =>
              /\ CanStop(Moved(a, b).speed, b.goal - Moved(a, b).pos)
              /\ Abs(b.goal - Moved(a, b).pos) <= Abs(b.goal - b.pos)
         /\ Resting(b) => Moved(a, b).pos = b.pos /\ Moved(a, b).speed = 0
<1> DEFINE v == b.speed
           d == b.goal - b.pos
           w == NextSpeed(a, v, d - v)
<1>0. MaxSpeed[a] \in Nat \ {0}
  BY AimAssumption
<1>1. v \in Int /\ d \in Int /\ v \in -MaxSpeed[a]..MaxSpeed[a] /\ b.pos \in Int /\ b.goal \in Nat
  BY DEF Motor
<1>2. w \in -MaxSpeed[a]..MaxSpeed[a] /\ (CanStop(v - Sign(v), d - v) => CanStop(w, d - v))
  BY <1>1, NextSpeedFacts
<1>3. b.goal - (b.pos + v) = d - v
  BY <1>1
<1>4. Moved(a, b) = [b EXCEPT !.pos = b.pos + v, !.speed = w]
  BY <1>3 DEF Moved
<1>5. Moved(a, b) \in Motor /\ Moved(a, b).pos = b.pos + v
        /\ Moved(a, b).speed = w /\ Moved(a, b).goal = b.goal
  <2>1. w \in Int /\ b.pos + v \in Int
    BY <1>0, <1>1, <1>2
  <2> HIDE DEF w, v
  <2>2. QED
    BY <1>1, <1>4, <2>1 DEF Motor
<1>6. ASSUME CanStop(v, d) PROVE CanStop(w, d - v) /\ Abs(d - v) <= Abs(d)
  <2>1. CanStop(w, d - v)
    BY <1>1, <1>2, <1>6, Braking
  <2>2. (d = 0 => v = 0) /\ (v > 0 => v <= d) /\ (v < 0 => d <= v)
    BY <1>1, <1>6, Towards
  <2>3. QED
    BY <1>1, <2>1, <2>2 DEF Abs
<1>7. ASSUME Resting(b) PROVE v = 0 /\ w = 0
  <2>1. v = 0 /\ d = 0
    BY <1>1, <1>7 DEF Resting
  <2>2. CanStop(v, d) /\ d - v = 0
    BY <2>1 DEF CanStop, Abs
  <2>3. CanStop(w, 0)
    BY <1>6, <2>2
  <2>4. w \in Int
    BY <1>0, <1>2
  <2>5. QED
    BY <2>1, <2>3, <2>4, Towards
<1>8. b.goal - Moved(a, b).pos = d - v
  BY <1>3, <1>5
<1>9. Resting(b) => Moved(a, b).pos = b.pos /\ Moved(a, b).speed = 0
  BY <1>1, <1>5, <1>7
<1> HIDE DEF w
<1>10. QED
  BY <1>2, <1>5, <1>6, <1>8, <1>9
-----------------------------------------------------------------------------
(* Types. *)
LEMMA LocationNat ==
  ASSUME NEW f, NEW a \in Axes, NEW pixel \in Nat
  PROVE  Location(f, a, pixel) \in Nat
<1> DEFINE size == IF a = "H" THEN Width ELSE Height
<1>1. size \in Nat \ {0} /\ Degrees \in Nat /\ StepsPerDegree \in Nat
  BY AimAssumption
<1> HIDE DEF size
<1>2. ExactLocation(pixel, size) \in Nat
  BY <1>1, ProductNat, QuotientNat DEF ExactLocation
<1>3. EarlyLocation(pixel, size) \in Nat
  BY <1>1, ProductNat, QuotientNat DEF EarlyLocation
<1> QED
  BY <1>2, <1>3 DEF Location, size

LEMMA TypedInit == ASSUME Init PROVE Typed
<1>1. Middle \in Nat
  BY AimAssumption, ProductNat, QuotientNat DEF Middle
<1>2. <<>> \in Seq(Nat) /\ Len(<<>>) = 0
  OBVIOUS
<1>3. \A a \in Axes : MaxSpeed[a] \in Nat \ {0}
  BY AimAssumption
<1>4. want \in [Axes -> Nat] /\ loc \in [Axes -> Int]
  BY <1>1 DEF Init
<1>5. board \in [Axes -> [pos : Int, speed : Int, goal : Nat]]
  BY <1>1 DEF Init
<1>6. echo \in [Axes -> [pos : Int, speed : Int]]
  BY <1>1 DEF Init
<1>7. \A a \in Axes : board[a].speed = 0 /\ echo[a].speed = 0
  BY DEF Init
<1> QED
  BY <1>2, <1>3, <1>4, <1>5, <1>6, <1>7, AimAssumption DEF Init, Typed

LEMMA TypedGoto == ASSUME Typed, Goto PROVE Typed'
<1> USE DEF Goto, Typed, motors
<1>1. fn' \in {"exact", "early", "one"}
  OBVIOUS
<1>2. row' \in 0..(Height - 1)
  BY AimAssumption
<1>3. PICK column \in 0..Width :
        want' = [a \in Axes |-> IF fn' = "one" /\ a = "V" THEN want[a]
                                ELSE Location(fn', a, IF a = "H" THEN column ELSE row')]
  OBVIOUS
<1>4. want' \in [Axes -> Nat]
  <2>1. \A a \in Axes : (IF a = "H" THEN column ELSE row') \in Nat
    BY <1>2, AimAssumption
  <2>2. \A a \in Axes : Location(fn', a, IF a = "H" THEN column ELSE row') \in Nat
    BY <2>1, LocationNat
  <2>3. QED
    BY <1>3, <2>2
<1>5. loc' \in [Axes -> Int]
  BY <1>4
<1>6. gotos' \in 0..MaxGotos
  BY AimAssumption
<1>7. calm' \in BOOLEAN
  OBVIOUS
<1> QED
  BY <1>1, <1>2, <1>4, <1>5, <1>6, <1>7

LEMMA TypedTick == ASSUME Typed, Tick PROVE Typed'
<1> USE DEF Tick, Typed
<1>1. \A a \in Axes : /\ Moved(a, board[a]) \in [pos : Int, speed : Int, goal : Nat]
                      /\ Moved(a, board[a]).speed \in -MaxSpeed[a]..MaxSpeed[a]
  BY MovedFacts DEF Motor
<1>2. /\ board' \in [Axes -> [pos : Int, speed : Int, goal : Nat]]
      /\ \A a \in Axes : board'[a].speed \in -MaxSpeed[a]..MaxSpeed[a]
  BY <1>1
<1>3. age' \in [Axes -> 0..MaxAge]
  BY AimAssumption
<1>4. left' \in 0..Wait
  BY AimAssumption
<1> QED
  BY <1>2, <1>3, <1>4

LEMMA TypedExecute == ASSUME Typed, NEW a \in Axes, Execute(a) PROVE Typed'
<1> USE DEF Execute, Typed
<1>1. Head(way[a]) \in Nat /\ Tail(way[a]) \in Seq(Nat) /\ Len(Tail(way[a])) <= 2
  OBVIOUS
<1>2. board' \in [Axes -> [pos : Int, speed : Int, goal : Nat]]
  BY <1>1
<1>3. \A b \in Axes : board'[b].speed = board[b].speed
  OBVIOUS
<1>4. way' \in [Axes -> Seq(Nat)] /\ \A b \in Axes : Len(way'[b]) <= 2
  BY <1>1
<1> QED
  BY <1>2, <1>3, <1>4 DEF program

LEMMA EchoTyped ==
  ASSUME Typed, NEW a \in Axes,
         echo' = [echo EXCEPT ![a] = [pos |-> board[a].pos, speed |-> board[a].speed]]
  PROVE  /\ echo' \in [Axes -> [pos : Int, speed : Int]]
         /\ \A b \in Axes : echo'[b].speed \in -MaxSpeed[b]..MaxSpeed[b]
  BY DEF Typed

LEMMA TypedReport == ASSUME Typed, NEW a \in Axes, Report(a) PROVE Typed'
<1>1. age' \in [Axes -> 0..MaxAge]
  BY AimAssumption DEF Report, Typed
<1> QED
  BY <1>1, EchoTyped DEF Report, Typed, program

LEMMA TypedSetTarget ==
  ASSUME Typed, NEW a \in Axes, NEW next \in {"setV", "pollH"}, SetTarget(a, next)
  PROVE  Typed'
<1>1. way' \in [Axes -> Seq(Nat)] /\ \A b \in Axes : Len(way'[b]) <= 2
  <2>1. CASE Len(way[a]) < 2 /\ Accept(a)
    <3>1. Append(way[a], want[a]) \in Seq(Nat) /\ Len(Append(way[a], want[a])) <= 2
      BY <2>1 DEF Typed
    <3> QED
      BY <2>1, <3>1 DEF Accept, Typed
  <2>2. CASE way' = way
    BY <2>2 DEF Typed
  <2> QED
    BY <2>1, <2>2 DEF SetTarget
<1>2. (calm' = calm \/ calm' = FALSE) /\ (faults' = faults \/ (faults < MaxFaults /\ faults' = faults + 1))
  BY DEF SetTarget
<1>3. calm' \in BOOLEAN
  BY <1>2 DEF Typed
<1>4. faults' \in 0..MaxFaults
  BY <1>2, AimAssumption DEF Typed
<1> QED
  BY <1>1, <1>3, <1>4 DEF SetTarget, Typed

LEMMA TypedPolled == ASSUME Typed, NEW a \in Axes PROVE Polled(a) \in [Axes -> Int]
  BY DEF Typed, Polled

LEMMA TypedProgram == ASSUME Typed, Program PROVE Typed'
<1>1. CASE SetTargets
  BY <1>1, TypedSetTarget DEF SetTargets, Axes
<1>2. CASE PollH
  <2>1. loc' \in [Axes -> Int]
    BY <1>2, TypedPolled DEF PollH, Axes
  <2>2. pc' \in {"pollH", "pollV", "velocity", "wait"} /\ (left' = left \/ left' = Wait)
    BY <1>2 DEF PollH, Return
  <2>3. left' \in 0..Wait
    BY <2>2, AimAssumption DEF Typed
  <2> QED
    BY <1>2, <2>1, <2>2, <2>3 DEF PollH, motors, Typed
<1>3. CASE PollV
  <2>1. loc' \in [Axes -> Int]
    BY <1>3, TypedPolled DEF PollV, Axes
  <2>2. pc' \in {"pollH", "pollV", "velocity", "wait"} /\ (left' = left \/ left' = Wait)
    BY <1>3 DEF PollV, Return
  <2>3. left' \in 0..Wait
    BY <2>2, AimAssumption DEF Typed
  <2> QED
    BY <1>3, <2>1, <2>2, <2>3 DEF PollV, motors, Typed
<1>4. CASE TestVelocity
  BY <1>4, AimAssumption DEF TestVelocity, Return, motors, Typed
<1>5. CASE ReadTemp
  BY <1>5, AimAssumption DEF ReadTemp, motors, Typed
<1>6. CASE Rested
  BY <1>6 DEF Rested, motors, Typed
<1> QED
  BY <1>1, <1>2, <1>3, <1>4, <1>5, <1>6 DEF Program

LEMMA TypedDetach == ASSUME Typed, NEW a \in Axes, Detach(a) PROVE Typed'
<1>1. <<>> \in Seq(Nat) /\ Len(<<>>) = 0
  OBVIOUS
<1>2. way' \in [Axes -> Seq(Nat)] /\ \A b \in Axes : Len(way'[b]) <= 2
  BY <1>1 DEF Detach, Typed
<1>3. faults' \in 0..MaxFaults
  BY AimAssumption DEF Detach, Typed
<1> QED
  BY <1>2, <1>3 DEF Detach, program, Typed

LEMMA TypedAttach == ASSUME Typed, NEW a \in Axes, Attach(a) PROVE Typed'
<1>1. age' \in [Axes -> 0..MaxAge]
  BY AimAssumption DEF Attach, Typed
<1> QED
  BY <1>1, EchoTyped DEF Attach, Typed, program

LEMMA TypedStep == ASSUME Typed, [Next]_vars PROVE Typed'
<1>1. CASE Goto
  BY <1>1, TypedGoto
<1>2. CASE Program
  BY <1>2, TypedProgram
<1>3. CASE Tick
  BY <1>3, TypedTick
<1>4. ASSUME NEW a \in Axes, Execute(a) \/ Report(a) \/ Detach(a) \/ Attach(a) PROVE Typed'
  BY <1>4, TypedExecute, TypedReport, TypedDetach, TypedAttach
<1>5. CASE UNCHANGED vars
  BY <1>5 DEF Typed, vars, program, motors
<1> QED
  BY <1>1, <1>2, <1>3, <1>4, <1>5 DEF Next

LEMMA AlwaysTyped == Spec => []Typed
  BY TypedInit, TypedStep, PTL DEF Spec
-----------------------------------------------------------------------------
(***************************************************************************)
(* No motor leaves the picture: neither where it is nor where it would     *)
(* stop if it braked at once is outside, and it is sent nowhere outside.   *)
(* The distance from which a motor stops is v + (v - 1) + ... + 1; to keep *)
(* to integers it is taken twice.                                          *)
(***************************************************************************)
StopPoint(b) == 2 * b.pos + b.speed * Abs(b.speed) + b.speed

Bounded(b) == b.pos \in 0..Far /\ b.goal \in 0..Far /\ StopPoint(b) \in 0..(2 * Far)

InPicture ==
  /\ want \in [Axes -> 0..Far] /\ loc \in [Axes -> 0..Far]
  /\ \A a \in Axes : Bounded(board[a]) /\ echo[a].pos \in 0..Far
  /\ \A a \in Axes : \A i \in DOMAIN way[a] : way[a][i] \in 0..Far

LEMMA FarNat == Far \in Nat
  BY AimAssumption, ProductNat DEF Far

LEMMA QuotientBound ==
  ASSUME NEW x \in Nat, NEW s \in Nat \ {0}, NEW f \in Nat, x <= f * s
  PROVE  x \div s \in 0..f
<1> DEFINE q == x \div s
<1>1. q \in Nat /\ q * s <= x
  BY QuotientNat
<1>2. SUFFICES ASSUME q >= f + 1 PROVE FALSE
  BY <1>1
<1> HIDE DEF q
<1>3. q * s >= (f + 1) * s
  BY <1>1, <1>2
<1>4. (f + 1) * s = f * s + s /\ f * s \in Nat
  OBVIOUS
<1> QED
  BY <1>1, <1>3, <1>4

LEMMA ProductBound ==
  ASSUME NEW x \in Nat, NEW y \in Nat, NEW z \in Nat, x <= y
  PROVE  z * x <= z * y /\ x * z <= y * z
  OBVIOUS

LEMMA LocationBound ==
  ASSUME NEW f, NEW a \in Axes, NEW pixel \in 0..(IF a = "H" THEN Width ELSE Height)
  PROVE  Location(f, a, pixel) \in 0..Far
<1> DEFINE size == IF a = "H" THEN Width ELSE Height
<1>1. /\ size \in Nat \ {0} /\ pixel \in Nat /\ pixel <= size
      /\ Degrees \in Nat /\ StepsPerDegree \in Nat
  BY AimAssumption
<1> HIDE DEF size
<1>2. ExactLocation(pixel, size) \in 0..Far
  <2>1. Degrees * pixel \in Nat /\ Degrees * pixel <= Degrees * size
    BY <1>1, ProductBound, ProductNat
  <2>2. (Degrees * pixel) \div size \in 0..Degrees
    BY <1>1, <2>1, QuotientBound
  <2> DEFINE q == (Degrees * pixel) \div size
  <2> HIDE DEF q
  <2>3. q \in Nat /\ q <= Degrees
    BY <1>1, <2>2 DEF q
  <2>4. q * StepsPerDegree \in Nat /\ q * StepsPerDegree <= Degrees * StepsPerDegree
    BY <1>1, <2>3, ProductBound, ProductNat
  <2> QED
    BY <2>4, FarNat DEF ExactLocation, Far, q
<1>3. EarlyLocation(pixel, size) \in 0..Far
  <2>1. Far * pixel \in Nat /\ Far * pixel <= Far * size
    BY <1>1, FarNat, ProductBound, ProductNat
  <2>2. (Far * pixel) \div size \in 0..Far
    BY <1>1, <2>1, FarNat, QuotientBound
  <2> QED
    BY <2>2 DEF EarlyLocation, Far
<1> QED
  BY <1>2, <1>3 DEF Location, size

(* A tick keeps a motor in the picture, also one that cannot stop where it  *)
(* was sent: it brakes, and its stopping point stays where it is.          *)
LEMMA MovedBounded ==
  ASSUME NEW a \in Axes, NEW b \in Motor, b.speed \in -MaxSpeed[a]..MaxSpeed[a], Bounded(b)
  PROVE  Bounded(Moved(a, b))
<1> DEFINE v == b.speed
           p == b.pos + v
           d == b.goal - p
           w == NextSpeed(a, v, d)
<1>0. MaxSpeed[a] \in Nat \ {0}
  BY AimAssumption
<1>1. v \in Int /\ b.pos \in 0..Far /\ b.goal \in 0..Far /\ p \in Int /\ d \in Int
      /\ 2 * b.pos + v * Abs(v) + v \in 0..(2 * Far)
  BY FarNat DEF Motor, Bounded, StopPoint
<1>2. w \in Int /\ (w = v - Sign(v) \/ CanStop(w, d))
  BY <1>0, <1>1, NextSpeedFacts
<1>3. /\ Moved(a, b).pos = p /\ Moved(a, b).speed = w /\ Moved(a, b).goal = b.goal
  <2>1. Moved(a, b) = [b EXCEPT !.pos = p, !.speed = w]
    BY DEF Moved
  <2> HIDE DEF w, p
  <2> QED
    BY <2>1 DEF Motor
<1> HIDE DEF w
<1>4. v * v >= v /\ v * v >= -v
  <2>1. CASE v >= 1
    <3>1. v * v >= 1 * v
      BY <1>1, <2>1
    <3> QED
      BY <1>1, <2>1, <3>1
  <2>2. CASE v <= -1
    <3>1. (-v) * (-v) >= 1 * (-v)
      BY <1>1, <2>2
    <3> QED
      BY <1>1, <2>2, <3>1
  <2>3. CASE v = 0
    BY <2>3
  <2> QED
    BY <1>1, <2>1, <2>2, <2>3
<1>5. p \in 0..Far
  <2>1. CASE v >= 0
    BY <1>1, <1>4, <2>1, FarNat DEF Abs
  <2>2. CASE v < 0
    <3>1. v * Abs(v) = -(v * v)
      BY <1>1, <2>2 DEF Abs
    <3> QED
      BY <1>1, <1>4, <2>2, <3>1, FarNat
  <2> QED
    BY <1>1, <2>1, <2>2
<1>6. 2 * p + w * Abs(w) + w \in 0..(2 * Far)
  <2>1. CASE w = v - Sign(v)
    <3>1. CASE v > 0
      <4>1. w = v - 1 /\ Abs(w) = v - 1
        BY <1>1, <2>1, <3>1 DEF Sign, Abs
      <4>2. (v - 1) * (v - 1) = v * v - 2 * v + 1
        BY <1>1
      <4> QED
        BY <1>1, <3>1, <4>1, <4>2 DEF Abs
    <3>2. CASE v < 0
      <4>1. w = v + 1 /\ Abs(w) = -(v + 1)
        BY <1>1, <2>1, <3>2 DEF Sign, Abs
      <4>2. (v + 1) * (-(v + 1)) = -(v * v) - 2 * v - 1 /\ v * (-v) = -(v * v)
        BY <1>1
      <4> QED
        BY <1>1, <3>2, <4>1, <4>2 DEF Abs
    <3>3. CASE v = 0
      BY <1>1, <2>1, <3>3 DEF Sign, Abs
    <3> QED
      BY <1>1, <3>1, <3>2, <3>3
  <2>2. CASE CanStop(w, d)
    <3>1. w * w + Abs(w) <= 2 * Abs(d)
      BY <2>2 DEF CanStop
    <3>2. /\ d = 0 => w = 0
          /\ w > 0 => w <= d
          /\ w < 0 => d <= w
      BY <1>1, <1>2, <2>2, Towards
    <3>3. w * w \in Nat
      BY <1>2
    <3>4. CASE w > 0
      <4>1. Abs(w) = w /\ Abs(d) = d
        BY <1>1, <1>2, <3>2, <3>4 DEF Abs
      <4> QED
        BY <1>1, <1>2, <1>5, <3>1, <3>3, <3>4, <4>1, FarNat
    <3>5. CASE w < 0
      <4>1. Abs(w) = -w /\ Abs(d) = -d
        BY <1>1, <1>2, <3>2, <3>5 DEF Abs
      <4>2. w * Abs(w) = -(w * w)
        BY <1>2, <4>1
      <4> QED
        BY <1>1, <1>2, <1>5, <3>1, <3>3, <3>5, <4>1, <4>2, FarNat
    <3>6. CASE w = 0
      BY <1>1, <1>5, <3>6, FarNat DEF Abs
    <3> QED
      BY <1>2, <3>4, <3>5, <3>6
  <2> QED
    BY <1>2, <2>1, <2>2
<1> QED
  BY <1>1, <1>3, <1>5, <1>6 DEF Bounded, StopPoint

LEMMA PictureInit == ASSUME Init PROVE InPicture
<1>1. Middle \in 0..Far
  <2>1. Degrees \div 2 \in Nat /\ Degrees \div 2 <= Degrees
    BY AimAssumption
  <2>2. (Degrees \div 2) * StepsPerDegree <= Degrees * StepsPerDegree
    BY <2>1, AimAssumption, ProductBound
  <2>3. (Degrees \div 2) * StepsPerDegree \in Nat
    BY <2>1, AimAssumption, ProductNat
  <2> QED
    BY <2>2, <2>3, FarNat DEF Middle, Far
<1>2. want \in [Axes -> 0..Far] /\ loc \in [Axes -> 0..Far]
  BY <1>1 DEF Init
<1>3. ASSUME NEW a \in Axes PROVE Bounded(board[a])
  <2>1. board[a].pos = Middle /\ board[a].speed = 0 /\ board[a].goal = Middle
    BY DEF Init
  <2> QED
    BY <1>1, <2>1, FarNat DEF Bounded, StopPoint, Abs
<1>4. \A a \in Axes : echo[a].pos \in 0..Far
  BY <1>1, FarNat DEF Init
<1>5. \A a \in Axes : DOMAIN way[a] = {}
  BY DEF Init
<1> QED
  BY <1>2, <1>3, <1>4, <1>5 DEF InPicture

LEMMA HeadTailWithin ==
  ASSUME NEW s \in Seq(Nat), s # <<>>, NEW S, \A i \in DOMAIN s : s[i] \in S
  PROVE  Head(s) \in S /\ \A i \in DOMAIN Tail(s) : Tail(s)[i] \in S
<1> DEFINE n == Len(s)
<1>1. n \in Nat /\ DOMAIN s = 1..n
  BY LenProperties
<1>2. n # 0
  BY EmptySeq
<1>3. /\ Head(s) = s[1] /\ Tail(s) \in Seq(Nat) /\ Len(Tail(s)) = n - 1
      /\ \A i \in 1..(n - 1) : Tail(s)[i] = s[i + 1]
  BY HeadTailProperties
<1>4. DOMAIN Tail(s) = 1..(n - 1)
  BY <1>3, LenProperties
<1> HIDE DEF n
<1>5. 1 \in 1..n /\ \A i \in 1..(n - 1) : i + 1 \in 1..n
  BY <1>1, <1>2
<1> QED
  BY <1>1, <1>3, <1>4, <1>5

LEMMA PictureStep == ASSUME Typed, InPicture, [Next]_vars PROVE InPicture'
<1>1. CASE Goto
  <2>1. row' \in 0..(Height - 1)
    BY <1>1, AimAssumption DEF Goto, Typed
  <2>2. PICK column \in 0..Width :
          want' = [a \in Axes |-> IF fn' = "one" /\ a = "V" THEN want[a]
                                  ELSE Location(fn', a, IF a = "H" THEN column ELSE row')]
    BY <1>1 DEF Goto
  <2>3. ASSUME NEW a \in Axes
        PROVE  Location(fn', a, IF a = "H" THEN column ELSE row') \in 0..Far
    <3>1. (IF a = "H" THEN column ELSE row') \in 0..(IF a = "H" THEN Width ELSE Height)
      BY <2>1, AimAssumption
    <3> QED
      BY <3>1, LocationBound
  <2>4. want' \in [Axes -> 0..Far]
    BY <2>2, <2>3 DEF InPicture
  <2> QED
    BY <1>1, <2>4 DEF Goto, motors, InPicture
<1>2. CASE Tick
  <2>1. ASSUME NEW a \in Axes PROVE Bounded(board'[a])
    <3>1. board[a] \in Motor /\ board[a].speed \in -MaxSpeed[a]..MaxSpeed[a]
      BY DEF Typed, Motor
    <3>2. board'[a] = Moved(a, board[a])
      BY <1>2 DEF Tick
    <3> QED
      BY <3>1, <3>2, MovedBounded DEF InPicture
  <2> QED
    BY <1>2, <2>1 DEF Tick, InPicture
<1>3. ASSUME NEW a \in Axes, Execute(a) PROVE InPicture'
  <2>1. Head(way[a]) \in 0..Far /\ \A i \in DOMAIN Tail(way[a]) : Tail(way[a])[i] \in 0..Far
    <3>1. way[a] \in Seq(Nat) /\ way[a] # <<>>
      BY <1>3 DEF Execute, Typed
    <3>2. \A i \in DOMAIN way[a] : way[a][i] \in 0..Far
      BY DEF InPicture
    <3> QED
      BY <3>1, <3>2, HeadTailWithin
  <2>2. /\ board' = [board EXCEPT ![a].goal = Head(way[a])]
        /\ way' = [way EXCEPT ![a] = Tail(way[a])]
        /\ UNCHANGED <<want, loc, echo>>
    BY <1>3 DEF Execute, program
  <2>3. ASSUME NEW b \in Axes PROVE Bounded(board'[b])
    <3>1. /\ board'[b].pos = board[b].pos /\ board'[b].speed = board[b].speed
          /\ board'[b].goal \in {board[b].goal, Head(way[a])}
      BY <2>2 DEF Typed
    <3>2. Bounded(board[b])
      BY DEF InPicture
    <3> QED
      BY <2>1, <3>1, <3>2 DEF Bounded, StopPoint
  <2>4. \A b \in Axes : \A i \in DOMAIN way'[b] : way'[b][i] \in 0..Far
    BY <2>1, <2>2 DEF InPicture, Typed
  <2> QED
    BY <2>2, <2>3, <2>4 DEF InPicture
<1>4. ASSUME NEW a \in Axes, Report(a) \/ Attach(a) PROVE InPicture'
  <2>1. /\ echo' = [echo EXCEPT ![a] = [pos |-> board[a].pos, speed |-> board[a].speed]]
        /\ UNCHANGED <<want, loc, board, way>>
    BY <1>4 DEF Report, Attach, program
  <2>2. board[a].pos \in 0..Far
    BY DEF InPicture, Bounded
  <2>3. \A b \in Axes : echo'[b].pos \in 0..Far
    BY <2>1, <2>2 DEF InPicture, Typed
  <2> QED
    BY <2>1, <2>3 DEF InPicture
<1>5. ASSUME NEW a \in Axes, Detach(a) PROVE InPicture'
  <2>1. /\ way' = [way EXCEPT ![a] = <<>>]
        /\ UNCHANGED <<want, loc, board, echo>>
    BY <1>5 DEF Detach, program
  <2>2. \A b \in Axes : \A i \in DOMAIN way'[b] : way'[b][i] \in 0..Far
    BY <2>1 DEF InPicture, Typed
  <2> QED
    BY <2>1, <2>2 DEF InPicture
<1>6. ASSUME NEW a \in Axes, NEW next, SetTarget(a, next) PROVE InPicture'
  <2>1. UNCHANGED <<want, loc, board, echo>> /\ (way' = way \/ Accept(a))
    BY <1>6 DEF SetTarget
  <2>2. ASSUME Accept(a), NEW b \in Axes, NEW i \in DOMAIN way'[b] PROVE way'[b][i] \in 0..Far
    <3>1. want[a] \in 0..Far /\ want[a] \in Nat /\ way[a] \in Seq(Nat)
      BY DEF InPicture, Typed
    <3>2. \A k \in DOMAIN Append(way[a], want[a]) :
             \/ k = Len(way[a]) + 1 /\ Append(way[a], want[a])[k] = want[a]
             \/ k \in DOMAIN way[a] /\ Append(way[a], want[a])[k] = way[a][k]
      BY <3>1
    <3>3. way'[b] = IF b = a THEN Append(way[a], want[a]) ELSE way[b]
      BY <2>2 DEF Accept, Typed
    <3> QED
      BY <2>2, <3>1, <3>2, <3>3 DEF InPicture
  <2> QED
    BY <2>1, <2>2 DEF InPicture
<1>7. CASE PollH \/ PollV
  <2>1. /\ loc' \in {Polled("H"), Polled("V")} /\ UNCHANGED <<want, board, way, echo>>
    BY <1>7 DEF PollH, PollV, motors
  <2>2. \A a \in Axes : Polled(a) \in [Axes -> 0..Far]
    BY DEF Polled, InPicture
  <2> QED
    BY <2>1, <2>2 DEF InPicture, Axes
<1>8. CASE TestVelocity \/ ReadTemp \/ Rested
  BY <1>8 DEF TestVelocity, ReadTemp, Rested, motors, InPicture
<1>9. CASE SetTargets
  BY <1>6, <1>9 DEF SetTargets, Axes
<1>10. CASE UNCHANGED vars
  BY <1>10 DEF vars, program, motors, InPicture
<1> QED
  BY <1>1, <1>2, <1>3, <1>4, <1>5, <1>7, <1>8, <1>9, <1>10 DEF Next, Program

(***************************************************************************)
(* No motor ever leaves the picture, whenever the next goto comes, and no  *)
(* board is ever given a third target while two wait (steppers.c,          *)
(* gotoPixel2D and gotoPixel2DandExit).                                    *)
(***************************************************************************)
THEOREM TypeCorrect == Spec => []TypeOK
<1>1. Typed /\ InPicture => TypeOK
  <2>1. SUFFICES ASSUME Typed, InPicture PROVE TypeOK
    OBVIOUS
  <2>2. ASSUME NEW a \in Axes
        PROVE  /\ board[a] \in [pos : 0..Far, speed : -MaxSpeed[a]..MaxSpeed[a], goal : 0..Far]
               /\ echo[a] \in [pos : 0..Far, speed : -MaxSpeed[a]..MaxSpeed[a]]
    <3>1. /\ board[a].pos \in 0..Far /\ board[a].goal \in 0..Far /\ echo[a].pos \in 0..Far
          /\ board[a].speed \in -MaxSpeed[a]..MaxSpeed[a]
          /\ echo[a].speed \in -MaxSpeed[a]..MaxSpeed[a]
      BY <2>1 DEF InPicture, Bounded, Typed
    <3>2. board[a] \in [pos : Int, speed : Int, goal : Nat] /\ echo[a] \in [pos : Int, speed : Int]
      BY <2>1 DEF Typed
    <3> QED
      BY <3>1, <3>2
  <2> QED
    BY <2>1, <2>2 DEF TypeOK, Typed, InPicture
<1>2. Spec => []InPicture
  BY PictureInit, PictureStep, AlwaysTyped, PTL DEF Spec
<1> QED
  BY <1>1, <1>2, AlwaysTyped, PTL
-----------------------------------------------------------------------------
(***************************************************************************)
(* The motors.  A motor that is still stays so where it is; one on its way *)
(* stays on it and gets no farther from its target; and what a poll has    *)
(* returned stays not nearer than the last report.                         *)
(***************************************************************************)
Keeps(a) ==
  /\ Still(a) => Still(a)' /\ board'[a].pos = board[a].pos
  /\ OnWay(a) => OnWay(a)' /\ Distance(a, board'[a].pos) <= Distance(a, board[a].pos)
  /\ OnWay(a) /\ Seen(a) => Seen(a)'

(* A motor whose target the last report shows is at rest there. *)
LEMMA ShownAtRest ==
  ASSUME Typed, NEW a \in Axes, OnWay(a), board[a].pos = want[a]
  PROVE  AtRest(a)
<1>0. /\ board[a] \in [pos : Int, speed : Int, goal : Nat] /\ want[a] \in Nat
      /\ way[a] \in Seq(Nat) /\ board[a].speed \in Int /\ board[a].pos \in Int
  BY DEF Typed
<1>1. CASE Sent(a)
  <2>1. CanStop(board[a].speed, 0)
    BY <1>0, <1>1 DEF Sent
  <2>2. board[a].speed = 0
    BY <1>0, <2>1, Towards
  <2> QED
    BY <1>1, <2>2 DEF AtRest, Resting, Sent
<1>2. CASE ToBeSent(a)
  <2>1. \A i \in DOMAIN way[a] : i \in 1..(Len(way[a]) - 1) \/ i = Len(way[a])
    BY <1>0
  <2> QED
    BY <1>2, <2>1 DEF AtRest, ToBeSent
<1> QED
  BY <1>1, <1>2 DEF OnWay

LEMMA TickKeeps ==
  ASSUME Typed, Tick, NEW a \in Axes, up[a]
  PROVE  Keeps(a)
<1> DEFINE b == board[a]
<1>0. /\ b \in Motor /\ b.speed \in -MaxSpeed[a]..MaxSpeed[a] /\ b.pos \in Int /\ want[a] \in Nat
      /\ MaxSpeed[a] \in Nat /\ echo[a].pos \in Int /\ b.speed \in Int
  BY AimAssumption DEF Typed, Motor
<1>1. /\ way[a] = <<>> /\ way' = way /\ board'[a] = Moved(a, b) /\ echo' = echo
      /\ want' = want /\ loc' = loc
  BY DEF Tick
<1>2. /\ board'[a].goal = b.goal
      /\ CanStop(b.speed, b.goal - b.pos) =>
           /\ CanStop(board'[a].speed, b.goal - board'[a].pos)
           /\ Abs(b.goal - board'[a].pos) <= Abs(b.goal - b.pos)
      /\ Resting(b) => board'[a].pos = b.pos /\ board'[a].speed = 0
      /\ board'[a].pos \in Int
  BY <1>0, <1>1, MovedFacts DEF Motor
<1>3. ASSUME Still(a) PROVE Still(a)' /\ board'[a].pos = b.pos
  BY <1>1, <1>2, <1>3 DEF Still, AtRest, Resting
<1>4. ASSUME OnWay(a) PROVE OnWay(a)' /\ Distance(a, board'[a].pos) <= Distance(a, b.pos)
  <2>1. Sent(a)
    BY <1>1, <1>4 DEF OnWay, ToBeSent
  <2>2. Sent(a)' /\ Distance(a, board'[a].pos) <= Distance(a, b.pos)
    BY <1>1, <1>2, <2>1 DEF Sent, Distance
  <2>3. Distance(a, b.pos) <= Distance(a, echo[a].pos)
    BY <1>4 DEF OnWay
  <2>4. Distance(a, board'[a].pos) <= Distance(a, echo[a].pos)
    BY <1>0, <1>2, <2>2, <2>3, AbsNat DEF Distance
  <2> QED
    BY <1>1, <1>4, <2>2, <2>4 DEF OnWay, Distance
<1>5. Seen(a) => Seen(a)'
  BY <1>1 DEF Seen, Distance
<1> QED
  BY <1>3, <1>4, <1>5 DEF Keeps

(* What another axis does leaves this one alone. *)
LEMMA OthersKeep ==
  ASSUME Typed, NEW a \in Axes, board'[a] = board[a], way'[a] = way[a], echo'[a] = echo[a],
         want' = want, loc' = loc
  PROVE  Keeps(a)
<1>1. board[a].pos \in Int /\ want[a] \in Nat
  BY DEF Typed
<1>2. Distance(a, board[a].pos) <= Distance(a, board[a].pos)
  BY <1>1, AbsNat DEF Distance
<1> QED
  BY <1>2 DEF Keeps, Still, AtRest, OnWay, Sent, ToBeSent, Seen, Distance

(* What follows the head of a sequence of several, and its last. *)
LEMMA TailLast ==
  ASSUME NEW s \in Seq(Nat), Len(s) > 1
  PROVE  /\ Tail(s) # <<>> /\ Tail(s)[Len(Tail(s))] = s[Len(s)] /\ 1 \in 1..(Len(s) - 1)
         /\ \A i \in 1..(Len(Tail(s)) - 1) : i + 1 \in 1..(Len(s) - 1) /\ Tail(s)[i] = s[i + 1]
<1> DEFINE n == Len(s)
<1>0. n \in Nat /\ n > 1 /\ Len(s) = n
  OBVIOUS
<1>1. s # <<>>
  BY EmptySeq
<1> HIDE DEF n
<1>2. Len(Tail(s)) = n - 1 /\ \A i \in 1..(n - 1) : Tail(s)[i] = s[i + 1]
  BY <1>0, <1>1, HeadTailProperties
<1>3. Tail(s) # <<>>
  <2>1. SUFFICES ASSUME Tail(s) = <<>> PROVE FALSE
    OBVIOUS
  <2>2. Len(Tail(s)) = 0
    BY <2>1, EmptySeq
  <2> QED
    BY <1>0, <1>2, <2>2
<1>4. n - 1 \in 1..(n - 1) /\ (n - 1) + 1 = n
  BY <1>0
<1>5. Tail(s)[n - 1] = s[n]
  BY <1>2, <1>4
<1>6. ASSUME NEW i \in 1..(n - 2) PROVE i + 1 \in 1..(n - 1) /\ Tail(s)[i] = s[i + 1]
  <2>1. i \in 1..(n - 1) /\ i + 1 \in 1..(n - 1)
    BY <1>0
  <2> QED
    BY <1>2, <2>1
<1>7. 1 \in 1..(n - 1) /\ (n - 1) - 1 = n - 2
  BY <1>0
<1> QED
  BY <1>0, <1>2, <1>3, <1>5, <1>6, <1>7

LEMMA ExecuteKeeps ==
  ASSUME Typed, NEW a \in Axes, Execute(a)
  PROVE  Keeps(a)
<1>0. /\ board[a] \in [pos : Int, speed : Int, goal : Nat] /\ want[a] \in Nat
      /\ way[a] \in Seq(Nat)
  BY DEF Typed
<1>8. board[a].pos \in Int /\ want[a] \in Nat
  BY DEF Typed
<1>1. /\ way[a] # <<>> /\ way'[a] = Tail(way[a]) /\ echo' = echo /\ want' = want /\ loc' = loc
      /\ board'[a] = [board[a] EXCEPT !.goal = Head(way[a])]
  BY DEF Execute, program, Typed
<1>2. /\ board'[a].goal = way[a][1] /\ board'[a].pos = board[a].pos
      /\ board'[a].speed = board[a].speed
  BY <1>0, <1>1
<1>3. /\ way'[a] \in Seq(Nat) /\ Len(way'[a]) = Len(way[a]) - 1
      /\ \A i \in DOMAIN way'[a] : way'[a][i] = way[a][i + 1]
      /\ Len(way[a]) \in Nat \ {0} /\ DOMAIN way'[a] = 1..(Len(way[a]) - 1)
      /\ DOMAIN way[a] = 1..Len(way[a])
  BY <1>0, <1>1
<1>4. ASSUME Still(a) PROVE Still(a)'
  <2>1. AtRest(a) /\ echo[a] = [pos |-> board[a].pos, speed |-> 0]
    BY <1>4 DEF Still
  <2>2. \A i \in DOMAIN way'[a] : i + 1 \in DOMAIN way[a]
    BY <1>3
  <2>3. 1 \in DOMAIN way[a]
    BY <1>3
  <2>4. AtRest(a)'
    BY <1>2, <1>3, <2>1, <2>2, <2>3 DEF AtRest, Resting
  <2> QED
    BY <1>1, <1>2, <2>1, <2>4 DEF Still
<1>5. ASSUME OnWay(a) PROVE OnWay(a)'
  <2>1. ToBeSent(a)
    BY <1>1, <1>5 DEF OnWay, Sent
  <2>2. CASE Len(way[a]) = 1
    <3>1. way'[a] = <<>>
      BY <1>3, <2>2
    <3>2. board'[a].goal = want[a] /\ board'[a].speed = 0
      BY <1>2, <2>1, <2>2 DEF ToBeSent, Resting
    <3>3. CanStop(0, want[a] - board[a].pos)
      BY <1>0 DEF CanStop, Abs
    <3> QED
      BY <1>1, <1>2, <1>5, <3>1, <3>2, <3>3 DEF OnWay, Sent, Distance
  <2>3. CASE Len(way[a]) # 1
    <3>0. Len(way[a]) > 1
      <4> DEFINE n == Len(way[a])
      <4>1. n \in Nat /\ n # 0
        BY <1>0, <1>1, EmptySeq
      <4>2. n # 1
        BY <2>3
      <4> HIDE DEF n
      <4>3. n > 1
        BY <4>1, <4>2
      <4> QED
        BY <4>3 DEF n
    <3> DEFINE q == Tail(way[a])
    <3>4. /\ q # <<>> /\ q[Len(q)] = way[a][Len(way[a])] /\ 1 \in 1..(Len(way[a]) - 1)
          /\ \A i \in 1..(Len(q) - 1) :
               i + 1 \in 1..(Len(way[a]) - 1) /\ q[i] = way[a][i + 1]
      BY <1>0, <3>0, TailLast
    <3> HIDE DEF q
    <3>1. /\ way[a][1] = board[a].pos /\ q # <<>> /\ q[Len(q)] = want[a]
          /\ \A i \in 1..(Len(q) - 1) : q[i] = board[a].pos
      BY <2>1, <3>4 DEF ToBeSent
    <3>2. Resting(board[a])'
      BY <1>2, <2>1, <3>1 DEF ToBeSent, Resting
    <3>5. ToBeSent(a)'
      BY <1>1, <1>2, <3>1, <3>2 DEF ToBeSent, q
    <3> QED
      BY <1>1, <1>2, <1>5, <3>5 DEF OnWay, Distance
  <2> QED
    BY <2>2, <2>3
<1>6. Seen(a) => Seen(a)'
  BY <1>1 DEF Seen, Distance
<1>7. Distance(a, board[a].pos) <= Distance(a, board[a].pos)
  BY <1>8, AbsNat DEF Distance
<1> QED
  BY <1>2, <1>4, <1>5, <1>6, <1>7 DEF Keeps

LEMMA ReportKeeps ==
  ASSUME Typed, NEW a \in Axes, Report(a)
  PROVE  Keeps(a)
<1>0. board[a].pos \in Int /\ want[a] \in Nat /\ echo[a].pos \in Int /\ loc[a] \in Int
  BY DEF Typed
<1>1. /\ board' = board /\ way' = way /\ want' = want /\ loc' = loc
      /\ echo'[a] = [pos |-> board[a].pos, speed |-> board[a].speed]
  BY DEF Report, program, Typed
<1>2. Still(a) => Still(a)'
  BY <1>1 DEF Still, AtRest, Resting
<1>3. Distance(a, board[a].pos) <= Distance(a, board[a].pos)
  BY <1>0, AbsNat DEF Distance
<1>4. ASSUME OnWay(a) PROVE OnWay(a)'
  <2>1. board[a].pos = want[a] => board[a].speed = 0
    BY <1>4, ShownAtRest DEF AtRest, Resting
  <2> QED
    BY <1>1, <1>3, <1>4, <2>1 DEF OnWay, Sent, ToBeSent, Distance
<1>5. ASSUME OnWay(a), Seen(a) PROVE Seen(a)'
  BY <1>0, <1>1, <1>5, AbsNat DEF OnWay, Seen, Distance
<1> QED
  BY <1>1, <1>2, <1>3, <1>4, <1>5 DEF Keeps
-----------------------------------------------------------------------------
(* The gotos. *)

(* A target is appended to what leaves the motor where it is. *)
LEMMA AcceptSends ==
  ASSUME Typed, NEW a \in Axes, Still(a), Accept(a),
         board' = board, echo' = echo, want' = want
  PROVE  OnWay(a)'
<1>0. way[a] \in Seq(Nat) /\ want[a] \in Nat
  BY DEF Typed
<1>1. way'[a] = Append(way[a], want[a])
  BY DEF Accept, Typed
<1> DEFINE n == Len(way[a])
<1>2. n \in Nat /\ DOMAIN way[a] = 1..n
  BY <1>0, LenProperties
<1>3. /\ Len(way'[a]) = n + 1 /\ way'[a][n + 1] = want[a]
      /\ \A i \in 1..n : way'[a][i] = way[a][i]
  BY <1>0, <1>1
<1> HIDE DEF n
<1>4. way'[a] # <<>>
  <2>1. SUFFICES ASSUME way'[a] = <<>> PROVE FALSE
    OBVIOUS
  <2>2. Len(way'[a]) = 0
    BY <2>1, EmptySeq
  <2> QED
    BY <1>2, <1>3, <2>2
<1>5. \A i \in 1..(Len(way'[a]) - 1) : way'[a][i] = board[a].pos
  BY <1>2, <1>3 DEF Still, AtRest
<1>6. ToBeSent(a)'
  BY <1>3, <1>4, <1>5 DEF ToBeSent, Still, AtRest, Resting
<1>7. echo[a].pos = board[a].pos /\ echo[a].speed = 0 /\ board[a].pos \in Int
  BY DEF Still, Typed
<1>8. Distance(a, board[a].pos) <= Distance(a, board[a].pos)
  BY <1>0, <1>7, AbsNat DEF Distance
<1> QED
  BY <1>6, <1>7, <1>8 DEF OnWay, Distance

(* A motor whose target is in the last report is still, and at its target. *)
LEMMA Arrives ==
  ASSUME Typed, NEW a \in Axes, OnWay(a), echo[a].pos = want[a]
  PROVE  Still(a) /\ board[a].pos = want[a]
<1>0. /\ board[a].pos \in Int /\ want[a] \in Nat /\ echo[a] \in [pos : Int, speed : Int]
  BY DEF Typed
<1>1. board[a].pos = want[a]
  BY <1>0, AbsNat DEF OnWay, Distance
<1>2. AtRest(a)
  BY <1>1, ShownAtRest
<1>3. echo[a] = [pos |-> board[a].pos, speed |-> 0]
  BY <1>0, <1>1 DEF OnWay
<1> QED
  BY <1>1, <1>2, <1>3 DEF Still

(* A tick, and what the boards do, leave the program at a place that fits. *)
LEMMA PlaceKept ==
  ASSUME Typed, Typed', Place, \A a \in Axes : Keeps(a),
         pc' = pc, fn' = fn, want' = want, loc' = loc
  PROVE  Place'
<1>1. \A a \in Axes : Still(a) => Still(a)' /\ board'[a].pos = board[a].pos
  BY DEF Keeps
<1>2. \A a \in Axes : OnWay(a) => OnWay(a)' /\ Distance(a, board'[a].pos) <= Distance(a, board[a].pos)
  BY DEF Keeps
<1>3. \A a \in Axes : OnWay(a) /\ Seen(a) => Seen(a)'
  BY DEF Keeps
<1>4. Moving => Moving'
  BY <1>1, <1>2 DEF Moving, Axes
<1>5. There => There'
  BY <1>1 DEF There, Axes
<1>6. ASSUME Moving, Near, fn = "early" PROVE Near'
  <2>1. PICK a \in Axes : \A b \in Axes : Distance(b, board[b].pos) <= Wait * MaxSpeed[a]
    BY <1>6 DEF Near
  <2>2. Wait * MaxSpeed[a] \in Nat
    BY AimAssumption, ProductNat
  <2>3. ASSUME NEW b \in Axes PROVE Distance(b, board'[b].pos) <= Wait * MaxSpeed[a]
    <3>1. OnWay(b)
      BY <1>6 DEF Moving, Axes
    <3>2. board[b].pos \in Int /\ board'[b].pos \in Int /\ want[b] \in Nat
      BY DEF Typed
    <3>3. Distance(b, board[b].pos) \in Nat /\ Distance(b, board'[b].pos) \in Nat
      BY <3>2, AbsNat DEF Distance
    <3>4. Distance(b, board'[b].pos) <= Distance(b, board[b].pos)
      BY <1>2, <3>1
    <3>5. Distance(b, board[b].pos) <= Wait * MaxSpeed[a]
      BY <2>1
    <3> QED
      BY <2>2, <3>3, <3>4, <3>5
  <2> QED
    BY <2>3 DEF Near, Distance
<1> QED
  BY <1>1, <1>2, <1>3, <1>4, <1>5, <1>6 DEF Place, Moving, Axes

(* Time, and what the boards do, as long as none is lost. *)
LEMMA MotorsKeepAim ==
  ASSUME Typed, Typed', AimInv, calm, Tick \/ \E b \in Axes : Execute(b) \/ Report(b)
  PROVE  AimInv'
<1>1. Place /\ \A a \in Axes : up[a]
  BY DEF AimInv
<1>2. pc' = pc /\ fn' = fn /\ want' = want /\ loc' = loc /\ up' = up
  BY DEF Tick, Execute, Report, program
<1>3. ASSUME NEW a \in Axes PROVE Keeps(a)
  <2>1. CASE Tick
    BY <1>1, <2>1, TickKeeps
  <2>2. ASSUME NEW b \in Axes, Execute(b) PROVE Keeps(a)
    <3>1. CASE a = b
      BY <2>2, <3>1, ExecuteKeeps
    <3>2. CASE a # b
      <4>1. board'[a] = board[a] /\ way'[a] = way[a] /\ echo'[a] = echo[a]
        BY <2>2, <3>2 DEF Execute, Typed
      <4> QED
        BY <1>2, <4>1, OthersKeep
    <3> QED
      BY <3>1, <3>2
  <2>3. ASSUME NEW b \in Axes, Report(b) PROVE Keeps(a)
    <3>1. CASE a = b
      BY <2>3, <3>1, ReportKeeps
    <3>2. CASE a # b
      <4>1. board'[a] = board[a] /\ way'[a] = way[a] /\ echo'[a] = echo[a]
        BY <2>3, <3>2 DEF Report, Typed
      <4> QED
        BY <1>2, <4>1, OthersKeep
    <3> QED
      BY <3>1, <3>2
  <2> QED
    BY <2>1, <2>2, <2>3
<1> QED
  BY <1>1, <1>2, <1>3, PlaceKept DEF AimInv

LEMMA GotoAims ==
  ASSUME Typed, AimInv, Goto, Patient
  PROVE  AimInv'
<1>1. /\ pc = "idle" /\ pc' = "setH" /\ board' = board /\ way' = way /\ echo' = echo /\ up' = up
      /\ calm' = (calm \/ Settled)
  BY DEF Goto, motors
<1>2. CASE calm
  <2>1. (\A a \in Axes : up[a]) /\ \A a \in Axes : Still(a)
    BY <1>1, <1>2 DEF AimInv, Place, Patient
  <2> QED
    BY <1>1, <2>1 DEF AimInv, Place, Still, AtRest
<1>3. CASE Settled
  <2>1. ASSUME NEW a \in Axes PROVE up[a] /\ Still(a)
    <3>1. /\ up[a] /\ way[a] = <<>> /\ Resting(board[a])
          /\ echo[a] = [pos |-> board[a].pos, speed |-> 0]
      BY <1>3 DEF Settled
    <3>2. \A i \in DOMAIN way[a] : way[a][i] = board[a].pos
      BY <3>1
    <3> QED
      BY <3>1, <3>2 DEF Still, AtRest
  <2> QED
    BY <1>1, <2>1 DEF AimInv, Place, Still, AtRest
<1> QED
  BY <1>1, <1>2, <1>3 DEF AimInv

LEMMA SetTargetsAim ==
  ASSUME Typed, AimInv, SetTargets
  PROVE  AimInv'
<1>1. SUFFICES ASSUME calm' PROVE (\A a \in Axes : up'[a]) /\ Place'
  BY DEF AimInv
<1>2. /\ fn' = fn /\ want' = want /\ loc' = loc /\ board' = board /\ echo' = echo /\ up' = up
      /\ calm' => calm
  BY DEF SetTargets, SetTarget, Typed
<1>3. Place /\ \A a \in Axes : up[a]
  BY <1>1, <1>2 DEF AimInv
<1>4. CASE pc = "setH" /\ SetTarget("H", IF fn = "one" THEN "pollH" ELSE "setV")
  <2>1. Accept("H") /\ Still("H") /\ Still("V")
    BY <1>1, <1>3, <1>4 DEF SetTarget, Place, Axes
  <2>2. OnWay("H")'
    BY <1>2, <2>1, AcceptSends DEF Axes
  <2>3. way'["V"] = way["V"]
    BY <2>1 DEF Accept, Typed, Axes
  <2>4. Still("V")'
    BY <1>2, <2>1, <2>3 DEF Still, AtRest
  <2>5. pc' = IF fn = "one" THEN "pollH" ELSE "setV"
    BY <1>4 DEF SetTarget
  <2> QED
    BY <1>2, <1>3, <2>2, <2>4, <2>5 DEF Place, Moving
<1>5. CASE pc = "setV" /\ SetTarget("V", "pollH")
  <2>1. Accept("V") /\ OnWay("H") /\ Still("V") /\ fn # "one"
    BY <1>1, <1>3, <1>5 DEF SetTarget, Place, Axes
  <2>2. OnWay("V")'
    BY <1>2, <2>1, AcceptSends DEF Axes
  <2>3. way'["H"] = way["H"]
    BY <2>1 DEF Accept, Typed, Axes
  <2>4. OnWay("H")'
    BY <1>2, <2>1, <2>3 DEF OnWay, Sent, ToBeSent, Distance
  <2>5. pc' = "pollH"
    BY <1>5 DEF SetTarget
  <2> QED
    BY <1>2, <1>3, <2>1, <2>2, <2>4, <2>5 DEF Place, Moving
<1> QED
  BY <1>4, <1>5 DEF SetTargets

(* What a poll leaves alone. *)
LEMMA MotorsAlone ==
  ASSUME UNCHANGED motors, want' = want, fn' = fn
  PROVE  /\ \A a \in Axes : Still(a)' = Still(a) /\ OnWay(a)' = OnWay(a)
         /\ Moving' = Moving /\ There' = There /\ Near' = Near
  BY DEF motors, Still, AtRest, OnWay, Sent, ToBeSent, Distance, Moving, There, Near

LEMMA PolledSeen ==
  ASSUME Typed, NEW a \in Axes, up[a], loc' = Polled(a), echo' = echo, want' = want
  PROVE  /\ loc'[a] = echo[a].pos /\ Seen(a)'
         /\ \A b \in Axes \ {a} : Seen(b) => Seen(b)'
<1>1. loc'[a] = echo[a].pos /\ \A b \in Axes \ {a} : loc'[b] = loc[b]
  BY DEF Polled, Typed
<1>2. echo[a].pos \in Int /\ want[a] \in Nat
  BY DEF Typed
<1>3. Distance(a, echo[a].pos) <= Distance(a, echo[a].pos)
  BY <1>2, AbsNat DEF Distance
<1> QED
  BY <1>1, <1>3 DEF Seen, Distance

LEMMA PollHAims ==
  ASSUME Typed, AimInv, PollH
  PROVE  AimInv'
<1>1. SUFFICES ASSUME calm PROVE (\A a \in Axes : up'[a]) /\ Place'
  BY DEF AimInv, PollH
<1>2. /\ pc = "pollH" /\ fn' = fn /\ want' = want /\ UNCHANGED motors /\ up' = up /\ echo' = echo
      /\ loc' = Polled("H")
  BY DEF PollH, motors
<1>3. Moving /\ \A a \in Axes : up[a]
  BY <1>1, <1>2 DEF AimInv, Place
<1>4. loc'["H"] = echo["H"].pos /\ Seen("H")'
  BY <1>2, <1>3, PolledSeen DEF Axes
<1>5. Moving'
  BY <1>2, <1>3, MotorsAlone
<1>6. CASE fn # "one" /\ pc' = "pollV"
  BY <1>2, <1>3, <1>4, <1>5, <1>6 DEF Place
<1>7. CASE fn = "one" /\ loc'["H"] = want["H"] /\ Return
  <2>1. OnWay("H") /\ Still("V")
    BY <1>3, <1>7 DEF Moving
  <2>2. Still("H") /\ board["H"].pos = want["H"]
    BY <1>4, <1>7, <2>1, Arrives DEF Axes
  <2>3. There
    BY <1>7, <2>1, <2>2 DEF There, Axes
  <2>4. There'
    BY <1>2, <2>3, MotorsAlone
  <2> QED
    BY <1>2, <1>3, <1>7, <2>4 DEF Place, Return
<1>8. CASE fn = "one" /\ pc' = "pollH"
  BY <1>2, <1>3, <1>5, <1>8 DEF Place
<1> QED
  BY <1>6, <1>7, <1>8 DEF PollH

(* Both targets shown. *)
LEMMA BothArrived ==
  ASSUME Typed, Moving, fn # "one", Seen("H"), Seen("V"), Arrived(loc)
  PROVE  There /\ Near
<1>1. ASSUME NEW a \in Axes PROVE Still(a) /\ board[a].pos = want[a]
  <2>1. OnWay(a) /\ Seen(a)
    BY DEF Moving, Axes
  <2>2. loc[a] = want[a] /\ want[a] \in Nat /\ echo[a].pos \in Int
    BY DEF Arrived, Typed
  <2>3. echo[a].pos = want[a]
    BY <2>1, <2>2, AbsNat DEF Seen, Distance
  <2> QED
    BY <2>1, <2>3, Arrives
<1>2. ASSUME NEW a \in Axes PROVE Distance(a, board[a].pos) = 0
  BY <1>1 DEF Distance, Abs, Typed
<1>3. Wait * MaxSpeed["H"] \in Nat
  BY AimAssumption, ProductNat DEF Axes
<1>4. Near
  BY <1>2, <1>3 DEF Near, Axes
<1> QED
  BY <1>1, <1>4 DEF There, Axes

LEMMA PollVAims ==
  ASSUME Typed, Typed', AimInv, PollV
  PROVE  AimInv'
<1>1. SUFFICES ASSUME calm PROVE (\A a \in Axes : up'[a]) /\ Place'
  BY DEF AimInv, PollV
<1>2. /\ pc = "pollV" /\ fn' = fn /\ want' = want /\ UNCHANGED motors /\ up' = up /\ echo' = echo
      /\ loc' = Polled("V")
  BY DEF PollV, motors
<1>3. Moving /\ Seen("H") /\ fn # "one" /\ \A a \in Axes : up[a]
  BY <1>1, <1>2 DEF AimInv, Place
<1>4. Seen("H")' /\ Seen("V")'
  BY <1>2, <1>3, PolledSeen DEF Axes
<1>5. Moving'
  BY <1>2, <1>3, MotorsAlone
<1>6. CASE Arrived(loc') /\ Return
  <2>1. Arrived(loc)'
    BY <1>2, <1>6 DEF Arrived
  <2>2. There' /\ Near'
    <3>1. /\ (fn # "one")' /\ Typed' /\ Moving' /\ Seen("H")' /\ Seen("V")' /\ Arrived(loc)'
      BY <1>2, <1>3, <1>4, <1>5, <2>1
    <3>2. (Typed /\ Moving /\ fn # "one" /\ Seen("H") /\ Seen("V") /\ Arrived(loc) => There /\ Near)'
      BY BothArrived, PTL
    <3> QED
      BY <3>1, <3>2
  <2> QED
    BY <1>2, <1>3, <1>5, <1>6, <2>2 DEF Place, Return
<1>7. CASE pc' = (IF fn = "early" THEN "velocity" ELSE "pollH")
  BY <1>2, <1>3, <1>4, <1>5, <1>7 DEF Place
<1> QED
  BY <1>6, <1>7 DEF PollV

LEMMA OffNat == ASSUME Typed, NEW a \in Axes PROVE Off(a) \in Nat
<1>1. want[a] \in Int /\ loc[a] \in Int
  BY DEF Typed
<1>2. want[a] - loc[a] \in Int
  BY <1>1
<1> QED
  BY <1>2, AbsNat DEF Off

(* The farther axis goes no farther in the wait than its speed allows. *)
LEMMA TestVelocityAims ==
  ASSUME Typed, AimInv, TestVelocity
  PROVE  AimInv'
<1>1. SUFFICES ASSUME calm PROVE (\A a \in Axes : up'[a]) /\ Place'
  BY DEF AimInv, TestVelocity
<1>2. /\ pc = "velocity" /\ fn' = fn /\ want' = want /\ loc' = loc /\ UNCHANGED motors /\ up' = up
  BY DEF TestVelocity, motors
<1>3. Moving /\ Seen("H") /\ Seen("V") /\ fn = "early" /\ \A a \in Axes : up[a]
  BY <1>1, <1>2 DEF AimInv, Place
<1>4. Moving'
  BY <1>2, <1>3, MotorsAlone
<1> DEFINE a == FartherAxis
<1>5. a \in Axes
  BY DEF FartherAxis, Axes
<1>6. CASE Off(a) <= Wait * Abs(echo[a].speed) /\ Return
  <2>1. echo[a].speed \in -MaxSpeed[a]..MaxSpeed[a] /\ MaxSpeed[a] \in Nat
    BY <1>5, AimAssumption DEF Typed
  <2> HIDE DEF a
  <2>2. Abs(echo[a].speed) \in Nat /\ Abs(echo[a].speed) <= MaxSpeed[a]
    BY <2>1 DEF Abs
  <2>3. Wait * Abs(echo[a].speed) <= Wait * MaxSpeed[a]
    BY <2>1, <2>2, AimAssumption
  <2>4. Wait * Abs(echo[a].speed) \in Nat /\ Wait * MaxSpeed[a] \in Nat
    BY <2>1, <2>2, AimAssumption, ProductNat
  <2>5. ASSUME NEW b \in Axes PROVE Distance(b, board[b].pos) <= Wait * MaxSpeed[a]
    <3>1. OnWay(b) /\ Seen(b)
      BY <1>3 DEF Moving, Axes
    <3>2. /\ board[b].pos \in Int /\ want[b] \in Nat /\ echo[b].pos \in Int /\ loc[b] \in Int
      BY DEF Typed
    <3>3. /\ Distance(b, board[b].pos) \in Nat /\ Distance(b, echo[b].pos) \in Nat
          /\ Distance(b, loc[b]) \in Nat
      BY <3>2, AbsNat DEF Distance
    <3>4. Distance(b, board[b].pos) <= Distance(b, echo[b].pos)
      BY <3>1 DEF OnWay
    <3>5. Distance(b, echo[b].pos) <= Distance(b, loc[b])
      BY <3>1 DEF Seen
    <3>6. Distance(b, loc[b]) = Off(b)
      BY DEF Distance, Off
    <3>7. Off(b) <= Off(a)
      <4>1. Off("H") \in Nat /\ Off("V") \in Nat
        BY OffNat DEF Axes
      <4> QED
        BY <4>1 DEF a, FartherAxis, Axes
    <3>8. Off(a) \in Nat
      BY <1>5, OffNat
    <3> QED
      BY <1>6, <2>3, <2>4, <3>3, <3>4, <3>5, <3>6, <3>7, <3>8
  <2>6. Near
    BY <1>5, <2>5 DEF Near
  <2>7. Near'
    BY <1>2, <2>6, MotorsAlone
  <2> QED
    BY <1>2, <1>3, <1>4, <1>6, <2>7 DEF Place, Return
<1>7. CASE pc' = "pollH"
  BY <1>2, <1>3, <1>4, <1>7 DEF Place
<1> QED
  BY <1>3, <1>5, <1>6, <1>7 DEF TestVelocity

LEMMA ReadTempAims ==
  ASSUME Typed, AimInv, ReadTemp
  PROVE  AimInv'
<1>1. SUFFICES ASSUME calm PROVE (\A a \in Axes : up'[a]) /\ Place'
  BY DEF AimInv, ReadTemp
<1>2. /\ pc = "wait" /\ pc' = "rest" /\ fn' = fn /\ want' = want /\ UNCHANGED motors /\ up' = up
  BY DEF ReadTemp, motors
<1>3. (fn # "early" => There) /\ \A a \in Axes : up[a]
  BY <1>1, <1>2 DEF AimInv, Place
<1>4. fn # "early" => There'
  BY <1>2, <1>3, MotorsAlone
<1> QED
  BY <1>2, <1>3, <1>4 DEF Place

LEMMA RestedAims ==
  ASSUME Typed, AimInv, Rested
  PROVE  AimInv'
<1>1. SUFFICES ASSUME calm PROVE (\A a \in Axes : up'[a]) /\ Place'
  BY DEF AimInv, Rested
<1>2. /\ pc = "rest" /\ pc' = "idle" /\ fn' = fn /\ want' = want /\ UNCHANGED motors /\ up' = up
  BY DEF Rested, motors
<1>3. (fn # "early" => \A a \in Axes : Still(a)) /\ \A a \in Axes : up[a]
  BY <1>1, <1>2 DEF AimInv, Place, There
<1>4. fn # "early" => \A a \in Axes : Still(a)'
  BY <1>2, <1>3, MotorsAlone
<1> QED
  BY <1>2, <1>3, <1>4 DEF Place

LEMMA AimInit == ASSUME Init PROVE AimInv
<1>1. SUFFICES ASSUME calm PROVE (\A a \in Axes : up[a]) /\ Place
  BY DEF AimInv
<1>2. PICK p \in {0, Middle} : /\ echo = [a \in Axes |-> [pos |-> p, speed |-> 0]]
                               /\ calm = (p = Middle)
  BY DEF Init
<1>3. p = Middle
  BY <1>1, <1>2
<1>4. ASSUME NEW a \in Axes PROVE Still(a)
  <2>1. /\ board[a] = [pos |-> Middle, speed |-> 0, goal |-> Middle] /\ way[a] = <<>>
        /\ echo[a] = [pos |-> Middle, speed |-> 0]
    BY <1>2, <1>3 DEF Init
  <2> QED
    BY <2>1 DEF Still, AtRest, Resting
<1> QED
  BY <1>4 DEF Init, Place

LEMMA AimStep ==
  ASSUME Typed, Typed', AimInv, [Next]_vars, [Patient]_vars
  PROVE  AimInv'
<1>1. CASE Goto
  <2>1. vars' # vars
    BY <1>1 DEF Goto, vars, program
  <2> QED
    BY <1>1, <2>1, GotoAims
<1>2. CASE Program
  BY <1>2, SetTargetsAim, PollHAims, PollVAims, TestVelocityAims, ReadTempAims, RestedAims
     DEF Program
<1>3. CASE Tick \/ \E a \in Axes : Execute(a) \/ Report(a)
  <2>1. CASE calm
    BY <1>3, <2>1, MotorsKeepAim
  <2>2. CASE ~calm
    BY <1>3, <2>2 DEF AimInv, Tick, Execute, Report
  <2> QED
    BY <2>1, <2>2
<1>4. ASSUME NEW a \in Axes, Detach(a) PROVE AimInv'
  BY <1>4 DEF Detach, AimInv
<1>5. ASSUME NEW a \in Axes, Attach(a) PROVE AimInv'
  BY <1>5 DEF Attach, AimInv
<1>6. CASE UNCHANGED vars
  <2>1. UNCHANGED motors /\ want' = want /\ fn' = fn /\ pc' = pc /\ loc' = loc /\ calm' = calm
    BY <1>6 DEF vars, program
  <2>2. \A a \in Axes : Seen(a)' = Seen(a) /\ Still(a)' = Still(a) /\ OnWay(a)' = OnWay(a)
    BY <2>1, MotorsAlone DEF Seen, Distance, motors
  <2>3. Moving' = Moving /\ There' = There /\ Near' = Near
    BY <2>1, MotorsAlone
  <2>4. Place => Place'
    BY <2>1, <2>2, <2>3 DEF Place, Axes
  <2> QED
    BY <2>1, <2>4 DEF AimInv, motors
<1> QED
  BY <1>1, <1>2, <1>3, <1>4, <1>5, <1>6 DEF Next

PatientSpec == Spec /\ [][Patient]_vars

LEMMA AlwaysAims == PatientSpec => [](Typed /\ AimInv)
<1>1. Init => Typed /\ AimInv
  BY TypedInit, AimInit
<1>2. (Typed /\ AimInv) /\ [Next]_vars /\ [Patient]_vars => (Typed /\ AimInv)'
  BY TypedStep, AimStep
<1> QED
  BY <1>1, <1>2, PTL DEF PatientSpec, Spec

(***************************************************************************)
(* After gotoPixel2D and gotoPixel the sensor is read exactly at its       *)
(* pixel, with the motors at rest, whatever the sizes, speeds, waits and    *)
(* reports: no wait is needed for that (steppers.c, gotoPixel2D and        *)
(* gotoLocation).                                                          *)
(***************************************************************************)
THEOREM ExactAimed == PatientSpec => [](fn # "early" => ReadAimed)
<1>1. AimInv => (fn # "early" => ReadAimed)
  <2>1. SUFFICES ASSUME AimInv, fn # "early", pc = "wait", calm
                 PROVE  \A a \in IF fn = "one" THEN {"H"} ELSE Axes :
                          board[a].pos = want[a] /\ board[a].speed = 0
    BY DEF ReadAimed
  <2>2. There
    BY <2>1 DEF AimInv, Place
  <2>3. \A a \in Axes : board[a].speed = 0
    BY <2>2 DEF There, Still, AtRest, Resting
  <2> QED
    BY <2>2, <2>3 DEF There, Axes
<1> QED
  BY <1>1, AlwaysAims, PTL

(***************************************************************************)
(* After gotoPixel2DandExit no motor is farther from its target than one   *)
(* of the two goes at full speed in the wait, from its return until the     *)
(* sensor has been read, although one velocity only has been looked at.    *)
(***************************************************************************)
THEOREM EarlyWithin ==
  PatientSpec => [](pc = "wait" /\ fn = "early" /\ calm =>
    \E a \in Axes : \A b \in Axes : Abs(want[b] - board[b].pos) <= Wait * MaxSpeed[a])
<1>1. AimInv => (pc = "wait" /\ fn = "early" /\ calm =>
        \E a \in Axes : \A b \in Axes : Abs(want[b] - board[b].pos) <= Wait * MaxSpeed[a])
  BY DEF AimInv, Place, Near, Distance
<1> QED
  BY <1>1, AlwaysAims, PTL

=============================================================================
