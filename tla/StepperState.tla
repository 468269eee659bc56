----------------------------- MODULE StepperState -----------------------------
(***************************************************************************)
(* What the handle of a stepper knows about its motor.  The setters of     *)
(* cphidgetstepper.c change the handle's fields, number the packet they    *)
(* make with a four-bit counter and hand it to sendpacket; the board       *)
(* executes the packets and reports, late, where it is and which packet it *)
(* executed last; dataInput stores the report and decides whether the      *)
(* motor has stopped.  initAfterOpen starts over with every attachment,    *)
(* without a lock, while a setter that began before may still be on its    *)
(* way.                                                                    *)
(*                                                                         *)
(* One motor, one application thread.  How packets get through the queue   *)
(* is StepperLink; here it is a channel of Capacity packets, as proved     *)
(* there.  A counter is represented by a number, of which the code knows   *)
(* the value modulo CounterMod only: see Same.                             *)
(***************************************************************************)
EXTENDS Integers, Sequences

CONSTANTS
  Positions,       (* that the application asks for                         *)
  CounterMod,      (* packetCounter is masked with 0x0F: 16                 *)
  MaxLag,          (* bound: packets made that the board has not yet told of *)
  MaxSets,         (* bound on the calls of setters                         *)
  MaxFaults,       (* bound on lost transfers, detaches and failing reads   *)
  Unknown          (* PUNK_BOOL, PUNK_INT, PUNK_INT64                       *)

ASSUME StateAssumption ==
  /\ Positions \subseteq Int
  /\ CounterMod \in Nat \ {0} /\ MaxLag \in Nat \ {0} /\ MaxLag < CounterMod
  /\ MaxSets \in Nat /\ MaxFaults \in Nat
  /\ Unknown \notin Int /\ Unknown \notin BOOLEAN

VARIABLES
  spc, req,        (* the setter's place: "idle", "lock", "make", "send",
                      "put", and what it is asked for                       *)
  packet,          (* its buffer                                            *)
  target, engaged, (* motorPosition, motorEngagedState                      *)
  stopped,         (* motorStoppedState                                     *)
  made,            (* packetCounter, as a number                            *)
  echo,            (* motorPositionEcho, ..SpeedEcho, ..EngagedStateEcho,
                      packetCounterEcho                                     *)
  rpc, done,       (* the read thread in dataInput, its local motorDone     *)
  apc,             (* the central thread in CPhidget_attach: "no", "read",
                      "copy", "copyCounter", "set"                          *)
  attached,        (* PHIDGET_ATTACHED_FLAG                                 *)
  writing,         (* the write thread is alive                             *)
  out,             (* packets accepted and not yet executed                 *)
  report,          (* the report under way, <<>> or one                     *)
  board,           (* the motor and its board                               *)
  blind,           (* history: the first read of this attachment failed     *)
  crossed,         (* history: a packet crossed the beginning of this
                      attachment, see CopyPlace and MakePacket              *)
  sets, faults     (* what the bounds count                                 *)

setter == <<spc, req, packet>>
host   == <<target, engaged, stopped, made>>
reader == <<echo, rpc, done>>
link   == <<attached, writing, out>>
past   == <<blind, crossed>>
vars   == <<setter, host, reader, apc, link, report, board, past, sets, faults>>

Capacity == 2      \* one in outputPacket, one in the buffer of the write thread

Same(a, b) ==      \* packetCounter == packetCounterEcho
  a # Unknown /\ b # Unknown /\ a % CounterMod = b % CounterMod

(* PUNK_INT becomes 0 and is counted up: the number with this counter that *)
(* is less than a lap ahead of the board.                                  *)
Restarted == CHOOSE n \in board.seq..(board.seq + CounterMod - 1) :
                n % CounterMod = 1 % CounterMod

Packet(kind, pos, on, seq) == [kind |-> kind, pos |-> pos, on |-> on, seq |-> seq]
-----------------------------------------------------------------------------
(***************************************************************************)
(* The board: not part of the repository, modelled from what dataInput and *)
(* makePacket take for granted.  The motor has inertia: its speed changes  *)
(* by one at a time, and it brakes in time for a target it was given in    *)
(* time, but may run past one that it is given on the way.                 *)
(***************************************************************************)
Sign(x) == IF x > 0 THEN 1 ELSE IF x < 0 THEN -1 ELSE 0

Fresh == [pos |-> 0, speed |-> 0, goal |-> 0, on |-> FALSE, seq |-> 0]

AtRest(b) == ~b.on \/ (b.pos = b.goal /\ b.speed = 0)

Move ==
  /\ ~AtRest(board)
  /\ LET next == board.pos + board.speed IN
     board' = [board EXCEPT !.pos = next,
                 !.speed = @ + Sign(Sign(board.goal - next) - @)]
  /\ UNCHANGED <<setter, host, reader, apc, link, report, past, sets, faults>>

Executed(b, p) ==
  [pos   |-> IF p.kind = "reset" THEN p.pos ELSE b.pos,
   speed |-> IF p.on THEN b.speed ELSE 0,
   goal  |-> IF p.kind = "motion" THEN b.goal ELSE p.pos,
   on    |-> p.on,
   seq   |-> p.seq]

Execute ==
  /\ attached /\ writing /\ out # <<>>
  /\ board' = Executed(board, Head(out))
  /\ out' = Tail(out)
  /\ UNCHANGED <<setter, host, reader, apc, attached, writing, report, past, sets, faults>>

Reading ==         \* MOTOR_DONE_STEPPER, MOTOR_DISABLED_STEPPER, counter, speed, position
  [pos |-> board.pos, speed |-> board.speed, on |-> board.on, seq |-> board.seq,
   done |-> AtRest(board)]

MakeReport ==
  /\ attached /\ report = <<>>
  /\ report' = <<Reading>>
  /\ UNCHANGED <<setter, host, reader, apc, link, board, past, sets, faults>>
-----------------------------------------------------------------------------
(***************************************************************************)
(* Faults: what the code might plausibly have done instead.  Each breaks a *)
(* property below; none is part of the specification.                      *)
(***************************************************************************)
UpToDateAlways == TRUE             \* no comparison of the counters

EngagedUnset == engaged            \* no default for a flag that was never set

CounterUnmasked ==                 \* & 0x0F left out: the counter leaves the echo behind
  made # Unknown /\ echo.seq # Unknown /\ made = echo.seq % CounterMod

(***************************************************************************)
(* The setters: TESTATTACHED, then under writelock the assignment,         *)
(* makePacket and, with the lock still held, sendpacket.  A call that      *)
(* fails has changed the fields all the same.                              *)
(***************************************************************************)
Requests ==
  [kind : {"position", "reset"}, pos : Positions] \cup [kind : {"motion"}, on : {Unknown, TRUE, FALSE}]

NoRequest == [kind |-> "motion", on |-> Unknown]
NoPacket  == Packet("motion", Unknown, FALSE, 0)

Holding == spc \in {"make", "send", "put"}     \* the setter has writelock

Call ==
  /\ spc = "idle" /\ attached /\ sets < MaxSets
  /\ \E r \in Requests : req' = r
  /\ spc' = "lock" /\ sets' = sets + 1
  /\ UNCHANGED <<packet, host, reader, apc, link, report, board, past, faults>>

(* The oldest numbers that dataInput may still compare with. *)
Untold ==
  {board.seq} \cup {report[i].seq : i \in DOMAIN report}
              \cup (IF rpc = "stored" THEN {echo.seq} ELSE {})

NewNumber == IF made = Unknown THEN Restarted ELSE made + 1

(* The boards report often enough: fewer packets than a lap of the counter *)
(* are made between a report and its arrival.                              *)
LagBounded == (attached \/ apc = "set") => \A n \in Untold : NewNumber - n <= MaxLag

(* setEngaged is a motion packet; setCurrentPosition assigns to a field of *)
(* its own, which makePacket copies to motorPosition.                      *)
Assign ==
  /\ spc = "lock" /\ LagBounded
  /\ target' = IF req.kind = "position" THEN req.pos ELSE target
  /\ engaged' = IF req.kind = "motion" /\ req.on # Unknown THEN req.on ELSE engaged
  /\ spc' = "make"
  /\ UNCHANGED <<req, packet, stopped, made, reader, apc, link, report, board, past, sets, faults>>

(* Motors are not engaged by default; every packet carries the flag. *)
NewEngaged == IF engaged = Unknown THEN FALSE ELSE engaged

(* PUNK_INT64, shifted and cut to the packet's 48 bits, asks for -1. *)
PlaceSent ==
  CASE req.kind = "motion"   -> Unknown
    [] req.kind = "reset"    -> req.pos
    [] req.kind = "position" -> IF target = Unknown THEN -1 ELSE target

MakePacket ==
  /\ spc = "make"
  /\ made' = NewNumber /\ stopped' = FALSE /\ engaged' = NewEngaged
  /\ target' = IF req.kind = "reset" THEN req.pos ELSE target
  /\ packet' = Packet(req.kind, PlaceSent, NewEngaged, NewNumber)
  /\ spc' = "send" /\ req' = NoRequest
  /\ crossed' = (crossed \/ apc = "copyCounter")
  /\ UNCHANGED <<reader, apc, link, report, board, blind, sets, faults>>

Return == spc' = "idle" /\ packet' = NoPacket /\ req' = req

TestStatus ==      \* before every attempt; or EPHIDGET_NOTATTACHED
  /\ spc = "send"
  /\ IF attached THEN spc' = "put" /\ UNCHANGED <<req, packet>> ELSE Return
  /\ UNCHANGED <<host, reader, apc, link, report, board, past, sets, faults>>

Room == Len(out) < IF writing THEN Capacity ELSE 1

Enqueue ==         \* even if the board has gone since the test
  /\ spc = "put" /\ Room
  /\ out' = Append(out, packet)
  /\ Return
  /\ UNCHANGED <<host, reader, apc, attached, writing, report, board, past, sets, faults>>

AwaitRoom ==       \* writtenEvent, and again; or EPHIDGET_TIMEOUT
  /\ spc = "put" /\ ~Room
  /\ (spc' = "send" /\ UNCHANGED <<req, packet>>) \/ Return
  /\ UNCHANGED <<host, reader, apc, link, report, board, past, sets, faults>>
-----------------------------------------------------------------------------
(***************************************************************************)
(* dataInput: first the echoes, without a lock; then the decision, under   *)
(* writelock.                                                              *)
(***************************************************************************)
Store ==
  /\ attached /\ rpc = "wait" /\ report # <<>>
  /\ LET r == Head(report) IN
     /\ echo' = [pos |-> r.pos, speed |-> r.speed, on |-> r.on, seq |-> r.seq]
     /\ done' = r.done
  /\ report' = <<>> /\ rpc' = "stored"
  /\ UNCHANGED <<setter, host, apc, link, board, past, sets, faults>>

UpToDate == Same(made, echo.seq)

Arrived == (echo.pos = target /\ echo.speed = 0) \/ echo.on = FALSE

Decide ==
  /\ rpc = "stored" /\ ~Holding
  /\ stopped' = IF UpToDate /\ done /\ Arrived THEN TRUE
                ELSE IF ~done THEN FALSE ELSE stopped
  /\ rpc' = "wait"
  /\ UNCHANGED <<setter, target, engaged, made, echo, done, apc, link, report, board, past, sets, faults>>

(***************************************************************************)
(* An attachment, after the threads of the last one were joined, begins    *)
(* with initAfterOpen: an empty queue, unknown echoes, and one report with *)
(* its dataInput.  CPhidget_read may fail, which is ignored: all stays     *)
(* unknown.  Then the echoes are copied.  A setter is kept out of the      *)
(* decision only, which needs writelock.                                   *)
(***************************************************************************)
NoEcho == [pos |-> Unknown, speed |-> Unknown, on |-> Unknown, seq |-> Unknown]

AttachClear ==
  /\ ~attached /\ apc = "no" /\ rpc = "wait"
  /\ out' = <<>> /\ echo' = NoEcho /\ stopped' = Unknown /\ made' = Unknown
  /\ apc' = "read" /\ blind' = FALSE /\ crossed' = FALSE
  /\ UNCHANGED <<setter, target, engaged, rpc, done, attached, writing, report, board, sets, faults>>

FirstRead ==
  /\ apc = "read"
  /\ \/ /\ echo' = [pos |-> board.pos, speed |-> board.speed, on |-> board.on, seq |-> board.seq]
        /\ done' = AtRest(board) /\ rpc' = "stored"
        /\ UNCHANGED <<blind, faults>>
     \/ /\ faults < MaxFaults /\ faults' = faults + 1
        /\ blind' = TRUE
        /\ UNCHANGED reader
  /\ apc' = "copy"
  /\ UNCHANGED <<setter, host, link, report, board, crossed, sets>>

(* A packet made before the fields are copied, and kept until then.  *)
CopyPlace ==
  /\ apc = "copy" /\ rpc = "wait"
  /\ target' = echo.pos /\ engaged' = echo.on
  /\ apc' = "copyCounter"
  /\ crossed' = (spc \in {"send", "put"} \/ out # <<>>)
  /\ UNCHANGED <<setter, stopped, made, reader, link, report, board, blind, sets, faults>>

StartStopped == echo.speed = 0 \/ echo.on = FALSE

CopyCounter ==
  /\ apc = "copyCounter"
  /\ made' = echo.seq
  /\ stopped' = IF stopped = Unknown THEN StartStopped ELSE stopped
  /\ apc' = "set"
  /\ UNCHANGED <<setter, target, engaged, reader, link, report, board, past, sets, faults>>

SetAttached ==     \* and the write thread
  /\ apc = "set"
  /\ attached' = TRUE /\ writing' = TRUE /\ apc' = "no"
  /\ UNCHANGED <<setter, host, reader, out, report, board, past, sets, faults>>

Attach == AttachClear \/ FirstRead \/ CopyPlace \/ CopyCounter \/ SetAttached

WriteFails ==      \* the packet is lost and the write thread ends
  /\ attached /\ writing /\ out # <<>> /\ faults < MaxFaults
  /\ out' = Tail(out) /\ writing' = FALSE /\ faults' = faults + 1
  /\ UNCHANGED <<setter, host, reader, apc, attached, report, board, past, sets>>

Detach ==          \* after an error; unplugged, the board loses its power as well
  /\ attached /\ faults < MaxFaults
  /\ attached' = FALSE /\ writing' = FALSE /\ report' = <<>>
  /\ board' \in {board, Fresh}
  /\ faults' = faults + 1
  /\ UNCHANGED <<setter, host, reader, apc, out, past, sets>>
-----------------------------------------------------------------------------
Init ==            \* after CPhidgetStepper_create and CPhidget_open
  /\ spc = "idle" /\ req = NoRequest /\ packet = NoPacket
  /\ target = Unknown /\ engaged = Unknown /\ stopped = Unknown /\ made = Unknown
  /\ echo = NoEcho /\ rpc = "wait" /\ done = FALSE
  /\ apc = "no" /\ attached = FALSE /\ writing = FALSE /\ out = <<>> /\ report = <<>>
  /\ board = Fresh
  /\ blind = FALSE /\ crossed = FALSE /\ sets = 0 /\ faults = 0

Setter == Assign \/ MakePacket \/ TestStatus \/ Enqueue \/ AwaitRoom
Reader == Store \/ Decide
Board  == Move \/ Execute \/ MakeReport

Next == Call \/ Setter \/ Reader \/ Board \/ Attach \/ WriteFails \/ Detach

Spec == Init /\ [][Next]_vars

(* The threads of the library run, and the board does; nothing makes the   *)
(* application call, or a transfer fail.                                   *)
Fairness ==
  /\ WF_vars(Setter) /\ WF_vars(Store) /\ WF_vars(Decide)
  /\ WF_vars(Move) /\ WF_vars(Execute) /\ WF_vars(MakeReport) /\ WF_vars(Attach)

FairSpec == Spec /\ Fairness
-----------------------------------------------------------------------------
Echoes  == [pos : Int, speed : -1..1, on : BOOLEAN, seq : Nat]
Reports == [pos : Int, speed : -1..1, on : BOOLEAN, seq : Nat, done : BOOLEAN]
Boards  == [pos : Int, speed : -1..1, goal : Int, on : BOOLEAN, seq : Nat]
Packets == [kind : {"position", "reset", "motion"}, pos : Int \cup {Unknown},
            on : BOOLEAN, seq : Nat]

HostOK ==
  /\ spc \in {"idle", "lock", "make", "send", "put"}
  /\ req \in Requests /\ packet \in Packets
  /\ target \in Int \cup {Unknown} /\ engaged \in {TRUE, FALSE, Unknown}
  /\ stopped \in {TRUE, FALSE, Unknown} /\ made \in Nat \cup {Unknown}

ReaderOK ==
  /\ echo \in Echoes \cup {NoEcho} /\ rpc \in {"wait", "stored"} /\ done \in BOOLEAN
  /\ report \in Seq(Reports) /\ Len(report) <= 1

LinkOK ==
  /\ apc \in {"no", "read", "copy", "copyCounter", "set"}
  /\ attached \in BOOLEAN /\ writing \in BOOLEAN /\ blind \in BOOLEAN /\ crossed \in BOOLEAN
  /\ out \in Seq(Packets) /\ Len(out) <= Capacity

CountsOK == sets \in 0..MaxSets /\ faults \in 0..MaxFaults

(* Every variable stays in its range. *)
TypeOK == HostOK /\ ReaderOK /\ LinkOK /\ board \in Boards /\ CountsOK

(***************************************************************************)
(* What getStopped promises: the board has executed all packets, and the   *)
(* motor is at rest at the place asked for last, or has been switched off  *)
(* as asked for.  In spite of reports that were made before the last       *)
(* packet, of packets that were lost and of attachments in between.        *)
(*                                                                         *)
(* Not in an attachment whose first read failed; not in one that a packet  *)
(* crossed: a setter of the attachment before made it before the counter   *)
(* was copied, without which nothing counts it; and not in the moment      *)
(* between a setter's assignment and its packet.                           *)
(***************************************************************************)
StoppedSound ==
  (attached /\ stopped = TRUE /\ ~blind /\ ~crossed /\ spc # "make") =>
    /\ out = <<>> /\ spc \notin {"send", "put"} /\ board.on = engaged
    /\ board.on => board.pos = target /\ board.goal = target /\ board.speed = 0

(***************************************************************************)
(* Why, in the other attachments: the numbers of the packets under way lie *)
(* in order between that of the board and the counter of the handle,       *)
(***************************************************************************)
InFlight == spc \in {"send", "put"}

Numbered ==
  /\ made \in Nat /\ board.seq <= made
  /\ \A i \in DOMAIN out : board.seq < out[i].seq /\ out[i].seq <= made
  /\ \A i, j \in DOMAIN out : i < j => out[i].seq < out[j].seq
  /\ InFlight => /\ packet.seq = made /\ packet.on = engaged
                 /\ board.seq < made /\ \A i \in DOMAIN out : out[i].seq < made

(* what dataInput may still compare with is less than a lap behind, also   *)
(* with the packet that is being made,                                     *)
Newest == IF spc = "make" THEN made + 1 ELSE made

Recent ==
  /\ \A n \in Untold : Newest - n <= MaxLag
  /\ \A i \in DOMAIN report : report[i].seq <= board.seq
  /\ rpc = "stored" => echo.seq <= board.seq

(* a report of a motor at rest is still true if no packet was executed     *)
(* since,                                                                  *)
StillTrue(r) ==
  AtRest(board) /\ r.pos = board.pos /\ r.speed = board.speed /\ r.on = board.on

RestTold ==
  /\ \A i \in DOMAIN report :
       report[i].seq = board.seq /\ report[i].done => StillTrue(report[i])
  /\ rpc = "stored" /\ echo.seq = board.seq /\ done => StillTrue(echo)

(* and the last packet has the flag that the handle shows.                 *)
FlagSent ==
  spc # "make" =>
    /\ ~InFlight /\ made = board.seq => board.on = engaged
    /\ \A i \in DOMAIN out : out[i].seq = made => out[i].on = engaged

StoppedHere ==
  stopped = TRUE => /\ ~InFlight /\ made = board.seq /\ AtRest(board)
                    /\ (spc # "make" /\ board.on) => board.pos = target

Tracked == Numbered /\ Recent /\ RestTold /\ FlagSent /\ StoppedHere

StateInv == (attached \/ apc = "set") /\ ~blind /\ ~crossed => Tracked

(* An attachment takes over what is still true of the board; a motor that  *)
(* it will show as stopped has stopped.                                    *)
EchoTrue ==
  /\ echo.on = board.on /\ echo.seq = board.seq
  /\ done => StillTrue(echo)

CopiedOver ==
  /\ out = <<>> /\ ~InFlight
  /\ spc # "make" => target = echo.pos /\ engaged = echo.on

AttachInv ==
  ~blind =>
    /\ apc \in {"copy", "copyCounter"} => EchoTrue
    /\ (apc = "copy" /\ rpc = "wait") \/ apc = "copyCounter" =>
         (stopped # FALSE => done)
    /\ apc = "copyCounter" /\ ~crossed => CopiedOver

(* What TypeOK rests on: a packet that has a place to go to has a number   *)
(* for it; no report outlives its attachment.                              *)
PlacesKnown ==
  /\ packet.kind # "motion" => packet.pos \in Int
  /\ \A i \in DOMAIN out : out[i].kind # "motion" => out[i].pos \in Int

EchoKnown == rpc = "stored" => echo \in Echoes

DetachedQuiet ==
  /\ ~attached => report = <<>>
  /\ apc # "no" => ~attached
  /\ apc \in {"read", "copyCounter", "set"} => rpc = "wait"

(***************************************************************************)
(* haltStepper waits for getStopped: if handle and board agree about the   *)
(* last packet, the wait ends.  They do not after a packet was lost, or    *)
(* when an attachment began while the motor was moving, or a packet        *)
(* crossed it: motorPosition is then where the motor was, not where it is  *)
(* going.                                                                  *)
(***************************************************************************)
Planned ==
  LET asked == {i \in DOMAIN out : out[i].kind # "motion"} IN
  [goal |-> IF asked = {} THEN board.goal
            ELSE out[CHOOSE i \in asked : \A j \in asked : j <= i].pos,
   seq  |-> IF out = <<>> THEN board.seq ELSE out[Len(out)].seq]

Agreed ==
  /\ attached /\ writing /\ spc = "idle" /\ ~crossed
  /\ Planned.goal = target /\ Planned.seq = made

StopReported == <>[]Agreed => <>[](stopped = TRUE)
=============================================================================
