------------------------- MODULE StepperState_proofs -------------------------
(* Proofs about StepperState, for every set of positions, every modulus of  *)
(* the packet counter and every bound.                                      *)
EXTENDS StepperState, TLAPS

(***************************************************************************)
(* Arithmetic of the packet counter.                                       *)
(***************************************************************************)
(* A lap or more of the counter is at least one lap. *)
LEMMA AtLeastOneLap ==
  ASSUME NEW M \in Nat \ {0}, NEW k \in Int, k >= 1
  PROVE  M * k >= M
OBVIOUS

LEMMA DivMod ==
  ASSUME NEW M \in Nat \ {0}, NEW a \in Int
  PROVE  /\ a \div M \in Int /\ a % M \in 0..(M - 1)
         /\ a = M * (a \div M) + (a % M)
OBVIOUS

(* The laps and the rest of a number are unique. *)
LEMMA SameLap ==
  ASSUME NEW M \in Nat \ {0}, NEW d \in Int, NEW e \in Int,
         NEW r \in 0..(M - 1), NEW s \in 0..(M - 1), M * d + r = M * e + s
  PROVE  d = e
<1>1. CASE d > e
  <2>1. M * (d - e) >= M
    BY <1>1, AtLeastOneLap
  <2>2. M * (d - e) = M * d - M * e
    OBVIOUS
  <2> QED
    BY <2>1, <2>2
<1>2. CASE e > d
  <2>1. M * (e - d) >= M
    BY <1>2, AtLeastOneLap
  <2>2. M * (e - d) = M * e - M * d
    OBVIOUS
  <2> QED
    BY <2>1, <2>2
<1> QED
  BY <1>1, <1>2

(* Numbers less than a lap apart that the code cannot tell apart are one.  *)
LEMMA NearLap ==
  ASSUME NEW M \in Nat \ {0}, NEW d \in Int, NEW e \in Int, NEW r \in Int,
         (M * d + r) - (M * e + r) \in 0..(M - 1)
  PROVE  d = e
<1>1. M * (d - e) \in 0..(M - 1)
  <2>1. M * (d - e) = M * d - M * e
    OBVIOUS
  <2>2. M * d \in Int /\ M * e \in Int
    OBVIOUS
  <2> QED
    BY <2>1, <2>2
<1>2. CASE d - e >= 1
  BY <1>1, <1>2, AtLeastOneLap
<1>3. CASE e - d >= 1
  <2>1. M * (e - d) >= M
    BY <1>3, AtLeastOneLap
  <2>2. M * (e - d) = 0 - M * (d - e)
    OBVIOUS
  <2> QED
    BY <1>1, <2>1, <2>2
<1> QED
  BY <1>2, <1>3

LEMMA SameIsEqual ==
  ASSUME NEW a \in Nat, NEW b \in Nat, b <= a, a - b <= MaxLag, Same(a, b)
  PROVE  a = b
<1>1. CounterMod \in Nat \ {0} /\ MaxLag \in Nat /\ MaxLag < CounterMod
  BY StateAssumption
<1>2. a % CounterMod = b % CounterMod
  BY DEF Same
<1>3. PICK d \in Int, e \in Int, r \in Int :
        a = CounterMod * d + r /\ b = CounterMod * e + r
  <2>1. /\ a \div CounterMod \in Int /\ a % CounterMod \in Int
        /\ a = CounterMod * (a \div CounterMod) + (a % CounterMod)
    BY <1>1, DivMod
  <2>2. /\ b \div CounterMod \in Int
        /\ b = CounterMod * (b \div CounterMod) + (b % CounterMod)
    BY <1>1, DivMod
  <2>3. b = CounterMod * (b \div CounterMod) + (a % CounterMod)
    BY <1>2, <2>2
  <2> QED
    BY <2>1, <2>2, <2>3, Zenon
<1>4. a - b \in 0..(CounterMod - 1)
  BY <1>1
<1>5. d = e
  BY <1>1, <1>3, <1>4, NearLap
<1> QED
  BY <1>3, <1>5

(* In every lap there is a number with a given counter. *)
LEMMA InEveryLap ==
  ASSUME NEW M \in Nat \ {0}, NEW q \in Nat, NEW r \in 0..(M - 1)
  PROVE  \E n \in q..(q + M - 1) : n % M = r
<1>1. PICK d \in Int, s \in 0..(M - 1) : q = M * d + s
  <2>1. /\ q \div M \in Int /\ q % M \in 0..(M - 1)
        /\ q = M * (q \div M) + (q % M)
    BY DivMod
  <2> QED
    BY <2>1, Zenon
<1>2. \A e \in Int : (M * e + r) % M = r
  <2> TAKE e \in Int
  <2>1. M * e \in Int /\ M * e + r \in Int
    OBVIOUS
  <2>2. /\ (M * e + r) \div M \in Int /\ (M * e + r) % M \in 0..(M - 1)
        /\ M * e + r = M * ((M * e + r) \div M) + ((M * e + r) % M)
    BY <2>1, DivMod
  <2>3. (M * e + r) \div M = e
    BY <2>2, SameLap
  <2> QED
    BY <2>1, <2>2, <2>3
<1>3. M * d \in Int /\ M * (d + 1) = M * d + M
  OBVIOUS
<1>4. CASE r >= s
  <2>1. M * d + r \in q..(q + M - 1)
    BY <1>1, <1>3, <1>4
  <2> QED
    BY <1>2, <2>1
<1>5. CASE r < s
  <2>1. M * (d + 1) + r \in q..(q + M - 1)
    BY <1>1, <1>3, <1>5
  <2>2. d + 1 \in Int
    OBVIOUS
  <2> QED
    BY <1>2, <2>1, <2>2
<1> QED
  BY <1>1, <1>4, <1>5

(* A counter that starts again at 1 stands for a number. *)
LEMMA RestartedNat ==
  ASSUME board \in Boards
  PROVE  Restarted \in Nat
<1>1. CounterMod \in Nat \ {0} /\ board.seq \in Nat
  BY StateAssumption DEF Boards
<1>2. 1 % CounterMod \in 0..(CounterMod - 1)
  BY <1>1, DivMod
<1>3. \E n \in board.seq..(board.seq + CounterMod - 1) : n % CounterMod = 1 % CounterMod
  BY <1>1, <1>2, InEveryLap
<1>4. Restarted \in board.seq..(board.seq + CounterMod - 1)
  BY <1>3 DEF Restarted
<1> QED
  BY <1>1, <1>4
-----------------------------------------------------------------------------
(***************************************************************************)
(* The range of the variables.                                             *)
(***************************************************************************)
TypeInv == TypeOK /\ PlacesKnown /\ EchoKnown /\ DetachedQuiet

LEMMA EmptySeq ==
  ASSUME NEW S
  PROVE  <<>> \in Seq(S) /\ Len(<<>>) = 0 /\ DOMAIN <<>> = {}
OBVIOUS

LEMMA NoPacketType == NoPacket \in Packets /\ NoPacket.kind = "motion"
BY DEF NoPacket, Packet, Packets

LEMMA InitTypeInv == Init => TypeInv
<1> SUFFICES ASSUME Init PROVE TypeInv
  OBVIOUS
<1>1. HostOK
  BY NoPacketType DEF Init, HostOK, Requests, NoRequest
<1>2. ReaderOK /\ EchoKnown
  <2>1. echo \in Echoes \cup {NoEcho} /\ rpc \in {"wait", "stored"} /\ done \in BOOLEAN
    BY DEF Init
  <2>2. report \in Seq(Reports) /\ Len(report) <= 1
    BY EmptySeq DEF Init
  <2> QED
    BY <2>1, <2>2 DEF Init, ReaderOK, EchoKnown
<1>3. LinkOK /\ PlacesKnown
  <2>1. /\ attached \in BOOLEAN /\ writing \in BOOLEAN /\ blind \in BOOLEAN /\ crossed \in BOOLEAN
        /\ apc \in {"no", "read", "copy", "copyCounter", "set"}
    BY DEF Init
  <2>2. out \in Seq(Packets) /\ Len(out) <= Capacity /\ DOMAIN out = {}
    BY EmptySeq DEF Init, Capacity
  <2> QED
    BY <2>1, <2>2, NoPacketType DEF Init, LinkOK, PlacesKnown
<1>4. board \in Boards /\ CountsOK
  BY StateAssumption DEF Init, Boards, Fresh, CountsOK
<1>5. DetachedQuiet
  BY DEF Init, DetachedQuiet
<1> QED
  BY <1>1, <1>2, <1>3, <1>4, <1>5 DEF TypeInv, TypeOK

(* The first packet of the queue and what is behind it. *)
LEMMA Queue ==
  ASSUME LinkOK, out # <<>>
  PROVE  /\ Head(out) \in Packets /\ Head(out) = out[1] /\ 1 \in DOMAIN out
         /\ Tail(out) \in Seq(Packets) /\ Len(Tail(out)) = Len(out) - 1
         /\ \A i \in DOMAIN Tail(out) : i + 1 \in DOMAIN out /\ Tail(out)[i] = out[i + 1]
BY DEF LinkOK

LEMMA ReadingType ==
  ASSUME board \in Boards
  PROVE  Reading \in Reports
BY DEF Boards, Reports, Reading, AtRest

(* The packet that a setter makes. *)
LEMMA PacketMade ==
  ASSUME TypeInv, MakePacket
  PROVE  /\ NewNumber \in Nat /\ NewEngaged \in BOOLEAN
         /\ made' = NewNumber /\ engaged' = NewEngaged
         /\ packet' \in Packets /\ (packet'.kind # "motion" => packet'.pos \in Int)
         /\ packet'.seq = NewNumber /\ packet'.on = NewEngaged
<1> USE DEF TypeInv, TypeOK, HostOK
<1>1. NewNumber \in Nat
  BY RestartedNat DEF NewNumber
<1>2. NewEngaged \in BOOLEAN
  BY DEF NewEngaged
<1>3. req.kind # "motion" => req.pos \in Int
  BY StateAssumption DEF Requests
<1>4. /\ req.kind \in {"position", "reset", "motion"}
      /\ PlaceSent \in Int \cup {Unknown} /\ (req.kind # "motion" => PlaceSent \in Int)
  <2>1. CASE req.kind = "motion"
    BY <2>1 DEF PlaceSent
  <2>2. CASE req.kind = "reset"
    BY <1>3, <2>2 DEF PlaceSent
  <2>3. CASE req.kind = "position"
    <3>1. PlaceSent = IF target = Unknown THEN -1 ELSE target
      BY <2>3 DEF PlaceSent
    <3>2. PlaceSent \in Int
      BY <3>1
    <3> QED
      BY <2>3, <3>2
  <2>4. req.kind \in {"position", "reset", "motion"}
    BY DEF Requests
  <2> QED
    BY <2>1, <2>2, <2>3, <2>4
<1>5. packet' = Packet(req.kind, PlaceSent, NewEngaged, NewNumber)
  BY DEF MakePacket
<1>6. /\ packet' \in Packets /\ (packet'.kind # "motion" => packet'.pos \in Int)
      /\ packet'.seq = NewNumber /\ packet'.on = NewEngaged
  BY <1>1, <1>2, <1>4, <1>5 DEF Packet, Packets
<1> QED
  BY <1>1, <1>2, <1>6 DEF MakePacket

(* What an attachment puts into the echoes. *)
LEMMA FirstEcho ==
  ASSUME TypeInv, AttachClear \/ FirstRead
  PROVE  echo' \in Echoes \cup {NoEcho} /\ (rpc' = "stored" => echo' \in Echoes)
<1> USE DEF TypeInv, TypeOK
<1>1. CASE AttachClear
  BY <1>1 DEF AttachClear
<1>2. CASE FirstRead /\ rpc' = "stored" /\ done' = AtRest(board)
  <2>1. CASE echo' = [pos |-> board.pos, speed |-> board.speed,
                      on |-> board.on, seq |-> board.seq]
    BY <2>1 DEF Boards, Echoes
  <2>2. CASE UNCHANGED reader
    BY <1>2, <2>2 DEF reader, ReaderOK, EchoKnown
  <2> QED
    BY <1>2, <2>1, <2>2 DEF FirstRead
<1>3. CASE FirstRead /\ UNCHANGED reader
  BY <1>3 DEF reader, ReaderOK, EchoKnown
<1> QED
  BY <1>1, <1>2, <1>3 DEF FirstRead

(* What the setters write, and initAfterOpen: the handle's fields. *)
LEMMA HostStep == TypeInv /\ Next => HostOK'
<1> SUFFICES ASSUME TypeInv, Next PROVE HostOK'
  OBVIOUS
<1> USE DEF TypeInv, TypeOK, HostOK
<1>1. CASE Call
  BY <1>1 DEF Call, host
<1>2. CASE Assign
  <2>1. req.kind = "position" => req.pos \in Int
    BY StateAssumption DEF Requests
  <2>2. req.kind = "motion" => req.on \in {Unknown, TRUE, FALSE}
    BY DEF Requests
  <2> QED
    BY <1>2, <2>1, <2>2 DEF Assign
<1>3. CASE MakePacket
  <2>1. req.kind = "reset" => req.pos \in Int
    BY StateAssumption DEF Requests
  <2>2. target' \in Int \cup {Unknown}
    BY <1>3, <2>1 DEF MakePacket
  <2>3. NoRequest \in Requests
    BY DEF NoRequest, Requests
  <2> QED
    BY <1>3, <2>2, <2>3, PacketMade DEF MakePacket
<1>4. CASE TestStatus \/ Enqueue \/ AwaitRoom
  BY <1>4, NoPacketType DEF TestStatus, Enqueue, AwaitRoom, Return, host
<1>5. CASE Decide
  BY <1>5 DEF Decide, setter
<1>6. CASE Store \/ Board \/ WriteFails \/ Detach
  BY <1>6 DEF Store, Board, Move, Execute, MakeReport, WriteFails, Detach, host, setter
<1>7. CASE AttachClear \/ FirstRead \/ SetAttached
  BY <1>7 DEF AttachClear, FirstRead, SetAttached, host, setter
<1>8. CASE CopyPlace \/ CopyCounter
  <2>1. /\ echo.pos \in Int \cup {Unknown} /\ echo.on \in {TRUE, FALSE, Unknown}
        /\ echo.seq \in Nat \cup {Unknown}
    <3>1. CASE echo \in Echoes
      BY <3>1 DEF Echoes
    <3>2. CASE echo = NoEcho
      BY <3>2 DEF NoEcho
    <3> QED
      BY <3>1, <3>2 DEF ReaderOK
  <2>2. CASE CopyPlace
    BY <2>1, <2>2 DEF CopyPlace, setter
  <2>3. CASE CopyCounter
    <3>1. StartStopped \in BOOLEAN
      BY DEF StartStopped
    <3>2. stopped' \in {TRUE, FALSE, Unknown}
      BY <2>3, <3>1 DEF CopyCounter
    <3> QED
      BY <2>1, <2>3, <3>2 DEF CopyCounter, setter
  <2> QED
    BY <1>8, <2>2, <2>3
<1> QED
  BY <1>1, <1>2, <1>3, <1>4, <1>5, <1>6, <1>7, <1>8 DEF Next, Setter, Reader, Attach

(* What the read thread writes, and the report under way. *)
LEMMA ReaderStep == TypeInv /\ Next => ReaderOK' /\ EchoKnown'
<1> SUFFICES ASSUME TypeInv, Next PROVE ReaderOK' /\ EchoKnown'
  OBVIOUS
<1> USE DEF TypeInv, TypeOK, ReaderOK, EchoKnown
<1>1. CASE Store
  <2>1. Head(report) \in Reports
    BY <1>1 DEF Store
  <2>2. echo' \in Echoes /\ done' \in BOOLEAN
    BY <1>1, <2>1 DEF Store, Reports, Echoes
  <2> QED
    BY <1>1, <2>2, EmptySeq DEF Store
<1>2. CASE Decide
  BY <1>2 DEF Decide
<1>3. CASE MakeReport
  BY <1>3, ReadingType DEF MakeReport, reader
<1>4. CASE AttachClear \/ FirstRead
  <2>1. done' \in BOOLEAN /\ rpc' \in {"wait", "stored"} /\ report' = report
    BY <1>4 DEF AttachClear, FirstRead, reader, AtRest
  <2> QED
    BY <1>4, <2>1, FirstEcho
<1>5. CASE Detach
  BY <1>5, EmptySeq DEF Detach, reader
<1>6. CASE Call \/ Setter \/ Move \/ Execute \/ WriteFails
  BY <1>6 DEF Call, Setter, Assign, MakePacket, TestStatus, Enqueue, AwaitRoom, Move, Execute,
              WriteFails, reader
<1>7. CASE CopyPlace \/ CopyCounter \/ SetAttached
  BY <1>7 DEF CopyPlace, CopyCounter, SetAttached, reader
<1> QED
  BY <1>1, <1>2, <1>3, <1>4, <1>5, <1>6, <1>7 DEF Next, Reader, Board, Attach

LEMMA QuietStep == TypeInv /\ Next => DetachedQuiet'
<1> SUFFICES ASSUME TypeInv, Next PROVE DetachedQuiet'
  OBVIOUS
<1> USE DEF TypeInv, DetachedQuiet
<1>1. CASE Attach
  BY <1>1 DEF Attach, AttachClear, FirstRead, CopyPlace, CopyCounter, SetAttached, link, reader
<1>2. CASE Detach
  BY <1>2 DEF Detach, reader
<1>3. CASE Store \/ MakeReport
  BY <1>3 DEF Store, MakeReport, link, reader
<1>4. CASE Decide
  BY <1>4 DEF Decide, link
<1>5. CASE Call \/ Setter \/ Move \/ Execute \/ WriteFails
  BY <1>5 DEF Call, Setter, Assign, MakePacket, TestStatus, Enqueue, AwaitRoom, Move, Execute,
              WriteFails, link, reader
<1> QED
  BY <1>1, <1>2, <1>3, <1>4, <1>5 DEF Next, Reader, Board

(* A packet that is put behind the others. *)
LEMMA QueueAppend ==
  ASSUME LinkOK, NEW p \in Packets
  PROVE  \A i \in DOMAIN Append(out, p) :
           \/ i \in DOMAIN out /\ Append(out, p)[i] = out[i]
           \/ i = Len(out) + 1 /\ Append(out, p)[i] = p
BY DEF LinkOK

(* The queue, and where its packets go. *)
LEMMA LinkStep == TypeInv /\ Next => LinkOK' /\ PlacesKnown'
<1> SUFFICES ASSUME TypeInv, Next PROVE LinkOK' /\ PlacesKnown'
  OBVIOUS
<1> USE DEF TypeInv, TypeOK, LinkOK, PlacesKnown
<1>1. CASE Enqueue
  <2>1. packet \in Packets /\ (packet.kind # "motion" => packet.pos \in Int)
    BY DEF HostOK
  <2>2. Len(out) < Capacity /\ packet' = NoPacket
    BY <1>1 DEF Enqueue, Room, Capacity, Return
  <2>3. out' = Append(out, packet)
    BY <1>1 DEF Enqueue
  <2>4. \A i \in DOMAIN out' : out'[i] = packet \/ (i \in DOMAIN out /\ out'[i] = out[i])
    BY <2>1, <2>3, QueueAppend
  <2>5. PlacesKnown'
    BY <2>1, <2>2, <2>4, NoPacketType
  <2>6. LinkOK'
    BY <1>1, <2>1, <2>2, <2>3 DEF Enqueue, Capacity, past
  <2> QED
    BY <2>5, <2>6
<1>2. CASE Execute \/ WriteFails
  <2>1. out # <<>> /\ out' = Tail(out) /\ packet' = packet
    BY <1>2 DEF Execute, WriteFails, setter
  <2>2. /\ attached' \in BOOLEAN /\ writing' \in BOOLEAN /\ blind' \in BOOLEAN
        /\ crossed' \in BOOLEAN /\ apc' \in {"no", "read", "copy", "copyCounter", "set"}
    BY <1>2 DEF Execute, WriteFails, past
  <2>3. out' \in Seq(Packets) /\ Len(out') <= Capacity
    BY <2>1, Queue DEF Capacity
  <2>4. PlacesKnown'
    BY <2>1, Queue
  <2> QED
    BY <2>2, <2>3, <2>4
<1>3. CASE AttachClear
  <2>1. /\ out' = <<>> /\ packet' = packet /\ attached' = attached /\ writing' = writing
        /\ apc' = "read" /\ blind' = FALSE /\ crossed' = FALSE
    BY <1>3 DEF AttachClear, setter
  <2>2. out' \in Seq(Packets) /\ Len(out') <= Capacity /\ DOMAIN out' = {}
    BY <2>1, EmptySeq DEF Capacity
  <2>3. PlacesKnown'
    BY <2>1, <2>2
  <2> QED
    BY <2>1, <2>2, <2>3
<1>4. CASE FirstRead \/ CopyPlace \/ CopyCounter \/ SetAttached \/ Detach
  BY <1>4 DEF FirstRead, CopyPlace, CopyCounter, SetAttached, Detach, setter, link, past
<1>5. CASE MakePacket
  BY <1>5, PacketMade DEF MakePacket, link
<1>6. CASE TestStatus \/ AwaitRoom
  BY <1>6, NoPacketType DEF TestStatus, AwaitRoom, Return, link, past
<1>7. CASE Call \/ Assign \/ Reader \/ Move \/ MakeReport
  BY <1>7 DEF Call, Assign, Reader, Store, Decide, Move, MakeReport, link, setter, past
<1> QED
  BY <1>1, <1>2, <1>3, <1>4, <1>5, <1>6, <1>7 DEF Next, Setter, Board, Attach

(* The board, and what the bounds count. *)
LEMMA BoardStep == TypeInv /\ Next => board' \in Boards /\ CountsOK'
<1> SUFFICES ASSUME TypeInv, Next PROVE board' \in Boards /\ CountsOK'
  OBVIOUS
<1> USE StateAssumption DEF TypeInv, TypeOK, CountsOK
<1>1. CASE Move
  <2> DEFINE next == board.pos + board.speed
             speed == board.speed + Sign(Sign(board.goal - next) - board.speed)
  <2>1. next \in Int /\ speed \in -1..1
    BY DEF Boards, Sign
  <2>2. board' = [board EXCEPT !.pos = next, !.speed = speed]
    BY <1>1 DEF Move
  <2> HIDE DEF next, speed
  <2> QED
    BY <1>1, <2>1, <2>2 DEF Move, Boards
<1>2. CASE Execute
  <2>1. Head(out) \in Packets /\ (Head(out).kind # "motion" => Head(out).pos \in Int)
    BY <1>2, Queue DEF Execute, PlacesKnown
  <2>2. board' = Executed(board, Head(out))
    BY <1>2 DEF Execute
  <2> HIDE DEF TypeInv, TypeOK
  <2>3. board' \in Boards
    BY <2>1, <2>2 DEF Executed, Boards, Packets, TypeInv, TypeOK
  <2> QED
    BY <1>2, <2>3 DEF Execute, TypeInv, TypeOK
<1>3. CASE Attach \/ WriteFails
  BY <1>3 DEF Attach, AttachClear, FirstRead, CopyPlace, CopyCounter, SetAttached, WriteFails
<1>4. CASE Detach
  <2>1. Fresh \in Boards
    BY DEF Fresh, Boards
  <2> QED
    BY <1>4, <2>1 DEF Detach
<1>5. CASE Call
  BY <1>5 DEF Call
<1>6. CASE Setter \/ Reader \/ MakeReport
  BY <1>6 DEF Setter, Assign, MakePacket, TestStatus, Enqueue, AwaitRoom, Reader, Store, Decide,
              MakeReport
<1> QED
  BY <1>1, <1>2, <1>3, <1>4, <1>5, <1>6 DEF Next, Board

LEMMA Stutter == TypeInv /\ UNCHANGED vars => TypeInv'
<1> SUFFICES ASSUME TypeInv, UNCHANGED vars PROVE TypeInv'
  OBVIOUS
<1> USE DEF TypeInv, TypeOK, vars
<1>1. HostOK'
  BY DEF HostOK, setter, host
<1>2. ReaderOK' /\ EchoKnown'
  BY DEF ReaderOK, EchoKnown, reader
<1>3. LinkOK' /\ PlacesKnown'
  BY DEF LinkOK, PlacesKnown, link, setter, past
<1>4. board' \in Boards /\ CountsOK'
  BY DEF CountsOK
<1>5. DetachedQuiet'
  BY DEF DetachedQuiet, link, reader
<1> QED
  BY <1>1, <1>2, <1>3, <1>4, <1>5

LEMMA NextTypeInv == TypeInv /\ [Next]_vars => TypeInv'
BY HostStep, ReaderStep, QuietStep, LinkStep, BoardStep, Stutter DEF TypeInv, TypeOK

(* Every variable stays in its range, whatever the bounds are. *)
THEOREM TypeCorrect == Spec => []TypeOK
<1>1. TypeInv => TypeOK
  BY DEF TypeInv
<1> QED
  BY <1>1, InitTypeInv, NextTypeInv, PTL DEF Spec
-----------------------------------------------------------------------------
(***************************************************************************)
(* What getStopped promises.                                               *)
(***************************************************************************)
LEMMA NoReport == ASSUME NEW r, r = <<>> PROVE DOMAIN r = {}
OBVIOUS

(* The steps within an attachment, which begins when the counter has been  *)
(* copied.                                                                 *)
Within == Call \/ Setter \/ Reader \/ Board \/ WriteFails

Here == attached \/ apc = "set"

LEMMA MoveKeeps ==
  ASSUME board \in Boards, Move
  PROVE  board'.seq = board.seq /\ board'.on = board.on
BY DEF Move, Boards

LEMMA ExecuteTakes ==
  ASSUME TypeInv, Tracked, Execute
  PROVE  /\ out # <<>> /\ 1 \in DOMAIN out /\ out' = Tail(out)
         /\ board'.seq = out[1].seq /\ board'.on = out[1].on
         /\ board.seq < out[1].seq /\ board.seq \in Nat /\ out[1].seq \in Nat
<1>1. out # <<>> /\ out' = Tail(out) /\ board' = Executed(board, Head(out))
  BY DEF Execute
<1>2. Head(out) = out[1] /\ 1 \in DOMAIN out /\ out[1] \in Packets
  BY <1>1, Queue DEF TypeInv, TypeOK
<1>3. board'.seq = out[1].seq /\ board'.on = out[1].on
  BY <1>1, <1>2 DEF Executed
<1>4. board.seq \in Nat /\ out[1].seq \in Nat
  BY <1>2 DEF TypeInv, TypeOK, Boards, Packets
<1>5. board.seq < out[1].seq
  BY <1>2 DEF Tracked, Numbered
<1> QED
  BY <1>1, <1>2, <1>3, <1>4, <1>5

LEMMA PacketSeqs ==
  ASSUME TypeInv
  PROVE  /\ board.seq \in Nat /\ packet.seq \in Nat
         /\ \A i \in DOMAIN out : out[i] \in Packets /\ out[i].seq \in Nat
<1>1. \A i \in DOMAIN out : out[i] \in Packets
  BY DEF TypeInv, TypeOK, LinkOK
<1> QED
  BY <1>1 DEF TypeInv, TypeOK, HostOK, Boards, Packets

LEMMA NumberedStep ==
  ASSUME TypeInv, Tracked, Within
  PROVE  Numbered'
<1> USE DEF Tracked, Numbered, InFlight
<1>1. CASE Call \/ Assign
  <2>1. /\ made' = made /\ out' = out /\ board' = board
        /\ spc' \in {"lock", "make"}
    BY <1>1 DEF Call, Assign, host, link
  <2> QED
    BY <2>1
<1>2. CASE MakePacket
  <2>1. made \in Nat /\ made' = made + 1
    BY <1>2, StateAssumption DEF MakePacket, NewNumber
  <2>2. out' = out /\ board' = board /\ spc' = "send"
    BY <1>2 DEF MakePacket, link
  <2>3. packet'.seq = made' /\ packet'.on = engaged'
    BY <1>2, PacketMade
  <2> QED
    BY <2>1, <2>2, <2>3, PacketSeqs
<1>3. CASE Enqueue
  <2>1. packet \in Packets /\ packet.seq = made
    BY <1>3 DEF Enqueue, TypeInv, TypeOK, HostOK
  <2>2. out' = Append(out, packet)
    BY <1>3 DEF Enqueue
  <2>3. made' = made /\ board' = board /\ spc' = "idle" /\ spc = "put"
    BY <1>3 DEF Enqueue, host, Return
  <2>4. \A i \in DOMAIN out' : \/ i \in DOMAIN out /\ out'[i] = out[i]
                               \/ i = Len(out) + 1 /\ out'[i] = packet
    BY <2>1, <2>2, QueueAppend DEF TypeInv, TypeOK
  <2>5. Len(out) \in Nat /\ DOMAIN out = 1..Len(out)
    BY DEF TypeInv, TypeOK, LinkOK
  <2>6. \A i \in DOMAIN out' : board.seq < out'[i].seq /\ out'[i].seq <= made
    BY <2>1, <2>3, <2>4
  <2>7. \A i, j \in DOMAIN out' : i < j => out'[i].seq < out'[j].seq
    BY <2>1, <2>3, <2>4, <2>5
  <2> QED
    BY <2>3, <2>6, <2>7
<1>4. CASE TestStatus \/ AwaitRoom
  <2>1. /\ made' = made /\ engaged' = engaged /\ out' = out /\ board' = board
        /\ spc \in {"send", "put"}
    BY <1>4 DEF TestStatus, AwaitRoom, host, link
  <2>2. spc' = "idle" \/ (spc' \in {"send", "put"} /\ packet' = packet)
    BY <1>4 DEF TestStatus, AwaitRoom, Return
  <2> QED
    BY <2>1, <2>2
<1>5. CASE Execute
  <2>1. /\ out # <<>> /\ 1 \in DOMAIN out /\ out' = Tail(out)
        /\ board'.seq = out[1].seq
    BY <1>5, ExecuteTakes
  <2>2. \A i \in DOMAIN out' : i + 1 \in DOMAIN out /\ out'[i] = out[i + 1] /\ 1 < i + 1
    BY <2>1, Queue DEF TypeInv, TypeOK, LinkOK
  <2>3. made' = made /\ spc' = spc /\ engaged' = engaged /\ packet' = packet
    BY <1>5 DEF Execute, host, setter
  <2>4. \A i, j \in DOMAIN out' : i < j => i + 1 < j + 1
    BY <2>1, Queue DEF TypeInv, TypeOK, LinkOK
  <2> QED
    BY <2>1, <2>2, <2>3, <2>4
<1>6. CASE WriteFails
  <2>1. /\ out # <<>> /\ out' = Tail(out) /\ made' = made /\ spc' = spc /\ board' = board
        /\ engaged' = engaged /\ packet' = packet
    BY <1>6 DEF WriteFails, host, setter
  <2>2. \A i \in DOMAIN out' : i + 1 \in DOMAIN out /\ out'[i] = out[i + 1]
    BY <2>1, Queue DEF TypeInv, TypeOK
  <2>3. \A i, j \in DOMAIN out' : i < j => i + 1 < j + 1
    BY <2>1, Queue DEF TypeInv, TypeOK, LinkOK
  <2> QED
    BY <2>1, <2>2, <2>3
<1>7. CASE Move
  <2>1. /\ board'.seq = board.seq /\ made' = made /\ spc' = spc /\ out' = out
        /\ engaged' = engaged /\ packet' = packet
    BY <1>7, MoveKeeps DEF Move, host, link, setter, TypeInv, TypeOK
  <2> QED
    BY <2>1
<1>8. CASE MakeReport \/ Store \/ Decide
  <2>1. /\ board' = board /\ made' = made /\ spc' = spc /\ out' = out
        /\ engaged' = engaged /\ packet' = packet
    BY <1>8 DEF MakeReport, Store, Decide, host, link, setter
  <2> QED
    BY <2>1
<1> QED
  BY <1>1, <1>2, <1>3, <1>4, <1>5, <1>6, <1>7, <1>8
     DEF Within, Setter, Reader, Board

(* Recent speaks of the numbers that dataInput may still compare with. *)
LEMMA UntoldBound ==
  ASSUME NEW n
  PROVE  n \in Untold <=> \/ n = board.seq
                          \/ \E i \in DOMAIN report : n = report[i].seq
                          \/ rpc = "stored" /\ n = echo.seq
BY DEF Untold

LEMMA ReportSeqs ==
  ASSUME TypeInv
  PROVE  /\ \A i \in DOMAIN report : report[i] \in Reports /\ report[i].seq \in Nat
         /\ board.seq \in Nat
         /\ rpc = "stored" => echo.seq \in Nat
<1>1. \A i \in DOMAIN report : report[i] \in Reports
  BY DEF TypeInv, TypeOK, ReaderOK
<1>2. board.seq \in Nat
  BY DEF TypeInv, TypeOK, Boards
<1>3. rpc = "stored" => echo.seq \in Nat
  BY DEF TypeInv, EchoKnown, Echoes
<1> QED
  BY <1>1, <1>2, <1>3 DEF Reports

LEMMA RecentStep ==
  ASSUME TypeInv, Tracked, Here, Within
  PROVE  Recent'
<1> USE DEF Tracked, Recent, Newest
<1>0. made \in Nat /\ Newest \in Nat
  BY DEF Numbered
<1>1. CASE Assign
  <2>1. NewNumber = made + 1
    BY StateAssumption DEF NewNumber, Numbered
  <2>2. \A n \in Untold : (made + 1) - n <= MaxLag
    BY <1>1, <2>1 DEF Assign, LagBounded, Here
  <2>3. /\ board' = board /\ report' = report /\ echo' = echo /\ rpc' = rpc
        /\ made' = made /\ spc' = "make"
    BY <1>1 DEF Assign, reader
  <2>4. Untold' = Untold
    BY <2>3 DEF Untold
  <2> QED
    BY <2>2, <2>3, <2>4
<1>2. CASE MakePacket
  <2>1. spc = "make" /\ spc' = "send" /\ made' = made + 1
    BY <1>2, StateAssumption DEF MakePacket, NewNumber, Numbered
  <2>2. board' = board /\ report' = report /\ echo' = echo /\ rpc' = rpc
    BY <1>2 DEF MakePacket, reader
  <2>3. Untold' = Untold /\ Newest' = Newest
    BY <2>1, <2>2 DEF Untold
  <2> QED
    BY <2>2, <2>3
<1>3. CASE Execute
  <2>1. board'.seq = out[1].seq /\ board.seq < out[1].seq /\ out[1].seq \in Nat
    BY <1>3, ExecuteTakes
  <2>2. /\ report' = report /\ echo' = echo /\ rpc' = rpc /\ made' = made /\ spc' = spc
    BY <1>3 DEF Execute, host, reader, setter
  <2>3. \A n \in Untold' : n = board'.seq \/ n \in Untold
    BY <2>2 DEF Untold
  <2>4. Newest' = Newest /\ Newest - board.seq <= MaxLag
    BY <2>2, UntoldBound
  <2>5. Newest - board'.seq <= MaxLag
    BY <1>0, <2>1, <2>4, ReportSeqs, StateAssumption
  <2> QED
    BY <2>1, <2>2, <2>3, <2>4, <2>5, ReportSeqs
<1>4. CASE MakeReport
  <2>1. report' = <<Reading>> /\ Reading.seq = board.seq
    BY <1>4 DEF MakeReport, Reading
  <2>2. \A i \in DOMAIN report' : report'[i].seq = board.seq
    BY <2>1
  <2>3. made' = made /\ board' = board /\ echo' = echo /\ rpc' = rpc /\ spc' = spc
    BY <1>4 DEF MakeReport, host, reader, setter
  <2>4. Untold' \subseteq Untold
    BY <2>2, <2>3 DEF Untold
  <2> QED
    BY <2>2, <2>3, <2>4, ReportSeqs
<1>5. CASE Store
  <2>1. report # <<>> /\ report' = <<>> /\ rpc' = "stored" /\ echo'.seq = Head(report).seq
    BY <1>5 DEF Store
  <2>2. 1 \in DOMAIN report /\ Head(report) = report[1]
    BY <2>1 DEF TypeInv, TypeOK, ReaderOK
  <2>3. made' = made /\ board' = board /\ spc' = spc
    BY <1>5 DEF Store, host, setter
  <2>4. DOMAIN report' = {}
    BY <2>1, NoReport
  <2>5. Untold' \subseteq Untold
    BY <2>1, <2>2, <2>3, <2>4 DEF Untold
  <2> QED
    BY <2>1, <2>2, <2>3, <2>4, <2>5
<1>6. CASE Decide
  <2>1. /\ report' = report /\ board' = board /\ echo' = echo /\ made' = made
        /\ rpc' = "wait" /\ spc' = spc
    BY <1>6 DEF Decide, setter
  <2>2. Untold' \subseteq Untold
    BY <2>1 DEF Untold
  <2> QED
    BY <2>1, <2>2
<1>7. CASE Move
  <2>1. /\ report' = report /\ board'.seq = board.seq /\ echo' = echo /\ made' = made
        /\ rpc' = rpc /\ spc' = spc
    BY <1>7, MoveKeeps DEF Move, host, reader, setter, TypeInv, TypeOK
  <2>2. Untold' = Untold
    BY <2>1 DEF Untold
  <2> QED
    BY <2>1, <2>2
<1>8. CASE Call \/ TestStatus \/ Enqueue \/ AwaitRoom \/ WriteFails
  <2>1. /\ report' = report /\ board' = board /\ echo' = echo /\ made' = made
        /\ rpc' = rpc /\ (spc' = "make" => spc = "make")
    BY <1>8 DEF Call, TestStatus, Enqueue, AwaitRoom, Return, WriteFails, host, reader, setter
  <2>2. Untold' = Untold
    BY <2>1 DEF Untold
  <2>3. \A n \in Untold : n \in Int
    BY ReportSeqs DEF Untold
  <2>4. Newest' <= Newest /\ Newest' \in Nat
    BY <1>0, <2>1
  <2> QED
    BY <1>0, <2>1, <2>2, <2>3, <2>4, StateAssumption
<1> QED
  BY <1>1, <1>2, <1>3, <1>4, <1>5, <1>6, <1>7, <1>8 DEF Within, Setter, Reader, Board

LEMMA RestToldStep ==
  ASSUME TypeInv, Tracked, Within
  PROVE  RestTold'
<1> USE DEF Tracked, RestTold, StillTrue
<1>1. CASE Move
  <2>1. ~AtRest(board) /\ board'.seq = board.seq
    BY <1>1, MoveKeeps DEF Move, TypeInv, TypeOK
  <2>2. report' = report /\ echo' = echo /\ rpc' = rpc /\ done' = done
    BY <1>1 DEF Move, reader
  <2> QED
    BY <2>1, <2>2
<1>2. CASE Execute
  <2>1. board.seq < board'.seq /\ board'.seq \in Nat
    BY <1>2, ExecuteTakes
  <2>2. report' = report /\ echo' = echo /\ rpc' = rpc /\ done' = done
    BY <1>2 DEF Execute, reader
  <2>3. \A i \in DOMAIN report : report[i].seq # board'.seq
    BY <2>1, ReportSeqs DEF Recent
  <2>4. rpc = "stored" => echo.seq # board'.seq
    BY <2>1, ReportSeqs DEF Recent
  <2> QED
    BY <2>2, <2>3, <2>4
<1>3. CASE MakeReport
  <2>1. report' = <<Reading>> /\ board' = board
    BY <1>3 DEF MakeReport
  <2>2. echo' = echo /\ rpc' = rpc /\ done' = done
    BY <1>3 DEF MakeReport, reader
  <2>3. \A i \in DOMAIN report' : report'[i] = Reading
    BY <2>1
  <2>4. /\ Reading.done => AtRest(board)
        /\ Reading.pos = board.pos /\ Reading.speed = board.speed /\ Reading.on = board.on
    BY DEF Reading
  <2> QED
    BY <2>1, <2>2, <2>3, <2>4
<1>4. CASE Store
  <2>1. /\ report # <<>> /\ report' = <<>> /\ board' = board
        /\ echo' = [pos |-> Head(report).pos, speed |-> Head(report).speed,
                    on |-> Head(report).on, seq |-> Head(report).seq]
        /\ done' = Head(report).done
    BY <1>4 DEF Store
  <2>2. 1 \in DOMAIN report /\ Head(report) = report[1]
    BY <2>1 DEF TypeInv, TypeOK, ReaderOK
  <2>3. DOMAIN report' = {}
    BY <2>1, NoReport
  <2> QED
    BY <2>1, <2>2, <2>3
<1>5. CASE Decide
  BY <1>5 DEF Decide
<1>6. CASE Call \/ Setter \/ WriteFails
  <2>1. /\ board' = board /\ report' = report /\ echo' = echo
        /\ rpc' = rpc /\ done' = done
    BY <1>6 DEF Call, Setter, Assign, MakePacket, TestStatus, Enqueue, AwaitRoom, WriteFails, reader
  <2> QED
    BY <2>1
<1> QED
  BY <1>1, <1>2, <1>3, <1>4, <1>5, <1>6 DEF Within, Reader, Board

LEMMA FlagSentStep ==
  ASSUME TypeInv, Tracked, Within
  PROVE  FlagSent'
<1> USE DEF Tracked, FlagSent, InFlight
<1>1. CASE MakePacket
  <2>1. made \in Nat /\ made' = made + 1 /\ spc' = "send" /\ out' = out
    BY <1>1, StateAssumption DEF MakePacket, NewNumber, Numbered, link
  <2>2. \A i \in DOMAIN out : out[i].seq # made + 1
    BY <2>1, PacketSeqs DEF Numbered
  <2> QED
    BY <2>1, <2>2
<1>2. CASE Assign
  BY <1>2 DEF Assign
<1>3. CASE Enqueue
  <2>1. /\ packet \in Packets /\ packet.on = engaged /\ board.seq < made
        /\ made \in Nat /\ spc = "put"
    BY <1>3 DEF Enqueue, TypeInv, TypeOK, HostOK, Numbered
  <2>2. out' = Append(out, packet)
    BY <1>3 DEF Enqueue
  <2>3. made' = made /\ board' = board /\ engaged' = engaged
    BY <1>3 DEF Enqueue, host
  <2>4. \A i \in DOMAIN out' : out'[i] = packet \/ (i \in DOMAIN out /\ out'[i] = out[i])
    BY <2>1, <2>2, QueueAppend DEF TypeInv, TypeOK
  <2>5. made # board.seq
    BY <2>1, PacketSeqs
  <2> QED
    BY <2>1, <2>3, <2>4, <2>5
<1>4. CASE TestStatus \/ AwaitRoom
  <2>1. /\ spc \in {"send", "put"} /\ made' = made /\ board' = board
        /\ engaged' = engaged /\ out' = out
    BY <1>4 DEF TestStatus, AwaitRoom, host, link
  <2>2. made # board.seq
    BY <2>1, PacketSeqs DEF Numbered
  <2> QED
    BY <2>1, <2>2
<1>5. CASE Execute
  <2>1. /\ 1 \in DOMAIN out /\ out # <<>> /\ out' = Tail(out)
        /\ board'.seq = out[1].seq /\ board'.on = out[1].on
    BY <1>5, ExecuteTakes
  <2>2. \A i \in DOMAIN out' : i + 1 \in DOMAIN out /\ out'[i] = out[i + 1]
    BY <2>1, Queue DEF TypeInv, TypeOK
  <2>3. made' = made /\ engaged' = engaged /\ spc' = spc
    BY <1>5 DEF Execute, host, setter
  <2> QED
    BY <2>1, <2>2, <2>3
<1>6. CASE WriteFails
  <2>1. out # <<>> /\ out' = Tail(out) /\ spc' = spc
    BY <1>6 DEF WriteFails, setter
  <2>2. \A i \in DOMAIN out' : i + 1 \in DOMAIN out /\ out'[i] = out[i + 1]
    BY <2>1, Queue DEF TypeInv, TypeOK
  <2> QED
    BY <1>6, <2>1, <2>2 DEF WriteFails, host
<1>7. CASE Move
  BY <1>7, MoveKeeps DEF Move, host, link, setter, TypeInv, TypeOK
<1>8. CASE Call
  BY <1>8 DEF Call, host, link
<1>9. CASE Reader \/ MakeReport
  BY <1>9 DEF Reader, Store, Decide, MakeReport, host, link, setter
<1> QED
  BY <1>1, <1>2, <1>3, <1>4, <1>5, <1>6, <1>7, <1>8, <1>9 DEF Within, Setter, Board

(* If board and handle have the same number, nothing is under way. *)
LEMMA NothingUnderWay ==
  ASSUME TypeInv, Tracked, made = board.seq
  PROVE  out = <<>>
<1>1. 1 \notin DOMAIN out
  <2> SUFFICES ASSUME 1 \in DOMAIN out PROVE FALSE
    OBVIOUS
  <2> QED
    BY PacketSeqs DEF Tracked, Numbered
<1> QED
  BY <1>1 DEF TypeInv, TypeOK, LinkOK

LEMMA StoppedHereStep ==
  ASSUME TypeInv, Tracked, Within
  PROVE  StoppedHere'
<1> USE DEF Tracked, StoppedHere, InFlight
<1>1. CASE Decide
  <2>1. /\ board' = board /\ made' = made /\ target' = target /\ spc' = spc
        /\ spc \notin {"make", "send", "put"} /\ rpc = "stored"
    BY <1>1 DEF Decide, setter, Holding
  <2>2. CASE UpToDate /\ done /\ Arrived
    <3>1. echo.seq \in Nat /\ board.seq \in Nat /\ made \in Nat
      BY <2>1, ReportSeqs DEF Numbered
    <3>2. echo.seq <= made /\ made - echo.seq <= MaxLag
      BY <2>1, <3>1, UntoldBound DEF Recent, Newest, Numbered
    <3>3. made = echo.seq
      BY <2>2, <3>1, <3>2, SameIsEqual DEF UpToDate
    <3>4. made = board.seq
      BY <2>1, <3>1, <3>3 DEF Recent, Numbered
    <3>5. StillTrue(echo)
      BY <2>1, <2>2, <3>3, <3>4 DEF RestTold
    <3> QED
      BY <2>1, <2>2, <3>4, <3>5 DEF Arrived, StillTrue
  <2>3. CASE ~(UpToDate /\ done /\ Arrived)
    <3>1. stopped' = FALSE \/ stopped' = stopped
      BY <1>1, <2>3 DEF Decide
    <3> QED
      BY <2>1, <3>1
  <2> QED
    BY <2>2, <2>3
<1>2. CASE MakePacket
  BY <1>2 DEF MakePacket
<1>3. CASE Move
  <2>1. ~AtRest(board) /\ stopped' = stopped
    BY <1>3 DEF Move, host
  <2> QED
    BY <2>1
<1>4. CASE Execute
  <2>1. stopped' = stopped /\ out # <<>>
    BY <1>4 DEF Execute, host
  <2> QED
    BY <2>1, NothingUnderWay
<1>5. CASE Call
  BY <1>5 DEF Call, host
<1>6. CASE Assign
  BY <1>6 DEF Assign
<1>7. CASE Enqueue \/ TestStatus \/ AwaitRoom
  <2>1. stopped' = stopped /\ spc \in {"send", "put"}
    BY <1>7 DEF Enqueue, TestStatus, AwaitRoom, host
  <2> QED
    BY <2>1
<1>8. CASE Store \/ MakeReport \/ WriteFails
  BY <1>8 DEF Store, MakeReport, WriteFails, host, setter
<1> QED
  BY <1>1, <1>2, <1>3, <1>4, <1>5, <1>6, <1>7, <1>8 DEF Within, Setter, Reader, Board

(***************************************************************************)
(* The beginning of an attachment.                                         *)
(***************************************************************************)
LEMMA InitAttachInv == Init => AttachInv /\ StateInv
BY DEF Init, AttachInv, StateInv

(* The board has no link while its state is taken over. *)
LEMMA AttachInvStep == TypeInv /\ AttachInv /\ Next => AttachInv'
<1> SUFFICES ASSUME TypeInv, AttachInv, Next PROVE AttachInv'
  OBVIOUS
<1> USE DEF AttachInv, EchoTrue, CopiedOver, StillTrue, InFlight, TypeInv, DetachedQuiet
<1>1. CASE AttachClear
  BY <1>1 DEF AttachClear
<1>2. CASE FirstRead
  <2> SUFFICES ASSUME ~blind' PROVE AttachInv'
    OBVIOUS
  <2>1. CASE blind' = blind
    <3>1. /\ echo' = [pos |-> board.pos, speed |-> board.speed,
                      on |-> board.on, seq |-> board.seq]
          /\ done' = AtRest(board) /\ rpc' = "stored" /\ apc' = "copy" /\ board' = board
      BY <1>2, <2>1 DEF FirstRead
    <3> QED
      BY <3>1
  <2>2. CASE blind' = TRUE
    BY <2>2
  <2> QED
    BY <1>2, <2>1, <2>2 DEF FirstRead
<1>3. CASE CopyPlace
  BY <1>3 DEF CopyPlace, setter, reader, link
<1>4. CASE CopyCounter \/ SetAttached
  BY <1>4 DEF CopyCounter, SetAttached
<1>5. CASE Detach \/ Execute \/ MakeReport \/ Store \/ WriteFails \/ Call
  <2>1. attached /\ apc' = apc
    BY <1>5 DEF Detach, Execute, MakeReport, Store, WriteFails, Call
  <2> QED
    BY <2>1
<1>6. CASE Decide
  <2>1. /\ apc' = apc /\ rpc = "stored" /\ echo' = echo /\ done' = done /\ board' = board
        /\ blind' = blind
    BY <1>6 DEF Decide, past
  <2>2. CASE ~done
    <3>1. stopped' = FALSE
      BY <1>6, <2>2 DEF Decide
    <3> QED
      BY <2>1, <2>2, <3>1
  <2>3. CASE done
    BY <2>1, <2>3
  <2> QED
    BY <2>2, <2>3
<1>7. CASE Move
  <2>1. /\ apc' = apc /\ rpc' = rpc /\ echo' = echo /\ done' = done /\ blind' = blind
        /\ stopped' = stopped /\ out' = out /\ spc' = spc /\ target' = target
        /\ engaged' = engaged /\ crossed' = crossed
    BY <1>7 DEF Move, reader, past, host, link, setter
  <2>2. ~AtRest(board) /\ board'.seq = board.seq /\ board'.on = board.on
    BY <1>7, MoveKeeps DEF Move, TypeOK
  <2> QED
    BY <2>1, <2>2
<1>8. CASE MakePacket
  BY <1>8 DEF MakePacket, reader, link
<1>9. CASE Assign
  BY <1>9 DEF Assign, reader, link, past
<1>10. CASE TestStatus \/ Enqueue \/ AwaitRoom
  <2>1. /\ apc' = apc /\ rpc' = rpc /\ echo' = echo /\ done' = done /\ board' = board
        /\ blind' = blind /\ crossed' = crossed /\ stopped' = stopped
        /\ spc \in {"send", "put"}
    BY <1>10 DEF TestStatus, Enqueue, AwaitRoom, reader, host, past
  <2>2. ~blind /\ apc = "copyCounter" => crossed
    BY <2>1
  <2> QED
    BY <2>1, <2>2
<1> QED
  BY <1>1, <1>2, <1>3, <1>4, <1>5, <1>6, <1>7, <1>8, <1>9, <1>10
     DEF Next, Setter, Reader, Board, Attach

(* An attachment whose first read succeeds, and that no packet crossed,    *)
(* begins with everything in step.                                         *)
LEMMA AttachTracked ==
  ASSUME TypeInv, AttachInv, CopyCounter, ~blind, ~crossed
  PROVE  Tracked'
<1>1. EchoTrue /\ CopiedOver /\ (stopped # FALSE => done) /\ apc = "copyCounter"
  BY DEF CopyCounter, AttachInv
<1>2. /\ made' = board.seq /\ board' = board /\ out' = <<>> /\ ~InFlight'
      /\ target' = target /\ engaged' = engaged /\ spc' = spc
      /\ report' = <<>> /\ rpc' = "wait"
  BY <1>1 DEF CopyCounter, EchoTrue, CopiedOver, InFlight, TypeInv, DetachedQuiet, link, reader,
              setter
<1>3. board.seq \in Nat /\ DOMAIN out' = {} /\ DOMAIN report' = {}
  BY <1>2, NoReport, ReportSeqs
<1>4. Numbered'
  BY <1>2, <1>3 DEF Numbered
<1>5. Recent'
  <2>1. Untold' = {board.seq}
    BY <1>2, <1>3 DEF Untold
  <2> QED
    BY <1>2, <1>3, <2>1, StateAssumption DEF Recent, Newest
<1>6. RestTold'
  BY <1>2, <1>3 DEF RestTold
<1>7. FlagSent'
  BY <1>1, <1>2, <1>3 DEF FlagSent, EchoTrue, CopiedOver
<1>8. StoppedHere'
  <2>1. stopped' = TRUE => stopped # FALSE
    BY StateAssumption DEF CopyCounter
  <2> QED
    BY <1>1, <1>2, <2>1 DEF StoppedHere, EchoTrue, StillTrue, CopiedOver
<1> QED
  BY <1>4, <1>5, <1>6, <1>7, <1>8 DEF Tracked

LEMMA StutterTracked ==
  ASSUME Tracked, UNCHANGED <<setter, host, reader, out, report, board>>
  PROVE  Tracked'
<1> USE DEF Tracked, setter, host, reader
<1>1. Numbered' /\ FlagSent' /\ StoppedHere'
  BY DEF Numbered, FlagSent, StoppedHere, InFlight
<1>2. RestTold'
  BY DEF RestTold, StillTrue
<1>3. Recent'
  BY DEF Recent, Untold, Newest
<1> QED
  BY <1>1, <1>2, <1>3

LEMMA NextStateInv == TypeInv /\ AttachInv /\ StateInv /\ [Next]_vars => StateInv'
<1> SUFFICES ASSUME TypeInv, AttachInv, StateInv, [Next]_vars, Here', ~blind', ~crossed'
             PROVE  Tracked'
  BY DEF StateInv, Here
<1> USE DEF Here
<1>1. CASE CopyCounter
  BY <1>1, AttachTracked DEF CopyCounter, past
<1>2. CASE SetAttached
  <2>1. Tracked
    BY <1>2 DEF SetAttached, past, StateInv
  <2> QED
    BY <1>2, <2>1, StutterTracked DEF SetAttached
<1>3. CASE Detach \/ AttachClear \/ FirstRead \/ CopyPlace
  <2>1. ~attached' /\ apc' # "set"
    BY <1>3 DEF Detach, AttachClear, FirstRead, CopyPlace, link, TypeInv, DetachedQuiet
  <2> QED
    BY <2>1
<1>4. CASE Within
  <2>1. attached' = attached /\ apc' = apc /\ blind' = blind
    <3>1. CASE Call \/ Setter
      BY <3>1 DEF Call, Setter, Assign, MakePacket, TestStatus, Enqueue, AwaitRoom, link, past
    <3>2. CASE Reader \/ Move \/ MakeReport
      BY <3>2 DEF Reader, Store, Decide, Move, MakeReport, link, past
    <3>3. CASE Execute \/ WriteFails
      BY <3>3 DEF Execute, WriteFails, past
    <3> QED
      BY <1>4, <3>1, <3>2, <3>3 DEF Within, Board
  <2>2. ~crossed
    <3>1. CASE MakePacket
      BY <3>1 DEF MakePacket
    <3>2. CASE Call \/ Assign \/ TestStatus \/ Enqueue \/ AwaitRoom
      BY <3>2 DEF Call, Assign, TestStatus, Enqueue, AwaitRoom, past
    <3>3. CASE Reader \/ Board \/ WriteFails
      BY <3>3 DEF Reader, Store, Decide, Board, Move, MakeReport, Execute, WriteFails, past
    <3> QED
      BY <1>4, <3>1, <3>2, <3>3 DEF Within, Setter
  <2>3. Tracked
    BY <2>1, <2>2 DEF StateInv
  <2> QED
    BY <1>4, <2>1, <2>3, NumberedStep, RecentStep, RestToldStep, FlagSentStep, StoppedHereStep
       DEF Tracked
<1>5. CASE UNCHANGED vars
  <2>1. Tracked
    BY <1>5 DEF StateInv, vars, link, past
  <2> QED
    BY <1>5, <2>1, StutterTracked DEF vars, link
<1> QED
  BY <1>1, <1>2, <1>3, <1>4, <1>5 DEF Next, Within, Attach

LEMMA NextAttachInv == TypeInv /\ AttachInv /\ [Next]_vars => AttachInv'
<1>1. ASSUME AttachInv, UNCHANGED vars PROVE AttachInv'
  <2>1. /\ apc' = apc /\ rpc' = rpc /\ echo' = echo /\ done' = done /\ board' = board
        /\ blind' = blind /\ crossed' = crossed /\ stopped' = stopped
        /\ out' = out /\ spc' = spc /\ target' = target /\ engaged' = engaged
    BY <1>1 DEF vars, setter, host, reader, link, past
  <2>2. (EchoTrue' <=> EchoTrue) /\ (CopiedOver' <=> CopiedOver)
    BY <2>1 DEF EchoTrue, StillTrue, CopiedOver, InFlight
  <2> QED
    BY <1>1, <2>1, <2>2 DEF AttachInv
<1> QED
  BY <1>1, AttachInvStep

(***************************************************************************)
(* getStopped: when it is TRUE the board has executed everything and the    *)
(* motor is at rest where it was sent, whatever was reported late or lost   *)
(* before, with any modulus of the counter above the lag of the reports;    *)
(* except in an attachment whose first read failed or that a packet of the  *)
(* one before crossed.                                                      *)
(***************************************************************************)
THEOREM StoppedCorrect == Spec => []StoppedSound
<1>1. Init => TypeInv /\ AttachInv /\ StateInv
  BY InitTypeInv, InitAttachInv
<1>2. TypeInv /\ AttachInv /\ StateInv /\ [Next]_vars => TypeInv' /\ AttachInv' /\ StateInv'
  BY NextTypeInv, NextAttachInv, NextStateInv
<1>3. TypeInv /\ StateInv => StoppedSound
  <2> SUFFICES ASSUME TypeInv, StateInv, attached, stopped = TRUE, ~blind, ~crossed, spc # "make"
               PROVE  /\ out = <<>> /\ spc \notin {"send", "put"} /\ board.on = engaged
                      /\ board.on => /\ board.pos = target /\ board.goal = target
                                     /\ board.speed = 0
    BY DEF StoppedSound
  <2>1. Tracked
    BY DEF StateInv
  <2> QED
    BY <2>1, NothingUnderWay DEF Tracked, FlagSent, StoppedHere, AtRest, InFlight
<1> QED
  BY <1>1, <1>2, <1>3, PTL DEF Spec
=============================================================================
