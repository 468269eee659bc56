----------------------------- MODULE IRSensor_proofs -----------------------------
(***************************************************************************)
(* First the transfers of I2C: what BCM2835_I2C_REASON_OK is worth, for     *)
(* messages of any length and a FIFO of any size, with the wire failing    *)
(* and the processor late at any step, all calls being possible at any     *)
(* moment.  Then main and the sensor, which make four kinds of calls: the  *)
(* configuration, for every table of main and any number of failures of    *)
(* the power.                                                              *)
(***************************************************************************)
EXTENDS IRSensor, SequenceTheorems, TLAPS

Call == \E n \in Nat \ {0} : StartWrite(n) \/ StartReadRegister(n)

Return == ipc = "ret" /\ ipc' = "idle" /\ UNCHANGED <<len, remaining, kind, buf, reason, bsc>>

Use == Idle /\ [][Call \/ Return \/ Processor \/ Wire \/ Idle']_i2c

(* The bytes of a message or of an answer, told apart by their places.     *)
Controllers ==
  [on : BOOLEAN, ta : BOOLEAN, done : BOOLEAN, err : BOOLEAN, clkt : BOOLEAN, rx : BOOLEAN,
   next : BOOLEAN, size : Nat, moved : Nat, fifo : Seq(Nat)]

Typed ==
  /\ ipc \in {"idle", "fill", "poll", "drain", "grab", "ret"} /\ kind \in {"write", "read"}
  /\ len \in Nat /\ remaining \in 0..len
  /\ bsc \in Controllers

(* A write: what is not in the FIFO yet, in it, or over the wire is the    *)
(* message, and the controller is still when it says it is done.           *)
WriteInv ==
  /\ kind = "write" /\ ipc \in {"fill", "ret"} => ~bsc.rx /\ ~bsc.next /\ bsc.size = len
  /\ kind = "write" /\ ipc = "fill" =>
       /\ bsc.moved + Len(bsc.fifo) + remaining = len
       /\ bsc.done => ~bsc.on /\ ~bsc.ta
       /\ bsc.done /\ ~bsc.err /\ ~bsc.clkt => bsc.moved = len
  /\ kind = "write" /\ ipc = "ret" =>
       /\ ~bsc.on /\ ~bsc.ta
       /\ reason = "OK" => bsc.moved = len
  /\ ipc = "fill" => kind = "write"

(* A read: the buffer has the first bytes of the answer, and the FIFO the  *)
(* ones that follow.                                                       *)
ReadInv ==
  /\ ipc \in {"poll", "drain", "grab"} => kind = "read"
  /\ kind = "read" /\ ipc # "idle" =>
       /\ buf \in [1..len -> Nat]
       /\ \A i \in 1..(len - remaining) : buf[i] = i
       /\ bsc.rx => /\ bsc.moved = len - remaining + Len(bsc.fifo)
                    /\ \A j \in DOMAIN bsc.fifo : bsc.fifo[j] = len - remaining + j
       /\ ~bsc.rx => remaining = len
       /\ ipc = "poll" => ~bsc.rx /\ ~bsc.next
       /\ ipc = "ret" /\ reason = "OK" => remaining = 0

TransferInv == Typed /\ WriteInv /\ ReadInv

LEMMA NoBytes == ASSUME NEW S PROVE <<>> \in Seq(S) /\ Len(<<>>) = 0 /\ DOMAIN <<>> = {}
  OBVIOUS

LEMMA TailFacts ==
  ASSUME NEW s \in Seq(Nat), s # <<>>
  PROVE  /\ Tail(s) \in Seq(Nat) /\ Len(Tail(s)) = Len(s) - 1
         /\ Head(s) = s[1] /\ 1 \in DOMAIN s /\ s[1] \in Nat
         /\ \A j \in DOMAIN Tail(s) : j + 1 \in DOMAIN s /\ Tail(s)[j] = s[j + 1]
  OBVIOUS

LEMMA AppendFacts ==
  ASSUME NEW s \in Seq(Nat), NEW e \in Nat
  PROVE  /\ Append(s, e) \in Seq(Nat) /\ Len(Append(s, e)) = Len(s) + 1
         /\ \A j \in DOMAIN Append(s, e) :
              IF j = Len(s) + 1 THEN Append(s, e)[j] = e
                                ELSE j \in DOMAIN s /\ Append(s, e)[j] = s[j]
  OBVIOUS

LEMMA OneMore ==
  ASSUME NEW a \in Int, NEW b \in Int, NEW c \in Int, a = b + 1
  PROVE  b + c = a + (c - 1)
  OBVIOUS

LEMMA QuietTyped == Quiet \in Controllers
  BY NoBytes DEF Quiet, Controllers

LEMMA IdleInv == Idle => TransferInv
  BY QuietTyped DEF Idle, TransferInv, Typed, WriteInv, ReadInv, Quiet

LEMMA ReturnInv == ASSUME TransferInv, Return PROVE TransferInv'
  BY DEF TransferInv, Typed, WriteInv, ReadInv, Return

LEMMA TransferOverInv == ASSUME TransferInv, TransferOver PROVE TransferInv'
  BY DEF TransferInv, Typed, WriteInv, ReadInv, TransferOver

LEMMA StartWriteInv == ASSUME TransferInv, NEW n \in Nat \ {0}, StartWrite(n) PROVE TransferInv'
<1>1. Typed'
  <2>1. Prefill(n) \in 0..n
    BY I2CAssumption DEF Prefill, LeastOf
  <2>2. [i \in 1..Prefill(n) |-> i] \in Seq(Nat)
    BY <2>1
  <2>3. bsc' \in Controllers
    BY <2>2, QuietTyped DEF StartWrite, Begin, Controllers, Quiet
  <2>4. QED
    BY <2>1, <2>3 DEF TransferInv, Typed, StartWrite
<1>2. WriteInv'
  BY NoBytes, QuietTyped, I2CAssumption DEF TransferInv, Typed, WriteInv, ReadInv, StartWrite, Begin, Prefill, LeastOf, Controllers, Quiet
<1>3. ReadInv'
  BY NoBytes, QuietTyped, I2CAssumption DEF TransferInv, Typed, WriteInv, ReadInv, StartWrite, Begin, Prefill, LeastOf, Controllers, Quiet
<1>4. QED
  BY <1>1, <1>2, <1>3 DEF TransferInv

LEMMA StartReadInv == ASSUME TransferInv, NEW n \in Nat \ {0}, StartReadRegister(n) PROVE TransferInv'
<1>1. Typed'
  <2>1. <<1>> \in Seq(Nat)
    OBVIOUS
  <2>2. bsc' \in Controllers
    BY <2>1, QuietTyped DEF StartReadRegister, Begin, Controllers, Quiet
  <2>3. QED
    BY <2>2 DEF TransferInv, Typed, StartReadRegister
<1>2. WriteInv'
  BY NoBytes, QuietTyped, I2CAssumption DEF TransferInv, Typed, WriteInv, ReadInv, StartReadRegister, Begin, Controllers, Quiet, Junk
<1>3. ReadInv'
  BY NoBytes, QuietTyped, I2CAssumption DEF TransferInv, Typed, WriteInv, ReadInv, StartReadRegister, Begin, Controllers, Quiet, Junk
<1>4. QED
  BY <1>1, <1>2, <1>3 DEF TransferInv

LEMMA FillInv == ASSUME TransferInv, Fill PROVE TransferInv'
<1>1. Typed'
  <2>1. len - remaining + 1 \in Nat /\ bsc.fifo \in Seq(Nat)
    BY DEF TransferInv, Typed, Controllers
  <2>2. Append(bsc.fifo, len - remaining + 1) \in Seq(Nat)
    BY <2>1, AppendFacts
  <2>3. bsc' \in Controllers
    BY <2>2 DEF TransferInv, Typed, Fill, Controllers
  <2>4. QED
    BY <2>3 DEF TransferInv, Typed, Fill
<1>2. WriteInv'
  BY NoBytes, QuietTyped, I2CAssumption DEF TransferInv, Typed, WriteInv, ReadInv, Fill, Controllers
<1>3. ReadInv'
  BY NoBytes, QuietTyped, I2CAssumption DEF TransferInv, Typed, WriteInv, ReadInv, Fill, Controllers
<1>4. QED
  BY <1>1, <1>2, <1>3 DEF TransferInv

LEMMA RepeatInv == ASSUME TransferInv, RepeatStart PROVE TransferInv'
<1>1. Typed'
  BY NoBytes, QuietTyped, I2CAssumption DEF TransferInv, Typed, WriteInv, ReadInv, RepeatStart, Controllers
<1>2. WriteInv'
  BY NoBytes, QuietTyped, I2CAssumption DEF TransferInv, Typed, WriteInv, ReadInv, RepeatStart, Controllers
<1>3. ReadInv'
  BY NoBytes, QuietTyped, I2CAssumption DEF TransferInv, Typed, WriteInv, ReadInv, RepeatStart, Controllers
<1>4. QED
  BY <1>1, <1>2, <1>3 DEF TransferInv

LEMMA TakeInv == ASSUME TransferInv, Take PROVE TransferInv'
<1> DEFINE f == bsc.fifo
<1>1. f \in Seq(Nat) /\ f # <<>>
  BY DEF TransferInv, Typed, Controllers, Take, Available
<1>2. bsc' = [bsc EXCEPT !.fifo = Tail(f)] /\ bsc' \in Controllers
  BY <1>1, TailFacts DEF TransferInv, Typed, Controllers, Take
<1>3. /\ ipc \in {"drain", "grab"} /\ remaining > 0 /\ bsc.rx
      /\ buf' = [buf EXCEPT ![len - remaining + 1] = f[1]]
      /\ remaining' = remaining - 1 /\ UNCHANGED <<ipc, len, kind, reason>>
  BY <1>1, TailFacts DEF Take, Available
<1>4. Typed'
  BY <1>2, <1>3 DEF TransferInv, Typed
<1>5. WriteInv'
  BY <1>3 DEF TransferInv, WriteInv, ReadInv
<1>6. ReadInv'
  <2>1. /\ kind = "read" /\ buf \in [1..len -> Nat] /\ bsc.moved = len - remaining + Len(f)
        /\ \A i \in 1..(len - remaining) : buf[i] = i
        /\ \A j \in DOMAIN f : f[j] = len - remaining + j
    BY <1>3 DEF TransferInv, ReadInv
  <2>2. len \in Nat /\ remaining \in 1..len
    BY <1>3 DEF TransferInv, Typed
  <2>3. f[1] = len - remaining + 1 /\ f[1] \in Nat
    BY <1>1, <2>1, TailFacts
  <2>4. buf' \in [1..len -> Nat] /\ \A i \in 1..(len - remaining + 1) : buf'[i] = i
    <3>1. buf' = [buf EXCEPT ![f[1]] = f[1]] /\ f[1] \in 1..len
      BY <1>3, <2>2, <2>3
    <3>2. buf' \in [1..len -> Nat]
      BY <2>1, <2>3, <3>1
    <3>3. ASSUME NEW i \in 1..(len - remaining + 1) PROVE buf'[i] = i
      <4>1. i \in 1..len /\ (i # f[1] => i \in 1..(len - remaining))
        BY <2>2, <2>3
      <4>2. QED
        BY <2>1, <3>1, <4>1
    <3>4. QED
      BY <3>2, <3>3
  <2>5. /\ bsc'.rx /\ bsc'.moved = bsc.moved /\ bsc'.fifo = Tail(f)
    BY <1>2, <1>3 DEF TransferInv, Typed, Controllers
  <2>6. \A j \in DOMAIN Tail(f) : Tail(f)[j] = len - remaining + 1 + j
    <3>1. SUFFICES ASSUME NEW j \in DOMAIN Tail(f) PROVE Tail(f)[j] = len - remaining + 1 + j
      OBVIOUS
    <3>2. j + 1 \in DOMAIN f /\ Tail(f)[j] = f[j + 1] /\ j \in Nat
      BY <1>1, TailFacts
    <3>3. f[j + 1] = len - remaining + (j + 1)
      BY <3>2, <2>1
    <3>4. QED
      BY <3>2, <3>3, <2>2
  <2>7. bsc.moved = len - remaining' + Len(Tail(f)) /\ len - remaining' = len - remaining + 1
    <3>1. Len(Tail(f)) = Len(f) - 1 /\ Len(f) \in Nat
      BY <1>1, TailFacts
    <3>2. len - remaining' = len - remaining + 1
      BY <1>3, <2>2
    <3>3. bsc.moved = len - remaining + Len(f)
      BY <2>1
    <3>4. len - remaining' \in Int /\ len - remaining \in Int
      BY <1>3, <2>2
    <3>5. QED
      BY <3>1, <3>2, <3>3, <3>4, OneMore
  <2>8. QED
    BY <1>3, <2>1, <2>2, <2>4, <2>5, <2>6, <2>7 DEF ReadInv
<1>7. QED
  BY <1>4, <1>5, <1>6 DEF TransferInv

LEMMA FinishInv == ASSUME TransferInv, Finish PROVE TransferInv'
<1>1. Typed'
  BY NoBytes, QuietTyped, I2CAssumption DEF TransferInv, Typed, WriteInv, ReadInv, Finish, Reason, Controllers, Available
<1>2. WriteInv'
  BY NoBytes, QuietTyped, I2CAssumption DEF TransferInv, Typed, WriteInv, ReadInv, Finish, Reason, Controllers, Available
<1>3. ReadInv'
  BY NoBytes, QuietTyped, I2CAssumption DEF TransferInv, Typed, WriteInv, ReadInv, Finish, Reason, Controllers, Available
<1>4. QED
  BY <1>1, <1>2, <1>3 DEF TransferInv

LEMMA WireBeginInv == ASSUME TransferInv, Wire, WireBegin PROVE TransferInv'
<1>1. Typed'
  BY NoBytes, QuietTyped, I2CAssumption DEF TransferInv, Typed, WriteInv, ReadInv, Wire, WireBegin, Controllers
<1>2. WriteInv'
  BY NoBytes, QuietTyped, I2CAssumption DEF TransferInv, Typed, WriteInv, ReadInv, Wire, WireBegin, Controllers
<1>3. ReadInv'
  BY NoBytes, QuietTyped, I2CAssumption DEF TransferInv, Typed, WriteInv, ReadInv, Wire, WireBegin, Controllers
<1>4. QED
  BY <1>1, <1>2, <1>3 DEF TransferInv

LEMMA WireSendInv == ASSUME TransferInv, Wire, WireSend PROVE TransferInv'
<1>1. Typed'
  <2>1. Tail(bsc.fifo) \in Seq(Nat) /\ bsc.moved + 1 \in Nat
    BY TailFacts DEF TransferInv, Typed, Wire, WireSend, Controllers
  <2>2. bsc' \in Controllers
    BY <2>1, NoBytes DEF TransferInv, Typed, Wire, WireSend, StageOver, Controllers
  <2>3. QED
    BY <2>2 DEF TransferInv, Typed, Wire
<1>2. WriteInv'
  BY NoBytes, QuietTyped, I2CAssumption DEF TransferInv, Typed, WriteInv, ReadInv, Wire, WireSend, StageOver, Controllers
<1>3. ReadInv'
  <2>1. ~bsc.rx /\ UNCHANGED <<ipc, len, remaining, kind, buf, reason>> /\ len \in Nat
    BY DEF Wire, WireSend, TransferInv, Typed
  <2>2. \/ ~bsc'.rx /\ (bsc'.next => bsc.next)
        \/ bsc.next /\ bsc'.rx /\ bsc'.moved = 0 /\ bsc'.fifo = <<>>
    BY <2>1 DEF Wire, WireSend, StageOver, TransferInv, Typed, Controllers
  <2>3. kind = "read" /\ ipc = "poll" => ~bsc.next
    BY DEF TransferInv, ReadInv
  <2>4. CASE ~bsc'.rx /\ (bsc'.next => bsc.next)
    BY <2>1, <2>4 DEF TransferInv, ReadInv
  <2>5. CASE bsc.next /\ bsc'.rx /\ bsc'.moved = 0 /\ bsc'.fifo = <<>>
    BY <2>1, <2>3, <2>5, NoBytes DEF TransferInv, ReadInv
  <2>6. QED
    BY <2>2, <2>4, <2>5
<1>4. QED
  BY <1>1, <1>2, <1>3 DEF TransferInv

LEMMA WireReceiveInv == ASSUME TransferInv, Wire, WireReceive PROVE TransferInv'
<1> DEFINE f == bsc.fifo
           m == bsc.moved + 1
<1>0. f \in Seq(Nat) /\ m \in Nat /\ bsc.rx /\ bsc.ta
  BY DEF TransferInv, Typed, Wire, WireReceive, Controllers
<1>1. Typed'
  <2>1. Append(f, m) \in Seq(Nat)
    BY <1>0, AppendFacts
  <2>2. bsc' \in Controllers
    BY <1>0, <2>1 DEF TransferInv, Typed, Wire, WireReceive, StageOver, Controllers
  <2>3. QED
    BY <2>2 DEF TransferInv, Typed, Wire
<1>2. WriteInv'
  BY NoBytes, QuietTyped, I2CAssumption DEF TransferInv, Typed, WriteInv, ReadInv, Wire, WireReceive, StageOver, Controllers
<1>3. ReadInv'
  <2>1. bsc'.fifo = Append(f, m) /\ bsc'.moved = m /\ bsc'.rx
    BY <1>0 DEF TransferInv, Typed, Wire, WireReceive, StageOver, Controllers
  <2>2. UNCHANGED <<ipc, len, remaining, kind, buf, reason>>
    BY DEF Wire
  <2>3. CASE kind = "read" /\ ipc # "idle"
    <3>1. /\ bsc.moved = len - remaining + Len(f)
          /\ \A j \in DOMAIN f : f[j] = len - remaining + j
      BY <2>3, <1>0 DEF TransferInv, ReadInv
    <3>2. len \in Nat /\ remaining \in 0..len
      BY DEF TransferInv, Typed
    <3>3. m = len - remaining + Len(Append(f, m))
      BY <1>0, <3>1, <3>2, AppendFacts
    <3>4. ASSUME NEW j \in DOMAIN Append(f, m) PROVE Append(f, m)[j] = len - remaining + j
      <4>1. IF j = Len(f) + 1 THEN Append(f, m)[j] = m
                              ELSE j \in DOMAIN f /\ Append(f, m)[j] = f[j]
        BY <1>0, AppendFacts
      <4>2. m = len - remaining + (Len(f) + 1)
        BY <1>0, <3>1, <3>2
      <4>3. QED
        BY <3>1, <4>1, <4>2
    <3>5. QED
      BY <2>1, <2>2, <2>3, <3>3, <3>4, <1>0 DEF TransferInv, ReadInv
  <2>4. CASE ~(kind = "read" /\ ipc # "idle")
    BY <2>2, <2>4 DEF TransferInv, ReadInv
  <2>5. QED
    BY <2>3, <2>4
<1>4. QED
  BY <1>1, <1>2, <1>3 DEF TransferInv

LEMMA WireFailsInv == ASSUME TransferInv, Wire, WireFails PROVE TransferInv'
<1>1. Typed'
  BY DEF TransferInv, Typed, Wire, WireFails, StageOver, Controllers
<1>2. WriteInv'
  BY NoBytes, QuietTyped, I2CAssumption DEF TransferInv, Typed, WriteInv, ReadInv, Wire, WireFails, StageOver, Controllers
<1>3. ReadInv'
  BY NoBytes, QuietTyped, I2CAssumption DEF TransferInv, Typed, WriteInv, ReadInv, Wire, WireFails, StageOver, Controllers
<1>4. QED
  BY <1>1, <1>2, <1>3 DEF TransferInv

(* What a step of the transfers is, for the functions of bcm2835.c as for   *)
(* the program that calls them.                                            *)
TransferNext == Call \/ Return \/ Processor \/ Wire \/ Idle'

LEMMA TransferStep == ASSUME TransferInv, [TransferNext]_i2c PROVE TransferInv'
<1>1. CASE Call
  BY <1>1, StartWriteInv, StartReadInv DEF Call
<1>2. CASE Return
  BY <1>2, ReturnInv
<1>3. CASE Processor
  BY <1>3, FillInv, RepeatInv, TakeInv, TransferOverInv, FinishInv DEF Processor
<1>4. CASE Wire
  BY <1>4, WireBeginInv, WireSendInv, WireReceiveInv, WireFailsInv DEF Wire
<1>5. CASE Idle'
  <2>1. (Idle => TransferInv)'
    BY IdleInv, PTL
  <2>2. QED
    BY <1>5, <2>1
<1>6. CASE UNCHANGED i2c
  BY <1>6 DEF i2c, TransferInv, Typed, WriteInv, ReadInv
<1>7. QED
  BY <1>1, <1>2, <1>3, <1>4, <1>5, <1>6 DEF TransferNext

LEMMA TransferSafe == TransferInv => TransferSound
<1>1. SUFFICES ASSUME TransferInv, ipc = "ret", reason = "OK"
               PROVE  IF kind = "write" THEN bsc.moved = len
                                        ELSE \A i \in 1..len : buf[i] = i
  BY DEF TransferSound
<1>2. QED
  BY <1>1 DEF TransferInv, Typed, WriteInv, ReadInv

(***************************************************************************)
(* A transfer that returns OK has moved every byte to its place, for any   *)
(* length and any FIFO (cf. TransferSound).                                *)
(***************************************************************************)
THEOREM TransfersCorrect == Use => []TransferSound
<1>1. TransferInv /\ [TransferNext]_i2c => TransferInv'
  BY TransferStep
<1>2. QED
  BY <1>1, TransferSafe, IdleInv, PTL DEF Use, TransferNext

(***************************************************************************)
(* The ranges.  A stage that is wanted has a byte left to move, so that    *)
(* the controller never counts beyond its size, and the FIFO never gets    *)
(* more than it holds.                                                     *)
(***************************************************************************)
RangeInv ==
  /\ reason \in {"OK", "NACK", "CLKT", "DATA"}
  /\ \A i \in DOMAIN buf : buf[i] \in {Junk} \cup 1..len
  /\ ipc # "idle" => len > 0
  /\ Len(bsc.fifo) <= FifoSize
  /\ bsc.ta => bsc.on
  /\ bsc.next => len > 0
  /\ bsc.moved <= bsc.size /\ (bsc.on => bsc.moved < bsc.size)

LEMMA RangeStep == ASSUME TransferInv, RangeInv, [TransferNext]_i2c PROVE RangeInv'
<1>0. /\ len \in Nat /\ remaining \in 0..len /\ bsc \in Controllers
      /\ bsc.fifo \in Seq(Nat) /\ Len(bsc.fifo) \in Nat /\ bsc.moved \in Nat /\ bsc.size \in Nat
  BY DEF TransferInv, Typed, Controllers
<1>1. ASSUME NEW n \in Nat \ {0}, StartWrite(n) PROVE RangeInv'
  <2>1. Prefill(n) \in 0..FifoSize
    BY I2CAssumption DEF Prefill, LeastOf
  <2>2. Len([i \in 1..Prefill(n) |-> i]) = Prefill(n)
    BY <2>1
  <2>3. QED
    BY <1>1, <2>1, <2>2, NoBytes, I2CAssumption DEF RangeInv, StartWrite, Begin, Quiet
<1>2. ASSUME NEW n \in Nat \ {0}, StartReadRegister(n) PROVE RangeInv'
  <2>1. Len(<<1>>) = 1
    OBVIOUS
  <2>2. QED
    BY <1>2, <2>1, I2CAssumption DEF RangeInv, StartReadRegister, Begin, Quiet
<1>3. CASE Return
  BY <1>3 DEF RangeInv, Return
<1>4. CASE Fill
  <2>1. Len(Append(bsc.fifo, len - remaining + 1)) = Len(bsc.fifo) + 1
    BY <1>0, AppendFacts
  <2>2. QED
    BY <1>0, <1>4, <2>1, I2CAssumption DEF RangeInv, Fill, Controllers
<1>5. CASE RepeatStart
  BY <1>0, <1>5, NoBytes, I2CAssumption DEF RangeInv, RepeatStart, Controllers
<1>6. CASE Take
  <2>1. kind = "read" /\ bsc.rx /\ bsc.fifo # <<>> /\ ipc \in {"drain", "grab"}
    BY <1>6 DEF Take, Available, TransferInv, ReadInv
  <2>2. Head(bsc.fifo) = len - remaining + 1
    BY <1>0, <2>1, TailFacts DEF TransferInv, ReadInv
  <2>3. Len(Tail(bsc.fifo)) = Len(bsc.fifo) - 1
    BY <1>0, <2>1, TailFacts
  <2>4. len - remaining + 1 \in 1..len
    BY <1>0, <1>6 DEF Take
  <2>5. \A i \in DOMAIN buf' : buf'[i] \in {Junk} \cup 1..len'
    BY <1>6, <2>2, <2>4 DEF RangeInv, Take
  <2>6. QED
    BY <1>0, <1>6, <2>3, <2>5, I2CAssumption DEF RangeInv, Take, Controllers
<1>7. CASE TransferOver
  BY <1>7 DEF RangeInv, TransferOver
<1>8. CASE Finish
  BY <1>0, <1>8 DEF RangeInv, Finish, Reason, Controllers
<1>9. CASE Wire /\ WireBegin
  BY <1>0, <1>9 DEF RangeInv, Wire, WireBegin, Controllers
<1>10. CASE Wire /\ WireSend
  <2>1. Len(Tail(bsc.fifo)) = Len(bsc.fifo) - 1
    BY <1>0, <1>10, TailFacts DEF WireSend
  <2>2. bsc.next => len > 0
    BY DEF RangeInv
  <2>3. QED
    BY <1>0, <1>10, <2>1, <2>2, NoBytes, I2CAssumption
    DEF RangeInv, Wire, WireSend, StageOver, Controllers
<1>11. CASE Wire /\ WireReceive
  <2>1. Len(Append(bsc.fifo, bsc.moved + 1)) = Len(bsc.fifo) + 1
    BY <1>0, AppendFacts
  <2>2. QED
    BY <1>0, <1>11, <2>1, I2CAssumption DEF RangeInv, Wire, WireReceive, StageOver, Controllers
<1>12. CASE Wire /\ WireFails
  BY <1>0, <1>12 DEF RangeInv, Wire, WireFails, StageOver, Controllers
<1>13. CASE Idle'
  BY <1>13, NoBytes, I2CAssumption DEF RangeInv, Idle, Quiet
<1>14. CASE UNCHANGED i2c
  BY <1>14 DEF RangeInv, i2c
<1>15. QED
  BY <1>1, <1>2, <1>3, <1>4, <1>5, <1>6, <1>7, <1>8, <1>9, <1>10, <1>11, <1>12, <1>13, <1>14
  DEF TransferNext, Call, Processor, Wire

LEMMA RangeInit == Idle => RangeInv
  BY NoBytes, I2CAssumption DEF RangeInv, Idle, Quiet

(***************************************************************************)
(* Every variable of the transfers stays in its range: no function puts    *)
(* more into the FIFO than it holds, writes beyond the end of its buffer,  *)
(* or lets the controller count beyond the size it was given.              *)
(***************************************************************************)
THEOREM TransferRanges == Use => []I2CTypeOK
<1>1. TransferInv /\ RangeInv /\ [TransferNext]_i2c => TransferInv' /\ RangeInv'
  BY TransferStep, RangeStep
<1>2. TransferInv /\ RangeInv => I2CTypeOK
  BY DEF TransferInv, Typed, RangeInv, I2CTypeOK, Controllers
<1>3. QED
  BY <1>1, <1>2, IdleInv, RangeInit, PTL DEF Use, TransferNext
-----------------------------------------------------------------------------
(***************************************************************************)
(* main.  What a call of bcm2835.c is while main is at a place, and what   *)
(* the cell of the EEPROM and the sensor hold if the transfers of this     *)
(* start have said OK so far.                                              *)
(***************************************************************************)
AtWork == {"reg", "config", "regT", "temp", "done"}

PlacesOK ==
  /\ pc \in Transfers \cup {"init", "wait1", "wait2", "off", "done"}
  /\ pc \notin Transfers => ipc = "idle"
  /\ pc \in {"clear", "write"} /\ ipc # "idle" => kind = "write" /\ len = 4
  /\ config \in Configs
  /\ cell \in {Zero, config, Garbled} /\ loaded \in {Zero, config, Garbled}
  /\ settling \in {None, Zero, config}
  /\ pc \notin {"wait1", "wait2"} => settling = None
  /\ readings \in 0..MaxReadings /\ failures \in 0..MaxFailures

ConfigInv ==
  /\ pc \in {"init", "clear"} => written = <<>>
  /\ pc \in {"wait1", "write"} => \E r \in {"OK", "NACK", "CLKT", "DATA"} : written = <<r>>
  /\ pc \in {"wait2", "off"} \cup AtWork =>
       \E r, s \in {"OK", "NACK", "CLKT", "DATA"} : written = <<r, s>>
  /\ pc = "wait1" /\ written = <<"OK">> => settling = Zero
  /\ pc = "write" /\ written = <<"OK">> => cell = Zero
  /\ written = <<"OK", "OK">> =>
       /\ pc = "wait2" => cell = Zero /\ settling = config
       /\ pc = "off" => cell = config
       /\ pc \in AtWork => loaded = config

SensorInv == TransferInv /\ RangeInv /\ PlacesOK /\ ConfigInv

(* What main and the power do to the transfers is what Use allows. *)
LEMMA SensorTransfers == ASSUME [Next]_vars PROVE [TransferNext]_i2c
<1>1. CASE StartTransfer
  <2>1. StartWrite(4) \/ StartWrite(1) \/ StartReadRegister(3)
    BY <1>1 DEF StartTransfer
  <2>2. QED
    BY <2>1 DEF TransferNext, Call
<1>2. CASE EepromWritten \/ ReadConfig \/ ReadTemp
  BY <1>2 DEF EepromWritten, ReadConfig, ReadTemp, TransferNext, Return
<1>3. CASE PowerFails
  BY <1>3 DEF PowerFails, TransferNext, Idle
<1>4. CASE (Processor \/ Wire) /\ UNCHANGED sensor
  BY <1>4 DEF TransferNext
<1>5. CASE InitIR \/ Settled \/ PowerCycle \/ UNCHANGED vars
  BY <1>5 DEF InitIR, Settled, PowerCycle, vars
<1>6. QED
  BY <1>1, <1>2, <1>3, <1>4, <1>5 DEF Next, Program

(* The sensor takes both messages: the checksums in them are right.        *)
LEMMA MessagesChecked == ASSUME config \in Configs PROVE Checked(Message)
<1>1. CASE pc = "clear"
  BY <1>1, PecTable DEF Message, Checked, Clear
<1>2. CASE pc # "clear"
  <2>1. config[1] \in {116, 117} /\ config[2] \in 177..183
    BY SensorAssumption DEF Table
  <2>2. Checksum(<<Address, Command, config[1], config[2]>>) = FindPec(Command, config[1], config[2])
    BY <2>1, PecTable
  <2>3. QED
    BY <1>2, <2>2 DEF Message, Checked, Write
<1>3. QED
  BY <1>1, <1>2

LEMMA SamePair ==
  ASSUME NEW S, NEW p \in Seq(S), NEW q \in Seq(S),
         Len(p) = 2, Len(q) = 2, p[1] = q[1], p[2] = q[2]
  PROVE  p = q
  BY SeqEqual

LEMMA SecondResult ==
  ASSUME NEW S, NEW r \in S, NEW s \in S
  PROVE  Append(<<r>>, s) = <<r, s>>
<1> DEFINE a == Append(<<r>>, s)
           b == <<r, s>>
<1>1. <<r>> \in Seq(S) /\ Len(<<r>>) = 1 /\ <<r>>[1] = r
  OBVIOUS
<1>2. \A q \in Seq(S) :
        /\ Append(q, s) \in Seq(S) /\ Len(Append(q, s)) = Len(q) + 1
        /\ Append(q, s)[Len(q) + 1] = s /\ \A i \in 1..Len(q) : Append(q, s)[i] = q[i]
  OBVIOUS
<1>3. b \in Seq(S) /\ Len(b) = 2 /\ b[1] = r /\ b[2] = s
  OBVIOUS
<1>4. a \in Seq(S) /\ Len(a) = 2 /\ a[1] = b[1] /\ a[2] = b[2]
  BY <1>1, <1>2, <1>3
<1> HIDE DEF a, b
<1>5. a = b
  BY <1>3, <1>4, SamePair
<1>6. QED
  BY <1>5 DEF a, b

LEMMA ResultsDiffer ==
  ASSUME NEW S, NEW r \in S, NEW s \in S
  PROVE  /\ <<r, s>> = <<"OK", "OK">> => r = "OK" /\ s = "OK"
         /\ <<r>> = <<"OK">> <=> r = "OK"
         /\ <<r>> # <<"OK", "OK">> /\ <<r, s>> # <<"OK">>
<1>1. Len(<<r>>) = 1 /\ Len(<<r, s>>) = 2 /\ Len(<<"OK", "OK">>) = 2 /\ Len(<<"OK">>) = 1
  OBVIOUS
<1>2. <<r, s>> = <<"OK", "OK">> => r = "OK" /\ s = "OK"
  OBVIOUS
<1>3. <<r>> = <<"OK">> <=> r = "OK"
  OBVIOUS
<1>4. QED
  BY <1>1, <1>2, <1>3

LEMMA EepromWrittenInv ==
  ASSUME SensorInv, EepromWritten PROVE PlacesOK' /\ ConfigInv'
<1>1. reason \in {"OK", "NACK", "CLKT", "DATA"} /\ config \in Configs /\ config = <<config[1], config[2]>>
  BY SensorAssumption DEF SensorInv, RangeInv, PlacesOK, Table
<1>2. reason = "OK" => bsc.moved = 4
  BY TransferSafe DEF SensorInv, PlacesOK, TransferSound, EepromWritten
<1>3. Checked(Message)
  BY <1>1, MessagesChecked
<1>4. CASE pc = "clear"
  <2>1. written = <<>> /\ written' = <<reason>> /\ pc' = "wait1" /\ ipc' = "idle"
    BY <1>4 DEF SensorInv, ConfigInv, EepromWritten
  <2>2. settling' \in {None, Zero} /\ (reason = "OK" => settling' = Zero)
    BY <1>2, <1>3, <1>4 DEF EepromWritten, Message, Clear, Zero
  <2>3. UNCHANGED <<config, cell, loaded, readings, failures>>
    BY DEF EepromWritten
  <2>4. PlacesOK'
    BY <2>1, <2>2, <2>3 DEF SensorInv, PlacesOK, Transfers
  <2>5. ConfigInv'
    BY <1>1, <2>1, <2>2 DEF ConfigInv, AtWork
  <2>6. QED
    BY <2>4, <2>5
<1>5. CASE pc = "write"
  <2>1. /\ pc' = "wait2" /\ ipc' = "idle" /\ written' = Append(written, reason)
        /\ UNCHANGED <<config, cell, loaded, readings, failures>>
    BY <1>5 DEF EepromWritten
  <2>2. settling' \in {None, config} /\ (reason = "OK" => settling' = config)
    BY <1>1, <1>2, <1>3, <1>5 DEF EepromWritten, Message, Write
  <2>3. PICK r \in {"OK", "NACK", "CLKT", "DATA"} : written = <<r>>
    BY <1>5 DEF SensorInv, ConfigInv
  <2>4. /\ written' = <<r, reason>>
        /\ written' = <<"OK", "OK">> => r = "OK" /\ reason = "OK"
        /\ written = <<"OK">> <=> r = "OK"
    <3>1. written' = <<r, reason>>
      BY <1>1, <2>1, <2>3, SecondResult
    <3>2. QED
      BY <1>1, <2>3, <3>1, ResultsDiffer
  <2>5. r = "OK" => cell = Zero
    BY <1>5, <2>4 DEF SensorInv, ConfigInv
  <2>6. PlacesOK'
    BY <2>1, <2>2 DEF SensorInv, PlacesOK, Transfers
  <2>7. ConfigInv'
    BY <1>1, <2>1, <2>2, <2>4, <2>5 DEF ConfigInv, AtWork
  <2>8. QED
    BY <2>6, <2>7
<1>6. QED
  BY <1>4, <1>5 DEF EepromWritten

LEMMA SettledInv ==
  ASSUME SensorInv, Settled PROVE PlacesOK' /\ ConfigInv'
<1>1. PlacesOK'
  BY DEF SensorInv, PlacesOK, Settled, AsWritten, Transfers, i2c
<1>2. ConfigInv'
  <2>1. None # Zero
    BY DEF None, Zero
  <2>2. CASE pc = "wait1"
    <3>1. PICK r \in {"OK", "NACK", "CLKT", "DATA"} : written = <<r>>
      BY <2>2 DEF SensorInv, ConfigInv
    <3>2. written # <<"OK", "OK">> /\ written' = written /\ pc' = "write"
      BY <2>2, <3>1, ResultsDiffer DEF Settled
    <3>3. written = <<"OK">> => cell' = Zero
      BY <2>1, <2>2 DEF SensorInv, ConfigInv, Settled, AsWritten
    <3>4. QED
      BY <2>2, <3>2, <3>3 DEF SensorInv, ConfigInv, AtWork
  <2>3. CASE pc = "wait2"
    <3>1. written' = written /\ pc' = "off" /\ config' = config
      BY <2>3 DEF Settled
    <3>2. config # None
      BY SensorAssumption DEF SensorInv, PlacesOK, Table, None
    <3>3. written = <<"OK", "OK">> => cell' = config
      BY <2>3, <3>2 DEF SensorInv, ConfigInv, Settled, AsWritten
    <3>4. QED
      BY <2>3, <3>1, <3>3 DEF SensorInv, ConfigInv, AtWork
  <2>4. QED
    BY <2>2, <2>3 DEF Settled
<1>3. QED
  BY <1>1, <1>2

LEMMA SensorStep ==
  ASSUME SensorInv, [Next]_vars PROVE SensorInv'
<1>1. TransferInv' /\ RangeInv'
  BY SensorTransfers, TransferStep, RangeStep DEF SensorInv
<1>2. PlacesOK /\ ConfigInv
  BY DEF SensorInv
<1>3. CASE InitIR
  BY <1>1, <1>2, <1>3 DEF SensorInv, InitIR, PlacesOK, ConfigInv, Transfers, AtWork, i2c
<1>4. CASE StartTransfer
  <2>1. /\ UNCHANGED sensor /\ pc \in Transfers
        /\ pc \in {"clear", "write"} => kind' = "write" /\ len' = 4
    BY <1>4 DEF StartTransfer, StartWrite, Transfers
  <2>2. QED
    BY <1>1, <1>2, <2>1 DEF SensorInv, PlacesOK, ConfigInv, sensor
<1>5. CASE EepromWritten
  BY <1>1, <1>5, EepromWrittenInv DEF SensorInv
<1>6. CASE Settled
  BY <1>1, <1>6, SettledInv DEF SensorInv
<1>7. CASE PowerCycle
  BY <1>1, <1>2, <1>7 DEF SensorInv, PowerCycle, PlacesOK, ConfigInv, Transfers, AtWork, i2c
<1>8. CASE ReadConfig
  BY <1>1, <1>2, <1>8 DEF SensorInv, ReadConfig, PlacesOK, ConfigInv, Transfers, AtWork
<1>9. CASE ReadTemp
  BY <1>1, <1>2, <1>9, SensorAssumption DEF SensorInv, ReadTemp, PlacesOK, ConfigInv, Transfers, AtWork
<1>10. CASE (Processor \/ Wire) /\ UNCHANGED sensor
  <2>1. UNCHANGED <<kind, len>> /\ (ipc = "idle" => ipc' = "idle")
    BY <1>10 DEF Processor, Fill, RepeatStart, Take, TransferOver, Finish, Wire
  <2>2. QED
    BY <1>1, <1>2, <1>10, <2>1 DEF SensorInv, PlacesOK, ConfigInv, sensor
<1>11. CASE PowerFails
  BY <1>1, <1>2, <1>11, SensorAssumption DEF SensorInv, PowerFails, PlacesOK, ConfigInv, Transfers, AtWork
<1>12. CASE UNCHANGED vars
  BY <1>1, <1>2, <1>12 DEF SensorInv, PlacesOK, ConfigInv, vars, i2c, sensor
<1>13. QED
  BY <1>3, <1>4, <1>5, <1>6, <1>7, <1>8, <1>9, <1>10, <1>11, <1>12 DEF Next, Program

LEMMA SensorAlways == Spec => []SensorInv
<1>1. Init => SensorInv
  <2>1. Init => PlacesOK /\ ConfigInv
    BY SensorAssumption DEF Init, Idle, PlacesOK, ConfigInv, Transfers, AtWork
  <2>2. QED
    BY <2>1, IdleInv, RangeInit DEF Init, SensorInv
<1>2. SensorInv /\ [Next]_vars => SensorInv'
  BY SensorStep
<1>3. QED
  BY <1>1, <1>2, PTL DEF Spec

(* Every variable stays in its range. *)
THEOREM TypeCorrect == Spec => []TypeOK
<1>1. SensorInv => TypeOK
  <2>1. SUFFICES ASSUME SensorInv PROVE TypeOK
    OBVIOUS
  <2>2. I2CTypeOK
    BY <2>1 DEF SensorInv, TransferInv, Typed, RangeInv, I2CTypeOK, Controllers
  <2>3. config \in (0..255) \X (0..255)
    BY <2>1, SensorAssumption DEF SensorInv, PlacesOK, Table
  <2>4. Len(written) <= 2
    <3>1. CASE pc \in {"init", "clear"}
      BY <2>1, <3>1 DEF SensorInv, ConfigInv
    <3>2. CASE pc \in {"wait1", "write"}
      <4>1. PICK r \in {"OK", "NACK", "CLKT", "DATA"} : written = <<r>>
        BY <2>1, <3>2 DEF SensorInv, ConfigInv
      <4>2. QED
        BY <4>1
    <3>3. CASE pc \in {"wait2", "off"} \cup AtWork
      <4>1. PICK r, s \in {"OK", "NACK", "CLKT", "DATA"} : written = <<r, s>>
        BY <2>1, <3>3 DEF SensorInv, ConfigInv
      <4>2. QED
        BY <4>1
    <3>4. QED
      BY <2>1, <3>1, <3>2, <3>3 DEF SensorInv, PlacesOK, Transfers, AtWork
  <2>5. QED
    BY <2>1, <2>2, <2>3, <2>4 DEF SensorInv, PlacesOK, TypeOK
<1>2. QED
  BY <1>1, SensorAlways, PTL

(* What a transfer of main says it has moved, it has moved. *)
THEOREM MainTransfersCorrect == Spec => []TransferSound
<1>1. SensorInv => TransferSound
  BY TransferSafe DEF SensorInv
<1>2. QED
  BY <1>1, SensorAlways, PTL

(***************************************************************************)
(* When writeConfigParams is through and both its transfers said OK, the    *)
(* sensor works with the configuration of main, whatever configuration of  *)
(* the table that is, whatever an earlier start left in the cell, and      *)
(* however often the power failed.                                         *)
(***************************************************************************)
THEOREM SensorConfigured == Spec => []Configured
<1>1. SensorInv => Configured
  BY DEF SensorInv, ConfigInv, Configured, AtWork
<1>2. QED
  BY <1>1, SensorAlways, PTL
=============================================================================
