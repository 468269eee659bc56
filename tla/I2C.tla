---------------------------------- MODULE I2C ----------------------------------
(***************************************************************************)
(* The transfers between the Raspberry Pi and the sensor:                  *)
(* bcm2835_i2c_write and bcm2835_i2c_read_register_rs of bcm2835.c, which   *)
(* poll the status register of a controller (BSC) that works on its own.   *)
(* The processor may be taken away between any two of their steps.         *)
(*                                                                         *)
(* A byte is its index in the message; what the bytes say is in IRSensor.  *)
(***************************************************************************)
EXTENDS Integers, Sequences

CONSTANT FifoSize        (* BCM2835_BSC_FIFO_SIZE                            *)

ASSUME I2CAssumption == FifoSize \in Nat \ {0}

VARIABLES
  ipc,             (* the function's place: "idle", "fill", "poll", "drain",
                      "grab", "ret"                                         *)
  len, remaining,  (* its argument, and the bytes it has still to move      *)
  kind,            (* "write" or "read"                                     *)
  buf,             (* what has been read: byte i, or Junk as on entry       *)
  reason,          (* BCM2835_I2C_REASON_...                                *)
  bsc              (* the controller                                        *)

i2c == <<ipc, len, remaining, kind, buf, reason, bsc>>

Junk == 0

LeastOf(a, b) == IF a < b THEN a ELSE b

(* on: a transfer is wanted or under way; ta: it has begun (S_TA);         *)
(* rx: its direction; next: a repeated start for reading has been asked    *)
(* for; moved: bytes of this stage that went over the wire.                *)
Quiet == [on |-> FALSE, ta |-> FALSE, done |-> FALSE, err |-> FALSE, clkt |-> FALSE,
          rx |-> FALSE, next |-> FALSE, size |-> 0, moved |-> 0, fifo |-> <<>>]

Idle == /\ ipc = "idle" /\ len = 0 /\ remaining = 0 /\ kind = "write"
        /\ buf = <<>> /\ reason = "OK" /\ bsc = Quiet

(***************************************************************************)
(* Faults: what the code might plausibly have done instead.  Each breaks a *)
(* property below; none is part of the specification.                      *)
(***************************************************************************)
ReasonShort ==                   \* the bytes that are left are not looked at
  IF bsc.err THEN "NACK" ELSE IF bsc.clkt THEN "CLKT" ELSE "OK"

StartedOnly == bsc.ta            \* no test of DONE in the first loop

PrefillAll(n) == n               \* no limit to the bytes put into the FIFO
-----------------------------------------------------------------------------
(* Clearing FIFO and status aborts what the controller was doing. *)
Begin(stage, fifo) ==
  bsc' = [Quiet EXCEPT !.on = TRUE, !.size = stage, !.fifo = fifo]

Prefill(n) == LeastOf(n, FifoSize)

StartWrite(n) ==
  /\ ipc = "idle"
  /\ len' = n /\ kind' = "write" /\ buf' = <<>>
  /\ remaining' = n - Prefill(n)
  /\ Begin(n, [i \in 1..Prefill(n) |-> i])
  /\ ipc' = "fill" /\ UNCHANGED reason

StartReadRegister(n) ==          \* first a write of one byte, the register
  /\ ipc = "idle"
  /\ len' = n /\ kind' = "read" /\ buf' = [i \in 1..n |-> Junk]
  /\ remaining' = n
  /\ Begin(1, <<1>>)
  /\ ipc' = "poll" /\ UNCHANGED reason

Fill ==                          \* while(remaining && TXD)
  /\ ipc = "fill" /\ remaining > 0 /\ Len(bsc.fifo) < FifoSize
  /\ bsc' = [bsc EXCEPT !.fifo = Append(@, len - remaining + 1)]
  /\ remaining' = remaining - 1
  /\ UNCHANGED <<ipc, len, kind, buf, reason>>

Started == bsc.ta \/ bsc.done    \* "Linux may cause us to miss entire transfer stage"

(* The repeated start.  If the first stage is over, a new transfer begins, *)
(* with DONE still set from the old one.                                   *)
RepeatStart ==
  /\ ipc = "poll" /\ Started
  /\ bsc' = IF bsc.ta THEN [bsc EXCEPT !.next = TRUE]
            ELSE [bsc EXCEPT !.on = TRUE, !.rx = TRUE, !.size = len, !.moved = 0, !.fifo = <<>>]
  /\ ipc' = "drain"
  /\ UNCHANGED <<len, remaining, kind, buf, reason>>

Available == bsc.rx /\ bsc.fifo # <<>>     \* S_RXD

Take ==                          \* in the loop until DONE, and after it
  /\ ipc \in {"drain", "grab"} /\ remaining > 0 /\ Available
  /\ buf' = [buf EXCEPT ![len - remaining + 1] = Head(bsc.fifo)]
  /\ bsc' = [bsc EXCEPT !.fifo = Tail(@)]
  /\ remaining' = remaining - 1
  /\ UNCHANGED <<ipc, len, kind, reason>>

TransferOver ==
  /\ ipc = "drain" /\ bsc.done
  /\ ipc' = "grab"
  /\ UNCHANGED <<len, remaining, kind, buf, reason, bsc>>

Reason ==
  IF bsc.err THEN "NACK"
  ELSE IF bsc.clkt THEN "CLKT"
  ELSE IF remaining > 0 THEN "DATA" ELSE "OK"

(* S_DONE is then written to the control register, not to the status: DONE *)
(* stays set until the next transfer clears the status.                    *)
Finish ==
  /\ \/ ipc = "fill" /\ bsc.done
     \/ ipc = "grab" /\ (remaining = 0 \/ ~Available)
  /\ reason' = Reason
  /\ ipc' = "ret"
  /\ UNCHANGED <<len, remaining, kind, buf, bsc>>

Processor == Fill \/ RepeatStart \/ Take \/ TransferOver \/ Finish
-----------------------------------------------------------------------------
(***************************************************************************)
(* The controller and the wire: not part of the repository, modelled from  *)
(* what the functions poll for.                                            *)
(***************************************************************************)
StageOver(b) == [b EXCEPT !.on = FALSE, !.ta = FALSE, !.done = TRUE]

WireBegin ==
  /\ bsc.on /\ ~bsc.ta
  /\ bsc' = [bsc EXCEPT !.ta = TRUE]

WireSend ==
  /\ bsc.ta /\ ~bsc.rx /\ bsc.fifo # <<>>
  /\ LET b == [bsc EXCEPT !.fifo = Tail(@), !.moved = @ + 1] IN
     bsc' = IF b.moved < b.size THEN b
            ELSE IF b.next
              THEN [b EXCEPT !.rx = TRUE, !.next = FALSE, !.size = len, !.moved = 0, !.fifo = <<>>]
              ELSE StageOver(b)

WireReceive ==
  /\ bsc.ta /\ bsc.rx /\ Len(bsc.fifo) < FifoSize
  /\ LET b == [bsc EXCEPT !.fifo = Append(@, bsc.moved + 1), !.moved = @ + 1] IN
     bsc' = IF b.moved < b.size THEN b ELSE StageOver(b)

WireFails ==                     \* no acknowledgement, or the clock held too long
  /\ bsc.ta
  /\ \/ bsc' = [StageOver(bsc) EXCEPT !.err = TRUE]
     \/ bsc' = [StageOver(bsc) EXCEPT !.clkt = TRUE]

Wire == (WireBegin \/ WireSend \/ WireReceive \/ WireFails)
        /\ UNCHANGED <<ipc, len, remaining, kind, buf, reason>>
-----------------------------------------------------------------------------
I2CTypeOK ==
  /\ ipc \in {"idle", "fill", "poll", "drain", "grab", "ret"}
  /\ len \in Nat /\ remaining \in 0..len /\ kind \in {"write", "read"}
  /\ \A i \in DOMAIN buf : buf[i] \in {Junk} \cup 1..len
  /\ reason \in {"OK", "NACK", "CLKT", "DATA"}
  /\ Len(bsc.fifo) <= FifoSize /\ bsc.moved \in 0..bsc.size

(***************************************************************************)
(* A transfer that returns BCM2835_I2C_REASON_OK has moved every byte, each *)
(* to its place: in spite of a first stage that was over before it was     *)
(* seen to begin, and of a FIFO that is smaller than the message.          *)
(***************************************************************************)
TransferSound ==
  (ipc = "ret" /\ reason = "OK") =>
    IF kind = "write" THEN bsc.moved = len
                      ELSE \A i \in 1..len : buf[i] = i
=============================================================================
