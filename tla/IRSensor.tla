------------------------------- MODULE IRSensor -------------------------------
(***************************************************************************)
(* The infra-red sensor and how IRcamera.c talks to it: at every start     *)
(* main writes the configuration into the sensor's EEPROM, with the        *)
(* checksum from a table, takes its power away and gives it back, reads     *)
(* the configuration, and then a temperature until one is in range, as the *)
(* scans do.  The transfers are those of I2C; their results are ignored.   *)
(* The power may fail at any moment, and the program then starts again.    *)
(***************************************************************************)
EXTENDS I2C

CONSTANTS
  Configs,         (* <<lsb, msb>> for the command 0x25: main has 0x74, 0xb1  *)
  Checksum(_),     (* the PEC that the sensor computes of four bytes (Pec)  *)
  MaxFailures,     (* bound on power failures                               *)
  MaxReadings      (* bound on the readings of one start                    *)

Table == {116, 117} \X (177..183)     \* what findPec knows

ASSUME SensorAssumption ==
  /\ Configs \subseteq Table
  /\ MaxFailures \in Nat /\ MaxReadings \in Nat

VARIABLES
  pc,              (* the place in main                                     *)
  config,          (* <<lsb, msb>> that main wants to write                 *)
  cell,            (* of the EEPROM, at 0x25                                *)
  settling,        (* what is being written into it, or None                *)
  loaded,          (* the configuration that the sensor works with          *)
  written,         (* history: the results of the two writes of this start  *)
  readings, failures  (* what the bounds count                              *)

sensor == <<pc, config, cell, settling, loaded, written, readings, failures>>
vars   == <<i2c, sensor>>

None == <<>>
Zero == <<0, 0>>
Garbled == <<255, 255>>      \* stands for every content nobody meant

Command == 37                \* 0x25
Address == 0                 \* ADDRESS, shifted: the write bit is 0

-----------------------------------------------------------------------------
(* findPec: 0x74 and 0x75 with 0xb1 to 0xb7; (unsigned char)-1 otherwise.  *)
FindPec(c, lsb, msb) ==
  IF c = Command /\ <<lsb, msb>> \in Table
    THEN IF lsb = 116 THEN <<107, 98, 101, 112, 119, 126, 121>>[msb - 176]
                      ELSE <<126, 119, 112, 101, 98, 107, 108>>[msb - 176]
    ELSE 255

(* The table is right, and so is the byte in writeConfigParams for clearing *)
(* the cell: the sensor takes every configuration that findPec knows.      *)
ASSUME PecTable ==
  /\ Checksum(<<Address, Command, 0, 0>>) = 131             \* 0x83
  /\ \A lsb \in {116, 117}, msb \in 177..183 :
       Checksum(<<Address, Command, lsb, msb>>) = FindPec(Command, lsb, msb)

Clear == <<Command, 0, 0, 131>>
Write == <<Command, config[1], config[2], FindPec(Command, config[1], config[2])>>

(***************************************************************************)
(* Fault: what the code might plausibly have done instead.  It breaks a    *)
(* property below and is not part of the specification.                    *)
(***************************************************************************)
NeverCleared == Write

Message == IF pc = "clear" THEN Clear ELSE Write

(* The sensor: not part of the repository.  It takes a write whose checksum *)
(* is right, and starts to change the cell; a cell that was not cleared     *)
(* takes no other value.                                                    *)
Checked(m) == m[4] = Checksum(<<Address, m[1], m[2], m[3]>>)

AsWritten(old, new) == IF new = Zero \/ old \in {Zero, new} THEN new ELSE Garbled
-----------------------------------------------------------------------------
Init ==
  /\ Idle
  /\ pc = "init"
  /\ config \in Configs
  /\ cell \in {Zero, config, Garbled}                      \* left by an earlier start
  /\ settling = None /\ loaded = Zero
  /\ written = <<>> /\ readings = 0 /\ failures = 0

InitIR ==                                \* PWR_PIN HIGH: the sensor loads the cell
  /\ pc = "init"
  /\ loaded' = cell /\ pc' = "clear" /\ written' = <<>>
  /\ UNCHANGED <<i2c, config, cell, settling, readings, failures>>

(* Where a transfer is made, and what follows it. *)
Transfers == {"clear", "write", "reg", "config", "regT", "temp"}

StartTransfer ==
  /\ \/ pc \in {"clear", "write"} /\ StartWrite(4)
     \/ pc \in {"reg", "regT"} /\ StartWrite(1)
     \/ pc \in {"config", "temp"} /\ StartReadRegister(3)
  /\ UNCHANGED sensor

EepromWritten ==                         \* then waitMillis(100)
  /\ pc \in {"clear", "write"} /\ ipc = "ret"
  /\ settling' = IF bsc.moved = 4 /\ Checked(Message) THEN <<Message[2], Message[3]>> ELSE None
  /\ written' = Append(written, reason)
  /\ ipc' = "idle" /\ pc' = IF pc = "clear" THEN "wait1" ELSE "wait2"
  /\ UNCHANGED <<len, remaining, kind, buf, reason, bsc, config, cell, loaded, readings, failures>>

Settled ==
  /\ pc \in {"wait1", "wait2"}
  /\ cell' = IF settling = None THEN cell ELSE AsWritten(cell, settling)
  /\ settling' = None
  /\ pc' = IF pc = "wait1" THEN "write" ELSE "off"
  /\ UNCHANGED <<i2c, config, loaded, written, readings, failures>>

PowerCycle ==                            \* PWR_PIN LOW, HIGH
  /\ pc = "off"
  /\ loaded' = cell /\ pc' = "reg"
  /\ UNCHANGED <<i2c, config, cell, settling, written, readings, failures>>

ReadConfig ==                            \* what it returns is printed
  /\ \/ pc = "reg" /\ pc' = "config"
     \/ pc = "config" /\ pc' = "regT"
  /\ ipc = "ret" /\ ipc' = "idle"
  /\ UNCHANGED <<len, remaining, kind, buf, reason, bsc, config, cell, settling, loaded, written,
                 readings, failures>>

(* temp = buf[1] << 8 + buf[0], whatever the transfer said; again if it is   *)
(* not between MIN_TEMP and MAX_TEMP.  Both are possible for every answer, *)
(* and for what was in buf before.                                         *)
ReadTemp ==
  /\ ipc = "ret" /\ ipc' = "idle"
  /\ \/ pc = "regT" /\ pc' = "temp" /\ readings' = readings
     \/ /\ pc = "temp" /\ readings < MaxReadings
        /\ pc' \in {"regT", "done"} /\ readings' = readings + 1
     \/ pc = "temp" /\ readings = MaxReadings /\ pc' = "done" /\ readings' = readings
  /\ UNCHANGED <<len, remaining, kind, buf, reason, bsc, config, cell, settling, loaded, written, failures>>

(* A cell that was being written is left in any state. *)
PowerFails ==
  /\ failures < MaxFailures /\ failures' = failures + 1
  /\ cell' \in IF settling = None THEN {cell} ELSE {cell, settling, Garbled}
  /\ settling' = None /\ loaded' = Zero
  /\ pc' = "init" /\ written' = <<>> /\ readings' = 0
  /\ ipc' = "idle" /\ len' = 0 /\ remaining' = 0 /\ kind' = "write"
  /\ buf' = <<>> /\ reason' = "OK" /\ bsc' = Quiet
  /\ UNCHANGED config

Program == InitIR \/ StartTransfer \/ EepromWritten \/ Settled \/ PowerCycle \/ ReadConfig \/ ReadTemp

Next ==
  \/ Program
  \/ Processor /\ UNCHANGED sensor
  \/ Wire /\ UNCHANGED sensor
  \/ PowerFails

Spec == Init /\ [][Next]_vars

(* The program runs and the controller works; a power failure is not        *)
(* demanded, nor one in the transfer.                                      *)
Fairness ==
  /\ WF_vars(Program) /\ WF_vars(Processor /\ UNCHANGED sensor)
  /\ WF_vars(Wire /\ UNCHANGED sensor)

FairSpec == Spec /\ Fairness
-----------------------------------------------------------------------------
(* Every variable stays in its range. *)
TypeOK ==
  /\ I2CTypeOK
  /\ pc \in Transfers \cup {"init", "wait1", "wait2", "off", "done"}
  /\ config \in (0..255) \X (0..255)
  /\ cell \in {Zero, config, Garbled} /\ loaded \in {Zero, config, Garbled}
  /\ settling \in {None, Zero, config}
  /\ Len(written) <= 2 /\ readings \in 0..MaxReadings /\ failures \in 0..MaxFailures

(***************************************************************************)
(* After writeConfigParams the sensor works with the configuration that    *)
(* main asked for, whatever an interrupted start had left in the cell, if  *)
(* both transfers said they had succeeded; which the code does not look at. *)
(***************************************************************************)
Configured ==
  (pc \in {"reg", "config", "regT", "temp", "done"} /\ written = <<"OK", "OK">>) =>
    loaded = config

(* A transfer returns, whatever the wire does and whenever the processor   *)
(* looks: all its loops wait for a bit that is set for good or not at all.  *)
TransferEnds == ipc \in {"fill", "poll", "drain", "grab"} ~> ipc \in {"ret", "idle"}
=============================================================================
