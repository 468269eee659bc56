---------------------------- MODULE StepperLink ----------------------------
(***************************************************************************)
(* The link between the setters of a stepper handle and the USB device,    *)
(* during one attachment of the device: from the moment attachActiveDevice *)
(* has set PHIDGET_ATTACHED_FLAG and started both threads until            *)
(* CPhidget_close or the central thread has taken the device down again.   *)
(*                                                                         *)
(* A setter (CPhidgetStepper_setTargetPosition and its kin) puts one       *)
(* packet in a queue of one place, the write thread takes it out and sends *)
(* it.  They synchronise by two mutexes and two events; an event is a flag *)
(* with a condition variable, and CThread_wait_on_event waits for the      *)
(* condition once, without a loop around it.                               *)
(*                                                                         *)
(* Packets are numbered in the order they enter the queue; 0 is both the   *)
(* empty queue (outputPacketLen = 0) and the zeroed buffer that            *)
(* CPhidget_write sends when it finds the queue empty.                     *)
(***************************************************************************)
EXTENDS Naturals

CONSTANTS
  Clients,          (* the application threads that call the handle         *)
  MaxSends,         (* bound: no setter is called after so many packets     *)
  MaxSpurious       (* bound: pthread_cond_timedwait wakes without a signal *)
                    (* so many times                                        *)

ASSUME LinkAssumption ==
  /\ MaxSends \in Nat
  /\ MaxSpurious \in Nat
  /\ {"nobody", "writer"} \cap Clients = {}

VARIABLES
  attached,        (* PHIDGET_ATTACHED_FLAG of the handle                   *)
  usbError,        (* PHIDGET_USB_ERROR_FLAG                                *)
  opened,          (* PHIDGET_OPENED_FLAG                                   *)
  active,          (* the handle is in ActiveDevices                        *)
  handleOpen,      (* deviceHandle # NULL                                   *)
  plugged,         (* the device is on the bus                              *)
  outputPacket,    (* the queue of one packet                               *)
  written,         (* writtenEvent.ready_to_go                              *)
  writeAvailable,  (* writeAvailableEvent.ready_to_go                       *)
  signalled,       (* waiting threads whose condition has been signalled    *)
  writeStopFlag,
  writelock,       (* holder of the handle's writelock                      *)
  pc,              (* where each client is in sendpacket or CPhidget_close  *)
  wpc, buf, wres,  (* WriteThreadFunction: place, its packet, its result    *)
  rpc,             (* ReadThreadFunction                                    *)
  cpc,             (* CentralThreadFunction                                 *)
  accepted,        (* history: packets that have entered the queue          *)
  delivered,       (* history: the last of them the device has received     *)
  phantom,         (* history: the device has received a zeroed packet      *)
  detachBegun,     (* history: CPhidgetDetachEvent has found the handle     *)
  spurious         (* history: how often a wait ended without a signal      *)

status  == <<attached, usbError, opened, active, handleOpen, plugged>>
queue   == <<outputPacket, written, writeAvailable, signalled, writeStopFlag>>
writer  == <<wpc, buf, wres>>
history == <<accepted, delivered, phantom, detachBegun, spurious>>
vars    == <<status, queue, writelock, pc, writer, rpc, cpc, history>>

(***************************************************************************)
(* The places of each thread.                                              *)
(***************************************************************************)
InSetter  == {"lock", "check", "queue", "full", "wait", "signal"}
InSend    == InSetter \ {"lock"}
InClose   == {"closeList", "closeStop", "closeJoinWrite", "closeClear",
              "closeUsb", "closeDone"}
ClientPC  == {"idle"} \cup InSetter \cup InClose
WriterPC  == {"top", "poll", "wait", "timedout", "write", "get", "send",
              "transfer", "set", "exit", "none"}
ReaderPC  == {"top", "transfer", "data", "none"}
CentralPC == {"idle", "clear", "joinRead", "joinWrite", "flags"}

(* CThread_set_event on writeAvailableEvent and on writtenEvent: the flag  *)
(* is set, and the one thread that waits, if any, is signalled.            *)
SetWriteAvailable ==
  /\ writeAvailable' = TRUE
  /\ signalled' = signalled \cup {t \in {"writer"} : wpc = "wait"}

SetWritten ==
  /\ written' = TRUE
  /\ signalled' = signalled \cup {c \in Clients : pc[c] = "wait"}

(* The wait of thread t ends with WAIT_OBJECT_0, by a signal or by itself. *)
Wake(t) ==
  \/ /\ t \in signalled
     /\ signalled' = signalled \ {t}
     /\ UNCHANGED spurious
  \/ /\ t \notin signalled
     /\ spurious < MaxSpurious
     /\ spurious' = spurious + 1
     /\ UNCHANGED signalled

Goto(c, place) == pc' = [pc EXCEPT ![c] = place]

(* The handle as attachActiveDevice leaves it. *)
Init ==
  /\ attached = TRUE /\ usbError = FALSE /\ opened = TRUE /\ active = TRUE
  /\ handleOpen = TRUE /\ plugged = TRUE
  /\ outputPacket = 0 /\ written = FALSE /\ writeAvailable = FALSE
  /\ signalled = {} /\ writeStopFlag = FALSE
  /\ writelock = "nobody"
  /\ pc = [c \in Clients |-> "idle"]
  /\ wpc = "top" /\ buf = 0 /\ wres = "OK"
  /\ rpc = "top" /\ cpc = "idle"
  /\ accepted = 0 /\ delivered = 0 /\ phantom = FALSE /\ detachBegun = FALSE
  /\ spurious = 0

(***************************************************************************)
(* Faults: what the code might plausibly have done instead.  Each of them  *)
(* breaks a property below; none is part of the specification.             *)
(***************************************************************************)
EnqueueUntested(c) ==          \* outputPacketLen is not tested
  /\ pc[c] = "queue"
  /\ accepted' = accepted + 1
  /\ outputPacket' = accepted + 1
  /\ written' = FALSE
  /\ Goto(c, "signal")
  /\ UNCHANGED <<status, writeAvailable, signalled, writeStopFlag, writelock,
                 writer, rpc, cpc, delivered, phantom, detachBegun, spurious>>

TimeOutKeepingLock(c) ==       \* return without unlocking writelock
  /\ pc[c] = "wait"
  /\ c \notin signalled
  /\ Goto(c, "idle")
  /\ UNCHANGED <<status, queue, writelock, writer, rpc, cpc, history>>

SignalNobody(c) ==             \* writeAvailableEvent is not set
  /\ pc[c] = "signal"
  /\ writelock' = "nobody"
  /\ Goto(c, "idle")
  /\ UNCHANGED <<status, queue, writer, rpc, cpc, history>>

WriterTestAttached ==          \* writeStopFlag is not looked at
  /\ wpc = "timedout"
  /\ wpc' = IF attached THEN "top" ELSE "exit"
  /\ UNCHANGED <<status, queue, writelock, pc, buf, wres, rpc, cpc, history>>

WriterNoReset ==               \* writeAvailableEvent is not reset
  /\ wpc = "write"
  /\ wpc' = "get"
  /\ UNCHANGED <<status, queue, writelock, pc, buf, wres, rpc, cpc, history>>

GetPacketAndKeep ==            \* outputPacketLen is not zeroed
  /\ wpc = "get"
  /\ buf' = outputPacket
  /\ wpc' = "send"
  /\ UNCHANGED <<status, queue, writelock, pc, wres, rpc, cpc, history>>

SendCheckAndReset ==           \* the event is reset after the queue is read
  /\ wpc = "send"
  /\ writeAvailable' = FALSE
  /\ \/ attached /\ handleOpen /\ wpc' = "transfer" /\ UNCHANGED wres
     \/ ~(attached /\ handleOpen) /\ wpc' = "set" /\ wres' = "NOTATTACHED"
  /\ UNCHANGED <<status, outputPacket, written, signalled, writeStopFlag,
                 writelock, pc, buf, rpc, cpc, history>>

TransferRawResult ==           \* libusb's own code is returned
  /\ wpc = "transfer"
  /\ wpc' = "set"
  /\ wres' = IF plugged THEN "OK" ELSE "LIBUSB_ERROR_NO_DEVICE"
  /\ UNCHANGED <<status, queue, writelock, pc, buf, rpc, cpc, history>>

DetachKeepsAttached ==         \* PHIDGET_ATTACHED_FLAG is not cleared
  /\ cpc = "clear"
  /\ cpc' = "joinRead"
  /\ UNCHANGED <<status, queue, writelock, pc, writer, rpc, history>>

DetachCloseAtOnce ==           \* the read thread is not joined
  /\ cpc = "joinRead"
  /\ handleOpen' = FALSE
  /\ cpc' = "joinWrite"
  /\ UNCHANGED <<attached, usbError, opened, active, plugged, queue,
                 writelock, pc, writer, rpc, history>>

CloseNotJoiningWrite(c) ==     \* the write thread is not joined
  /\ pc[c] = "closeJoinWrite"
  /\ Goto(c, "closeClear")
  /\ UNCHANGED <<status, queue, writelock, writer, rpc, cpc, history>>

CloseAtOnce(c) ==              \* the read thread is not joined
  /\ pc[c] = "closeUsb"
  /\ handleOpen' = FALSE
  /\ Goto(c, "closeDone")
  /\ UNCHANGED <<attached, usbError, opened, active, plugged, queue,
                 writelock, writer, rpc, cpc, history>>

(***************************************************************************)
(* A setter: CSETINDEX, SENDPACKETINDEXED and sendpacket.                  *)
(***************************************************************************)
Call(c) ==              \* TESTATTACHED passed
  /\ pc[c] = "idle"
  /\ attached
  /\ accepted < MaxSends
  /\ Goto(c, "lock")
  /\ UNCHANGED <<status, queue, writelock, writer, rpc, cpc, history>>

Lock(c) ==              \* the property is stored and the packet is made
  /\ pc[c] = "lock"
  /\ writelock = "nobody"
  /\ writelock' = c
  /\ Goto(c, "check")
  /\ UNCHANGED <<status, queue, writer, rpc, cpc, history>>

ReturnFrom(c) ==
  /\ writelock' = "nobody"
  /\ Goto(c, "idle")

Again(c) ==             \* label again: EPHIDGET_NOTATTACHED or go on
  /\ pc[c] = "check"
  /\ \/ ~attached /\ ReturnFrom(c)
     \/ attached /\ Goto(c, "queue") /\ UNCHANGED writelock
  /\ UNCHANGED <<status, queue, writer, rpc, cpc, history>>

Enqueue(c) ==           \* the section of outputLock, the queue being empty
  /\ pc[c] = "queue"
  /\ outputPacket = 0
  /\ accepted' = accepted + 1
  /\ outputPacket' = accepted + 1
  /\ written' = FALSE
  /\ Goto(c, "signal")
  /\ UNCHANGED <<status, writeAvailable, signalled, writeStopFlag, writelock,
                 writer, rpc, cpc, delivered, phantom, detachBegun, spurious>>

FindFull(c) ==          \* the section of outputLock, the queue being full
  /\ pc[c] = "queue"
  /\ outputPacket # 0
  /\ Goto(c, "full")
  /\ UNCHANGED <<status, queue, writelock, writer, rpc, cpc, history>>

WaitWritten(c) ==       \* CThread_wait_on_event(&writtenEvent, 1500)
  /\ pc[c] = "full"
  /\ Goto(c, IF written THEN "check" ELSE "wait")
  /\ UNCHANGED <<status, queue, writelock, writer, rpc, cpc, history>>

WakeUp(c) ==            \* WAIT_OBJECT_0: goto again
  /\ pc[c] = "wait"
  /\ Wake(c)
  /\ Goto(c, "check")
  /\ UNCHANGED <<status, outputPacket, written, writeAvailable, writeStopFlag,
                 writelock, writer, rpc, cpc, accepted, delivered, phantom,
                 detachBegun>>

TimeOut(c) ==           \* WAIT_TIMEOUT: return EPHIDGET_TIMEOUT
  /\ pc[c] = "wait"
  /\ c \notin signalled
  /\ ReturnFrom(c)
  /\ UNCHANGED <<status, queue, writer, rpc, cpc, history>>

Signal(c) ==            \* CThread_set_event(&writeAvailableEvent); return 0
  /\ pc[c] = "signal"
  /\ SetWriteAvailable
  /\ ReturnFrom(c)
  /\ UNCHANGED <<status, outputPacket, written, writeStopFlag, writer, rpc,
                 cpc, history>>

Setter(c) == \/ Lock(c) \/ Again(c) \/ Enqueue(c) \/ FindFull(c)
             \/ WaitWritten(c) \/ WakeUp(c) \/ TimeOut(c) \/ Signal(c)

(***************************************************************************)
(* The write thread: WriteThreadFunction, CPhidget_write, CUSBSendPacket.  *)
(***************************************************************************)
WriterTop ==
  /\ wpc = "top"
  /\ wpc' = IF attached THEN "poll" ELSE "exit"
  /\ UNCHANGED <<status, queue, writelock, pc, buf, wres, rpc, cpc, history>>

WriterPoll ==           \* CThread_wait_on_event(&writeAvailableEvent, 200)
  /\ wpc = "poll"
  /\ wpc' = IF writeAvailable THEN "write" ELSE "wait"
  /\ UNCHANGED <<status, queue, writelock, pc, buf, wres, rpc, cpc, history>>

WriterWakeUp ==         \* WAIT_OBJECT_0
  /\ wpc = "wait"
  /\ Wake("writer")
  /\ wpc' = "write"
  /\ UNCHANGED <<status, outputPacket, written, writeAvailable, writeStopFlag,
                 writelock, pc, buf, wres, rpc, cpc, accepted, delivered,
                 phantom, detachBegun>>

WriterTimeOut ==        \* WAIT_TIMEOUT
  /\ wpc = "wait"
  /\ "writer" \notin signalled
  /\ wpc' = "timedout"
  /\ UNCHANGED <<status, queue, writelock, pc, buf, wres, rpc, cpc, history>>

WriterTestStop ==       \* awdc_enabled is never set for a stepper
  /\ wpc = "timedout"
  /\ wpc' = IF writeStopFlag THEN "exit" ELSE "top"
  /\ UNCHANGED <<status, queue, writelock, pc, buf, wres, rpc, cpc, history>>

WriterReset ==          \* CPhidget_write: CThread_reset_event
  /\ wpc = "write"
  /\ writeAvailable' = FALSE
  /\ wpc' = "get"
  /\ UNCHANGED <<status, outputPacket, written, signalled, writeStopFlag,
                 writelock, pc, buf, wres, rpc, cpc, history>>

GetPacket ==            \* whatever the queue holds, nothing included
  /\ wpc = "get"
  /\ buf' = outputPacket
  /\ outputPacket' = 0
  /\ wpc' = "send"
  /\ UNCHANGED <<status, written, writeAvailable, signalled, writeStopFlag,
                 writelock, pc, wres, rpc, cpc, history>>

SendCheck ==            \* the tests before the transfer in CUSBSendPacket
  /\ wpc = "send"
  /\ \/ /\ ~attached
        /\ wres' = "NOTATTACHED" /\ wpc' = "set"
     \/ /\ attached /\ ~handleOpen
        /\ wres' = "ERROR" /\ wpc' = "set"
     \/ /\ attached /\ handleOpen
        /\ wpc' = "transfer" /\ UNCHANGED wres
  /\ UNCHANGED <<status, queue, writelock, pc, buf, rpc, cpc, history>>

Received ==             \* the device takes the packet in buf
  IF buf = 0 THEN phantom' = TRUE /\ UNCHANGED delivered
             ELSE delivered' = buf /\ UNCHANGED phantom

Transfer ==             \* libusb_interrupt_transfer
  /\ wpc = "transfer"
  /\ wpc' = "set"
  /\ \/ /\ plugged
        /\ wres' = "OK" /\ Received
     \/ /\ plugged            \* a timeout may still have reached the device
        /\ wres' = "ERROR" /\ (Received \/ UNCHANGED <<delivered, phantom>>)
     \/ /\ ~plugged
        /\ wres' \in {"NOTATTACHED", "ERROR"}
        /\ UNCHANGED <<delivered, phantom>>
  /\ UNCHANGED <<status, queue, writelock, pc, buf, rpc, cpc, accepted,
                 detachBegun, spurious>>

WriterSet ==            \* "under all circumstances", CThread_set_event
  /\ wpc = "set"
  /\ SetWritten
  /\ wpc' = IF wres = "OK" THEN "top" ELSE "exit"
  /\ UNCHANGED <<status, outputPacket, writeAvailable, writeStopFlag,
                 writelock, pc, buf, wres, rpc, cpc, history>>

WriterExit ==
  /\ wpc = "exit"
  /\ usbError' = (usbError \/ wres = "ERROR")
  /\ writeStopFlag' = FALSE
  /\ wpc' = "none"
  /\ UNCHANGED <<attached, opened, active, handleOpen, plugged, outputPacket,
                 written, writeAvailable, signalled, writelock, pc, buf, wres,
                 rpc, cpc, history>>

Writer == \/ WriterTop \/ WriterPoll \/ WriterWakeUp \/ WriterTimeOut
          \/ WriterTestStop \/ WriterReset \/ GetPacket \/ SendCheck
          \/ Transfer \/ WriterSet \/ WriterExit

(***************************************************************************)
(* The read thread: ReadThreadFunction, CUSBReadPacket and the writelock   *)
(* that CPhidgetStepper_dataInput takes for each packet.                   *)
(***************************************************************************)
ReaderTop ==
  /\ rpc = "top"
  /\ rpc' = IF attached /\ handleOpen THEN "transfer" ELSE "none"
  /\ usbError' = (usbError \/ (attached /\ ~handleOpen))
  /\ UNCHANGED <<attached, opened, active, handleOpen, plugged, queue,
                 writelock, pc, writer, cpc, history>>

ReaderTransfer ==       \* a packet, a gone device, a retry or an error
  /\ rpc = "transfer"
  /\ \/ plugged /\ rpc' = "data" /\ UNCHANGED usbError
     \/ ~plugged /\ rpc' = "none" /\ UNCHANGED usbError
     \/ rpc' = "top" /\ UNCHANGED usbError           \* EPHIDGET_TRYAGAIN
     \/ rpc' = "none" /\ usbError' = TRUE
  /\ UNCHANGED <<attached, opened, active, handleOpen, plugged, queue,
                 writelock, pc, writer, cpc, history>>

ReaderData ==
  /\ rpc = "data"
  /\ writelock = "nobody"
  /\ rpc' = "top"
  /\ UNCHANGED <<status, queue, writelock, pc, writer, cpc, history>>

Reader == ReaderTop \/ ReaderTransfer \/ ReaderData

(***************************************************************************)
(* The central thread: CPhidgetManager_poll finds the device gone, or its  *)
(* error flag set, and calls CPhidgetDetachEvent, which holds              *)
(* activeDevicesLock to the end; CUSBCloseHandle is the middle of it.      *)
(***************************************************************************)
DetachBegin ==          \* writeStopFlag, then CThread_set_event
  /\ cpc = "idle"
  /\ active /\ attached
  /\ ~plugged \/ usbError
  /\ writeStopFlag' = TRUE
  /\ SetWriteAvailable
  /\ cpc' = "clear"
  /\ detachBegun' = TRUE
  /\ UNCHANGED <<status, outputPacket, written, writelock, pc, writer, rpc,
                 accepted, delivered, phantom, spurious>>

DetachClear ==
  /\ cpc = "clear"
  /\ attached' = FALSE
  /\ cpc' = "joinRead"
  /\ UNCHANGED <<usbError, opened, active, handleOpen, plugged, queue,
                 writelock, pc, writer, rpc, history>>

DetachCloseHandle ==    \* CThread_join(&readThread), then libusb_close
  /\ cpc = "joinRead"
  /\ rpc = "none"
  /\ handleOpen' = FALSE
  /\ cpc' = "joinWrite"
  /\ UNCHANGED <<attached, usbError, opened, active, plugged, queue,
                 writelock, pc, writer, rpc, history>>

DetachJoinWrite ==
  /\ cpc = "joinWrite"
  /\ wpc = "none"
  /\ cpc' = "flags"
  /\ UNCHANGED <<status, queue, writelock, pc, writer, rpc, history>>

DetachEnd ==
  /\ cpc = "flags"
  /\ usbError' = FALSE
  /\ cpc' = "idle"
  /\ UNCHANGED <<attached, opened, active, handleOpen, plugged, queue,
                 writelock, pc, writer, rpc, history>>

Central == \/ DetachBegin \/ DetachClear \/ DetachCloseHandle
           \/ DetachJoinWrite \/ DetachEnd

(***************************************************************************)
(* CPhidget_close, by a client that is in no setter.                       *)
(***************************************************************************)
CloseBegin(c) ==        \* openCloseLock is free and the handle is open
  /\ pc[c] = "idle"
  /\ opened
  /\ \A d \in Clients : pc[d] \notin InClose
  /\ Goto(c, "closeList")
  /\ UNCHANGED <<status, queue, writelock, writer, rpc, cpc, history>>

CloseRemove(c) ==       \* needs activeDevicesLock
  /\ pc[c] = "closeList"
  /\ cpc \in {"idle", "flags"}
  /\ active' = FALSE
  /\ Goto(c, "closeStop")
  /\ UNCHANGED <<attached, usbError, opened, handleOpen, plugged, queue,
                 writelock, writer, rpc, cpc, history>>

CloseStop(c) ==
  /\ pc[c] = "closeStop"
  /\ \/ /\ attached
        /\ writeStopFlag' = TRUE
        /\ Goto(c, "closeJoinWrite")
     \/ /\ ~attached
        /\ UNCHANGED writeStopFlag
        /\ Goto(c, "closeDone")
  /\ UNCHANGED <<status, outputPacket, written, writeAvailable, signalled,
                 writelock, writer, rpc, cpc, history>>

CloseJoinWrite(c) ==
  /\ pc[c] = "closeJoinWrite"
  /\ wpc = "none"
  /\ Goto(c, "closeClear")
  /\ UNCHANGED <<status, queue, writelock, writer, rpc, cpc, history>>

CloseClear(c) ==        \* CUSBCloseHandle clears the flag
  /\ pc[c] = "closeClear"
  /\ attached' = FALSE
  /\ Goto(c, "closeUsb")
  /\ UNCHANGED <<usbError, opened, active, handleOpen, plugged, queue,
                 writelock, writer, rpc, cpc, history>>

CloseHandle(c) ==       \* joins the read thread, then libusb_close
  /\ pc[c] = "closeUsb"
  /\ rpc = "none"
  /\ handleOpen' = FALSE
  /\ Goto(c, "closeDone")
  /\ UNCHANGED <<attached, usbError, opened, active, plugged, queue,
                 writelock, writer, rpc, cpc, history>>

CloseEnd(c) ==
  /\ pc[c] = "closeDone"
  /\ opened' = FALSE
  /\ Goto(c, "idle")
  /\ UNCHANGED <<attached, usbError, active, handleOpen, plugged, queue,
                 writelock, writer, rpc, cpc, history>>

Close(c) == \/ CloseRemove(c) \/ CloseStop(c) \/ CloseJoinWrite(c)
            \/ CloseClear(c) \/ CloseHandle(c) \/ CloseEnd(c)

(* The environment: the device is unplugged. *)
Unplug ==
  /\ plugged
  /\ plugged' = FALSE
  /\ UNCHANGED <<attached, usbError, opened, active, handleOpen, queue,
                 writelock, pc, writer, rpc, cpc, history>>

(* The attachment is over and every thread has stopped. *)
Finished ==
  /\ ~attached /\ ~plugged /\ ~opened
  /\ wpc = "none" /\ rpc = "none" /\ cpc = "idle"
  /\ \A c \in Clients : pc[c] = "idle"
  /\ UNCHANGED vars

Next ==
  \/ \E c \in Clients : Call(c) \/ Setter(c) \/ CloseBegin(c) \/ Close(c)
  \/ Writer \/ Reader \/ Central \/ Unplug \/ Finished

Spec == Init /\ [][Next]_vars
-----------------------------------------------------------------------------
StatusOK ==
  /\ attached \in BOOLEAN /\ usbError \in BOOLEAN /\ opened \in BOOLEAN
  /\ active \in BOOLEAN /\ handleOpen \in BOOLEAN /\ plugged \in BOOLEAN

QueueOK ==
  /\ outputPacket \in Nat
  /\ written \in BOOLEAN /\ writeAvailable \in BOOLEAN
  /\ writeStopFlag \in BOOLEAN

SignalledOK == signalled \subseteq Clients \cup {"writer"}

ClientsOK ==
  /\ writelock \in Clients \cup {"nobody"}
  /\ pc \in [Clients -> ClientPC]

ThreadsOK ==
  /\ wpc \in WriterPC /\ buf \in Nat /\ wres \in {"OK", "NOTATTACHED", "ERROR"}
  /\ rpc \in ReaderPC /\ cpc \in CentralPC

HistoryOK ==
  /\ accepted \in Nat /\ delivered \in Nat
  /\ phantom \in BOOLEAN /\ detachBegun \in BOOLEAN /\ spurious \in Nat

(* Every variable stays in its range. *)
TypeOK ==
  StatusOK /\ QueueOK /\ SignalledOK /\ ClientsOK /\ ThreadsOK /\ HistoryOK

(* The write thread runs and has not met an error it will exit for. *)
WriterLive == \/ wpc \in WriterPC \ {"set", "exit", "none"}
              \/ wpc = "set" /\ wres = "OK"

(* The write thread holds a packet the device has not seen. *)
InHand == wpc \in {"send", "transfer"} /\ buf # 0

(* A wake-up of the write thread is pending, or it is about to look. *)
WakeupPending == \/ writeAvailable
                 \/ "writer" \in signalled
                 \/ wpc \in {"write", "get"}

(***************************************************************************)
(* No lost wake-up: while the write thread runs, a packet in the queue is  *)
(* never left without a pending wake-up, in spite of the event being reset *)
(* before the queue is read, of wake-ups without a cause and of time-outs  *)
(* that race with a late signal.                                           *)
(***************************************************************************)
NoLostWakeup ==
  outputPacket # 0 /\ WriterLive =>
    WakeupPending \/ \E c \in Clients : pc[c] = "signal"

(***************************************************************************)
(* Nothing between a setter and the device duplicates or forgets a packet: *)
(* as long as the write thread runs, what was accepted and not delivered   *)
(* is in the queue or in the thread's buffer, and in that order.           *)
(***************************************************************************)
Conservation ==
  WriterLive =>
    accepted = delivered + (IF outputPacket # 0 THEN 1 ELSE 0)
                         + (IF InHand THEN 1 ELSE 0)

(* What the queue and the write thread's buffer hold, and the most that may *)
(* be under way: at most one packet beside the one in the queue.            *)
InOrder ==
  /\ outputPacket # 0 => outputPacket = accepted
  /\ InHand => buf = delivered + 1

Bounded ==
  /\ delivered <= accepted
  /\ accepted <= delivered + (IF outputPacket # 0 THEN 2 ELSE 1)

LinkInv == Conservation /\ InOrder /\ Bounded

(* The link implements a channel that holds at most two packets: the one in *)
(* the queue and the one being sent.  Errors and closing only stop it.     *)
Channel == INSTANCE PacketChannel WITH Capacity <- 2
ImplementsChannel == Channel!Spec

(***************************************************************************)
(* CPhidget_write looks into the queue for whatever woke it and sends what *)
(* it finds, a zeroed buffer included: the order in which the event and    *)
(* the queue are set, read and reset is all that keeps it from sending one *)
(* (which would order a stepper to position 0).  It does so until a detach *)
(* begins or a wait ends without a signal.                                 *)
(***************************************************************************)
PhantomOnlyInDetach == phantom => detachBegun \/ spurious > 0

(* sendpacket runs under writelock. *)
Mutex == \A c \in Clients : pc[c] \in InSend => writelock = c

(* Before that, a wake-up means that there is a packet: the setter that    *)
(* filled the queue has not signalled yet, or the one pending wake-up is    *)
(* the one it caused.                                                      *)
WakeupMeansPacket ==
  ~detachBegun /\ spurious = 0 =>
    /\ WakeupPending => outputPacket # 0
    /\ \A c \in Clients :
         pc[c] = "signal" => outputPacket # 0 /\ ~WakeupPending
    /\ wpc \in {"send", "transfer"} => buf # 0
    /\ "writer" \in signalled => wpc = "wait"
    /\ wpc = "get" => ~writeAvailable
    /\ ~phantom

(***************************************************************************)
(* CPhidget_close leaves nothing behind: once the handle is closed (and no *)
(* detach is under way) both threads are gone, the USB handle is closed    *)
(* and the device is not attached, whatever failed or was unplugged while  *)
(* it ran; only then may the program call CPhidget_delete.                 *)
(***************************************************************************)
CloseQuiesces ==
  ~opened => /\ wpc = "none" /\ rpc = "none"
             /\ ~attached /\ ~handleOpen /\ cpc \in {"idle", "flags"}

(***************************************************************************)
(* A USB handle that has been closed is not used again: whoever closes it  *)
(* has joined the read thread, and CPhidget_close also the write thread.   *)
(* The detach joins the write thread afterwards; that is the exception.    *)
(***************************************************************************)
ClosedHandleUnused ==
  ~handleOpen => rpc # "transfer" /\ (wpc = "transfer" => cpc = "joinWrite")

(* Why: at most one thread takes the device down at a time, and it has     *)
(* done what its place says.                                               *)
Quiet == wpc = "none" /\ rpc = "none" /\ ~attached /\ ~handleOpen

OneCloser ==
  \A c, d \in Clients : pc[c] \in InClose /\ pc[d] \in InClose => c = d

CloseOrDetach ==
  /\ ~opened => ~active
  /\ ~active => cpc \in {"idle", "flags"}
  /\ \A c \in Clients : /\ pc[c] \in InClose => opened
                        /\ pc[c] \in InClose \ {"closeList"} => ~active

CloseProgress ==
  \A c \in Clients :
    /\ pc[c] \in {"closeClear", "closeUsb"} => wpc = "none"
    /\ pc[c] = "closeUsb" => ~attached
    /\ pc[c] = "closeDone" => Quiet

DetachProgress ==
  /\ cpc \in {"clear", "joinRead"} => handleOpen
  /\ cpc \in {"joinRead", "joinWrite"} => ~attached
  /\ cpc = "joinWrite" => rpc = "none" /\ ~handleOpen
  /\ cpc = "flags" => Quiet

Down ==
  /\ ~handleOpen => ~attached /\ rpc = "none"
  /\ ~attached => \/ cpc \in {"joinRead", "joinWrite"}
                  \/ \E c \in Clients : pc[c] = "closeUsb"
                  \/ Quiet
  /\ ~opened => Quiet

CloseInv ==
  OneCloser /\ CloseOrDetach /\ CloseProgress /\ DetachProgress /\ Down

(***************************************************************************)
(* Liveness.  Every setter returns, although it holds writelock while it   *)
(* waits, although it spins without waiting when writtenEvent is still set *)
(* from an earlier packet, and although the write thread may be dead.      *)
(***************************************************************************)
SetterReturns == \A c \in Clients : pc[c] \in InSetter ~> pc[c] = "idle"

(* CPhidget_close returns, although it joins two threads and waits for the *)
(* lock that a detach holds while it joins them as well.                   *)
CloseReturns == \A c \in Clients : pc[c] \in InClose ~> pc[c] = "idle"

(* A detach that has begun ends: the joins of the read and write threads   *)
(* are not blocked by a setter that waits with writelock held.             *)
DetachEnds == cpc = "clear" ~> cpc = "idle"

(***************************************************************************)
(* What comments of the source say and the code does not do.               *)
(***************************************************************************)
(* cphidget.c:493, "we want to wait for outstanding writes to complete":   *)
(* when CPhidget_close has joined the write thread of a healthy device, no *)
(* accepted packet is left in the queue.                                   *)
CloseFlushes ==
  (\E c \in Clients : pc[c] = "closeClear") /\ plugged /\ ~usbError
    => outputPacket = 0
=============================================================================
