------------------------------ MODULE Reattach ------------------------------
(***************************************************************************)
(* The link of StepperLink over several attachments of one handle: after   *)
(* CPhidgetDetachEvent the central thread finds a board again and          *)
(* attachActiveDevice brings the link back (initAfterOpen, the events, the *)
(* two threads) while a setter that was called before the detach may still *)
(* be anywhere in sendpacket.  Nothing but writelock, which dataInput takes *)
(* for the first report, makes attachActiveDevice wait for such a setter.  *)
(***************************************************************************)
EXTENDS StepperLink, Sequences

CONSTANT MaxAttachments   (* bound: attachments, the first one included    *)

VARIABLES
  apc,          (* where the central thread is in attachActiveDevice        *)
  attachment,   (* history: how often the handle has got a board's state    *)
  made,         (* history: the attachment in which a client's packet was   *)
                (* made                                                     *)
  madeIn,       (* history: the same for each accepted packet               *)
  old           (* history: <<packet, attachment>> for each packet received *)
                (* in a later attachment than it was made in                *)

age   == <<made, madeIn, old>>
link  == vars
rvars == <<link, apc, attachment, age>>

AttachPC == {"idle", "clear", "read", "data", "copy", "resetWritten",
             "resetAvailable", "setAttached", "startRead"}

ReattachInit ==
  /\ Init
  /\ apc = "idle" /\ attachment = 1
  /\ made = [c \in Clients |-> 1] /\ madeIn = <<>> /\ old = {}

(* A fault: what the code might plausibly have done instead of AttachRead. *)
ReadUntilReport ==          \* the first read is repeated until it succeeds
  /\ apc = "read"
  /\ apc' \in {"read"} \cup {p \in {"data"} : plugged}
  /\ UNCHANGED <<link, attachment, age>>

(***************************************************************************)
(* attachActiveDevice, in the central thread, with openCloseLock held; the *)
(* same thread detaches, so cpc stays "idle".                              *)
(***************************************************************************)
AttachBegin ==              \* CUSBOpenHandle succeeds
  /\ apc = "idle" /\ cpc = "idle"
  /\ opened /\ ~attached /\ plugged
  /\ \A c \in Clients : pc[c] \notin InClose
  /\ attachment < MaxAttachments
  /\ handleOpen' = TRUE
  /\ apc' = "clear"
  /\ UNCHANGED <<attached, usbError, opened, active, plugged, queue,
                 writelock, pc, writer, rpc, cpc, history, attachment, age>>

AttachClear ==              \* initAfterOpen: outputPacketLen = 0
  /\ apc = "clear"
  /\ outputPacket' = 0
  /\ apc' = "read"
  /\ UNCHANGED <<status, written, writeAvailable, signalled, writeStopFlag,
                 writelock, pc, writer, rpc, cpc, history, attachment, age>>

AttachRead ==               \* CPhidget_read; its result is not looked at
  /\ apc = "read"
  /\ apc' \in {"copy"} \cup {p \in {"data"} : plugged}
  /\ UNCHANGED <<link, attachment, age>>

AttachData ==               \* dataInput takes writelock
  /\ apc = "data"
  /\ writelock = "nobody"
  /\ apc' = "copy"
  /\ UNCHANGED <<link, attachment, age>>

AttachCopy ==               \* the state is what the board reported
  /\ apc = "copy"
  /\ attachment' = attachment + 1
  /\ apc' = "resetWritten"
  /\ UNCHANGED <<link, age>>

AttachResetWritten ==       \* CThread_reset_event(&writtenEvent)
  /\ apc = "resetWritten"
  /\ writeStopFlag' = FALSE
  /\ written' = FALSE
  /\ apc' = "resetAvailable"
  /\ UNCHANGED <<status, outputPacket, writeAvailable, signalled, writelock,
                 pc, writer, rpc, cpc, history, attachment, age>>

AttachResetAvailable ==     \* CThread_reset_event(&writeAvailableEvent)
  /\ apc = "resetAvailable"
  /\ writeAvailable' = FALSE
  /\ apc' = "setAttached"
  /\ UNCHANGED <<status, outputPacket, written, signalled, writeStopFlag,
                 writelock, pc, writer, rpc, cpc, history, attachment, age>>

AttachSet ==                \* PHIDGET_ATTACHED_FLAG, then the write thread
  /\ apc = "setAttached"
  /\ attached' = TRUE
  /\ wpc' = "top" /\ wres' = "OK" /\ UNCHANGED buf
  /\ apc' = "startRead"
  /\ UNCHANGED <<usbError, opened, active, handleOpen, plugged, queue,
                 writelock, pc, rpc, cpc, history, attachment, age>>

AttachStartRead ==          \* the read thread
  /\ apc = "startRead"
  /\ rpc' = "top"
  /\ apc' = "idle"
  /\ UNCHANGED <<status, queue, writelock, pc, writer, cpc, history,
                 attachment, age>>

Attaching == \/ AttachBegin \/ AttachClear \/ AttachRead \/ AttachData
             \/ AttachCopy \/ AttachResetWritten \/ AttachResetAvailable
             \/ AttachSet \/ AttachStartRead

(***************************************************************************)
(* The actions of StepperLink, with the age of the packets beside them.    *)
(***************************************************************************)
Make(c) ==                  \* writelock, then makePacket
  /\ Lock(c)
  /\ made' = [made EXCEPT ![c] = attachment]
  /\ UNCHANGED <<madeIn, old>>

Queue(c) ==
  /\ Enqueue(c)
  /\ madeIn' = Append(madeIn, made[c])
  /\ UNCHANGED <<made, old>>

Rest(c) ==
  /\ \/ Again(c) \/ FindFull(c) \/ WaitWritten(c) \/ WakeUp(c) \/ TimeOut(c)
     \/ Signal(c)
  /\ UNCHANGED age

ClientStep(c) ==            \* from the call of a setter on
  /\ Make(c) \/ Queue(c) \/ Rest(c)
  /\ UNCHANGED <<apc, attachment>>

CloseStep(c) == Close(c) /\ UNCHANGED <<apc, attachment, age>>

CallStep(c) ==              \* close needs openCloseLock
  /\ Call(c) \/ (CloseBegin(c) /\ apc = "idle")
  /\ UNCHANGED <<apc, attachment, age>>

WriterStep ==
  /\ Writer
  /\ old' = IF delivered' # delivered /\ madeIn[buf] < attachment
            THEN old \cup {<<buf, attachment>>} ELSE old
  /\ UNCHANGED <<apc, attachment, made, madeIn>>

ReaderStep == Reader /\ UNCHANGED <<apc, attachment, age>>

CentralStep ==
  \/ Attaching
  \/ Central /\ apc = "idle" /\ UNCHANGED <<apc, attachment, age>>

Plug ==                     \* a board comes back, the loss having been seen
  /\ ~plugged /\ ~handleOpen /\ cpc = "idle"
  /\ attachment < MaxAttachments
  /\ plugged' = TRUE
  /\ UNCHANGED <<attached, usbError, opened, active, handleOpen, queue,
                 writelock, pc, writer, rpc, cpc, history, apc, attachment,
                 age>>

Bus == Plug \/ (Unplug /\ UNCHANGED <<apc, attachment, age>>)

Ended == Finished /\ apc = "idle" /\ UNCHANGED rvars

ReattachNext ==
  \/ \E c \in Clients : CallStep(c) \/ ClientStep(c) \/ CloseStep(c)
  \/ WriterStep \/ ReaderStep \/ CentralStep \/ Bus \/ Ended

ReattachSpec == ReattachInit /\ [][ReattachNext]_rvars

(* Every thread is scheduled and every timed wait ends; nobody has to call *)
(* a setter, to close the handle or to pull the plug.                      *)
ReattachFairSpec ==
  /\ ReattachSpec
  /\ \A c \in Clients : WF_rvars(ClientStep(c) \/ CloseStep(c))
  /\ WF_rvars(WriterStep) /\ WF_rvars(ReaderStep) /\ WF_rvars(CentralStep)
-----------------------------------------------------------------------------
(***************************************************************************)
(* The ranges of the variables that StepperLink does not have; the history *)
(* has an entry for each packet, and none from an attachment to come.      *)
(***************************************************************************)
AgeOK ==
  /\ apc \in AttachPC /\ attachment \in Nat
  /\ made \in [Clients -> Nat] /\ madeIn \in Seq(Nat)
  /\ Len(madeIn) = accepted
  /\ outputPacket <= accepted /\ buf <= accepted
  /\ old \subseteq Nat \X (0..attachment)

(* Why one thread at a time works on the handle: the central thread either *)
(* attaches or detaches, a close waits for the end of an attaching, and    *)
(* whoever lets go of the handle has joined both threads.                  *)
Phases ==
  /\ cpc # "idle" => apc = "idle"
  /\ apc # "idle" => \A c \in Clients : pc[c] \notin InClose
  /\ apc \notin {"idle", "startRead"} => wpc = "none"
  /\ cpc = "flags" => wpc = "none"
  /\ \A c \in Clients : pc[c] = "closeClear" => wpc = "none"
  /\ apc # "idle" => rpc = "none"
  /\ apc = "startRead" => attached
  /\ ~attached => /\ cpc \in {"joinRead", "joinWrite"} \/ wpc = "none"
                  /\ \/ cpc = "joinRead" \/ rpc = "none"
                     \/ \E c \in Clients : pc[c] = "closeUsb"
  /\ "writer" \in signalled => wpc = "wait"

(* Where a packet of an earlier attachment can be. *)
OldSetter == \E c \in Clients : /\ pc[c] \in InSend \ {"signal"}
                               /\ made[c] < attachment
OldQueued   == outputPacket # 0 /\ madeIn[outputPacket] < attachment
OldInHand   == InHand /\ madeIn[buf] < attachment
OldReceived == \E o \in old : o[2] = attachment

Wakeable == WakeupPending \/ \E c \in Clients : pc[c] = "signal"

(* The new state is in place, and no detach has begun since. *)
Resetting == apc \in {"resetWritten", "resetAvailable"}
Prepared  == Resetting \/ apc = "setAttached"
Healthy   == cpc = "idle" /\ spurious = 0 /\ (wpc # "none" \/ Prepared)

(* An old packet is in one place only, except that one may wait in the     *)
(* queue without a wake-up while a setter with another waits in vain.      *)
OnePlace ==
  Healthy =>
    /\ Prepared => ~OldReceived
    /\ OldInHand \/ OldReceived => ~OldSetter /\ ~OldQueued
    /\ OldReceived => ~OldInHand
    /\ OldQueued /\ Wakeable /\ ~Resetting => ~OldSetter

(***************************************************************************)
(* attachActiveDevice never starts a write or read thread beside one of an *)
(* earlier attachment, which would send and read on the new USB handle:    *)
(* detach and close join them on every path, and neither meets an attach.  *)
(***************************************************************************)
OneThreadEach ==
  /\ apc = "setAttached" => wpc = "none"
  /\ apc = "startRead" => rpc = "none"

(***************************************************************************)
(* A setter is not stopped by a detach, so that a board may receive a      *)
(* packet that was made for the attachment before, but not two in one      *)
(* attachment: initAfterOpen empties the queue, writelock lets one setter  *)
(* make a packet at a time, and the reset of writeAvailableEvent keeps the *)
(* write thread from a packet that was queued while the handle was being   *)
(* attached, until the next detach wakes it (or a wait ends by itself).    *)
(***************************************************************************)
SecondOld == \E o \in old' \ old : \E p \in old : p[2] = o[2]

OneOldWrite == [][SecondOld => cpc # "idle" \/ spurious > 0]_rvars

(***************************************************************************)
(* attachActiveDevice returns, although dataInput waits for writelock,     *)
(* which a setter may hold for the 1500 ms of its wait, and no thread is   *)
(* there to empty the queue that setter waits for.                         *)
(***************************************************************************)
AttachReturns == apc # "idle" ~> apc = "idle"

(***************************************************************************)
(* A packet made in the present attachment leaves the queue, or the device *)
(* leaves the handle.  One that a setter of the attachment before put      *)
(* there while attachActiveDevice was at work stays until the next detach: *)
(* its wake-up is reset.                                                   *)
(***************************************************************************)
QueueDrains ==
  \A n \in 1..MaxSends :
    outputPacket = n /\ madeIn[n] = attachment
      ~> (outputPacket # n \/ ~attached)
=============================================================================
