------------------------- MODULE StepperLink_proofs -------------------------
(* Theorems about one attachment of a stepper, for any number of clients   *)
(* and any bounds on the packets and on the wake-ups without a signal.     *)
EXTENDS StepperLink, TLAPS

LEMMA TypeInit == Init => TypeOK
<1> SUFFICES ASSUME Init PROVE TypeOK
  OBVIOUS
<1> USE DEF Init
<1>1. StatusOK
  BY DEF StatusOK
<1>2. QueueOK
  BY DEF QueueOK
<1>3. SignalledOK
  BY DEF SignalledOK
<1>4. ClientsOK
  BY DEF ClientsOK, ClientPC, InSetter, InClose
<1>5. ThreadsOK
  BY DEF ThreadsOK, WriterPC, ReaderPC, CentralPC
<1>6. HistoryOK
  BY DEF HistoryOK
<1> HIDE DEF Init
<1> QED
  BY <1>1, <1>2, <1>3, <1>4, <1>5, <1>6 DEF TypeOK

LEMMA TypeNext == TypeOK /\ [Next]_vars => TypeOK'
<1> SUFFICES ASSUME TypeOK, [Next]_vars
             PROVE  TypeOK'
  OBVIOUS
<1>0. StatusOK /\ QueueOK /\ SignalledOK /\ ClientsOK /\ ThreadsOK /\ HistoryOK
  BY DEF TypeOK
<1> USE <1>0 DEF vars, status, queue, writer, history
<1>1. ASSUME NEW c \in Clients, Call(c) \/ Setter(c) PROVE TypeOK'
  <2> USE <1>1 DEF Setter, Call, Lock, Again, Enqueue, FindFull, WaitWritten,
               WakeUp, TimeOut, Signal, ReturnFrom, Goto, Wake,
               SetWriteAvailable
  <2>1. StatusOK'
    BY DEF StatusOK
  <2>2. QueueOK'
    <3>1. outputPacket' \in Nat
      BY DEF QueueOK, HistoryOK
    <3>2. written' \in BOOLEAN
      BY DEF QueueOK
    <3>3. writeAvailable' \in BOOLEAN /\ writeStopFlag' \in BOOLEAN
      BY DEF QueueOK
    <3> QED
      BY <3>1, <3>2, <3>3 DEF QueueOK
  <2>3. SignalledOK'
    BY DEF SignalledOK
  <2>4. ClientsOK'
    BY DEF ClientsOK, ClientPC, InSetter, InClose
  <2>5. ThreadsOK'
    BY DEF ThreadsOK, QueueOK, WriterPC, ReaderPC, CentralPC
  <2>6. HistoryOK'
    BY DEF HistoryOK, ThreadsOK
  <2> QED
    BY <2>1, <2>2, <2>3, <2>4, <2>5, <2>6 DEF TypeOK
<1>2. ASSUME NEW c \in Clients, CloseBegin(c) \/ Close(c) PROVE TypeOK'
  <2> USE <1>2 DEF Close, CloseBegin, CloseRemove, CloseStop, CloseJoinWrite,
               CloseClear, CloseHandle, CloseEnd, Goto
  <2>1. StatusOK'
    BY DEF StatusOK
  <2>2. QueueOK'
    BY DEF QueueOK, HistoryOK
  <2>3. SignalledOK'
    BY DEF SignalledOK
  <2>4. ClientsOK'
    BY DEF ClientsOK, ClientPC, InSetter, InClose
  <2>5. ThreadsOK'
    BY DEF ThreadsOK, QueueOK, WriterPC, ReaderPC, CentralPC
  <2>6. HistoryOK'
    BY DEF HistoryOK, ThreadsOK
  <2> QED
    BY <2>1, <2>2, <2>3, <2>4, <2>5, <2>6 DEF TypeOK
<1>3. CASE Writer
  <2> USE <1>3 DEF Writer, WriterTop, WriterPoll, WriterWakeUp, WriterTimeOut,
               WriterTestStop, WriterReset, GetPacket, SendCheck, Transfer,
               WriterSet, WriterExit, Wake, Received, SetWritten
  <2>1. StatusOK'
    BY DEF StatusOK
  <2>2. QueueOK'
    <3>1. outputPacket' \in Nat
      BY DEF QueueOK
    <3>2. written' \in BOOLEAN
      BY DEF QueueOK
    <3>3. writeAvailable' \in BOOLEAN /\ writeStopFlag' \in BOOLEAN
      BY DEF QueueOK
    <3> QED
      BY <3>1, <3>2, <3>3 DEF QueueOK
  <2>3. SignalledOK'
    BY DEF SignalledOK
  <2>4. ClientsOK'
    BY DEF ClientsOK, ClientPC, InSetter, InClose
  <2>5. ThreadsOK'
    BY DEF ThreadsOK, QueueOK, WriterPC, ReaderPC, CentralPC
  <2>6. HistoryOK'
    <3>1. accepted' \in Nat /\ delivered' \in Nat
      BY DEF HistoryOK, ThreadsOK
    <3>2. phantom' \in BOOLEAN
      BY DEF HistoryOK
    <3>3. detachBegun' \in BOOLEAN /\ spurious' \in Nat
      BY DEF HistoryOK
    <3> QED
      BY <3>1, <3>2, <3>3 DEF HistoryOK
  <2> QED
    BY <2>1, <2>2, <2>3, <2>4, <2>5, <2>6 DEF TypeOK
<1>4. CASE Reader
  <2> USE <1>4 DEF Reader, ReaderTop, ReaderTransfer, ReaderData
  <2>1. StatusOK'
    BY DEF StatusOK
  <2>2. QueueOK'
    BY DEF QueueOK, HistoryOK
  <2>3. SignalledOK'
    BY DEF SignalledOK
  <2>4. ClientsOK'
    BY DEF ClientsOK, ClientPC, InSetter, InClose
  <2>5. ThreadsOK'
    BY DEF ThreadsOK, QueueOK, WriterPC, ReaderPC, CentralPC
  <2>6. HistoryOK'
    BY DEF HistoryOK, ThreadsOK
  <2> QED
    BY <2>1, <2>2, <2>3, <2>4, <2>5, <2>6 DEF TypeOK
<1>5. CASE Central
  <2> USE <1>5 DEF Central, DetachBegin, DetachClear, DetachCloseHandle,
               DetachJoinWrite, DetachEnd, SetWriteAvailable
  <2>1. StatusOK'
    BY DEF StatusOK
  <2>2. QueueOK'
    BY DEF QueueOK, HistoryOK
  <2>3. SignalledOK'
    BY DEF SignalledOK
  <2>4. ClientsOK'
    BY DEF ClientsOK, ClientPC, InSetter, InClose
  <2>5. ThreadsOK'
    BY DEF ThreadsOK, QueueOK, WriterPC, ReaderPC, CentralPC
  <2>6. HistoryOK'
    BY DEF HistoryOK, ThreadsOK
  <2> QED
    BY <2>1, <2>2, <2>3, <2>4, <2>5, <2>6 DEF TypeOK
<1>6. CASE Unplug
  <2> USE <1>6 DEF Unplug
  <2>1. StatusOK'
    BY DEF StatusOK
  <2>2. QueueOK'
    BY DEF QueueOK, HistoryOK
  <2>3. SignalledOK'
    BY DEF SignalledOK
  <2>4. ClientsOK'
    BY DEF ClientsOK, ClientPC, InSetter, InClose
  <2>5. ThreadsOK'
    BY DEF ThreadsOK, QueueOK, WriterPC, ReaderPC, CentralPC
  <2>6. HistoryOK'
    BY DEF HistoryOK, ThreadsOK
  <2> QED
    BY <2>1, <2>2, <2>3, <2>4, <2>5, <2>6 DEF TypeOK
<1>7. CASE Finished \/ UNCHANGED vars
  <2> USE <1>7 DEF Finished
  <2>1. StatusOK'
    BY DEF StatusOK
  <2>2. QueueOK'
    BY DEF QueueOK, HistoryOK
  <2>3. SignalledOK'
    BY DEF SignalledOK
  <2>4. ClientsOK'
    BY DEF ClientsOK, ClientPC, InSetter, InClose
  <2>5. ThreadsOK'
    BY DEF ThreadsOK, QueueOK, WriterPC, ReaderPC, CentralPC
  <2>6. HistoryOK'
    BY DEF HistoryOK, ThreadsOK
  <2> QED
    BY <2>1, <2>2, <2>3, <2>4, <2>5, <2>6 DEF TypeOK
<1> QED
  BY <1>1, <1>2, <1>3, <1>4, <1>5, <1>6, <1>7 DEF Next

(* Type correctness. *)
THEOREM TypeCorrect == Spec => []TypeOK
  BY TypeInit, TypeNext, PTL DEF Spec

(***************************************************************************)
(* No lost wake-up.  NoLostWakeup is inductive with the types: a setter    *)
(* that has filled the queue is at "signal" until it sets the event, and   *)
(* the write thread resets the event before it reads the queue.            *)
(***************************************************************************)
LEMMA WakeupNext == TypeOK /\ NoLostWakeup /\ [Next]_vars => NoLostWakeup'
<1> SUFFICES ASSUME TypeOK, NoLostWakeup, [Next]_vars
             PROVE  NoLostWakeup'
  OBVIOUS
<1>0. /\ pc \in [Clients -> ClientPC]
      /\ \A c \in Clients : c # "writer"
  BY LinkAssumption DEF TypeOK, ClientsOK
<1> USE <1>0 DEF NoLostWakeup, WriterLive, WakeupPending, WriterPC,
                 vars, status, queue, writer, history
<1>1. ASSUME NEW c \in Clients, Call(c) \/ Setter(c) PROVE NoLostWakeup'
  <2>1. CASE Enqueue(c)
    BY <2>1 DEF Enqueue, Goto
  <2>2. CASE Signal(c)
    BY <2>2 DEF Signal, SetWriteAvailable
  <2>3. CASE WakeUp(c)
    BY <2>3 DEF WakeUp, Wake, Goto
  <2>4. CASE Call(c) \/ Lock(c) \/ FindFull(c) \/ WaitWritten(c)
    BY <2>4 DEF Call, Lock, FindFull, WaitWritten, Goto
  <2>5. CASE Again(c) \/ TimeOut(c)
    BY <2>5 DEF Again, TimeOut, ReturnFrom, Goto
  <2> QED
    BY <1>1, <2>1, <2>2, <2>3, <2>4, <2>5 DEF Setter
<1>2. ASSUME NEW c \in Clients, CloseBegin(c) \/ Close(c) PROVE NoLostWakeup'
  BY <1>2 DEF Close, CloseBegin, CloseRemove, CloseStop, CloseJoinWrite,
              CloseClear, CloseHandle, CloseEnd, Goto
<1>3. CASE Writer
  <2>1. CASE WriterReset \/ GetPacket
    BY <2>1 DEF WriterReset, GetPacket
  <2>2. CASE WriterWakeUp
    BY <2>2 DEF WriterWakeUp
  <2>3. CASE WriterTop \/ WriterPoll \/ WriterTimeOut \/ WriterTestStop
    BY <2>3 DEF WriterTop, WriterPoll, WriterTimeOut, WriterTestStop
  <2>4. CASE SendCheck \/ Transfer
    BY <2>4 DEF SendCheck, Transfer
  <2>5. CASE WriterSet \/ WriterExit
    BY <2>5 DEF WriterSet, WriterExit, SetWritten
  <2> QED
    BY <1>3, <2>1, <2>2, <2>3, <2>4, <2>5 DEF Writer
<1>4. CASE Reader
  BY <1>4 DEF Reader, ReaderTop, ReaderTransfer, ReaderData
<1>5. CASE Central
  BY <1>5 DEF Central, DetachBegin, DetachClear, DetachCloseHandle,
              DetachJoinWrite, DetachEnd, SetWriteAvailable
<1>6. CASE Unplug
  BY <1>6 DEF Unplug
<1>7. CASE Finished \/ UNCHANGED vars
  BY <1>7 DEF Finished
<1> QED
  BY <1>1, <1>2, <1>3, <1>4, <1>5, <1>6, <1>7 DEF Next

(* A packet in the queue is never left without a pending wake-up of the    *)
(* write thread (sendpacket against CPhidget_write).                       *)
THEOREM WakeupNeverLost == Spec => []NoLostWakeup
<1>1. Init => NoLostWakeup
  BY DEF Init, NoLostWakeup
<1> QED
  BY <1>1, WakeupNext, TypeCorrect, PTL DEF Spec

(***************************************************************************)
(* Conservation and the refinement of PacketChannel.  LinkInv adds to      *)
(* Conservation which packet is where (InOrder) and how many can be under  *)
(* way when the write thread is dead (Bounded): the packet it held when it *)
(* met its error, and the one left in the queue for ever.                  *)
(***************************************************************************)
LEMMA LinkInvInit == Init => LinkInv
  BY DEF Init, LinkInv, Conservation, InOrder, Bounded, InHand, WriterLive

LEMMA LinkInvNext == TypeOK /\ LinkInv /\ [Next]_vars => LinkInv'
<1> SUFFICES ASSUME TypeOK, LinkInv, [Next]_vars
             PROVE  LinkInv'
  OBVIOUS
<1>0. /\ outputPacket \in Nat /\ buf \in Nat
      /\ accepted \in Nat /\ delivered \in Nat
      /\ wpc \in WriterPC
  BY DEF TypeOK, QueueOK, ThreadsOK, HistoryOK
<1>a. ASSUME UNCHANGED <<outputPacket, buf, accepted, delivered, wpc, wres>>
      PROVE  LinkInv'
  BY <1>a DEF LinkInv, Conservation, InOrder, Bounded, InHand, WriterLive
<1> USE <1>0 DEF LinkInv, Conservation, InOrder, Bounded, InHand, WriterLive,
                 WriterPC, status, queue, writer, history
<1>1. ASSUME NEW c \in Clients, Call(c) \/ Setter(c) PROVE LinkInv'
  <2>1. CASE Enqueue(c)
    BY <2>1 DEF Enqueue
  <2>2. CASE Call(c) \/ Lock(c) \/ FindFull(c) \/ WaitWritten(c) \/ WakeUp(c)
    BY <2>2, <1>a DEF Call, Lock, FindFull, WaitWritten, WakeUp
  <2>3. CASE Again(c) \/ TimeOut(c) \/ Signal(c)
    BY <2>3, <1>a DEF Again, TimeOut, Signal
  <2> QED
    BY <1>1, <2>1, <2>2, <2>3 DEF Setter
<1>2. ASSUME NEW c \in Clients, CloseBegin(c) \/ Close(c) PROVE LinkInv'
  BY <1>2, <1>a DEF Close, CloseBegin, CloseRemove, CloseStop, CloseJoinWrite,
                    CloseClear, CloseHandle, CloseEnd
<1>3. CASE Writer
  <2>1. CASE GetPacket
    BY <2>1 DEF GetPacket
  <2>2. CASE SendCheck
    BY <2>2 DEF SendCheck
  <2>3. CASE Transfer
    <3>1. CASE UNCHANGED delivered
      BY <2>3, <3>1 DEF Transfer, Received
    <3>2. CASE buf # 0 /\ delivered' = buf
      BY <2>3, <3>2 DEF Transfer
    <3> QED
      BY <2>3, <3>1, <3>2 DEF Transfer, Received
  <2>4. CASE WriterTop \/ WriterPoll \/ WriterWakeUp
    BY <2>4 DEF WriterTop, WriterPoll, WriterWakeUp
  <2>5. CASE WriterTimeOut \/ WriterTestStop \/ WriterReset
    BY <2>5 DEF WriterTimeOut, WriterTestStop, WriterReset
  <2>6. CASE WriterSet \/ WriterExit
    BY <2>6 DEF WriterSet, WriterExit
  <2> QED
    BY <1>3, <2>1, <2>2, <2>3, <2>4, <2>5, <2>6 DEF Writer
<1>4. CASE Reader
  BY <1>4, <1>a DEF Reader, ReaderTop, ReaderTransfer, ReaderData
<1>5. CASE Central
  BY <1>5, <1>a DEF Central, DetachBegin, DetachClear, DetachCloseHandle,
                    DetachJoinWrite, DetachEnd
<1>6. CASE Unplug \/ Finished \/ UNCHANGED vars
  BY <1>6, <1>a DEF Unplug, Finished, vars
<1> QED
  BY <1>1, <1>2, <1>3, <1>4, <1>5, <1>6 DEF Next

LEMMA LinkInvAlways == Spec => []LinkInv
  BY LinkInvInit, LinkInvNext, TypeCorrect, PTL DEF Spec

(* While the write thread runs, every accepted packet has been delivered,  *)
(* is in its buffer or is in the queue (sendpacket, getPacket and          *)
(* CUSBSendPacket).                                                        *)
THEOREM PacketsConserved == Spec => []Conservation
<1>1. LinkInv => Conservation
  BY DEF LinkInv
<1> QED
  BY <1>1, LinkInvAlways, PTL

(* A step of the link is a step of the channel or leaves it alone: only    *)
(* Enqueue accepts and only Transfer delivers.                             *)
LEMMA ChannelStep ==
  TypeOK /\ LinkInv /\ [Next]_vars
    => [Channel!Next]_<<accepted, delivered>>
<1> SUFFICES ASSUME TypeOK, LinkInv, [Next]_vars
             PROVE  Channel!Next \/ UNCHANGED <<accepted, delivered>>
  OBVIOUS
<1>0. /\ outputPacket \in Nat /\ buf \in Nat
      /\ accepted \in Nat /\ delivered \in Nat
  BY DEF TypeOK, QueueOK, ThreadsOK, HistoryOK
<1>1. ASSUME NEW c \in Clients, Enqueue(c) PROVE Channel!Accept
  BY <1>0, <1>1 DEF Enqueue, Channel!Accept, LinkInv, Bounded
<1>2. CASE Transfer
  <2>1. CASE UNCHANGED delivered
    BY <1>2, <2>1 DEF Transfer
  <2>2. CASE buf # 0 /\ delivered' = buf
    BY <1>0, <1>2, <2>2
    DEF Transfer, Channel!Next, Channel!Deliver, LinkInv, Conservation,
        InOrder, InHand, WriterLive, WriterPC
  <2> QED
    BY <1>2, <2>1, <2>2 DEF Transfer, Received
<1> USE DEF history
<1>3. ASSUME NEW c \in Clients, Call(c) \/ Setter(c), ~Enqueue(c)
      PROVE  UNCHANGED <<accepted, delivered>>
  BY <1>3 DEF Setter, Call, Lock, Again, FindFull, WaitWritten, WakeUp,
              TimeOut, Signal
<1>4. ASSUME NEW c \in Clients, CloseBegin(c) \/ Close(c)
      PROVE  UNCHANGED <<accepted, delivered>>
  BY <1>4 DEF Close, CloseBegin, CloseRemove, CloseStop, CloseJoinWrite,
              CloseClear, CloseHandle, CloseEnd
<1>5. ASSUME Writer, ~Transfer
      PROVE  UNCHANGED <<accepted, delivered>>
  BY <1>5 DEF Writer, WriterTop, WriterPoll, WriterWakeUp, WriterTimeOut,
              WriterTestStop, WriterReset, GetPacket, SendCheck, WriterSet,
              WriterExit
<1>6. ASSUME Reader \/ Central
      PROVE  UNCHANGED <<accepted, delivered>>
  BY <1>6 DEF Reader, ReaderTop, ReaderTransfer, ReaderData, Central,
              DetachBegin, DetachClear, DetachCloseHandle, DetachJoinWrite,
              DetachEnd
<1>7. ASSUME Unplug \/ Finished \/ UNCHANGED vars
      PROVE  UNCHANGED <<accepted, delivered>>
  BY <1>7 DEF Unplug, Finished, vars
<1> QED
  BY <1>1, <1>2, <1>3, <1>4, <1>5, <1>6, <1>7 DEF Next, Channel!Next

(* The link implements the channel of two packets.                         *)
THEOREM LinkImplementsChannel == Spec => ImplementsChannel
<1>1. Init => Channel!Init
  BY DEF Init, Channel!Init
<1> QED
  BY <1>1, ChannelStep, TypeCorrect, LinkInvAlways, PTL
  DEF Spec, ImplementsChannel, Channel!Spec

(***************************************************************************)
(* No zeroed packet before a detach.  The invariant says what a pending    *)
(* wake-up means, and needs that only the holder of writelock is between   *)
(* the queue and the event.                                                *)
(***************************************************************************)
LEMMA MutexNext == TypeOK /\ Mutex /\ [Next]_vars => Mutex'
<1> SUFFICES ASSUME TypeOK, Mutex, [Next]_vars
             PROVE  Mutex'
  OBVIOUS
<1>0. pc \in [Clients -> ClientPC]
  BY DEF TypeOK, ClientsOK
<1>a. "nobody" \notin Clients
  BY LinkAssumption
<1> USE <1>0, <1>a DEF Mutex, InSend, InSetter, status, queue, writer, history
<1>1. ASSUME NEW c \in Clients, Call(c) \/ Setter(c) PROVE Mutex'
  BY <1>1 DEF Call, Setter, Lock, Again, Enqueue, FindFull, WaitWritten,
              WakeUp, TimeOut, Signal, ReturnFrom, Goto
<1>2. ASSUME NEW c \in Clients, CloseBegin(c) \/ Close(c) PROVE Mutex'
  BY <1>2 DEF Close, CloseBegin, CloseRemove, CloseStop, CloseJoinWrite,
              CloseClear, CloseHandle, CloseEnd, Goto
<1>3. CASE Writer
  BY <1>3 DEF Writer, WriterTop, WriterPoll, WriterWakeUp, WriterTimeOut,
              WriterTestStop, WriterReset, GetPacket, SendCheck, Transfer,
              WriterSet, WriterExit
<1>4. CASE Reader \/ Central
  BY <1>4 DEF Reader, ReaderTop, ReaderTransfer, ReaderData, Central,
              DetachBegin, DetachClear, DetachCloseHandle, DetachJoinWrite,
              DetachEnd
<1>5. CASE Unplug \/ Finished \/ UNCHANGED vars
  BY <1>5 DEF Unplug, Finished, vars
<1> QED
  BY <1>1, <1>2, <1>3, <1>4, <1>5 DEF Next

LEMMA MutexAlways == Spec => []Mutex
<1>1. Init => Mutex
  BY DEF Init, Mutex, InSend, InSetter
<1> QED
  BY <1>1, MutexNext, TypeCorrect, PTL DEF Spec

LEMMA PacketNext ==
  TypeOK /\ Mutex /\ WakeupMeansPacket /\ [Next]_vars => WakeupMeansPacket'
<1> SUFFICES ASSUME TypeOK, Mutex, WakeupMeansPacket, [Next]_vars,
                    (~detachBegun /\ spurious = 0)'
             PROVE  WakeupMeansPacket'
  BY DEF WakeupMeansPacket
<1>0. /\ pc \in [Clients -> ClientPC]
      /\ outputPacket \in Nat /\ accepted \in Nat /\ spurious \in Nat
      /\ wpc \in WriterPC
  BY DEF TypeOK, ClientsOK, QueueOK, ThreadsOK, HistoryOK
<1>a. \A c \in Clients : c # "writer"
  BY LinkAssumption
<1> USE <1>0, <1>a DEF WakeupMeansPacket, WakeupPending, WriterPC, status,
                       queue, writer, history
<1>1. ASSUME NEW c \in Clients, Call(c) \/ Setter(c)
      PROVE  WakeupMeansPacket'
  <2>1. CASE Enqueue(c)
    <3>1. \A d \in Clients : pc'[d] = "signal" => d = c
      BY <2>1 DEF Enqueue, Goto, Mutex, InSend, InSetter
    <3>2. ~WakeupPending /\ outputPacket' # 0
      BY <2>1 DEF Enqueue
    <3> QED
      BY <2>1, <3>1, <3>2 DEF Enqueue
  <2>2. CASE Signal(c)
    <3>1. \A d \in Clients : pc'[d] # "signal"
      BY <2>2 DEF Signal, ReturnFrom, Goto, Mutex, InSend, InSetter
    <3>2. outputPacket' # 0 /\ wpc' # "get"
      BY <2>2 DEF Signal
    <3> QED
      BY <2>2, <3>1, <3>2 DEF Signal, SetWriteAvailable
  <2>3. CASE WakeUp(c)
    BY <2>3 DEF WakeUp, Wake, Goto
  <2>4. CASE Call(c) \/ Lock(c) \/ FindFull(c) \/ WaitWritten(c)
    BY <2>4 DEF Call, Lock, FindFull, WaitWritten, Goto
  <2>5. CASE Again(c) \/ TimeOut(c)
    BY <2>5 DEF Again, TimeOut, ReturnFrom, Goto
  <2> QED
    BY <1>1, <2>1, <2>2, <2>3, <2>4, <2>5 DEF Setter
<1>2. ASSUME NEW c \in Clients, CloseBegin(c) \/ Close(c)
      PROVE  WakeupMeansPacket'
  BY <1>2 DEF Close, CloseBegin, CloseRemove, CloseStop, CloseJoinWrite,
              CloseClear, CloseHandle, CloseEnd, Goto
<1>3. CASE Writer
  <2>1. CASE WriterReset \/ GetPacket
    BY <2>1 DEF WriterReset, GetPacket
  <2>2. CASE WriterWakeUp
    BY <2>2 DEF WriterWakeUp, Wake
  <2>3. CASE WriterTop \/ WriterPoll \/ WriterTimeOut \/ WriterTestStop
    BY <2>3 DEF WriterTop, WriterPoll, WriterTimeOut, WriterTestStop
  <2>4. CASE SendCheck \/ Transfer
    BY <2>4 DEF SendCheck, Transfer, Received
  <2>5. CASE WriterSet \/ WriterExit
    BY <2>5 DEF WriterSet, WriterExit, SetWritten
  <2> QED
    BY <1>3, <2>1, <2>2, <2>3, <2>4, <2>5 DEF Writer
<1>4. CASE Reader
  BY <1>4 DEF Reader, ReaderTop, ReaderTransfer, ReaderData
<1>5. CASE Central
  BY <1>5 DEF Central, DetachBegin, DetachClear, DetachCloseHandle,
              DetachJoinWrite, DetachEnd
<1>6. CASE Unplug \/ Finished \/ UNCHANGED vars
  BY <1>6 DEF Unplug, Finished, vars
<1> QED
  BY <1>1, <1>2, <1>3, <1>4, <1>5, <1>6 DEF Next

(* The write thread sends a buffer no setter made only after a detach has  *)
(* begun or a wait has ended without a signal (CPhidget_write).            *)
THEOREM NoEarlyPhantom == Spec => []PhantomOnlyInDetach
<1>1. Init => WakeupMeansPacket
  BY DEF Init, WakeupMeansPacket, WakeupPending
<1>2. TypeOK /\ WakeupMeansPacket => PhantomOnlyInDetach
  BY DEF TypeOK, HistoryOK, WakeupMeansPacket, PhantomOnlyInDetach
<1> QED
  BY <1>1, <1>2, PacketNext, MutexAlways, TypeCorrect, PTL DEF Spec

(***************************************************************************)
(* Taking the device down.  CPhidget_close and CPhidgetDetachEvent exclude *)
(* each other by the list ActiveDevices and its lock, and each joins the   *)
(* threads it stops; CloseInv says how far each has come.                  *)
(***************************************************************************)
LEMMA CloseInvInit == Init => CloseInv
  BY DEF Init, CloseInv, OneCloser, CloseOrDetach, CloseProgress,
         DetachProgress, Down, Quiet, InClose

LEMMA CloseInvNext == TypeOK /\ CloseInv /\ [Next]_vars => CloseInv'
<1> SUFFICES ASSUME TypeOK, CloseInv, [Next]_vars
             PROVE  CloseInv'
  OBVIOUS
<1>0. pc \in [Clients -> ClientPC]
  BY DEF TypeOK, ClientsOK
<1> USE <1>0 DEF CloseInv, InClose, status, queue, writer, history
<1>1. ASSUME NEW c \in Clients, Call(c) \/ Setter(c) PROVE CloseInv'
  <2> USE <1>1 DEF Setter, Call, Lock, Again, Enqueue, FindFull, WaitWritten,
               WakeUp, TimeOut, Signal, ReturnFrom, Goto
  <2>1. OneCloser'
    BY DEF OneCloser
  <2>2. CloseOrDetach'
    BY DEF OneCloser, CloseOrDetach
  <2>3. CloseProgress'
    BY DEF OneCloser, CloseOrDetach, CloseProgress, Down, Quiet
  <2>4. DetachProgress'
    BY DEF CloseOrDetach, DetachProgress, Down, Quiet
  <2>5. Down'
    BY DEF OneCloser, CloseOrDetach, CloseProgress, DetachProgress, Down, Quiet
  <2> QED
    BY <2>1, <2>2, <2>3, <2>4, <2>5
<1>2. ASSUME NEW c \in Clients, CloseBegin(c) \/ Close(c) PROVE CloseInv'
  <2> USE <1>2 DEF Close, CloseBegin, CloseRemove, CloseStop, CloseJoinWrite,
               CloseClear, CloseHandle, CloseEnd, Goto
  <2>1. OneCloser'
    BY DEF OneCloser
  <2>2. CloseOrDetach'
    BY DEF OneCloser, CloseOrDetach
  <2>3. CloseProgress'
    BY DEF OneCloser, CloseOrDetach, CloseProgress, Down, Quiet
  <2>4. DetachProgress'
    BY DEF CloseOrDetach, DetachProgress, Down, Quiet
  <2>5. Down'
    BY DEF OneCloser, CloseOrDetach, CloseProgress, DetachProgress, Down, Quiet
  <2> QED
    BY <2>1, <2>2, <2>3, <2>4, <2>5
<1>3. CASE Writer
  <2> USE <1>3 DEF Writer, WriterTop, WriterPoll, WriterWakeUp, WriterTimeOut,
               WriterTestStop, WriterReset, GetPacket, SendCheck, Transfer,
               WriterSet, WriterExit
  <2>1. OneCloser'
    BY DEF OneCloser
  <2>2. CloseOrDetach'
    BY DEF OneCloser, CloseOrDetach
  <2>3. CloseProgress'
    BY DEF OneCloser, CloseOrDetach, CloseProgress, Down, Quiet
  <2>4. DetachProgress'
    BY DEF CloseOrDetach, DetachProgress, Down, Quiet
  <2>5. Down'
    BY DEF OneCloser, CloseOrDetach, CloseProgress, DetachProgress, Down, Quiet
  <2> QED
    BY <2>1, <2>2, <2>3, <2>4, <2>5
<1>4. CASE Reader
  <2> USE <1>4 DEF Reader, ReaderTop, ReaderTransfer, ReaderData
  <2>1. OneCloser'
    BY DEF OneCloser
  <2>2. CloseOrDetach'
    BY DEF OneCloser, CloseOrDetach
  <2>3. CloseProgress'
    BY DEF OneCloser, CloseOrDetach, CloseProgress, Down, Quiet
  <2>4. DetachProgress'
    BY DEF CloseOrDetach, DetachProgress, Down, Quiet
  <2>5. Down'
    BY DEF OneCloser, CloseOrDetach, CloseProgress, DetachProgress, Down, Quiet
  <2> QED
    BY <2>1, <2>2, <2>3, <2>4, <2>5
<1>5. CASE Central
  <2> USE <1>5 DEF Central, DetachBegin, DetachClear, DetachCloseHandle,
               DetachJoinWrite, DetachEnd
  <2>1. OneCloser'
    BY DEF OneCloser
  <2>2. CloseOrDetach'
    BY DEF OneCloser, CloseOrDetach
  <2>3. CloseProgress'
    BY DEF OneCloser, CloseOrDetach, CloseProgress, Down, Quiet
  <2>4. DetachProgress'
    BY DEF CloseOrDetach, DetachProgress, Down, Quiet
  <2>5. Down'
    BY DEF OneCloser, CloseOrDetach, CloseProgress, DetachProgress, Down, Quiet
  <2> QED
    BY <2>1, <2>2, <2>3, <2>4, <2>5
<1>6. CASE Unplug \/ Finished \/ UNCHANGED vars
  <2> USE <1>6 DEF Unplug, Finished, vars
  <2>1. OneCloser'
    BY DEF OneCloser
  <2>2. CloseOrDetach'
    BY DEF OneCloser, CloseOrDetach
  <2>3. CloseProgress'
    BY DEF OneCloser, CloseOrDetach, CloseProgress, Down, Quiet
  <2>4. DetachProgress'
    BY DEF CloseOrDetach, DetachProgress, Down, Quiet
  <2>5. Down'
    BY DEF OneCloser, CloseOrDetach, CloseProgress, DetachProgress, Down, Quiet
  <2> QED
    BY <2>1, <2>2, <2>3, <2>4, <2>5
<1> QED
  BY <1>1, <1>2, <1>3, <1>4, <1>5, <1>6 DEF Next

LEMMA CloseInvAlways == Spec => []CloseInv
  BY CloseInvInit, CloseInvNext, TypeCorrect, PTL DEF Spec

(* After CPhidget_close has returned both threads are gone and the USB     *)
(* handle is closed.                                                       *)
THEOREM CloseLeavesNothing == Spec => []CloseQuiesces
<1>1. CloseInv => CloseQuiesces
  BY DEF CloseInv, CloseOrDetach, Down, Quiet, CloseQuiesces
<1> QED
  BY <1>1, CloseInvAlways, PTL

(* CUSBReadPacket never uses a USB handle that has been closed, and        *)
(* CUSBSendPacket only while the central thread detaches the device.       *)
THEOREM HandleOpenWhenUsed == Spec => []ClosedHandleUnused
<1>1. CloseInv => ClosedHandleUnused
  BY DEF CloseInv, Down, DetachProgress, CloseProgress, Quiet,
         ClosedHandleUnused
<1> QED
  BY <1>1, CloseInvAlways, PTL
=============================================================================
