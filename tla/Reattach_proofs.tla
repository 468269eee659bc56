-------------------------- MODULE Reattach_proofs --------------------------
(* Theorems about a stepper handle over any number of attachments, for any *)
(* number of clients and any bounds.                                       *)
EXTENDS Reattach, StepperLink_proofs

(***************************************************************************)
(* What holds of every step of StepperLink holds of the steps taken over   *)
(* from it; what is left are the steps of attachActiveDevice and the board *)
(* that comes back.                                                        *)
(***************************************************************************)
LEMMA Split == [ReattachNext]_rvars => [Next]_vars \/ Attaching \/ Plug
<1> SUFFICES ASSUME [ReattachNext]_rvars, ~Attaching, ~Plug
             PROVE  [Next]_vars
  OBVIOUS
<1>1. ASSUME NEW c \in Clients, CallStep(c) \/ ClientStep(c) \/ CloseStep(c)
      PROVE  Next
  BY <1>1 DEF CallStep, ClientStep, CloseStep, Make, Queue, Rest, Setter, Next
<1>2. CASE WriterStep \/ ReaderStep \/ CentralStep
  BY <1>2 DEF WriterStep, ReaderStep, CentralStep, Next
<1>3. CASE Bus \/ Ended
  BY <1>3 DEF Bus, Ended, Next
<1>4. CASE UNCHANGED rvars
  BY <1>4 DEF rvars, link
<1> QED
  BY <1>1, <1>2, <1>3, <1>4 DEF ReattachNext

LEMMA LinkTypeNext == TypeOK /\ [ReattachNext]_rvars => TypeOK'
<1> SUFFICES ASSUME TypeOK, Attaching \/ Plug
             PROVE  TypeOK'
  BY Split, TypeNext
<1>0. StatusOK /\ QueueOK /\ SignalledOK /\ ClientsOK /\ ThreadsOK /\ HistoryOK
  BY DEF TypeOK
<1> USE <1>0 DEF Attaching, AttachBegin, AttachClear, AttachRead, AttachData,
                 AttachCopy, AttachResetWritten, AttachResetAvailable,
                 AttachSet, AttachStartRead, Plug, link, vars, status, queue,
                 writer, history
<1>1. StatusOK'
  BY DEF StatusOK
<1>2. QueueOK'
  <2>1. outputPacket' \in Nat
    BY DEF QueueOK
  <2>2. written' \in BOOLEAN /\ writeAvailable' \in BOOLEAN
        /\ writeStopFlag' \in BOOLEAN
    BY DEF QueueOK
  <2> QED
    BY <2>1, <2>2 DEF QueueOK
<1>3. SignalledOK'
  BY DEF SignalledOK
<1>4. ClientsOK'
  BY DEF ClientsOK
<1>5. ThreadsOK'
  BY DEF ThreadsOK, WriterPC, ReaderPC
<1>6. HistoryOK'
  BY DEF HistoryOK
<1> QED
  BY <1>1, <1>2, <1>3, <1>4, <1>5, <1>6 DEF TypeOK

LEMMA ReMutexNext == TypeOK /\ Mutex /\ [ReattachNext]_rvars => Mutex'
<1> SUFFICES ASSUME Mutex, Attaching \/ Plug
             PROVE  Mutex'
  BY Split, MutexNext
<1>1. UNCHANGED <<pc, writelock>>
  BY DEF Attaching, AttachBegin, AttachClear, AttachRead, AttachData,
         AttachCopy, AttachResetWritten, AttachResetAvailable, AttachSet,
         AttachStartRead, Plug, link, vars
<1> QED
  BY <1>1 DEF Mutex

(* The histories: an accepted packet gets the age its setter gave it.      *)
LEMMA AgeNext == TypeOK /\ AgeOK /\ [ReattachNext]_rvars => AgeOK'
<1> SUFFICES ASSUME TypeOK, AgeOK, [ReattachNext]_rvars
             PROVE  AgeOK'
  OBVIOUS
<1>0. /\ outputPacket \in Nat /\ buf \in Nat /\ accepted \in Nat
      /\ Len(madeIn) = accepted
  BY DEF TypeOK, QueueOK, ThreadsOK, HistoryOK, AgeOK
<1>a. ASSUME UNCHANGED <<outputPacket, buf, accepted, apc, attachment, age>>
      PROVE  AgeOK'
  BY <1>a DEF AgeOK, age
<1> USE <1>0 DEF AgeOK, age, status, queue, writer, history
<1>1. ASSUME NEW c \in Clients, CallStep(c) \/ CloseStep(c) PROVE AgeOK'
  BY <1>1, <1>a DEF CallStep, Call, CloseBegin, CloseStep, Close, CloseRemove,
                    CloseStop, CloseJoinWrite, CloseClear, CloseHandle,
                    CloseEnd
<1>2. ASSUME NEW c \in Clients, ClientStep(c) PROVE AgeOK'
  <2>1. CASE Make(c)
    BY <1>2, <2>1 DEF ClientStep, Make, Lock
  <2>2. CASE Queue(c)
    <3>1. made[c] \in Nat /\ accepted + 1 \in Nat
      OBVIOUS
    <3>2. madeIn' \in Seq(Nat) /\ Len(madeIn') = accepted'
      BY <2>2, <3>1 DEF Queue, Enqueue
    <3> QED
      BY <1>2, <2>2, <3>1, <3>2 DEF ClientStep, Queue, Enqueue
  <2>3. CASE Rest(c)
    BY <1>2, <2>3, <1>a DEF ClientStep, Rest, Again, FindFull, WaitWritten,
                            WakeUp, TimeOut, Signal
  <2> QED
    BY <1>2, <2>1, <2>2, <2>3 DEF ClientStep
<1>3. CASE WriterStep
  <2>1. old' \subseteq Nat \X (0..attachment)
    BY <1>3 DEF WriterStep
  <2>2. outputPacket' <= accepted' /\ buf' <= accepted'
    BY <1>3 DEF WriterStep, Writer, WriterTop, WriterPoll, WriterWakeUp,
                WriterTimeOut, WriterTestStop, WriterReset, GetPacket,
                SendCheck, Transfer, WriterSet, WriterExit
  <2>3. accepted' = accepted
    BY <1>3 DEF WriterStep, Writer, WriterTop, WriterPoll, WriterWakeUp,
                WriterTimeOut, WriterTestStop, WriterReset, GetPacket,
                SendCheck, Transfer, WriterSet, WriterExit
  <2> QED
    BY <1>3, <2>1, <2>2, <2>3 DEF WriterStep
<1>4. CASE ReaderStep
  BY <1>4, <1>a DEF ReaderStep, Reader, ReaderTop, ReaderTransfer, ReaderData
<1>5. CASE CentralStep
  <2>1. CASE Attaching
    BY <2>1 DEF Attaching, AttachBegin, AttachClear, AttachRead, AttachData,
                AttachCopy, AttachResetWritten, AttachResetAvailable,
                AttachSet, AttachStartRead, AttachPC, link, vars
  <2>2. CASE Central /\ UNCHANGED <<apc, attachment, age>>
    BY <2>2, <1>a DEF Central, DetachBegin, DetachClear, DetachCloseHandle,
                      DetachJoinWrite, DetachEnd
  <2> QED
    BY <1>5, <2>1, <2>2 DEF CentralStep
<1>6. CASE Bus \/ Ended \/ UNCHANGED rvars
  BY <1>6, <1>a DEF Bus, Plug, Unplug, Ended, rvars, link, vars
<1> QED
  BY <1>1, <1>2, <1>3, <1>4, <1>5, <1>6 DEF ReattachNext

(* Attaching, detaching and closing do not meet, and none of them finds a  *)
(* write thread it did not start.                                          *)
LEMMA PhasesNext == TypeOK /\ AgeOK /\ Phases /\ [ReattachNext]_rvars => Phases'
<1> SUFFICES ASSUME TypeOK, AgeOK, Phases, [ReattachNext]_rvars
             PROVE  Phases'
  OBVIOUS
<1>0. /\ pc \in [Clients -> ClientPC] /\ apc \in AttachPC
      /\ \A c \in Clients : c # "writer"
  BY LinkAssumption DEF TypeOK, ClientsOK, AgeOK
<1> USE <1>0 DEF Phases, InClose, AttachPC, age, status, queue, writer, history
<1>1. ASSUME NEW c \in Clients, CallStep(c) PROVE Phases'
  BY <1>1 DEF CallStep, Call, CloseBegin, Goto
<1>2. ASSUME NEW c \in Clients, CloseStep(c) PROVE Phases'
  BY <1>2 DEF CloseStep, Close, CloseRemove, CloseStop, CloseJoinWrite,
              CloseClear, CloseHandle, CloseEnd, Goto
<1>3. ASSUME NEW c \in Clients, ClientStep(c) PROVE Phases'
  BY <1>3 DEF ClientStep, Make, Queue, Rest, Lock, Enqueue, Again, FindFull,
              WaitWritten, WakeUp, TimeOut, Signal, ReturnFrom, Goto, Wake,
              SetWriteAvailable
<1>4. CASE WriterStep
  <2>1. CASE WriterWakeUp
    BY <1>4, <2>1 DEF WriterStep, WriterWakeUp, Wake
  <2>2. CASE WriterSet
    BY <1>4, <2>2 DEF WriterStep, WriterSet, SetWritten
  <2>3. CASE ~WriterWakeUp /\ ~WriterSet
    BY <1>4, <2>3 DEF WriterStep, Writer, WriterTop, WriterPoll,
                WriterTimeOut, WriterTestStop, WriterReset, GetPacket,
                SendCheck, Transfer, WriterExit
  <2> QED
    BY <2>1, <2>2, <2>3
<1>5. CASE ReaderStep
  BY <1>5 DEF ReaderStep, Reader, ReaderTop, ReaderTransfer, ReaderData
<1>6. CASE CentralStep
  <2>1. CASE Attaching
    BY <2>1 DEF Attaching, AttachBegin, AttachClear, AttachRead, AttachData,
                AttachCopy, AttachResetWritten, AttachResetAvailable,
                AttachSet, AttachStartRead, link, vars
  <2>2. CASE Central /\ apc = "idle" /\ UNCHANGED <<apc, attachment, age>>
    BY <2>2 DEF Central, DetachBegin, DetachClear, DetachCloseHandle,
                DetachJoinWrite, DetachEnd, SetWriteAvailable
  <2> QED
    BY <1>6, <2>1, <2>2 DEF CentralStep
<1>7. CASE Bus \/ Ended \/ UNCHANGED rvars
  BY <1>7 DEF Bus, Plug, Unplug, Ended, rvars, link, vars
<1> QED
  BY <1>1, <1>2, <1>3, <1>4, <1>5, <1>6, <1>7 DEF ReattachNext

(***************************************************************************)
(* Where an old packet is.  A setter with an old packet may fill the queue *)
(* (only one can, by Mutex), the write thread may take it if it is woken,  *)
(* and the reset of the event ends that until the next detach.             *)
(***************************************************************************)
LEMMA OnePlaceNext ==
  TypeOK /\ AgeOK /\ Phases /\ Mutex /\ OnePlace /\ [ReattachNext]_rvars
    => OnePlace'
<1> SUFFICES ASSUME TypeOK, AgeOK, Phases, Mutex, OnePlace,
                    [ReattachNext]_rvars, Healthy'
             PROVE  OnePlace'
  BY DEF OnePlace
<1>0. /\ pc \in [Clients -> ClientPC] /\ made \in [Clients -> Nat]
      /\ apc \in AttachPC /\ wpc \in WriterPC
      /\ outputPacket \in Nat /\ buf \in Nat /\ accepted \in Nat
      /\ attachment \in Nat /\ spurious \in Nat
      /\ madeIn \in Seq(Nat) /\ Len(madeIn) = accepted
      /\ outputPacket <= accepted /\ buf <= accepted
      /\ \A c \in Clients : c # "writer"
  BY LinkAssumption DEF TypeOK, ClientsOK, QueueOK, ThreadsOK, HistoryOK, AgeOK
<1>b. \A o \in old : o[2] <= attachment /\ o[2] \in Nat
  BY DEF AgeOK
<1>a. ASSUME UNCHANGED <<outputPacket, buf, wpc, writeAvailable, signalled,
                         pc, apc, cpc, spurious, attachment, age>>
      PROVE  OnePlace'
  BY <1>a DEF OnePlace, Healthy, Prepared, Resetting, OldSetter, OldQueued,
              OldInHand, OldReceived, Wakeable, WakeupPending, InHand, age
<1>1. ASSUME NEW c \in Clients, CallStep(c) PROVE OnePlace'
  <2>1. \A d \in Clients : /\ pc'[d] \in InSend => pc[d] = pc'[d]
                           /\ pc'[d] = "signal" <=> pc[d] = "signal"
    BY <1>0, <1>1 DEF CallStep, Call, CloseBegin, Goto, InSend, InSetter
  <2>2. UNCHANGED <<outputPacket, buf, wpc, writeAvailable, signalled, apc, cpc,
                    spurious, attachment, age>>
    BY <1>1 DEF CallStep, Call, CloseBegin, status, queue, writer, history
  <2> QED
    BY <2>1, <2>2 DEF OnePlace, Healthy, Prepared, Resetting, OldSetter,
        OldQueued, OldInHand, OldReceived, Wakeable, WakeupPending, InHand, age
<1>2. ASSUME NEW c \in Clients, CloseStep(c) PROVE OnePlace'
  <2>1. \A d \in Clients : /\ pc'[d] \in InSend => pc[d] = pc'[d]
                           /\ pc'[d] = "signal" <=> pc[d] = "signal"
    BY <1>0, <1>2 DEF CloseStep, Close, CloseRemove, CloseStop, CloseJoinWrite,
         CloseClear, CloseHandle, CloseEnd, Goto, InSend, InSetter
  <2>2. UNCHANGED <<outputPacket, buf, wpc, writeAvailable, signalled, apc, cpc,
                    spurious, attachment, age>>
    BY <1>2 DEF CloseStep, Close, CloseRemove, CloseStop, CloseJoinWrite,
         CloseClear, CloseHandle, CloseEnd, status, queue, writer, history
  <2> QED
    BY <2>1, <2>2 DEF OnePlace, Healthy, Prepared, Resetting, OldSetter,
        OldQueued, OldInHand, OldReceived, Wakeable, WakeupPending, InHand, age
<1>3. ASSUME NEW c \in Clients, ClientStep(c) PROVE OnePlace'
  <2> USE <1>0 DEF OnePlace, Healthy, Prepared, Resetting, OldQueued, OldInHand,
                   OldReceived, InHand, age, status, queue, writer, history
  <2>1. CASE Make(c)
    <3>1. OldSetter' => OldSetter
      BY <1>3, <2>1 DEF ClientStep, Make, Lock, Goto, OldSetter, InSend, InSetter
    <3>2. Wakeable' => Wakeable
      BY <1>3, <2>1 DEF ClientStep, Make, Lock, Goto, Wakeable, WakeupPending
    <3> QED
      BY <1>3, <2>1, <3>1, <3>2 DEF ClientStep, Make, Lock
  <2>2. CASE Queue(c)
    <3>1. ~OldSetter'
      BY <1>3, <2>2 DEF ClientStep, Queue, Enqueue, Goto, OldSetter, Mutex,
                        InSend, InSetter
    <3>2. OldQueued' => OldSetter
      BY <1>3, <2>2 DEF ClientStep, Queue, Enqueue, OldSetter, InSend, InSetter
    <3>3. OldInHand' <=> OldInHand
      BY <1>3, <2>2 DEF ClientStep, Queue, Enqueue
    <3> QED
      BY <1>3, <2>2, <3>1, <3>2, <3>3 DEF ClientStep, Queue, Enqueue
  <2>3. CASE Rest(c) /\ ~Signal(c)
    <3>1. OldSetter' => OldSetter
      BY <1>3, <2>3 DEF ClientStep, Rest, Again, FindFull, WaitWritten, WakeUp,
            TimeOut, ReturnFrom, Goto, OldSetter, InSend, InSetter
    <3>2. Wakeable' => Wakeable
      BY <1>3, <2>3 DEF ClientStep, Rest, Again, FindFull, WaitWritten, WakeUp,
            TimeOut, ReturnFrom, Goto, Wake, Wakeable, WakeupPending
    <3>3. Healthy
      BY <1>3, <2>3 DEF ClientStep, Rest, Again, FindFull, WaitWritten, WakeUp,
            TimeOut, Wake
    <3> QED
      BY <1>3, <2>3, <3>1, <3>2, <3>3 DEF ClientStep, Rest, Again, FindFull,
            WaitWritten, WakeUp, TimeOut
  <2>4. CASE Rest(c) /\ Signal(c)
    <3>1. OldSetter' => OldSetter
      BY <1>3, <2>4 DEF ClientStep, Rest, Signal, ReturnFrom, Goto, OldSetter, InSend,
            InSetter
    <3>2. Wakeable
      BY <2>4 DEF Signal, Wakeable
    <3> QED
      BY <1>3, <2>4, <3>1, <3>2 DEF ClientStep, Rest, Signal
  <2> QED
    BY <1>3, <2>1, <2>2, <2>3, <2>4 DEF ClientStep, Rest
<1>4. CASE WriterStep
  <2> USE <1>0 DEF OnePlace, Healthy, Prepared, Resetting, OldQueued, OldInHand,
                   OldReceived, InHand, Phases, AttachPC, WriterPC, age,
                   status, queue, writer, history
  <2>0. /\ ~Prepared
        /\ Writer => UNCHANGED <<pc, cpc>>
        /\ UNCHANGED <<apc, attachment, made, madeIn>>
    BY <1>4 DEF WriterStep, Writer, WriterTop, WriterPoll, WriterWakeUp,
          WriterTimeOut, WriterTestStop, WriterReset, GetPacket, SendCheck,
          Transfer, WriterSet, WriterExit
  <2>a. ASSUME UNCHANGED <<pc, attachment, made>> PROVE OldSetter' <=> OldSetter
    BY <2>a DEF OldSetter
  <2>1. CASE GetPacket
    <3>1. Wakeable
      BY <2>1 DEF GetPacket, Wakeable, WakeupPending
    <3> QED
      BY <1>4, <2>0, <2>1, <2>a, <3>1 DEF WriterStep, GetPacket
  <2>2. CASE Transfer
    <3>1. UNCHANGED <<pc, outputPacket, made, madeIn, attachment>>
      BY <1>4, <2>2 DEF WriterStep, Transfer
    <3>2. ~InHand' /\ Healthy
      BY <2>0, <2>2 DEF Transfer
    <3>3. OldReceived' => OldReceived \/ OldInHand
      <4>1. delivered' # delivered => InHand
        BY <2>2 DEF Transfer, Received
      <4> QED
        BY <1>4, <3>1, <4>1 DEF WriterStep
    <3>4. Wakeable' => Wakeable
      BY <2>2, <3>1 DEF Transfer, Wakeable, WakeupPending
    <3> QED
      BY <2>0, <2>a, <3>1, <3>2, <3>3, <3>4
  <2>3. CASE WriterTop \/ WriterPoll \/ WriterTimeOut \/ WriterTestStop
               \/ WriterReset \/ SendCheck \/ WriterSet \/ WriterExit
    <3>1. Wakeable' => Wakeable
      BY <2>0, <2>3, <1>4 DEF WriterStep, WriterTop, WriterPoll,
           WriterTimeOut, WriterTestStop, WriterReset, SendCheck, WriterSet,
           WriterExit, SetWritten, Wakeable, WakeupPending
    <3>2. OldReceived' <=> OldReceived
      BY <1>4, <2>3 DEF WriterStep, WriterTop, WriterPoll, WriterTimeOut,
           WriterTestStop, WriterReset, SendCheck, WriterSet, WriterExit
    <3> QED
      BY <1>4, <2>0, <2>3, <2>a, <3>1, <3>2 DEF WriterStep, WriterTop,
           WriterPoll, WriterTimeOut, WriterTestStop, WriterReset, SendCheck,
           WriterSet, WriterExit
  <2>4. CASE WriterWakeUp
    <3>1. Wakeable
      BY <1>4, <2>4 DEF WriterWakeUp, Wake, Wakeable, WakeupPending
    <3>2. OldReceived' <=> OldReceived
      BY <1>4, <2>4 DEF WriterStep, WriterWakeUp
    <3> QED
      BY <1>4, <2>0, <2>4, <2>a, <3>1, <3>2 DEF WriterStep, WriterWakeUp, Wake
  <2> QED
    BY <1>4, <2>1, <2>2, <2>3, <2>4 DEF WriterStep, Writer
<1>5. CASE ReaderStep
  BY <1>5, <1>a DEF ReaderStep, Reader, ReaderTop, ReaderTransfer, ReaderData,
                    status, queue, writer, history
<1>6. CASE CentralStep
  <2> USE DEF status, queue, writer, history
  <2>1. CASE AttachBegin \/ AttachClear \/ AttachRead \/ AttachData
    BY <1>0, <2>1 DEF AttachBegin, AttachClear, AttachRead, AttachData, Phases,
         AttachPC, Healthy, Prepared, Resetting, link, vars
  <2>2. CASE AttachCopy
    BY <1>0, <1>b, <2>2 DEF AttachCopy, OnePlace, Prepared, Resetting,
         OldReceived, OldInHand, InHand, Phases, AttachPC, age, link, vars
  <2>3. CASE AttachResetWritten
    BY <1>0, <2>3 DEF AttachResetWritten, OnePlace, Healthy, Prepared,
         Resetting, OldSetter, OldQueued, OldInHand, OldReceived, InHand, age
  <2>4. CASE AttachResetAvailable
    <3>1. Wakeable' => ~OldSetter
      BY <1>0, <2>4 DEF AttachResetAvailable, Wakeable, WakeupPending,
           OldSetter, Mutex, InSend, InSetter, Phases, AttachPC
    <3> QED
      BY <1>0, <2>4, <3>1 DEF AttachResetAvailable, OnePlace, Healthy, Prepared,
           Resetting, OldSetter, OldQueued, OldInHand, OldReceived, InHand, age
  <2>5. CASE AttachSet
    BY <1>0, <2>5 DEF AttachSet, OnePlace, Healthy, Prepared, Resetting,
         OldSetter, OldQueued, OldInHand, OldReceived, Wakeable, WakeupPending,
         InHand, Phases, AttachPC, age
  <2>6. CASE AttachStartRead
    BY <1>0, <2>6 DEF AttachStartRead, OnePlace, Healthy, Prepared, Resetting,
         OldSetter, OldQueued, OldInHand, OldReceived, Wakeable, WakeupPending,
         InHand, age
  <2>7. CASE Central /\ apc = "idle" /\ apc' = "idle"
    BY <2>7 DEF Central, DetachBegin, DetachClear, DetachCloseHandle,
         DetachJoinWrite, DetachEnd, Healthy, Prepared, Resetting, Phases
  <2> QED
    BY <1>6, <2>1, <2>2, <2>3, <2>4, <2>5, <2>6, <2>7 DEF CentralStep, Attaching
<1>7. CASE Bus \/ Ended \/ UNCHANGED rvars
  BY <1>7, <1>a DEF Bus, Plug, Unplug, Ended, rvars, link, vars, status, queue,
                    writer, history
<1> QED
  BY <1>1, <1>2, <1>3, <1>4, <1>5, <1>6, <1>7 DEF ReattachNext

ReattachInv == TypeOK /\ AgeOK /\ Phases /\ Mutex /\ OnePlace

LEMMA InvInit == ReattachInit => ReattachInv
<1> SUFFICES ASSUME ReattachInit PROVE ReattachInv
  OBVIOUS
<1>1. TypeOK
  BY TypeInit DEF ReattachInit
<1>2. AgeOK
  <2>1. madeIn \in Seq(Nat) /\ Len(madeIn) = 0
    BY DEF ReattachInit
  <2> QED
    BY <2>1 DEF ReattachInit, Init, AgeOK, AttachPC
<1>3. Phases /\ Mutex
  BY DEF ReattachInit, Init, Phases, Mutex, InClose, InSend, InSetter
<1>4. OnePlace
  BY DEF ReattachInit, Init, OnePlace, Prepared, Resetting, OldInHand, InHand,
         OldReceived, OldQueued
<1> QED
  BY <1>1, <1>2, <1>3, <1>4 DEF ReattachInv

LEMMA InvAlways == ReattachSpec => []ReattachInv
<1>1. ReattachInv /\ [ReattachNext]_rvars => ReattachInv'
  BY LinkTypeNext, AgeNext, PhasesNext, ReMutexNext, OnePlaceNext
     DEF ReattachInv
<1> QED
  BY <1>1, InvInit, PTL DEF ReattachSpec

(* Every variable stays in its range, over any number of attachments.      *)
THEOREM ReattachTypeCorrect == ReattachSpec => [](TypeOK /\ AgeOK)
<1>1. ReattachInv => TypeOK /\ AgeOK
  BY DEF ReattachInv
<1> QED
  BY <1>1, InvAlways, PTL

(* sendpacket runs under writelock, whatever is attached or taken down     *)
(* meanwhile.                                                              *)
THEOREM SettersExclude == ReattachSpec => []Mutex
<1>1. ReattachInv => Mutex
  BY DEF ReattachInv
<1> QED
  BY <1>1, InvAlways, PTL

(* attachActiveDevice finds no thread of an earlier attachment running.    *)
THEOREM ThreadsStartOnce == ReattachSpec => []OneThreadEach
<1>1. ReattachInv => OneThreadEach
  BY DEF ReattachInv, Phases, OneThreadEach
<1> QED
  BY <1>1, InvAlways, PTL

(* No attachment receives two packets that were made in earlier ones,      *)
(* unless a detach has begun or a wait has ended without a signal.         *)
THEOREM AtMostOneOldWrite == ReattachSpec => OneOldWrite
<1>1. ReattachInv /\ [ReattachNext]_rvars
        => [SecondOld => cpc # "idle" \/ spurious > 0]_rvars
  <2> SUFFICES ASSUME ReattachInv, [ReattachNext]_rvars, SecondOld,
                      cpc = "idle", ~(spurious > 0)
               PROVE  FALSE
    OBVIOUS
  <2>0. spurious = 0
    BY DEF ReattachInv, TypeOK, HistoryOK
  <2>1. PICK o \in old' \ old, p \in old : p[2] = o[2]
    BY DEF SecondOld
  <2>2. WriterStep
    BY <2>1 DEF ReattachNext, CallStep, CloseStep, ClientStep, Make, Queue,
       Rest, ReaderStep, CentralStep, Attaching, AttachBegin, AttachClear,
       AttachRead, AttachData, AttachCopy, AttachResetWritten,
       AttachResetAvailable, AttachSet, AttachStartRead, Bus, Plug, Ended,
       rvars, age
  <2>3. delivered' # delivered /\ madeIn[buf] < attachment /\ o[2] = attachment
    BY <2>1, <2>2 DEF WriterStep
  <2>4. InHand /\ wpc # "none"
    BY <2>2, <2>3 DEF WriterStep, Writer, WriterTop, WriterPoll, WriterWakeUp,
       WriterTimeOut, WriterTestStop, WriterReset, GetPacket, SendCheck,
       Transfer, WriterSet, WriterExit, Received, InHand, writer, history
  <2>5. OldInHand /\ OldReceived /\ Healthy
    BY <2>0, <2>1, <2>3, <2>4 DEF OldInHand, OldReceived, Healthy
  <2> QED
    BY <2>5 DEF ReattachInv, OnePlace
<1> QED
  BY <1>1, InvAlways, PTL DEF ReattachSpec, OneOldWrite
=============================================================================
