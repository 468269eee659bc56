------------------------------- MODULE Attach -------------------------------
(***************************************************************************)
(* Which handle is attached to which device.  The application opens and    *)
(* closes handles; open puts a handle in the list ActiveDevices, close     *)
(* takes it out.  The central thread looks at the USB bus four times a     *)
(* second, keeps the list AttachedDevices of the devices it has seen,      *)
(* attaches waiting handles to new devices and takes the handles of lost   *)
(* devices down.  Both work on the same handles under three locks:         *)
(* openCloseLock of each handle, activeDevicesLock, attachedDevicesLock.   *)
(*                                                                         *)
(* What happens inside one attachment, between the setters and the threads *)
(* of the handle, is module StepperLink; here an attachment is one bit.    *)
(* A handle is at most once in ActiveDevices, since open looks for it      *)
(* first: the list is the set of its handles and when each was put in.     *)
(* The application calls the library from one thread, as IRcamera.c does.  *)
(***************************************************************************)
EXTENDS Naturals

CONSTANTS
  Handles,       (* the CPhidgetHandles of the application                  *)
  Devices,       (* the physical devices, by serial number                  *)
  Any,           (* the serial number -1                                    *)
  None,          (* no handle                                               *)
  Opens,         (* the calls CPhidget_open(h, s) the application makes     *)
  Closes,        (* the handles it closes                                   *)
  QuickReplug,   (* may a device come back before its loss is noticed?      *)
  MaxEvents,     (* bound: so many things happen on the bus                 *)
  MaxOpens       (* bound: so many calls of CPhidget_open                   *)

ASSUME AttachAssumption ==
  /\ Any \notin Devices /\ None \notin Handles
  /\ Opens \subseteq Handles \X (Devices \cup {Any})
  /\ Closes \subseteq Handles
  /\ QuickReplug \in BOOLEAN
  /\ MaxEvents \in Nat /\ MaxOpens \in Nat

VARIABLES
  bus,           (* the devices plugged in                                  *)
  known,         (* AttachedDevices                                         *)
  active, since, (* ActiveDevices: its handles, and when each was put in    *)
  opened,        (* the handles with PHIDGET_OPENED_FLAG                    *)
  attached,      (* ... with PHIDGET_ATTACHED_FLAG                          *)
  error,         (* ... with PHIDGET_USB_ERROR_FLAG                         *)
  broken,        (* ... whose USB connection is of a device since unplugged *)
  specific,      (* specificDevice of each handle                           *)
  serial,        (* serialNumber of each handle                             *)
  mpc, mh,       (* where the application is in open or close, its handle   *)
  cpc,           (* where the central thread is                             *)
  todo,          (* the devices its loop has still to visit                 *)
  gone,          (* detachList of CPhidgetManager_poll                      *)
  polling,       (* it is in CPhidgetManager_poll, not findActiveDevices    *)
  dev, matches,  (* findActiveDevice: the device, the handles that match it *)
  phid,          (* the handle it attaches or takes down                    *)
  events, opens  (* how much of the two bounds is used                      *)

list    == <<active, since>>
handle  == <<opened, attached, error, broken, specific, serial>>
main    == <<mpc, mh>>
find    == <<dev, matches>>
central == <<cpc, todo, gone, polling, find, phid>>
bounds  == <<events, opens>>
vars    == <<bus, known, list, handle, main, central, bounds>>

(* CPhidget_areEqual of two handles. *)
areEqual(h, g) ==
  \/ "any" \in {specific[h], specific[g]}
  \/ "serial" \notin {specific[h], specific[g]}
  \/ serial[h] = serial[g]

(* CPhidget_areEqual of the record of device d and a handle. *)
RecordEqual(d, h) == specific[h] = "any" \/ serial[h] = d

(* The first handle of ActiveDevices that is in S, in a set of its own.    *)
First(S) == {h \in S : \A g \in S : since[h] <= since[g]}

ClaimNothing(d) == FALSE             \* a fault: no libusb_claim_interface

(* Another handle has claimed the interface of device d. *)
Claimed(d) == \E g \in attached \ broken : serial[g] = d

(***************************************************************************)
(* Faults: what the code might plausibly have done instead.  Each breaks a *)
(* property below; none is part of the specification.                      *)
(***************************************************************************)
WithoutHead(h) == active \ First(active)         \* the head is not compared

NoActiveLock == TRUE                 \* detach does not hold activeDevicesLock

ReturnLocked == mpc' = "idle" /\ UNCHANGED mh     \* openCloseLock is kept

CloseDownNoJoin ==                   \* the central thread is not waited for
  /\ mpc = "down"
  /\ attached' = attached \ {mh}
  /\ broken' = broken \ {mh}
  /\ mpc' = "idle" /\ mh' = None /\ opened' = opened \ {mh}
  /\ UNCHANGED <<bus, known, list, error, specific, serial, central, bounds>>

EnumerateNoGone ==                   \* detachList is not made
  /\ cpc = "loop" /\ active # {}
  /\ todo' = bus /\ gone' = {} /\ polling' = TRUE /\ cpc' = "visit"
  /\ UNCHANGED <<bus, known, list, handle, main, find, phid, bounds>>

AttachFailNoReset ==                 \* specificDevice is not set back
  /\ cpc = "open"
  /\ \/ (dev \notin bus \/ Claimed(dev)) /\ UNCHANGED events
     \/ events < MaxEvents /\ events' = events + 1
  /\ cpc' = "attach" /\ phid' = None
  /\ UNCHANGED <<bus, known, list, handle, main, todo, gone, polling, find, opens>>

CheckErrorHead ==                    \* only the head of the list is looked at
  /\ cpc = "check"
  /\ gone' = IF \E h \in First(active) : RecordEqual(dev, h) /\ h \in attached \cap error
               THEN gone \cup {dev} ELSE gone
  /\ cpc' = "visit" /\ dev' = Any
  /\ UNCHANGED <<bus, known, list, handle, main, todo, polling, matches,
                 phid, bounds>>

(* CList_removeFromList(&ActiveDevices, h, CPhidget_areEqual): the head if *)
(* it is equal, and then nothing else; otherwise all that are equal.       *)
Without(h) ==
  LET equal == {g \in active : areEqual(h, g)} IN
  active \ (IF First(active) \cap equal # {} THEN First(active) ELSE equal)

(* Where findActiveDevice puts a handle among those it collects: the ones  *)
(* that want this number before the ones that want any.                    *)
Place(h) == since[h] + IF specific[h] = "any" THEN MaxOpens ELSE 0

(* What it collects for device d. *)
Waiting(d) ==
  LET wanted == {h \in active \ attached :
                   specific[h] = "any" \/ (specific[h] = "serial" /\ serial[h] = d)}
  IN [h \in wanted |-> Place(h)]

NoMatch == [h \in {} |-> 0]

(* The application holds openCloseLock of h. *)
MainHolds(h) == mpc # "idle" /\ mh = h

(* The central thread holds it. *)
CentralHolds(h) == cpc = "open" /\ phid = h

(* Nobody holds activeDevicesLock from one step to the next. *)
ActiveFree == cpc # "detach"

Init ==
  /\ bus \in SUBSET Devices /\ known = {} /\ active = {} /\ since = [h \in Handles |-> 0]
  /\ opened = {} /\ attached = {} /\ error = {} /\ broken = {}
  /\ specific = [h \in Handles |-> "any"]
  /\ serial = [h \in Handles |-> Any]
  /\ mpc = "idle" /\ mh = None
  /\ cpc = "dead" /\ todo = {} /\ gone = {} /\ polling = FALSE
  /\ dev = Any /\ matches = NoMatch /\ phid = None
  /\ events = 0 /\ opens = 0

(***************************************************************************)
(* The application.                                                        *)
(***************************************************************************)
Open(h, s) ==           \* CPhidget_open up to the list of RegisterLocalDevice
  /\ mpc = "idle" /\ ~CentralHolds(h) /\ ActiveFree
  /\ h \notin opened
  /\ opens < MaxOpens
  /\ opens' = opens + 1
  /\ specific' = [specific EXCEPT ![h] = IF s = Any THEN "any" ELSE "serial"]
  /\ serial' = [serial EXCEPT ![h] = s]
  /\ \/ /\ \E g \in active :        \* EPHIDGET_DUPLICATE
             g = h \/ (s # Any /\ (specific[g] = "any" \/ serial[g] = s))
        /\ opened' = opened \cup {h}
        /\ UNCHANGED <<list, main>>
     \/ /\ \A g \in active :
             g # h /\ (s = Any \/ (specific[g] # "any" /\ serial[g] # s))
        /\ active' = active \cup {h} /\ since' = [since EXCEPT ![h] = opens']
        /\ mpc' = "start" /\ mh' = h
        /\ UNCHANGED opened
  /\ UNCHANGED <<bus, known, attached, error, broken, central, events>>

Return == mpc' = "idle" /\ mh' = None

OpenEnd ==              \* StartCentralThread, PHIDGET_OPENED_FLAG, unlock
  /\ mpc = "start"
  /\ opened' = opened \cup {mh}
  /\ cpc' = IF cpc = "dead" THEN "loop" ELSE cpc
  /\ Return
  /\ UNCHANGED <<bus, known, list, attached, error, broken, specific, serial,
                 todo, gone, polling, find, phid, bounds>>

Close(h) ==             \* CPhidget_close up to CList_removeFromList
  /\ mpc = "idle" /\ ~CentralHolds(h) /\ ActiveFree
  /\ h \in opened
  /\ active' = Without(h) /\ UNCHANGED since
  /\ mpc' = "down" /\ mh' = h
  /\ UNCHANGED <<bus, known, handle, central, bounds>>

(* The handle is taken down if it is attached, and the call returns or     *)
(* goes on to wait for the central thread.                                 *)
CloseDown ==
  /\ mpc = "down"
  /\ attached' = attached \ {mh}
  /\ broken' = broken \ {mh}
  /\ IF specific[mh] = "anyAttached"
       THEN /\ specific' = [specific EXCEPT ![mh] = "any"]
            /\ serial' = [serial EXCEPT ![mh] = Any]
       ELSE UNCHANGED <<specific, serial>>
  /\ IF active = {} THEN mpc' = "join" /\ UNCHANGED <<mh, opened>>
                      ELSE Return /\ opened' = opened \ {mh}
  /\ UNCHANGED <<bus, known, list, error, central, bounds>>

CloseJoin ==            \* JoinCentralThread
  /\ mpc = "join"
  /\ cpc = "dead"
  /\ opened' = opened \ {mh}
  /\ Return
  /\ UNCHANGED <<bus, known, list, attached, error, broken, specific, serial,
                 central, bounds>>

Main == \/ \E c \in Opens : Open(c[1], c[2])
        \/ \E h \in Closes : Close(h)
        \/ OpenEnd \/ CloseDown \/ CloseJoin

(***************************************************************************)
(* The central thread.                                                     *)
(***************************************************************************)
Stop ==                 \* CentralThreadFunction returns
  /\ cpc = "loop"
  /\ active = {}
  /\ known' = {}
  /\ cpc' = "dead"
  /\ UNCHANGED <<bus, list, handle, main, todo, gone, polling, find, phid,
                 bounds>>

(* CUSBBuildList.  A device it knows it finds by its address, a new one it *)
(* must open and ask for its serial number, which may fail; so may the     *)
(* whole list.                                                             *)
Enumerate ==
  /\ cpc = "loop"
  /\ active # {}
  /\ \/ todo' = bus /\ UNCHANGED events
     \/ /\ events < MaxEvents
        /\ events' = events + 1
        /\ todo' \in {{}} \cup {bus \ {d} : d \in bus \ known}
  /\ gone' = known \ todo'
  /\ polling' = TRUE
  /\ cpc' = "visit"
  /\ UNCHANGED <<bus, known, list, handle, main, find, phid, opens>>

(* The next device of the loop of CPhidgetManager_poll: a new one goes     *)
(* through CPhidgetAttachEvent.                                            *)
PollVisit(d) ==
  /\ cpc = "visit" /\ polling
  /\ d \in todo
  /\ todo' = todo \ {d}
  /\ dev' = d
  /\ \/ /\ d \in known
        /\ cpc' = "check"
        /\ UNCHANGED <<known, matches>>
     \/ /\ d \notin known
        /\ known' = known \cup {d}
        /\ matches' = Waiting(d)
        /\ cpc' = "attach"
  /\ UNCHANGED <<bus, list, handle, main, gone, polling, phid, bounds>>

(* findActiveDevice's second loop: openCloseLock of the next match.        *)
AttachBegin ==
  /\ cpc = "attach"
  /\ \E h \in DOMAIN matches :
     /\ \A g \in DOMAIN matches : matches[h] <= matches[g]
     /\ ~MainHolds(h)
     /\ matches' = [g \in DOMAIN matches \ {h} |-> matches[g]]
     /\ \/ /\ h \notin opened             \* EPHIDGET_UNEXPECTED
           /\ UNCHANGED <<specific, serial, cpc, phid>>
        \/ /\ h \in opened
           /\ specific' = [specific EXCEPT ![h] =
                             IF @ = "any" THEN "anyAttached" ELSE @]
           /\ serial' = [serial EXCEPT ![h] = dev]
           /\ cpc' = "open" /\ phid' = h
  /\ UNCHANGED <<bus, known, list, opened, attached, error, broken, main,
                 todo, gone, polling, dev, bounds>>

(* CUSBOpenHandle, the initial read, the threads; then unlock.             *)
AttachSucceed ==
  /\ cpc = "open"
  /\ dev \in bus /\ ~Claimed(dev)
  /\ attached' = attached \cup {phid}
  /\ matches' = NoMatch
  /\ cpc' = "attach" /\ phid' = None
  /\ UNCHANGED <<bus, known, list, opened, error, broken, specific, serial,
                 main, todo, gone, polling, dev, bounds>>

AttachFail ==
  /\ cpc = "open"
  /\ \/ (dev \notin bus \/ Claimed(dev)) /\ UNCHANGED events
     \/ events < MaxEvents /\ events' = events + 1
  /\ IF specific[phid] = "anyAttached"
       THEN /\ specific' = [specific EXCEPT ![phid] = "any"]
            /\ serial' = [serial EXCEPT ![phid] = Any]
       ELSE UNCHANGED <<specific, serial>>
  /\ cpc' = "attach" /\ phid' = None
  /\ UNCHANGED <<bus, known, list, opened, attached, error, broken, main,
                 todo, gone, polling, find, opens>>

AttachDone ==           \* no match is left: findActiveDevice returns
  /\ cpc = "attach"
  /\ matches = NoMatch
  /\ IF polling THEN cpc' = "check" /\ UNCHANGED dev
                ELSE cpc' = "visit" /\ dev' = Any
  /\ UNCHANGED <<bus, known, list, handle, main, todo, gone, polling, matches,
                 phid, bounds>>

(* The first active handle that equals the record of the device decides    *)
(* whether the device is cycled through a detach.                          *)
CheckError ==
  /\ cpc = "check"
  /\ LET equal == {h \in active : RecordEqual(dev, h)} IN
       gone' = IF First(equal) \subseteq attached \cap error /\ equal # {}
                 THEN gone \cup {dev} ELSE gone
  /\ cpc' = "visit" /\ dev' = Any
  /\ UNCHANGED <<bus, known, list, handle, main, todo, polling, matches,
                 phid, bounds>>

(* CPhidgetDetachEvent up to the taking down of the handle it finds.       *)
DetachBegin(d) ==
  /\ cpc = "visit" /\ polling
  /\ todo = {}
  /\ d \in gone
  /\ gone' = gone \ {d}
  /\ known' = known \ {d}
  /\ LET lost == {h \in active : h \in attached /\ serial[h] = d} IN
       IF lost = {} THEN UNCHANGED <<specific, phid, cpc>>
       ELSE /\ \E h \in First(lost) :
                 /\ phid' = h
                 /\ specific' = [specific EXCEPT ![h] =
                                   IF @ = "anyAttached" THEN "any" ELSE @]
            /\ cpc' = "detach"
  /\ UNCHANGED <<bus, list, opened, attached, error, broken, serial, main,
                 todo, polling, find, bounds>>

DetachDown ==           \* both threads are joined, activeDevicesLock is freed
  /\ cpc = "detach"
  /\ attached' = attached \ {phid}
  /\ broken' = broken \ {phid}
  /\ cpc' = "clear"
  /\ UNCHANGED <<bus, known, list, opened, error, specific, serial, main,
                 todo, gone, polling, find, phid, bounds>>

DetachClear ==          \* PHIDGET_USB_ERROR_FLAG is cleared last
  /\ cpc = "clear"
  /\ error' = error \ {phid}
  /\ cpc' = "visit" /\ phid' = None
  /\ UNCHANGED <<bus, known, list, opened, attached, broken, specific,
                 serial, main, todo, gone, polling, find, bounds>>

PollEnd ==              \* on to findActiveDevices
  /\ cpc = "visit" /\ polling
  /\ todo = {} /\ gone = {}
  /\ polling' = FALSE
  /\ todo' = known
  /\ UNCHANGED <<bus, known, list, handle, main, cpc, gone, find, phid,
                 bounds>>

FindVisit(d) ==         \* findActiveDevice of the next known device
  /\ cpc = "visit" /\ ~polling
  /\ d \in todo
  /\ todo' = todo \ {d}
  /\ dev' = d
  /\ matches' = Waiting(d)
  /\ cpc' = "attach"
  /\ UNCHANGED <<bus, known, list, handle, main, gone, polling, phid,
                 bounds>>

FindEnd ==              \* the wait of at most 250 ms for checkForDevicesEvent
  /\ cpc = "visit" /\ ~polling
  /\ todo = {}
  /\ cpc' = "loop"
  /\ UNCHANGED <<bus, known, list, handle, main, todo, gone, polling, find,
                 phid, bounds>>

Central == \/ Stop \/ Enumerate \/ AttachBegin \/ AttachSucceed \/ AttachFail
           \/ AttachDone \/ CheckError \/ DetachDown \/ DetachClear
           \/ PollEnd \/ FindEnd
           \/ \E d \in Devices : PollVisit(d) \/ DetachBegin(d) \/ FindVisit(d)

(***************************************************************************)
(* The bus.                                                                *)
(***************************************************************************)
Plug(d) ==
  /\ d \notin bus
  /\ QuickReplug \/ d \notin known
  /\ bus' = bus \cup {d}
  /\ UNCHANGED broken

Unplug(d) ==            \* the connections of the device are dead from here on
  /\ d \in bus
  /\ bus' = bus \ {d}
  /\ broken' = broken \cup {h \in attached : serial[h] = d}

Fail(h) ==              \* a thread of the handle leaves with a USB error
  /\ h \in attached
  /\ error' = error \cup {h}

Bus ==
  /\ events < MaxEvents
  /\ events' = events + 1
  /\ \/ (\E d \in Devices : Plug(d) \/ Unplug(d)) /\ UNCHANGED error
     \/ (\E h \in Handles : Fail(h)) /\ UNCHANGED <<bus, broken>>
  /\ UNCHANGED <<known, list, opened, attached, specific, serial, main,
                 central, opens>>

Next == Main \/ Central \/ Bus

Spec == Init /\ [][Next]_vars

(* The central thread is scheduled and its timed wait ends; a call that has *)
(* begun goes on.  Nobody has to open or close anything.                    *)
Fairness == WF_vars(Central) /\ WF_vars(OpenEnd \/ CloseDown \/ CloseJoin)

FairSpec == Spec /\ Fairness
-----------------------------------------------------------------------------
(* Every variable stays in its range. *)
TypeOK ==
  /\ bus \subseteq Devices /\ known \subseteq Devices
  /\ active \subseteq Handles /\ since \in [Handles -> 0..MaxOpens]
  /\ opened \subseteq Handles /\ attached \subseteq Handles
  /\ error \subseteq Handles /\ broken \subseteq Handles
  /\ specific \in [Handles -> {"any", "serial", "anyAttached"}]
  /\ serial \in [Handles -> Devices \cup {Any}]
  /\ mpc \in {"idle", "start", "down", "join"}
  /\ mh \in (IF mpc = "idle" THEN {None} ELSE Handles)
  /\ cpc \in {"dead", "loop", "visit", "attach", "open", "check", "detach",
             "clear"}
  /\ todo \subseteq Devices /\ gone \subseteq Devices /\ polling \in BOOLEAN
  /\ dev \in (IF cpc \in {"attach", "open", "check"} THEN Devices ELSE {Any})
  /\ DOMAIN matches \subseteq Handles /\ matches \in [DOMAIN matches -> Nat]
  /\ phid \in (IF cpc \in {"open", "detach", "clear"} THEN Handles ELSE {None})
  /\ events \in 0..MaxEvents /\ opens \in 0..MaxOpens

(***************************************************************************)
(* Between two calls of the application the handles in ActiveDevices are   *)
(* exactly the open ones: CPhidget_open and CPhidget_close register and    *)
(* unregister their own handle and no other.                               *)
(***************************************************************************)
Registered ==
  mpc = "idle" => active = opened

(***************************************************************************)
(* A handle is taken down by one thread at a time: the close of the        *)
(* application and the detach of the central thread both stop and join the *)
(* threads of the handle and close its USB connection, and what excludes   *)
(* one from the other is only that close first removes the handle from the *)
(* list under activeDevicesLock, which detach holds throughout.            *)
(***************************************************************************)
OneTeardown == ~(mpc = "down" /\ cpc = "detach" /\ mh = phid)

(***************************************************************************)
(* The central thread runs as long as a handle is registered, and is gone  *)
(* when the last close has returned.                                       *)
(***************************************************************************)
CentralRuns == mpc = "idle" => (cpc = "dead" <=> active = {})

(* A device is never worked on through two handles at once. *)
OneOwner ==
  \A g, h \in attached \ broken : serial[g] = serial[h] => g = h

(***************************************************************************)
(* Why.  The central thread: a list that is not empty keeps it, an empty   *)
(* one is waited for until it has gone.                                    *)
(***************************************************************************)
CentralInv ==
  /\ mpc = "start" => active # {}
  /\ mpc = "join" => active = {}
  /\ cpc = "dead" => active = {} \/ mpc = "start"
  /\ CentralRuns

(***************************************************************************)
(* Owners: only a handle that is not attached is looked at for a device,   *)
(* and from there on openCloseLock keeps the application away from it.     *)
(***************************************************************************)
OwnerInv ==
  /\ attached \subseteq opened
  /\ mpc = "join" => mh \notin attached
  /\ \A h \in DOMAIN matches : h \notin attached
  /\ cpc = "open" => /\ phid \in opened \ attached /\ serial[phid] = dev
                     /\ mpc # "idle" => mh # phid
  /\ OneOwner

(* The application gives each handle numbers of its own, and never -1; or,  *)
(* as initStepper does, always -1.                                         *)
OwnNumbers ==
  \A c, d \in Opens : c[2] # Any /\ (c[2] = d[2] => c[1] = d[1])

AnyNumber == \A c \in Opens : c[2] = Any

(* It closes, if it closes any, the handle it opened first. *)
HeadFirst == \A h \in Closes : Close(h) => First(active) = {h}

(***************************************************************************)
(* Registration: what is being detached is in the list, what is being      *)
(* closed is not.  With numbers of their own, a handle is equal to no      *)
(* other, neither with the number it was opened with nor with that of a    *)
(* device it is attached to in the meantime.                               *)
(***************************************************************************)
ListInv ==
  /\ mpc \in {"idle", "start"} => active = opened \cup (IF mpc = "start" THEN {mh} ELSE {})
  /\ mpc \in {"down", "join"} => mh \in opened /\ active = opened \ {mh}
  /\ \A g, h \in active : since[g] = since[h] => g = h
  /\ \A h \in active : since[h] <= opens
  /\ cpc = "detach" => phid \in active

NumberInv ==
  /\ \A h \in active \cup opened : specific[h] = "serial" /\ <<h, serial[h]>> \in Opens
  /\ \A h \in DOMAIN matches : <<h, dev>> \in Opens
  /\ cpc \notin {"attach", "open"} => DOMAIN matches = {}

RegisteredInv == ListInv /\ (OwnNumbers => NumberInv)

(* A device that the handle asked for is there, and nobody else has it. *)
Offered(h) ==
  \/ h \in attached
  \/ \E d \in bus : /\ specific[h] = "serial" => serial[h] = d
                    /\ \A g \in attached : serial[g] # d

(***************************************************************************)
(* A handle that stays registered while a device it asked for stays        *)
(* available is attached in the end, whatever failed before.               *)
(***************************************************************************)
WaitingIsServed ==
  \A h \in Handles :
    <>[](mpc = "idle" /\ h \in active /\ Offered(h)) => []<>(h \in attached)

(***************************************************************************)
(* The loss of a device reaches every open handle that was attached to it. *)
(***************************************************************************)
LossNoticed ==
  \A d \in Devices :
    <>[](d \notin bus) => <>[](\A h \in opened \cap attached : serial[h] # d)

(***************************************************************************)
(* A USB error is repaired: the handle is cycled through a detach, or      *)
(* closed (cphidgetmanager.c:211-212).                                     *)
(***************************************************************************)
ErrorRecycled ==
  \A h \in Handles : h \in attached \cap error ~> h \notin attached \cap error

(***************************************************************************)
(* CPhidget_close of the last handle waits for the central thread to exit  *)
(* (cphidget.c:504), and returns.                                          *)
(***************************************************************************)
LastCloseReturns == mpc = "join" ~> mpc = "idle"
=============================================================================
