---------------------------- MODULE Attach_proofs ----------------------------
(***************************************************************************)
(* Proofs about Attach, for any handles, devices, calls and bounds: what   *)
(* TLC checks on two handles and two devices.                              *)
(***************************************************************************)
EXTENDS Attach, TLAPS

LEMMA NoMatchEmpty == DOMAIN NoMatch = {} /\ NoMatch \in [DOMAIN NoMatch -> Nat]
  BY DEF NoMatch

LEMMA InitType == Init => TypeOK
<1> SUFFICES ASSUME Init PROVE TypeOK
  OBVIOUS
<1>1. matches = NoMatch
  BY DEF Init
<1>2. DOMAIN matches \subseteq Handles /\ matches \in [DOMAIN matches -> Nat]
  BY <1>1, NoMatchEmpty
<1>3. since \in [Handles -> 0..MaxOpens]
  BY AttachAssumption DEF Init
<1>4. /\ specific \in [Handles -> {"any", "serial", "anyAttached"}]
      /\ serial \in [Handles -> Devices \cup {Any}]
  BY DEF Init
<1>5. /\ events \in 0..MaxEvents /\ opens \in 0..MaxOpens
      /\ bus \subseteq Devices
  BY AttachAssumption DEF Init
<1>6. QED
  BY <1>2, <1>3, <1>4, <1>5 DEF Init, TypeOK

LEMMA NextType ==
  ASSUME TypeOK, [Next]_vars
  PROVE  TypeOK'
<1>1. ASSUME NEW c \in Opens, Open(c[1], c[2]) PROVE TypeOK'
  BY <1>1, AttachAssumption DEF TypeOK, Open,
     handle, main, find, list, bounds, central
<1>2. CASE OpenEnd
  BY <1>2, AttachAssumption DEF TypeOK, OpenEnd, Return,
     handle, main, find, list, bounds, central
<1>3. ASSUME NEW h \in Closes, Close(h) PROVE TypeOK'
  BY <1>3, AttachAssumption DEF TypeOK, Close, Without, First,
     handle, main, find, list, bounds, central
<1>4. CASE CloseDown
  BY <1>4, AttachAssumption DEF TypeOK, CloseDown, Return,
     handle, main, find, list, bounds, central
<1>5. CASE CloseJoin
  BY <1>5, AttachAssumption DEF TypeOK, CloseJoin, Return,
     handle, main, find, list, bounds, central
<1>6. CASE Stop
  BY <1>6, AttachAssumption DEF TypeOK, Stop,
     handle, main, find, list, bounds, central
<1>7. CASE Enumerate
  BY <1>7, AttachAssumption DEF TypeOK, Enumerate,
     handle, main, find, list, bounds, central
<1>8. ASSUME NEW d \in Devices, PollVisit(d) PROVE TypeOK'
  BY <1>8, AttachAssumption DEF TypeOK, PollVisit, Waiting, Place,
     handle, main, find, list, bounds, central
<1>9. CASE AttachBegin
  BY <1>9, AttachAssumption DEF TypeOK, AttachBegin,
     handle, main, find, list, bounds, central
<1>10. CASE AttachSucceed
  BY <1>10, AttachAssumption DEF TypeOK, AttachSucceed, NoMatch,
     handle, main, find, list, bounds, central
<1>11. CASE AttachFail
  BY <1>11, AttachAssumption DEF TypeOK, AttachFail,
     handle, main, find, list, bounds, central
<1>12. CASE AttachDone
  BY <1>12, AttachAssumption DEF TypeOK, AttachDone,
     handle, main, find, list, bounds, central
<1>13. CASE CheckError
  <2>1. gone' \subseteq Devices
    BY <1>13 DEF TypeOK, CheckError
  <2>2. /\ UNCHANGED <<bus, known, list, handle, main, todo, polling, matches, phid, bounds>>
        /\ cpc' = "visit" /\ dev' = Any /\ cpc = "check"
    BY <1>13 DEF CheckError
  <2>3. QED
    BY <2>1, <2>2 DEF TypeOK, handle, main, find, list, bounds, central
<1>14. ASSUME NEW d \in Devices, DetachBegin(d) PROVE TypeOK'
  BY <1>14, AttachAssumption DEF TypeOK, DetachBegin, First,
     handle, main, find, list, bounds, central
<1>15. CASE DetachDown
  BY <1>15, AttachAssumption DEF TypeOK, DetachDown,
     handle, main, find, list, bounds, central
<1>16. CASE DetachClear
  BY <1>16, AttachAssumption DEF TypeOK, DetachClear,
     handle, main, find, list, bounds, central
<1>17. CASE PollEnd
  BY <1>17, AttachAssumption DEF TypeOK, PollEnd,
     handle, main, find, list, bounds, central
<1>18. ASSUME NEW d \in Devices, FindVisit(d) PROVE TypeOK'
  BY <1>18, AttachAssumption DEF TypeOK, FindVisit, Waiting, Place,
     handle, main, find, list, bounds, central
<1>19. CASE FindEnd
  BY <1>19, AttachAssumption DEF TypeOK, FindEnd,
     handle, main, find, list, bounds, central
<1>20. CASE Bus
  BY <1>20, AttachAssumption DEF TypeOK, Bus, Plug, Unplug, Fail,
     handle, main, find, list, bounds, central
<1>21. CASE UNCHANGED vars
  BY <1>21 DEF TypeOK, vars,
     handle, main, find, list, bounds, central
<1>22. QED
  BY <1>1, <1>2, <1>3, <1>4, <1>5, <1>6, <1>7, <1>8, <1>9, <1>10, <1>11, <1>12, <1>13, <1>14, <1>15, <1>16, <1>17, <1>18, <1>19, <1>20, <1>21
     DEF Next, Main, Central

(* Every variable of Attach stays in its range.                            *)
THEOREM TypeCorrect == Spec => []TypeOK
  BY InitType, NextType, PTL DEF Spec
-----------------------------------------------------------------------------
(* The life of the central thread.                                         *)
LEMMA InitCentral == Init => CentralInv
  BY DEF Init, CentralInv, CentralRuns

LEMMA NextCentral ==
  ASSUME CentralInv, [Next]_vars
  PROVE  CentralInv'
<1>1. ASSUME NEW c \in Opens, Open(c[1], c[2]) PROVE CentralInv'
  BY <1>1 DEF CentralInv, CentralRuns, Open,
     handle, main, find, list, bounds, central
<1>2. CASE OpenEnd
  BY <1>2 DEF CentralInv, CentralRuns, OpenEnd, Return,
     handle, main, find, list, bounds, central
<1>3. ASSUME NEW h \in Closes, Close(h) PROVE CentralInv'
  BY <1>3 DEF CentralInv, CentralRuns, Close, Without, First,
     handle, main, find, list, bounds, central
<1>4. CASE CloseDown
  BY <1>4 DEF CentralInv, CentralRuns, CloseDown, Return,
     handle, main, find, list, bounds, central
<1>5. CASE CloseJoin
  BY <1>5 DEF CentralInv, CentralRuns, CloseJoin, Return,
     handle, main, find, list, bounds, central
<1>6. CASE Stop
  BY <1>6 DEF CentralInv, CentralRuns, Stop,
     handle, main, find, list, bounds, central
<1>7. CASE Enumerate
  BY <1>7 DEF CentralInv, CentralRuns, Enumerate,
     handle, main, find, list, bounds, central
<1>8. ASSUME NEW d \in Devices, PollVisit(d) PROVE CentralInv'
  BY <1>8 DEF CentralInv, CentralRuns, PollVisit, Waiting, Place,
     handle, main, find, list, bounds, central
<1>9. CASE AttachBegin
  BY <1>9 DEF CentralInv, CentralRuns, AttachBegin,
     handle, main, find, list, bounds, central
<1>10. CASE AttachSucceed
  BY <1>10 DEF CentralInv, CentralRuns, AttachSucceed, NoMatch,
     handle, main, find, list, bounds, central
<1>11. CASE AttachFail
  BY <1>11 DEF CentralInv, CentralRuns, AttachFail,
     handle, main, find, list, bounds, central
<1>12. CASE AttachDone
  BY <1>12 DEF CentralInv, CentralRuns, AttachDone,
     handle, main, find, list, bounds, central
<1>13. CASE CheckError
  BY <1>13 DEF CentralInv, CentralRuns, CheckError,
     handle, main, find, list, bounds, central
<1>14. ASSUME NEW d \in Devices, DetachBegin(d) PROVE CentralInv'
  BY <1>14 DEF CentralInv, CentralRuns, DetachBegin, First,
     handle, main, find, list, bounds, central
<1>15. CASE DetachDown
  BY <1>15 DEF CentralInv, CentralRuns, DetachDown,
     handle, main, find, list, bounds, central
<1>16. CASE DetachClear
  BY <1>16 DEF CentralInv, CentralRuns, DetachClear,
     handle, main, find, list, bounds, central
<1>17. CASE PollEnd
  BY <1>17 DEF CentralInv, CentralRuns, PollEnd,
     handle, main, find, list, bounds, central
<1>18. ASSUME NEW d \in Devices, FindVisit(d) PROVE CentralInv'
  BY <1>18 DEF CentralInv, CentralRuns, FindVisit, Waiting, Place,
     handle, main, find, list, bounds, central
<1>19. CASE FindEnd
  BY <1>19 DEF CentralInv, CentralRuns, FindEnd,
     handle, main, find, list, bounds, central
<1>20. CASE Bus
  BY <1>20 DEF CentralInv, CentralRuns, Bus, Plug, Unplug, Fail,
     handle, main, find, list, bounds, central
<1>21. CASE UNCHANGED vars
  BY <1>21 DEF CentralInv, CentralRuns, vars,
     handle, main, find, list, bounds, central
<1>22. QED
  BY <1>1, <1>2, <1>3, <1>4, <1>5, <1>6, <1>7, <1>8, <1>9, <1>10, <1>11, <1>12, <1>13, <1>14, <1>15, <1>16, <1>17, <1>18, <1>19, <1>20, <1>21
     DEF Next, Main, Central

(* Between two calls the central thread of the library runs if and only if *)
(* a handle is registered, whatever Closes takes out of the list.          *)
THEOREM ThreadLives == Spec => []CentralRuns
<1>1. CentralInv => CentralRuns
  BY DEF CentralInv
<1>2. QED
  BY <1>1, InitCentral, NextCentral, PTL DEF Spec
-----------------------------------------------------------------------------
(* Owners.                                                                 *)
LEMMA InitOwner == Init => OwnerInv
  BY NoMatchEmpty DEF Init, OwnerInv, OneOwner

LEMMA NextOwner ==
  ASSUME TypeOK, OwnerInv, [Next]_vars
  PROVE  OwnerInv'
<1>1. ASSUME NEW c \in Opens, Open(c[1], c[2]) PROVE OwnerInv'
  BY <1>1, AttachAssumption, NoMatchEmpty DEF TypeOK, OwnerInv, OneOwner, Claimed, MainHolds, CentralHolds, Open,
     handle, main, find, list, bounds, central
<1>2. CASE OpenEnd
  BY <1>2, AttachAssumption, NoMatchEmpty DEF TypeOK, OwnerInv, OneOwner, Claimed, MainHolds, CentralHolds, OpenEnd, Return,
     handle, main, find, list, bounds, central
<1>3. ASSUME NEW h \in Closes, Close(h) PROVE OwnerInv'
  BY <1>3, AttachAssumption, NoMatchEmpty DEF TypeOK, OwnerInv, OneOwner, Claimed, MainHolds, CentralHolds, Close, Without, First,
     handle, main, find, list, bounds, central
<1>4. CASE CloseDown
  BY <1>4, AttachAssumption, NoMatchEmpty DEF TypeOK, OwnerInv, OneOwner, Claimed, MainHolds, CentralHolds, CloseDown, Return,
     handle, main, find, list, bounds, central
<1>5. CASE CloseJoin
  BY <1>5, AttachAssumption, NoMatchEmpty DEF TypeOK, OwnerInv, OneOwner, Claimed, MainHolds, CentralHolds, CloseJoin, Return,
     handle, main, find, list, bounds, central
<1>6. CASE Stop
  BY <1>6, AttachAssumption, NoMatchEmpty DEF TypeOK, OwnerInv, OneOwner, Claimed, MainHolds, CentralHolds, Stop,
     handle, main, find, list, bounds, central
<1>7. CASE Enumerate
  BY <1>7, AttachAssumption, NoMatchEmpty DEF TypeOK, OwnerInv, OneOwner, Claimed, MainHolds, CentralHolds, Enumerate,
     handle, main, find, list, bounds, central
<1>8. ASSUME NEW d \in Devices, PollVisit(d) PROVE OwnerInv'
  BY <1>8, AttachAssumption, NoMatchEmpty DEF TypeOK, OwnerInv, OneOwner, Claimed, MainHolds, CentralHolds, PollVisit, Waiting, Place,
     handle, main, find, list, bounds, central
<1>9. CASE AttachBegin
  <2>1. PICK h \in DOMAIN matches :
          /\ ~MainHolds(h)
          /\ matches' = [g \in DOMAIN matches \ {h} |-> matches[g]]
          /\ \/ /\ h \notin opened
                /\ UNCHANGED <<specific, serial, cpc, phid>>
             \/ /\ h \in opened
                /\ serial' = [serial EXCEPT ![h] = dev]
                /\ cpc' = "open" /\ phid' = h
    BY <1>9 DEF AttachBegin
  <2>2. /\ UNCHANGED <<opened, attached, broken, main, dev>>
        /\ cpc = "attach"
    BY <1>9 DEF AttachBegin
  <2>3. h \in Handles /\ h \notin attached /\ serial \in [Handles -> Devices \cup {Any}]
    BY <2>1 DEF TypeOK, OwnerInv
  <2>4. \A g \in attached : serial'[g] = serial[g]
    BY <2>1, <2>3 DEF TypeOK
  <2>5. OneOwner'
    BY <2>2, <2>4 DEF OwnerInv, OneOwner
  <2>6. \A g \in DOMAIN matches' : g \notin attached'
    BY <2>1, <2>2 DEF OwnerInv
  <2>7. cpc' = "open" => /\ phid' \in opened' \ attached' /\ serial'[phid'] = dev'
                         /\ mpc' # "idle" => mh' # phid'
    BY <2>1, <2>2, <2>3 DEF MainHolds, main
  <2>8. QED
    BY <2>2, <2>5, <2>6, <2>7 DEF OwnerInv, main
<1>10. CASE AttachSucceed
  BY <1>10, AttachAssumption, NoMatchEmpty DEF TypeOK, OwnerInv, OneOwner, Claimed, MainHolds, CentralHolds, AttachSucceed, NoMatch,
     handle, main, find, list, bounds, central
<1>11. CASE AttachFail
  <2>1. /\ UNCHANGED <<opened, attached, broken, main, find>>
        /\ cpc = "open" /\ cpc' = "attach" /\ phid \notin attached /\ phid \in Handles
    BY <1>11 DEF AttachFail, OwnerInv, TypeOK
  <2>2. \A g \in attached : serial'[g] = serial[g]
    BY <1>11, <2>1 DEF TypeOK, AttachFail
  <2>3. OneOwner'
    BY <2>1, <2>2 DEF OwnerInv, OneOwner
  <2>4. QED
    BY <2>1, <2>3 DEF OwnerInv, main, find
<1>12. CASE AttachDone
  BY <1>12, AttachAssumption, NoMatchEmpty DEF TypeOK, OwnerInv, OneOwner, Claimed, MainHolds, CentralHolds, AttachDone,
     handle, main, find, list, bounds, central
<1>13. CASE CheckError
  BY <1>13, AttachAssumption, NoMatchEmpty DEF TypeOK, OwnerInv, OneOwner, Claimed, MainHolds, CentralHolds, CheckError,
     handle, main, find, list, bounds, central
<1>14. ASSUME NEW d \in Devices, DetachBegin(d) PROVE OwnerInv'
  BY <1>14, AttachAssumption, NoMatchEmpty DEF TypeOK, OwnerInv, OneOwner, Claimed, MainHolds, CentralHolds, DetachBegin, First,
     handle, main, find, list, bounds, central
<1>15. CASE DetachDown
  BY <1>15, AttachAssumption, NoMatchEmpty DEF TypeOK, OwnerInv, OneOwner, Claimed, MainHolds, CentralHolds, DetachDown,
     handle, main, find, list, bounds, central
<1>16. CASE DetachClear
  BY <1>16, AttachAssumption, NoMatchEmpty DEF TypeOK, OwnerInv, OneOwner, Claimed, MainHolds, CentralHolds, DetachClear,
     handle, main, find, list, bounds, central
<1>17. CASE PollEnd
  BY <1>17, AttachAssumption, NoMatchEmpty DEF TypeOK, OwnerInv, OneOwner, Claimed, MainHolds, CentralHolds, PollEnd,
     handle, main, find, list, bounds, central
<1>18. ASSUME NEW d \in Devices, FindVisit(d) PROVE OwnerInv'
  BY <1>18, AttachAssumption, NoMatchEmpty DEF TypeOK, OwnerInv, OneOwner, Claimed, MainHolds, CentralHolds, FindVisit, Waiting, Place,
     handle, main, find, list, bounds, central
<1>19. CASE FindEnd
  BY <1>19, AttachAssumption, NoMatchEmpty DEF TypeOK, OwnerInv, OneOwner, Claimed, MainHolds, CentralHolds, FindEnd,
     handle, main, find, list, bounds, central
<1>20. CASE Bus
  BY <1>20, AttachAssumption, NoMatchEmpty DEF TypeOK, OwnerInv, OneOwner, Claimed, MainHolds, CentralHolds, Bus, Plug, Unplug, Fail,
     handle, main, find, list, bounds, central
<1>21. CASE UNCHANGED vars
  BY <1>21 DEF TypeOK, OwnerInv, OneOwner, Claimed, MainHolds, CentralHolds, vars,
     handle, main, find, list, bounds, central
<1>22. QED
  BY <1>1, <1>2, <1>3, <1>4, <1>5, <1>6, <1>7, <1>8, <1>9, <1>10, <1>11, <1>12, <1>13, <1>14, <1>15, <1>16, <1>17, <1>18, <1>19, <1>20, <1>21
     DEF Next, Main, Central

(* No device is worked on through two handles at once, even if both were   *)
(* opened with -1, devices come back and attachments fail.                 *)
THEOREM DeviceHasOneOwner == Spec => []OneOwner
<1>1. OwnerInv => OneOwner
  BY DEF OwnerInv
<1>2. QED
  BY <1>1, InitType, NextType, InitOwner, NextOwner, PTL DEF Spec
-----------------------------------------------------------------------------
(* Registration.                                                           *)
LEMMA InitRegistered == Init => RegisteredInv
  BY NoMatchEmpty DEF Init, RegisteredInv, ListInv, NumberInv

LEMMA NextOwnNumbers ==
  ASSUME OwnNumbers, TypeOK, OwnerInv, RegisteredInv, [Next]_vars
  PROVE  RegisteredInv'
<1>1. ASSUME NEW c \in Opens, Open(c[1], c[2]) PROVE RegisteredInv'
  <2> DEFINE h == c[1]
             s == c[2]
  <2>1. /\ h \in Handles /\ <<h, s>> \in Opens /\ c = <<h, s>>
    BY AttachAssumption
  <2>2. /\ mpc = "idle" /\ h \notin opened /\ active = opened
    BY <1>1 DEF Open, RegisteredInv, ListInv
  <2>3. \A g \in active : g # h /\ specific[g] = "serial" /\ serial[g] # s
    BY <2>1, <2>2 DEF OwnNumbers, RegisteredInv, NumberInv
  <2>4. /\ active' = active \cup {h} /\ since' = [since EXCEPT ![h] = opens']
        /\ mpc' = "start" /\ mh' = h /\ opened' = opened
    BY <1>1, <2>3 DEF Open
  <2>5. /\ opens' = opens + 1 /\ cpc # "detach" /\ cpc' # "detach"
        /\ specific' = [specific EXCEPT ![h] = IF s = Any THEN "any" ELSE "serial"]
        /\ serial' = [serial EXCEPT ![h] = s]
        /\ UNCHANGED <<cpc, find, phid>>
    BY <1>1 DEF Open, ActiveFree, central
  <2>6. ListInv'
    <3>1. \A g \in active : since'[g] = since[g] /\ since[g] <= opens /\ since[g] \in Nat
      BY <2>2, <2>4, <2>1 DEF TypeOK, RegisteredInv, ListInv
    <3>2. since'[h] = opens + 1 /\ opens \in Nat
      BY <2>1, <2>4, <2>5 DEF TypeOK
    <3>3. /\ \A g \in active' : since'[g] <= opens'
          /\ \A g, f \in active' : since'[g] = since'[f] => g = f
      BY <3>1, <3>2, <2>4, <2>5 DEF RegisteredInv, ListInv
    <3>4. QED
      BY <3>3, <2>2, <2>4, <2>5 DEF ListInv
  <2>7. NumberInv'
    <3>1. s # Any
      BY <2>1 DEF OwnNumbers
    <3>2. specific'[h] = "serial" /\ serial'[h] = s
      BY <3>1, <2>1, <2>5 DEF TypeOK
    <3>3. \A g \in active \cup opened :
             specific'[g] = specific[g] /\ serial'[g] = serial[g]
      BY <2>2, <2>5 DEF TypeOK
    <3>4. \A g \in active' \cup opened' : specific'[g] = "serial" /\ <<g, serial'[g]>> \in Opens
      BY <3>2, <3>3, <2>1, <2>4 DEF RegisteredInv, NumberInv
    <3>5. QED
      BY <3>4, <2>5 DEF RegisteredInv, NumberInv, find
  <2>8. QED
    BY <2>5, <2>6, <2>7 DEF RegisteredInv
<1>2. CASE OpenEnd
  BY <1>2, AttachAssumption, NoMatchEmpty DEF TypeOK, OwnerInv, RegisteredInv, ListInv, NumberInv, OwnNumbers, MainHolds, CentralHolds, ActiveFree, OpenEnd, Return,
     handle, main, find, list, bounds, central
<1>3. ASSUME NEW h \in Closes, Close(h) PROVE RegisteredInv'
  <2>1. /\ mpc = "idle" /\ h \in opened /\ active = opened /\ cpc # "detach"
        /\ active' = Without(h) /\ mpc' = "down" /\ mh' = h
        /\ UNCHANGED <<since, handle, central, bounds>>
    BY <1>3 DEF Close, ActiveFree, RegisteredInv, ListInv
  <2>2. \A g \in active : areEqual(h, g) <=> g = h
    BY <2>1 DEF areEqual, OwnNumbers, RegisteredInv, NumberInv
  <2>3. First(active) \cap {h} # {} => First(active) = {h}
    BY <2>1 DEF First, RegisteredInv, ListInv, TypeOK
  <2>4. {g \in active : areEqual(h, g)} = {h}
    BY <2>1, <2>2
  <2>5. active' = opened \ {h}
    BY <2>1, <2>3, <2>4 DEF Without
  <2>6. ListInv'
    BY <2>1, <2>5 DEF RegisteredInv, ListInv, handle, central, bounds
  <2>7. NumberInv'
    BY <2>1, <2>5 DEF RegisteredInv, NumberInv, handle, central, find
  <2>8. QED
    BY <2>1, <2>6, <2>7 DEF RegisteredInv, central
<1>4. CASE CloseDown
  <2>1. mpc = "down" /\ mh \in opened /\ active = opened \ {mh} /\ specific[mh] = "serial"
    BY <1>4 DEF CloseDown, RegisteredInv, ListInv, NumberInv
  <2>2. /\ UNCHANGED <<specific, serial, list, central, bounds>>
        /\ \/ mpc' = "join" /\ UNCHANGED <<mh, opened>>
           \/ mpc' = "idle" /\ opened' = opened \ {mh}
    BY <1>4, <2>1 DEF CloseDown, Return
  <2>3. ListInv'
    BY <2>1, <2>2 DEF RegisteredInv, ListInv, list, central, bounds
  <2>4. NumberInv'
    BY <2>1, <2>2 DEF RegisteredInv, NumberInv, list, central, find
  <2>5. QED
    BY <2>2, <2>3, <2>4 DEF RegisteredInv, list, central
<1>5. CASE CloseJoin
  BY <1>5, AttachAssumption, NoMatchEmpty DEF TypeOK, OwnerInv, RegisteredInv, ListInv, NumberInv, OwnNumbers, MainHolds, CentralHolds, ActiveFree, CloseJoin, Return,
     handle, main, find, list, bounds, central
<1>6. CASE Stop
  BY <1>6, AttachAssumption, NoMatchEmpty DEF TypeOK, OwnerInv, RegisteredInv, ListInv, NumberInv, OwnNumbers, MainHolds, CentralHolds, ActiveFree, Stop,
     handle, main, find, list, bounds, central
<1>7. CASE Enumerate
  BY <1>7, AttachAssumption, NoMatchEmpty DEF TypeOK, OwnerInv, RegisteredInv, ListInv, NumberInv, OwnNumbers, MainHolds, CentralHolds, ActiveFree, Enumerate,
     handle, main, find, list, bounds, central
<1>8. ASSUME NEW d \in Devices, PollVisit(d) PROVE RegisteredInv'
  BY <1>8, AttachAssumption, NoMatchEmpty DEF TypeOK, OwnerInv, RegisteredInv, ListInv, NumberInv, OwnNumbers, MainHolds, CentralHolds, ActiveFree, PollVisit, Waiting, Place,
     handle, main, find, list, bounds, central
<1>9. CASE AttachBegin
  <2>1. PICK h \in DOMAIN matches :
          /\ matches' = [g \in DOMAIN matches \ {h} |-> matches[g]]
          /\ \/ /\ h \notin opened
                /\ UNCHANGED <<specific, serial, cpc, phid>>
             \/ /\ h \in opened
                /\ specific' = [specific EXCEPT ![h] = IF specific[h] = "any" THEN "anyAttached" ELSE specific[h]]
                /\ serial' = [serial EXCEPT ![h] = dev]
                /\ cpc' = "open" /\ phid' = h
    BY <1>9 DEF AttachBegin
  <2>2. UNCHANGED <<list, opened, main, dev, bounds>> /\ cpc = "attach"
    BY <1>9 DEF AttachBegin
  <2>3. h \in Handles /\ <<h, dev>> \in Opens
    BY <2>1 DEF TypeOK, RegisteredInv, NumberInv
  <2>4. \A g \in active \cup opened :
           specific'[g] = specific[g] /\ (serial'[g] = serial[g] \/ (g = h /\ serial'[g] = dev))
    <3>1. \A g \in active \cup opened : g \in Handles /\ specific[g] = "serial"
      BY DEF TypeOK, RegisteredInv, NumberInv
    <3>2. CASE h \notin opened
      BY <2>1, <3>2
    <3>3. CASE h \in opened
      BY <2>1, <2>3, <3>1, <3>3 DEF TypeOK
    <3>4. QED
      BY <3>2, <3>3
  <2>5. \A g \in active' \cup opened' : specific'[g] = "serial" /\ <<g, serial'[g]>> \in Opens
    BY <2>2, <2>3, <2>4 DEF RegisteredInv, NumberInv, list
  <2>6. NumberInv'
    BY <2>1, <2>2, <2>5 DEF RegisteredInv, NumberInv
  <2>7. ListInv'
    BY <2>1, <2>2 DEF RegisteredInv, ListInv, list, main, bounds
  <2>8. QED
    BY <2>1, <2>2, <2>6, <2>7 DEF RegisteredInv
<1>10. CASE AttachSucceed
  BY <1>10, AttachAssumption, NoMatchEmpty DEF TypeOK, OwnerInv, RegisteredInv, ListInv, NumberInv, OwnNumbers, MainHolds, CentralHolds, ActiveFree, AttachSucceed, NoMatch,
     handle, main, find, list, bounds, central
<1>11. CASE AttachFail
  BY <1>11, AttachAssumption, NoMatchEmpty DEF TypeOK, OwnerInv, RegisteredInv, ListInv, NumberInv, OwnNumbers, MainHolds, CentralHolds, ActiveFree, AttachFail,
     handle, main, find, list, bounds, central
<1>12. CASE AttachDone
  BY <1>12, AttachAssumption, NoMatchEmpty DEF TypeOK, OwnerInv, RegisteredInv, ListInv, NumberInv, OwnNumbers, MainHolds, CentralHolds, ActiveFree, AttachDone,
     handle, main, find, list, bounds, central
<1>13. CASE CheckError
  BY <1>13, AttachAssumption, NoMatchEmpty DEF TypeOK, OwnerInv, RegisteredInv, ListInv, NumberInv, OwnNumbers, MainHolds, CentralHolds, ActiveFree, CheckError,
     handle, main, find, list, bounds, central
<1>14. ASSUME NEW d \in Devices, DetachBegin(d) PROVE RegisteredInv'
  BY <1>14, AttachAssumption, NoMatchEmpty DEF TypeOK, OwnerInv, RegisteredInv, ListInv, NumberInv, OwnNumbers, MainHolds, CentralHolds, ActiveFree, DetachBegin, First,
     handle, main, find, list, bounds, central
<1>15. CASE DetachDown
  BY <1>15, AttachAssumption, NoMatchEmpty DEF TypeOK, OwnerInv, RegisteredInv, ListInv, NumberInv, OwnNumbers, MainHolds, CentralHolds, ActiveFree, DetachDown,
     handle, main, find, list, bounds, central
<1>16. CASE DetachClear
  BY <1>16, AttachAssumption, NoMatchEmpty DEF TypeOK, OwnerInv, RegisteredInv, ListInv, NumberInv, OwnNumbers, MainHolds, CentralHolds, ActiveFree, DetachClear,
     handle, main, find, list, bounds, central
<1>17. CASE PollEnd
  BY <1>17, AttachAssumption, NoMatchEmpty DEF TypeOK, OwnerInv, RegisteredInv, ListInv, NumberInv, OwnNumbers, MainHolds, CentralHolds, ActiveFree, PollEnd,
     handle, main, find, list, bounds, central
<1>18. ASSUME NEW d \in Devices, FindVisit(d) PROVE RegisteredInv'
  BY <1>18, AttachAssumption, NoMatchEmpty DEF TypeOK, OwnerInv, RegisteredInv, ListInv, NumberInv, OwnNumbers, MainHolds, CentralHolds, ActiveFree, FindVisit, Waiting, Place,
     handle, main, find, list, bounds, central
<1>19. CASE FindEnd
  BY <1>19, AttachAssumption, NoMatchEmpty DEF TypeOK, OwnerInv, RegisteredInv, ListInv, NumberInv, OwnNumbers, MainHolds, CentralHolds, ActiveFree, FindEnd,
     handle, main, find, list, bounds, central
<1>20. CASE Bus
  BY <1>20, AttachAssumption, NoMatchEmpty DEF TypeOK, OwnerInv, RegisteredInv, ListInv, NumberInv, OwnNumbers, MainHolds, CentralHolds, ActiveFree, Bus, Plug, Unplug, Fail,
     handle, main, find, list, bounds, central
<1>21. CASE UNCHANGED vars
  BY <1>21 DEF TypeOK, OwnerInv, RegisteredInv, ListInv, NumberInv, OwnNumbers, MainHolds, CentralHolds, ActiveFree, vars,
     handle, main, find, list, bounds, central
<1>22. QED
  BY <1>1, <1>2, <1>3, <1>4, <1>5, <1>6, <1>7, <1>8, <1>9, <1>10, <1>11, <1>12, <1>13, <1>14, <1>15, <1>16, <1>17, <1>18, <1>19, <1>20, <1>21
     DEF Next, Main, Central

(* With -1 the handles in the list are put in one after the other.         *)
LEMMA NextAnyNumber ==
  ASSUME AnyNumber, TypeOK, ListInv, [Next]_vars, [HeadFirst]_vars
  PROVE  ListInv'
<1>1. ASSUME NEW c \in Opens, Open(c[1], c[2]) PROVE ListInv'
  <2> DEFINE h == c[1]
  <2>1. h \in Handles /\ c[2] = Any
    BY AttachAssumption DEF AnyNumber
  <2>2. mpc = "idle" /\ h \notin opened /\ active = opened
    BY <1>1 DEF Open, ListInv
  <2>3. /\ active' = active \cup {h} /\ since' = [since EXCEPT ![h] = opens']
        /\ mpc' = "start" /\ mh' = h /\ opened' = opened
        /\ opens' = opens + 1 /\ cpc' # "detach"
    BY <1>1, <2>1, <2>2 DEF Open, ActiveFree, central
  <2>4. \A g \in active : since'[g] = since[g] /\ since[g] <= opens /\ since[g] \in Nat
    BY <2>1, <2>2, <2>3 DEF TypeOK, ListInv
  <2>5. since'[h] = opens + 1 /\ opens \in Nat
    BY <2>1, <2>3 DEF TypeOK
  <2>6. /\ \A g \in active' : since'[g] <= opens'
        /\ \A g, f \in active' : since'[g] = since'[f] => g = f
    BY <2>3, <2>4, <2>5 DEF ListInv
  <2>7. QED
    BY <2>2, <2>3, <2>6 DEF ListInv
<1>2. ASSUME NEW h \in Closes, Close(h) PROVE ListInv'
  <2>1. /\ mpc = "idle" /\ h \in opened /\ active = opened /\ cpc' # "detach"
        /\ active' = Without(h) /\ mpc' = "down" /\ mh' = h
        /\ UNCHANGED <<since, opened, opens>>
    BY <1>2 DEF Close, ActiveFree, ListInv, central, handle, bounds
  <2>2. First(active) = {h}
    <3>1. vars' # vars
      BY <2>1 DEF vars, main
    <3>2. QED
      BY <1>2, <3>1 DEF HeadFirst
  <2>3. h \in {g \in active : areEqual(h, g)}
    BY <2>1 DEF areEqual
  <2>4. active' = opened \ {h}
    BY <2>1, <2>2, <2>3 DEF Without
  <2>5. QED
    BY <2>1, <2>4 DEF ListInv
<1>3. CASE OpenEnd \/ CloseDown \/ CloseJoin
  BY <1>3 DEF ListInv, OpenEnd, CloseDown, CloseJoin, Return,
     handle, main, find, list, bounds, central
<1>4. CASE Central \/ Bus
  <2>1. UNCHANGED <<list, opened, main, opens>>
    BY <1>4 DEF Central, Stop, Enumerate, AttachBegin, AttachSucceed, AttachFail, AttachDone,
       CheckError, DetachDown, DetachClear, PollEnd, FindEnd, PollVisit, DetachBegin, FindVisit,
       Bus, handle, main, bounds
  <2>2. cpc' = "detach" => phid' \in active
    BY <1>4 DEF Central, Stop, Enumerate, AttachBegin, AttachSucceed, AttachFail, AttachDone,
       CheckError, DetachDown, DetachClear, PollEnd, FindEnd, PollVisit, DetachBegin, FindVisit,
       Bus, First, ListInv, central
  <2>3. QED
    BY <2>1, <2>2 DEF ListInv, list, main
<1>5. CASE UNCHANGED vars
  BY <1>5 DEF ListInv, vars, handle, main, list, bounds, central
<1>6. QED
  BY <1>1, <1>2, <1>3, <1>4, <1>5 DEF Next, Main

LEMMA AlwaysListed ==
  /\ OwnNumbers => (Spec => []ListInv)
  /\ AnyNumber => (Spec /\ [][HeadFirst]_vars => []ListInv)
<1>1. ASSUME OwnNumbers PROVE Spec => []ListInv
  <2>1. TypeOK /\ OwnerInv /\ RegisteredInv /\ [Next]_vars => RegisteredInv'
    BY <1>1, NextOwnNumbers
  <2>2. RegisteredInv => ListInv
    BY DEF RegisteredInv
  <2>3. QED
    BY <2>1, <2>2, InitType, NextType, InitOwner, NextOwner, InitRegistered, PTL DEF Spec
<1>2. ASSUME AnyNumber PROVE Spec /\ [][HeadFirst]_vars => []ListInv
  <2>1. TypeOK /\ ListInv /\ [Next]_vars /\ [HeadFirst]_vars => ListInv'
    BY <1>2, NextAnyNumber
  <2>2. Init => ListInv
    BY InitRegistered DEF RegisteredInv
  <2>3. QED
    BY <2>1, <2>2, InitType, NextType, PTL DEF Spec
<1>3. QED
  BY <1>1, <1>2

(***************************************************************************)
(* Between two calls the list is the set of the open handles: if the       *)
(* application gives each handle numbers of its own, and if it opens all   *)
(* of them with -1, as initStepper does, and closes none, or the one it    *)
(* opened first before the others.                                         *)
(***************************************************************************)
THEOREM ListIsOpened ==
  /\ OwnNumbers => (Spec => []Registered)
  /\ AnyNumber => (Spec /\ [][HeadFirst]_vars => []Registered)
<1>1. ListInv => Registered
  BY DEF ListInv, Registered
<1>2. OwnNumbers => (Spec => []Registered)
  <2>1. SUFFICES ASSUME OwnNumbers PROVE Spec => []Registered
    OBVIOUS
  <2>2. Spec => []ListInv
    BY <2>1, AlwaysListed
  <2>3. QED
    BY <1>1, <2>2, PTL
<1>3. AnyNumber => (Spec /\ [][HeadFirst]_vars => []Registered)
  <2>1. SUFFICES ASSUME AnyNumber PROVE Spec /\ [][HeadFirst]_vars => []Registered
    OBVIOUS
  <2>2. Spec /\ [][HeadFirst]_vars => []ListInv
    BY <2>1, AlwaysListed
  <2>3. QED
    BY <1>1, <2>2, PTL
<1>4. QED
  BY <1>2, <1>3

(* Then a handle that is being closed is not being detached as well.       *)
THEOREM TakenDownOnce ==
  /\ OwnNumbers => (Spec => []OneTeardown)
  /\ AnyNumber => (Spec /\ [][HeadFirst]_vars => []OneTeardown)
<1>1. ListInv => OneTeardown
  BY DEF ListInv, OneTeardown
<1>2. OwnNumbers => (Spec => []OneTeardown)
  <2>1. SUFFICES ASSUME OwnNumbers PROVE Spec => []OneTeardown
    OBVIOUS
  <2>2. Spec => []ListInv
    BY <2>1, AlwaysListed
  <2>3. QED
    BY <1>1, <2>2, PTL
<1>3. AnyNumber => (Spec /\ [][HeadFirst]_vars => []OneTeardown)
  <2>1. SUFFICES ASSUME AnyNumber PROVE Spec /\ [][HeadFirst]_vars => []OneTeardown
    OBVIOUS
  <2>2. Spec /\ [][HeadFirst]_vars => []ListInv
    BY <2>1, AlwaysListed
  <2>3. QED
    BY <1>1, <2>2, PTL
<1>4. QED
  BY <1>2, <1>3
=============================================================================
