--------------------------- MODULE KeyboardProofs ---------------------------
(***************************************************************************)
(* The keyboard driver's variables keep their ranges, and its requests are  *)
(* received in their order, for every set of reports and any number of      *)
(* resends and mishaps.                                                    *)
(***************************************************************************)
EXTENDS Keyboard, TransferListProofs

LEMMA PlaceType ==
  ASSUME list \in 1 .. Polling, NEW a
  PROVE  Place(a) \in Nat
<1>1. \A i \in DOMAIN Lists[list] : i \in Nat
  BY ListKinds
<1> QED BY <1>1 DEF Place, Astray

(* What is read from the words of the report.                               *)
LEMMA Words ==
  ASSUME NEW b \in Reports \cup {Blank}
  PROVE  b[1] \in {0, 1, Leftover} /\ b[2] \in {0, 1, Leftover}
<1>1. CASE b = Blank
  BY <1>1 DEF Blank
<1>2. CASE b \in Reports
  <2>1. b \in Seq({0, 1}) /\ Len(b) = 2
    BY <1>2, KeyboardAssumption
  <2> QED BY <2>1
<1> QED BY <1>1, <1>2

----------------------------------------------------------------------------

LEMMA InitInvariant == Init => IInv
<1> SUFFICES ASSUME Init PROVE IInv
  OBVIOUS
<1> USE DEF DriverOK, ControllerOK, KeyboardOK
<1>1. TypeOK
  <2>1. pc \in Places /\ step \in 1 .. Polling /\ resends \in 0 .. MaxResends /\ list \in 1 .. Polling
    BY KeyboardAssumption DEF Init, Places, Polling
  <2>2. code \in {0, 1, Leftover} \X {0, 1, Leftover} /\ td \in Nat
    BY DEF Init
  <2> QED BY <2>1, <2>2, KeyboardAssumption DEF Init, TypeOK
<1>2. Answering /\ Ordered /\ Addressed
  BY DEF Init, Answering, Ordered, Addressed, Written
<1> QED BY <1>1, <1>2 DEF IInv

(* A step of the driver.                                                    *)
LEMMA DriverType ==
  ASSUME IInv, Driver
  PROVE  TypeOK'
<1> USE DEF driver, memory, controller, port, device, DriverOK, ControllerOK, KeyboardOK
<1>1. /\ step \in 1 .. Polling /\ resends \in 0 .. MaxResends /\ MaxResends \in Nat /\ Polling = 10
      /\ NoKeys \in Reports
  BY KeyboardAssumption DEF IInv, TypeOK, Polling
<1>2. CASE UsbSoftReset
  <2>1. pc' \in Places /\ events' \subseteq Mishaps /\ td' \in Nat
    BY <1>2 DEF UsbSoftReset, Places
  <2>2. step' \in 1 .. Polling /\ resends' \in 0 .. MaxResends
    BY <1>1, <1>2 DEF UsbSoftReset
  <2>3. /\ msg' = None /\ flag' = FALSE
        /\ UNCHANGED <<got, low, code, toggle, memory, port, device>>
    BY <1>2 DEF UsbSoftReset
  <2>4. DriverOK'
    BY <2>1, <2>2, <2>3 DEF IInv, TypeOK
  <2>5. ControllerOK'
    BY <2>1, <2>2, <2>3 DEF IInv, TypeOK
  <2>6. KeyboardOK'
    BY <2>1, <2>2, <2>3 DEF IInv, TypeOK
  <2> QED BY <2>1, <2>4, <2>5, <2>6 DEF TypeOK
<1>3. CASE Sie1Init
  <2>1. pc' \in Places
    BY <1>3 DEF Sie1Init, Places
  <2>2. /\ mailbox' = "command" /\ msg' = None
        /\ UNCHANGED <<step, resends, got, low, code, toggle, memory, td, flag, plugged, device, events>>
    BY <1>3 DEF Sie1Init
  <2> QED BY <2>1, <2>2 DEF IInv, TypeOK
<1>4. CASE BusReset
  <2>1. pc' \in Places /\ events' \subseteq Mishaps
    BY <1>4 DEF BusReset, Refuse, IInv, TypeOK, Places, Mishaps
  <2>2. /\ address' \in {0, Unreset} /\ heard' = {} /\ configured' = FALSE /\ keys' = NoKeys
        /\ fresh' = FALSE /\ turn' = 0
        /\ UNCHANGED <<step, resends, got, low, code, toggle, memory, controller, port, bit>>
    BY <1>4 DEF BusReset
  <2>3. DriverOK'
    BY <1>1, <2>1, <2>2 DEF IInv, TypeOK
  <2>4. ControllerOK'
    BY <1>1, <2>1, <2>2 DEF IInv, TypeOK
  <2>5. KeyboardOK'
    BY <1>1, <2>1, <2>2 DEF IInv, TypeOK
  <2> QED BY <2>1, <2>3, <2>4, <2>5 DEF TypeOK
<1>5. CASE Presence \/ Inserted \/ Answered \/ NotDone \/ RetryWait
  <2>1. pc' \in Places
    BY <1>5 DEF Presence, Inserted, Answered, NotDone, RetryWait, AfterRetry, Places
  <2>2. UNCHANGED <<step, resends, got, low, code, toggle, memory, controller, port, device, events>>
    BY <1>5 DEF Presence, Inserted, Answered, NotDone, RetryWait
  <2> QED BY <2>1, <2>2 DEF IInv, TypeOK
<1>6. CASE WriteList
  <2>1. toggle' \in {0, 1} /\ list' \in 1 .. Polling /\ ctl' \in {"active", "ok", "other"}
    BY <1>1, <1>6 DEF WriteList, IInv, TypeOK
  <2>2. buf' \in Reports \cup {Blank} /\ pc' \in Places
    BY <1>6 DEF WriteList, IInv, TypeOK, Places
  <2> QED BY <1>6, <2>1, <2>2 DEF WriteList, IInv, TypeOK
<1>7. CASE StartList \/ StartStray
  <2>1. pc' \in Places
    BY <1>7 DEF StartList, StartStray, Places
  <2>2. td' \in Nat
    BY <1>7 DEF StartList, StartStray, Endpoint
  <2>3. events' \subseteq Mishaps
    BY <1>7 DEF StartList, StartStray, IInv, TypeOK, Mishaps
  <2>4. UNCHANGED <<step, resends, got, low, code, toggle, memory, msg, flag, port, device>>
    BY <1>7 DEF StartList, StartStray
  <2> QED BY <2>1, <2>2, <2>3, <2>4 DEF IInv, TypeOK
<1>8. CASE Resend
  BY <1>1, <1>8 DEF Resend, IInv, TypeOK, Places
<1>9. CASE ReadMessage
  <2>1. pc' \in Places
    BY <1>9 DEF ReadMessage, Places
  <2>2. /\ got' = msg /\ flag' \in BOOLEAN
        /\ UNCHANGED <<step, resends, low, code, toggle, memory, td, msg, port, device, events>>
    BY <1>9 DEF ReadMessage
  <2> QED BY <2>1, <2>2 DEF IInv, TypeOK
<1>10. CASE ClearMessage
  <2>1. pc' \in Places /\ events' \subseteq Mishaps
    BY <1>10 DEF ClearMessage, Unread, IInv, TypeOK, Places, Mishaps
  <2>2. /\ got' = None /\ msg' = None
        /\ UNCHANGED <<step, resends, low, code, toggle, memory, td, flag, port, device>>
    BY <1>10 DEF ClearMessage
  <2> QED BY <2>1, <2>2 DEF IInv, TypeOK
<1>11. CASE Done
  <2>1. pc' \in Places
    BY <1>11 DEF Done, Following, Places
  <2>2. step' \in 1 .. Polling /\ resends' \in 0 .. MaxResends
    BY <1>1, <1>11 DEF Done, IInv, Answering
  <2> QED BY <1>11, <2>1, <2>2 DEF Done, IInv, TypeOK
<1>12. CASE RetryRead \/ RetryClear
  <2>1. pc' \in Places /\ events' \subseteq Mishaps
    BY <1>12 DEF RetryRead, RetryClear, Unread, AfterRetry, IInv, TypeOK, Places, Mishaps
  <2>2. msg' \in {None, "done", "change"} /\ flag' \in BOOLEAN
    BY <1>12 DEF RetryRead, RetryClear, IInv, TypeOK
  <2>3. UNCHANGED <<step, resends, got, low, code, toggle, memory, td, port, device>>
    BY <1>12 DEF RetryRead, RetryClear
  <2> QED BY <2>1, <2>2, <2>3 DEF IInv, TypeOK
<1>13. CASE ReadLow
  <2>1. low' \in {0, 1, Leftover}
    BY <1>13, Words DEF ReadLow, IInv, TypeOK
  <2> QED BY <1>13, <2>1 DEF ReadLow, IInv, TypeOK, Places
<1>14. CASE ReadHigh
  <2>1. code' \in {0, 1, Leftover} \X {0, 1, Leftover} /\ low' \in {0, 1, Leftover}
    BY <1>14, Words DEF ReadHigh, IInv, TypeOK
  <2> QED BY <1>14, <2>1 DEF ReadHigh, IInv, TypeOK, Places
<1>15. CASE StillPresent
  BY <1>1, <1>15 DEF StillPresent, IInv, TypeOK, Places
<1>16. CASE ReadMailbox
  <2>1. pc' \in Places /\ events' \subseteq Mishaps
    BY <1>16 DEF ReadMailbox, Refuse, IInv, TypeOK, Places, Mishaps
  <2> QED BY <1>16, <2>1 DEF ReadMailbox, IInv, TypeOK
<1> QED BY <1>2, <1>3, <1>4, <1>5, <1>6, <1>7, <1>8, <1>9, <1>10, <1>11, <1>12, <1>13, <1>14, <1>15,
           <1>16 DEF Driver

(* A step of the controller or of the keyboard.                             *)
LEMMA ExternalType ==
  ASSUME IInv, Controller \/ RunNak \/ RunOdd \/ Fail \/ Unplug \/ Plug \/ Press
  PROVE  TypeOK'
<1> USE DEF driver, memory, controller, port, device, DriverOK, ControllerOK, KeyboardOK
<1>1. /\ list \in 1 .. Polling /\ Polling = 10 /\ bit \in {0, 1} /\ turn \in {0, 1} /\ NoKeys \in Reports
  BY KeyboardAssumption DEF IInv, TypeOK, Polling
<1>2. Proceed => td' \in Nat /\ msg' \in {None, "done", "change"} /\ flag' \in BOOLEAN
  BY <1>1, PlaceType DEF Proceed, Tell, IInv, TypeOK
<1>3. Acts => /\ address' \in {0, 2, Unreset} /\ configured' \in BOOLEAN /\ keys' \in Reports
              /\ fresh' \in BOOLEAN /\ turn' \in {0, 1}
  BY <1>1 DEF Acts, IInv, TypeOK
<1>4. CASE RunSetup
  <2>1. list \in 1 .. Polling - 1
    BY <1>1, <1>4, ListKinds DEF RunSetup, Replies, Speaks, Known, Current
  <2>2. heard' \subseteq 1 .. Polling - 1 /\ bit' \in {0, 1}
    BY <1>4, <2>1 DEF RunSetup, IInv, TypeOK
  <2>3. /\ ctl' \in {"ok", "other"} /\ events' \subseteq Mishaps /\ Proceed
        /\ UNCHANGED <<driver, list, buf, port, address, configured, keys, fresh, turn>>
    BY <1>4 DEF RunSetup, IInv, TypeOK, Mishaps
  <2>4. DriverOK' /\ ControllerOK'
    BY <1>2, <2>3 DEF IInv, TypeOK
  <2>5. KeyboardOK'
    BY <2>2, <2>3 DEF IInv, TypeOK
  <2> QED BY <2>3, <2>4, <2>5 DEF TypeOK
<1>5. CASE RunData
  BY <1>1, <1>2, <1>5 DEF RunData, IInv, TypeOK
<1>6. CASE RunStatus
  BY <1>2, <1>3, <1>6 DEF RunStatus, IInv, TypeOK
<1>7. CASE RunReport \/ RunNak
  <2>1. turn' \in {turn, 1 - turn} /\ fresh' \in {fresh, FALSE} /\ buf' \in {buf, keys} /\ ctl' \in {"ok", "other"}
    BY <1>7 DEF RunReport, RunNak
  <2>2. turn' \in {0, 1}
    BY <1>1, <2>1
  <2>3. UNCHANGED <<driver, list, port, address, bit, heard, configured, keys, events>>
    BY <1>7 DEF RunReport, RunNak
  <2>4. Proceed
    BY <1>7 DEF RunReport, RunNak
  <2>5. DriverOK' /\ ControllerOK'
    BY <1>2, <2>1, <2>3, <2>4 DEF IInv, TypeOK
  <2>6. KeyboardOK'
    BY <2>1, <2>2, <2>3 DEF IInv, TypeOK
  <2> QED BY <2>3, <2>5, <2>6 DEF IInv, TypeOK
<1>8. CASE Fail
  <2>1. /\ address' \in {0, 2, Unreset} /\ configured' \in BOOLEAN /\ keys' \in Reports
        /\ fresh' \in BOOLEAN /\ turn' \in {0, 1} /\ bit' = bit /\ heard' = heard
    BY <1>3, <1>8 DEF Fail, IInv, TypeOK
  <2>2. td' \in Nat /\ msg' \in {None, "done", "change"} /\ flag' \in BOOLEAN
    BY <1>8 DEF Fail, Tell
  <2>3. ctl' \in {"active", "ok", "other"} /\ events' \subseteq Mishaps
    BY <1>8 DEF Fail, IInv, TypeOK, Mishaps
  <2> QED BY <1>8, <2>1, <2>2, <2>3 DEF Fail, IInv, TypeOK
<1>9. CASE Wander
  <2>1. td' \in Nat /\ events' \subseteq Mishaps
    BY <1>9 DEF Wander, IInv, TypeOK, Mishaps
  <2>2. msg' \in {None, "done", "change"} /\ flag' \in BOOLEAN
    BY <1>9 DEF Wander, Tell, IInv, TypeOK
  <2> QED BY <1>9, <2>1, <2>2 DEF Wander, IInv, TypeOK
<1>10. ASSUME NEW e \in SUBSET Mishaps, Notice(e)
       PROVE  msg' \in {None, "done", "change"} /\ flag' \in BOOLEAN /\ events' \subseteq Mishaps
  BY <1>10 DEF Notice, Unread, IInv, TypeOK, Mishaps
<1>11. CASE Unplug
  <2>1. {"removed"} \in SUBSET Mishaps
    BY DEF Mishaps
  <2> QED BY <1>1, <1>10, <1>11, <2>1 DEF Unplug, IInv, TypeOK
<1>12. CASE Plug
  <2>1. {"came"} \in SUBSET Mishaps
    BY DEF Mishaps
  <2> QED BY <1>10, <1>12, <2>1 DEF Plug, IInv, TypeOK
<1>13. CASE Press
  BY <1>13 DEF Press, IInv, TypeOK
<1>14. CASE Acknowledge
  <2>1. /\ mailbox' \in {"ack", "other"}
        /\ UNCHANGED <<driver, memory, controller, plugged, device, events>>
    BY <1>14 DEF Acknowledge
  <2> QED BY <2>1 DEF IInv, TypeOK
<1>15. CASE RunOdd
  <2>1. turn' \in {0, 1} /\ fresh' \in BOOLEAN
    <3>1. turn' = 1 - turn
      BY <1>15 DEF RunOdd
    <3>2. fresh' \in BOOLEAN
      BY <1>15 DEF RunOdd
    <3> QED BY <1>1, <3>1, <3>2
  <2>2. ctl' \in {"active", "ok", "other"} /\ buf' \in Reports \cup {Blank} /\ events' \subseteq Mishaps
    BY <1>15 DEF RunOdd, IInv, TypeOK, Mishaps
  <2>3. td' \in Nat /\ msg' \in {None, "done", "change"} /\ flag' \in BOOLEAN
    BY <1>2, <1>15 DEF RunOdd, IInv, TypeOK
  <2>4. UNCHANGED <<driver, list, port, address, bit, heard, configured, keys>>
    BY <1>15 DEF RunOdd
  <2> QED BY <2>1, <2>2, <2>3, <2>4 DEF IInv, TypeOK
<1> QED BY <1>4, <1>5, <1>6, <1>7, <1>8, <1>9, <1>11, <1>12, <1>13, <1>14, <1>15
    DEF Controller

(* The driver goes on only from a control byte that says ok, and forgets    *)
(* what it has sent when it starts over.                                    *)
LEMMA DriverOrder ==
  ASSUME IInv, Driver
  PROVE  Answering' /\ Ordered' /\ Addressed'
<1> USE DEF driver, memory, controller, port, device, DriverOK, ControllerOK, KeyboardOK
<1>1. step \in 1 .. Polling /\ Polling = 10
  BY DEF IInv, TypeOK, Polling
<1>2. CASE UsbSoftReset
  <2>1. pc' = "init" /\ step' = 1 /\ UNCHANGED <<heard, address>>
    BY <1>2 DEF UsbSoftReset
  <2>2. Answering' /\ Addressed'
    BY <2>1 DEF IInv, Answering, Addressed, Written
  <2>3. Ordered'
    BY <2>1 DEF Ordered
  <2> QED BY <2>2, <2>3
<1>3. CASE Sie1Init \/ ReadMailbox
  BY <1>3 DEF Sie1Init, ReadMailbox, Refuse, IInv, Answering, Ordered, Addressed, Written
<1>4. CASE BusReset
  BY <1>1, <1>4 DEF BusReset, Refuse, IInv, Answering, Ordered, Addressed, Written
<1>5. CASE Presence \/ Inserted \/ StartStray
  BY <1>5 DEF Presence, Inserted, StartStray, IInv, Answering, Ordered, Addressed, Written
<1>6. CASE WriteList
  BY <1>6 DEF WriteList, IInv, Answering, Ordered, Addressed, Written
<1>7. CASE StartList
  BY <1>7 DEF StartList, IInv, Answering, Ordered, Addressed, Written
<1>8. CASE Answered \/ ReadMessage \/ NotDone \/ ReadLow \/ ReadHigh
  BY <1>8 DEF Answered, ReadMessage, NotDone, ReadLow, ReadHigh, IInv, Answering, Ordered, Addressed, Written
<1>9. CASE Resend \/ StillPresent
  BY <1>9 DEF Resend, StillPresent, IInv, Answering, Ordered, Addressed, Written
<1>10. CASE ClearMessage
  BY <1>1, <1>10 DEF ClearMessage, Unread, IInv, Answering, Ordered, Addressed, Written
<1>11. CASE Done
  <2>1. pc' \in {"endpoint", "poll", "write"} /\ step' = step + 1 /\ UNCHANGED <<heard, address, events>>
    BY <1>11 DEF Done, Following
  <2>2. "removed" \notin events => 1 .. step - 1 \subseteq heard /\ step \in heard
    BY <1>1, <1>11 DEF Done, IInv, Answering, Ordered, Addressed, Written
  <2>3. Ordered'
    BY <1>1, <2>1, <2>2 DEF Ordered
  <2>4. Answering' /\ Addressed'
    BY <2>1 DEF IInv, Answering, Addressed, Written
  <2> QED BY <2>3, <2>4
<1>12. CASE RetryRead \/ RetryClear \/ RetryWait
  BY <1>12 DEF RetryRead, RetryClear, RetryWait, AfterRetry, Unread, IInv, Answering,
               Ordered, Addressed, Written
<1> QED BY <1>2, <1>3, <1>4, <1>5, <1>6, <1>7, <1>8, <1>9, <1>10, <1>11, <1>12 DEF Driver

(* The control byte turns to ok with the setup packet of the list, or with  *)
(* the report of a poll; only a removal makes the keyboard forget.          *)
LEMMA ExternalOrder ==
  ASSUME IInv, Controller \/ RunNak \/ RunOdd \/ Fail \/ Unplug \/ Plug \/ Press
  PROVE  Answering' /\ Ordered' /\ Addressed'
<1> USE DEF driver, memory, controller, port, device, DriverOK, ControllerOK, KeyboardOK
<1>1. list \in 1 .. Polling
  BY DEF IInv, TypeOK
<1>2. CASE RunSetup
  <2>1. list # SetAddress => address = 2
    BY <1>1, <1>2, LaterAddress DEF RunSetup, Replies, Speaks, Known, Current
  <2>2. Addressed'
    BY <1>2, <2>1 DEF RunSetup, IInv, Addressed
  <2> QED BY <1>2, <2>2 DEF RunSetup, IInv, Answering, Ordered
<1>3. CASE RunReport
  <2>1. list = Polling
    BY <1>1, <1>3, ListKinds DEF RunReport, Replies, Speaks, Known, Current
  <2> QED BY <1>3, <2>1 DEF RunReport, IInv, Answering, Ordered, Addressed, Polling
<1>4. CASE RunData \/ RunStatus \/ RunNak \/ RunOdd \/ Press \/ Acknowledge
  <2>1. /\ UNCHANGED <<pc, step, list, heard>> /\ (ctl' = ctl \/ ctl' \in {"active", "other"})
        /\ "removed" \in events => "removed" \in events'
        /\ address' \in {address, 2}
    BY <1>4 DEF RunData, RunStatus, Acts, RunNak, RunOdd, Press, Acknowledge
  <2> QED BY <2>1 DEF IInv, Answering, Ordered, Addressed
<1>5. CASE Fail
  <2>1. /\ UNCHANGED <<pc, step, list, heard>> /\ (ctl' = ctl \/ ctl' = "other")
        /\ events \subseteq events' /\ address' \in {address, 2}
    BY <1>5 DEF Fail, Acts
  <2> QED BY <2>1 DEF IInv, Answering, Ordered, Addressed
<1>6. CASE Wander
  BY <1>6 DEF Wander, IInv, Answering, Ordered, Addressed
<1>7. CASE Unplug
  <2>1. "removed" \in events' /\ heard' = {} /\ UNCHANGED <<pc, step, list>>
    BY <1>7 DEF Unplug, Notice
  <2> QED BY <2>1 DEF IInv, Answering, Ordered, Addressed
<1>8. CASE Plug
  <2>1. events \subseteq events' /\ UNCHANGED <<pc, step, list, ctl, heard, address>>
    BY <1>8 DEF Plug, Notice
  <2> QED BY <2>1 DEF IInv, Answering, Ordered, Addressed
<1> QED BY <1>2, <1>3, <1>4, <1>5, <1>6, <1>7, <1>8 DEF Controller

LEMMA NextInvariant == IInv /\ [Next]_vars => IInv'
<1> SUFFICES ASSUME IInv, [Next]_vars PROVE IInv'
  OBVIOUS
<1>1. CASE Driver
  BY <1>1, DriverType, DriverOrder DEF IInv
<1>2. CASE Controller \/ RunNak \/ RunOdd \/ Fail \/ Unplug \/ Plug \/ Press
  BY <1>2, ExternalType, ExternalOrder DEF IInv
<1>3. CASE UNCHANGED vars
  BY <1>3 DEF vars, driver, memory, controller, port, device, DriverOK,
              ControllerOK, KeyboardOK, IInv, TypeOK, Answering, Ordered,
              Addressed
<1> QED BY <1>1, <1>2, <1>3 DEF Next

(* The variables of driver, controller and keyboard keep their ranges; the  *)
(* enumeration never goes past the polling loop.                            *)
THEOREM KeyboardTypeCorrect == Spec => []TypeOK
<1>1. IInv => TypeOK
  BY DEF IInv
<1> QED BY <1>1, InitInvariant, NextInvariant, PTL DEF Spec

(* While the keyboard stays plugged in, the driver leaves a request behind  *)
(* only when the keyboard has received it, whatever fails and however often *)
(* lists are sent again.                                                    *)
THEOREM RequestsInOrder == Spec => []Ordered
<1>1. IInv => Ordered
  BY DEF IInv
<1> QED BY <1>1, InitInvariant, NextInvariant, PTL DEF Spec
=============================================================================
