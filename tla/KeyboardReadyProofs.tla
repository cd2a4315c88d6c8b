------------------------ MODULE KeyboardReadyProofs ------------------------
(***************************************************************************)
(* As long as no done message is taken for another list's, the controller  *)
(* works on one list at a time and stays within it, what is polled is a    *)
(* keyboard that was made ready, and what is shown is what it reported.    *)
(***************************************************************************)
EXTENDS KeyboardProofs

(* A descriptor that is not the last leads to one of the list.              *)
LEMMA PlaceNext ==
  ASSUME list \in 1 .. Polling, Known
  PROVE  /\ td # 0 /\ td # Endpoint
         /\ Current.next = 0 => Place(Current.next) = 0
         /\ Current.next # 0 =>
              /\ Place(Current.next) \in DOMAIN Lists[list]
              /\ Lists[list][Place(Current.next)].at = Current.next
              /\ Place(Current.next) # 0 /\ Place(Current.next) # Endpoint
<1> DEFINE l == Lists[list]
<1>1. Linked(l)
  BY ListsSound DEF Sound
<1>2. \A i \in DOMAIN l : i # 0 /\ i # Endpoint
  BY <1>1 DEF Linked, Endpoint
<1>3. td \in DOMAIN l /\ Current = l[td]
  BY DEF Known, Current
<1>4. Current.next # 0 => \E j \in DOMAIN l : l[j].at = Current.next
  BY <1>1, <1>3 DEF Linked
<1>5. Current.next # 0 =>
        Place(Current.next) \in DOMAIN l /\ l[Place(Current.next)].at = Current.next
  BY <1>4 DEF Place
<1> QED BY <1>2, <1>3, <1>5 DEF Place

(* What the descriptors that end a list have in common, and the others.     *)
LEMMA Ends ==
  ASSUME list \in 1 .. Polling, Known
  PROVE  /\ Current.pid = Setup => Current.next # 0
         /\ Current.pid = Report => Current.next = 0
         /\ Current.pid \in {In, Out} => (Current.next = 0 <=> Current.len = 0)
<1>1. Linked(Lists[list])
  BY ListsSound DEF Sound
<1> QED BY <1>1 DEF Linked, Known, Current, Setup, In, Out, Report

(* What the next descriptor expects of the data bit.                        *)
LEMMA NextBit ==
  ASSUME list \in 1 .. Polling, Known, NEW j \in DOMAIN Lists[list],
         Current.next # 0, Lists[list][j].at = Current.next,
         Lists[list][j].pid = In, Lists[list][j].len > 0
  PROVE  Lists[list][j].data = IF Current.pid = Setup THEN 1 ELSE 1 - Current.data
<1>1. Alternating(Lists[list])
  BY ListsSound DEF Sound
<1> QED BY <1>1 DEF Alternating, Known, Current

----------------------------------------------------------------------------

LEMMA InitStrong == Init => Strong
<1> SUFFICES ASSUME Init PROVE Strong
  OBVIOUS
<1>1. Alone
  BY DEF Init, Alone, None, Endpoint
<1>2. Closed
  BY DEF Init, Closed, Written, SetAddress, SetConfig
<1>3. ListsHold
  BY DEF Init, ListsHold
<1>4. Told
  BY DEF Init, Told, Unsettled, None
<1> QED BY <1>1, <1>2, <1>3, <1>4, InitInvariant DEF Strong

(* The driver starts a list only when none runs, or the one that runs.      *)
LEMMA DriverAlone ==
  ASSUME IInv, Alone, Driver
  PROVE  Alone'
<1> USE DEF driver, memory, controller, port, device
<1>1. CASE UsbSoftReset
  BY <1>1 DEF UsbSoftReset, Alone, Working, None, Endpoint
<1>2. CASE Sie1Init \/ ReadMailbox \/ BusReset
  BY <1>2 DEF Sie1Init, ReadMailbox, BusReset, Refuse, Alone, Working, None, Endpoint
<1>3. CASE Presence \/ Inserted \/ Answered \/ NotDone \/ RetryWait
  <2>1. /\ \/ pc = "presence" /\ pc' \in {"write", "absent"}
           \/ pc \in {"absent", "removed", "retrywait"} /\ pc' \in {"reset", "check"}
           \/ pc = "flag" /\ pc' = "read"
           \/ pc = "check" /\ pc' = "retry"
        /\ UNCHANGED <<step, resends, got, low, code, toggle, memory, controller, port, device, events>>
    BY <1>3 DEF Presence, Inserted, Answered, NotDone, RetryWait, AfterRetry
  <2> QED BY <2>1 DEF Alone, Working
<1>4. CASE WriteList
  BY <1>4 DEF WriteList, Alone, Working
<1>5. CASE StartList
  BY <1>5 DEF StartList, Alone, Working, Endpoint, None
<1>6. CASE Resend
  BY <1>6 DEF Resend, IInv, Answering, Written, Alone, Working
<1>7. CASE ReadMessage
  BY <1>7 DEF ReadMessage, Alone, Working
<1>8. CASE ClearMessage
  BY <1>8 DEF ClearMessage, Unread, Alone, Working, None
<1>9. CASE Done
  BY <1>9 DEF Done, Following, Alone, Working
<1>10. CASE StartStray
  BY <1>10 DEF StartStray, Alone, Working, None
<1>11. CASE RetryRead \/ RetryClear
  BY <1>11 DEF RetryRead, RetryClear, AfterRetry, Unread, Alone, Working, None
<1>12. CASE ReadLow \/ ReadHigh
  BY <1>12 DEF ReadLow, ReadHigh, Alone, Working
<1>13. CASE StillPresent
  BY <1>13 DEF StillPresent, Alone, Working
<1> QED BY <1>1, <1>2, <1>3, <1>4, <1>5, <1>6, <1>7, <1>8, <1>9, <1>10, <1>11, <1>12, <1>13
        DEF Driver

(* The controller tells of a list when it has stopped working on it.        *)
LEMMA ExternalAlone ==
  ASSUME IInv, Alone, Controller \/ RunNak \/ RunOdd \/ Fail \/ Unplug \/ Plug \/ Press
  PROVE  Alone'
<1> USE DEF driver, memory, controller, port, device
<1>1. list \in 1 .. Polling
  BY DEF IInv, TypeOK, DriverOK, ControllerOK, KeyboardOK
<1>2. CASE RunSetup \/ RunData \/ RunStatus \/ RunReport \/ RunNak
  <2>1. Known /\ Proceed /\ UNCHANGED <<driver, list>> /\ events \subseteq events'
        /\ (pc = "high" => buf' = buf \/ "stale" \in events)
    <3>1. td # 0
      BY <1>1, <1>2, PlaceNext DEF RunSetup, RunData, RunStatus, RunReport, RunNak, Replies, Speaks
    <3>2. pc = "high" => "stale" \in events
      BY <3>1 DEF Alone, Working
    <3> QED BY <1>2, <3>2 DEF RunSetup, RunData, RunStatus, RunReport, RunNak, Replies, Speaks
  <2>2. td # 0 /\ td # Endpoint /\ td' # Endpoint /\ (td' = 0 \/ UNCHANGED <<msg, flag>>)
    BY <1>1, <2>1, PlaceNext DEF Proceed, Endpoint
  <2>3. td' = 0 \/ msg' = msg
    BY <2>2
  <2> QED BY <2>1, <2>2, <2>3 DEF Alone, Working
<1>3. CASE Fail
  <2>1. td # 0 /\ td' = 0 /\ UNCHANGED <<driver, list, buf>> /\ events \subseteq events'
    BY <1>1, <1>3, PlaceNext DEF Fail
  <2> QED BY <2>1 DEF Alone, Working, Endpoint
<1>4. CASE Wander
  BY <1>4 DEF Wander, Alone, Working, Endpoint
<1>5. CASE Unplug \/ Plug
  <2>1. UNCHANGED <<driver, memory, td>> /\ events \subseteq events' /\ msg' \in {msg, "change"}
    BY <1>5 DEF Unplug, Plug, Notice
  <2> QED BY <2>1 DEF Alone
<1>6. CASE Press \/ Acknowledge
  <2>1. /\ UNCHANGED <<driver, memory, controller>>
        /\ "stale" \in events => "stale" \in events'
    BY <1>6 DEF Press, Acknowledge
  <2> QED BY <2>1 DEF Alone
<1>7. CASE RunOdd
  <2>1. Known /\ UNCHANGED <<driver, list>> /\ events \subseteq events'
    BY <1>7 DEF RunOdd, Speaks
  <2>2. td # 0 /\ td # Endpoint
    BY <1>1, <2>1, PlaceNext
  <2>3. pc = "high" => "stale" \in events
    BY <2>2 DEF Alone, Working
  <2>4. CASE Proceed
    <3>1. td' # Endpoint /\ (td' = 0 \/ UNCHANGED <<msg, flag>>)
      BY <1>1, <2>1, <2>4, PlaceNext DEF Proceed, Endpoint
    <3>2. td' = 0 \/ msg' = msg
      BY <3>1
    <3> QED BY <2>1, <2>2, <2>3, <3>1, <3>2 DEF Alone, Working
  <2>5. CASE UNCHANGED <<td, msg, flag, buf>>
    BY <2>1, <2>2, <2>5 DEF Alone
  <2> QED BY <1>7, <2>4, <2>5 DEF RunOdd
<1> QED BY <1>2, <1>3, <1>4, <1>5, <1>6, <1>7 DEF Controller

----------------------------------------------------------------------------

(* Of the lists as constants: what is said of the current descriptor needs  *)
(* only its place and its data bit.                                        *)
LEMMA HoldingOn ==
  ASSUME list' \in 1 .. Polling,
         td' \notin {0, Endpoint} /\ "stale" \notin events' =>
           /\ Known'
           /\ Current'.pid = In /\ Current'.len > 0 /\ "removed" \notin events' => Current'.data = bit'
  PROVE  ListsHold'
<1>1. Apart(Lists[list'])
  BY ListsSound DEF Sound
<1> QED BY <1>1 DEF ListsHold, Apart, Known, Current

(* A list that is written is the one that runs, and a list starts with its  *)
(* setup packet, or with the report.                                       *)
LEMMA DriverHolds ==
  ASSUME Strong, Driver
  PROVE  ListsHold'
<1> USE DEF driver, memory, controller, port, device
<1>1. list \in 1 .. Polling /\ step \in 1 .. Polling
  BY DEF Strong, IInv, TypeOK, DriverOK, ControllerOK, KeyboardOK
<1>2. CASE UsbSoftReset \/ StartStray
  <2>1. td' \in {0, Endpoint}
    BY <1>2 DEF UsbSoftReset, StartStray
  <2> QED BY <2>1 DEF ListsHold
<1>3. CASE WriteList
  <2>1. list' = step /\ UNCHANGED <<td, bit, events>> /\ pc \in {"write", "poll"}
    BY <1>3 DEF WriteList
  <2>2. CASE td \notin {0, Endpoint} /\ "stale" \notin events
    <3>1. list = step
      BY <2>1, <2>2 DEF Strong, Alone, Working
    <3> QED BY <2>1, <3>1 DEF Strong, ListsHold, Known, Current
  <2>3. CASE ~(td \notin {0, Endpoint} /\ "stale" \notin events)
    BY <2>1, <2>3 DEF ListsHold
  <2> QED BY <2>2, <2>3
<1>4. CASE StartList
  <2>1. list' = list /\ td' = 1
    BY <1>4 DEF StartList
  <2>2. First(Lists[list])
    BY <1>1, ListsSound DEF Sound
  <2>3. Known' /\ Current'.pid # In
    BY <2>1, <2>2 DEF Known, Current, First, Setup, Report, In
  <2> QED BY <1>1, <2>1, <2>3, HoldingOn
<1>5. CASE Sie1Init \/ ReadMailbox \/ BusReset \/ Presence \/ Inserted \/ Answered \/ Resend \/ ReadMessage
           \/ ClearMessage \/ Done \/ NotDone \/ RetryRead \/ RetryClear \/ RetryWait \/ ReadLow
           \/ ReadHigh \/ StillPresent
  <2>1. UNCHANGED <<list, td, bit>> /\ events \subseteq events' \cup {"came"}
    BY <1>5 DEF Sie1Init, ReadMailbox, BusReset, Refuse, Presence, Inserted, Answered, Resend, ReadMessage,
                ClearMessage, Done, NotDone, RetryRead, RetryClear, RetryWait, ReadLow,
                ReadHigh, StillPresent
  <2> QED BY <2>1 DEF Strong, ListsHold, Known, Current
<1> QED BY <1>2, <1>3, <1>4, <1>5 DEF Driver

(* The keyboard's data bit follows the list's.                              *)
LEMMA ExternalHolds ==
  ASSUME Strong, Controller \/ RunNak \/ RunOdd \/ Fail \/ Unplug \/ Plug \/ Press
  PROVE  ListsHold'
<1> USE DEF driver, memory, controller, port, device
<1>1. list \in 1 .. Polling /\ bit \in {0, 1}
  BY DEF Strong, IInv, TypeOK, DriverOK, ControllerOK, KeyboardOK
<1>2. CASE RunSetup \/ RunData
  <2>1. /\ Known /\ Current.next # 0 /\ td' = Place(Current.next) /\ UNCHANGED list
        /\ Current.pid = Setup => bit' = 1
        /\ Current.pid # Setup => bit' = 1 - bit /\ Current.data = bit
    <3>1. Known /\ td' = Place(Current.next) /\ UNCHANGED list
      BY <1>2 DEF RunSetup, RunData, Replies, Speaks, Proceed
    <3>2. Current.next # 0
      BY <1>1, <1>2, <3>1, Ends DEF RunSetup, RunData
    <3>3. /\ Current.pid = Setup => bit' = 1
          /\ Current.pid # Setup => bit' = 1 - bit /\ Current.data = bit
      BY <1>2 DEF RunSetup, RunData, Replies, Data, Setup, In, Report
    <3> QED BY <3>1, <3>2, <3>3
  <2>2. Known' /\ Lists[list'][td'].at = Current.next
    BY <1>1, <2>1, PlaceNext DEF Known
  <2>3. Current'.pid = In /\ Current'.len > 0 => Current'.data = bit'
    <3> SUFFICES ASSUME Current'.pid = In, Current'.len > 0 PROVE Current'.data = bit'
      OBVIOUS
    <3>1. Current' = Lists[list][td'] /\ td' \in DOMAIN Lists[list]
      BY <2>1, <2>2 DEF Current, Known
    <3>2. Current'.data = IF Current.pid = Setup THEN 1 ELSE 1 - Current.data
      BY <1>1, <2>1, <2>2, <3>1, NextBit
    <3> QED BY <2>1, <3>2
  <2> QED BY <1>1, <2>1, <2>2, <2>3, HoldingOn
<1>3. CASE RunStatus \/ RunReport \/ RunNak
  <2>1. td' = 0
    BY <1>1, <1>3, Ends, PlaceNext DEF RunStatus, RunReport, RunNak, Replies, Speaks, Proceed
  <2> QED BY <2>1 DEF ListsHold
<1>4. CASE Fail \/ Wander
  BY <1>4 DEF Fail, Wander, ListsHold
<1>5. CASE Unplug \/ Plug \/ Press \/ Acknowledge
  <2>1. /\ UNCHANGED <<list, td>> /\ events \subseteq events' \cup {"dropped"}
        /\ bit' = bit \/ "removed" \in events'
    BY <1>5 DEF Unplug, Plug, Press, Acknowledge, Notice
  <2> QED BY <2>1 DEF Strong, ListsHold, Known, Current
<1>6. CASE RunOdd
  <2>1. CASE Proceed
    <3>1. td' = 0
      BY <1>1, <1>6, <2>1, Ends, PlaceNext DEF RunOdd, Speaks, Proceed
    <3> QED BY <3>1 DEF ListsHold
  <2>2. CASE UNCHANGED td
    <3>1. UNCHANGED <<list, td, bit>> /\ events \subseteq events'
      BY <1>6, <2>2 DEF RunOdd
    <3> QED BY <3>1 DEF Strong, ListsHold, Known, Current
  <2> QED BY <1>6, <2>1, <2>2 DEF RunOdd
<1> QED BY <1>2, <1>3, <1>4, <1>5, <1>6 DEF Controller

----------------------------------------------------------------------------

(* The driver leaves a request with no list running, and forgets what it    *)
(* has done only when it starts over.                                      *)
LEMMA DriverClosed ==
  ASSUME Strong, Driver
  PROVE  Closed'
<1> USE DEF driver, memory, controller, port, device
<1>1. step \in 1 .. Polling
  BY DEF Strong, IInv, TypeOK, DriverOK, ControllerOK, KeyboardOK
<1>2. CASE UsbSoftReset
  BY <1>2 DEF UsbSoftReset, Closed, Written, SetAddress, SetConfig
<1>3. CASE BusReset
  BY <1>3 DEF BusReset, Refuse, Strong, IInv, Answering, Closed, Written, SetAddress, SetConfig
<1>4. CASE WriteList
  BY <1>4 DEF WriteList, Strong, Closed
<1>5. CASE StartList
  BY <1>5 DEF StartList, Strong, Closed
<1>6. CASE Done
  <2>1. /\ step' = step + 1 /\ pc' \in {"endpoint", "poll", "write"}
        /\ UNCHANGED <<address, configured, events>>
    BY <1>6 DEF Done, Following
  <2>2. "stale" \notin events => td = 0
    BY <1>6 DEF Done, Strong, Alone, Working
  <2>3. list = step /\ pc \in Written /\ ctl = "ok"
    BY <1>6 DEF Done, Strong, IInv, Answering, Written
  <2> QED BY <1>1, <2>1, <2>2, <2>3 DEF Strong, Closed, Written, SetAddress, SetConfig
<1>7. CASE Sie1Init \/ ReadMailbox \/ Presence \/ Inserted \/ Resend \/ StillPresent \/ StartStray
  <2>1. /\ pc' \notin Written \/ (pc \in Written /\ UNCHANGED td)
        /\ UNCHANGED <<step, list, ctl, address, configured>> /\ events \subseteq events'
    BY <1>7 DEF Sie1Init, ReadMailbox, Refuse, Presence, Inserted, Resend, StillPresent, StartStray, Written
  <2> QED BY <2>1 DEF Strong, Closed
<1>8. CASE Answered \/ ReadMessage \/ ClearMessage \/ NotDone \/ RetryRead \/ RetryClear
           \/ RetryWait \/ ReadLow \/ ReadHigh
  <2>1. /\ pc \in Written
        /\ UNCHANGED <<step, list, ctl, td, address, configured>> /\ events \subseteq events' \cup {"came"}
    BY <1>8 DEF Answered, ReadMessage, ClearMessage, NotDone, RetryRead, RetryClear, RetryWait,
                ReadLow, ReadHigh, Written
  <2> QED BY <2>1 DEF Strong, Closed
<1> QED BY <1>2, <1>3, <1>4, <1>5, <1>6, <1>7, <1>8 DEF Driver

(* A list whose setup packet was acknowledged ends with its closing packet, *)
(* or late.                                                                *)
LEMMA ExternalClosed ==
  ASSUME Strong, Controller \/ RunNak \/ RunOdd \/ Fail \/ Unplug \/ Plug \/ Press
  PROVE  Closed'
<1> USE DEF driver, memory, controller, port, device
<1>1. list \in 1 .. Polling
  BY DEF Strong, IInv, TypeOK, DriverOK, ControllerOK, KeyboardOK
<1>2. CASE RunSetup \/ RunData
  <2>1. td' # 0
    BY <1>1, <1>2, Ends, PlaceNext DEF RunSetup, RunData, Replies, Speaks, Proceed
  <2>2. UNCHANGED <<step, list, address, configured>> /\ events \subseteq events'
    BY <1>2 DEF RunSetup, RunData
  <2> QED BY <2>1, <2>2 DEF Strong, Closed
<1>3. CASE RunStatus
  BY <1>3 DEF RunStatus, Acts, Strong, Closed, SetAddress, SetConfig
<1>4. CASE RunReport \/ RunNak
  <2>1. list = Polling
    BY <1>1, <1>4, ListKinds DEF RunReport, RunNak, Replies, Speaks, Known, Current
  <2>2. UNCHANGED <<step, list, address, configured, events>>
    BY <1>4 DEF RunReport, RunNak
  <2> QED BY <2>1, <2>2 DEF Strong, Closed, Polling, SetAddress, SetConfig
<1>5. CASE Fail
  <2>1. CASE td = 1
    BY <1>5, <2>1 DEF Fail, Strong, Closed
  <2>2. CASE td # 1
    BY <1>5, <2>2 DEF Fail, Closed
  <2> QED BY <2>1, <2>2
<1>6. CASE Wander
  <2>1. events \subseteq events' /\ UNCHANGED <<step, pc, list, ctl, address, configured>> /\ td # 0
    BY <1>6 DEF Wander
  <2>2. CASE "stale" \in events
    BY <2>1, <2>2 DEF Closed
  <2>3. CASE "stale" \notin events
    <3>1. td = Endpoint
      BY <1>6, <2>3 DEF Wander, Strong, ListsHold
    <3>2. pc = "write" \/ ctl = "active"
      BY <2>3, <3>1 DEF Strong, Alone
    <3> QED BY <2>1, <3>2 DEF Strong, Closed, Written
  <2> QED BY <2>2, <2>3
<1>7. CASE Unplug
  BY <1>7 DEF Unplug, Notice, Closed
<1>8. CASE Plug \/ Press \/ Acknowledge
  <2>1. /\ events \subseteq events' \cup {"dropped"}
        /\ UNCHANGED <<step, pc, list, ctl, td, address, configured>>
    BY <1>8 DEF Plug, Press, Acknowledge, Notice
  <2> QED BY <2>1 DEF Strong, Closed
<1>9. CASE RunOdd
  <2>1. list = Polling
    BY <1>1, <1>9, ListKinds DEF RunOdd, Speaks, Known, Current
  <2>2. UNCHANGED <<step, list, address, configured>> /\ events \subseteq events'
    BY <1>9 DEF RunOdd
  <2> QED BY <2>1, <2>2 DEF Strong, Closed, Polling, SetAddress, SetConfig
<1> QED BY <1>2, <1>3, <1>4, <1>5, <1>6, <1>7, <1>8, <1>9 DEF Controller

----------------------------------------------------------------------------

(* The driver reads a done message once, and clears no other.               *)
LEMMA DriverTold ==
  ASSUME Strong, Driver
  PROVE  Told'
<1> USE DEF driver, memory, controller, port, device
<1> SUFFICES ASSUME events' \cap {"removed", "stale"} = {} PROVE Told'
  BY DEF Told
<1>1. CASE UsbSoftReset
  BY <1>1 DEF UsbSoftReset, Told, Unsettled, None
<1>2. CASE Sie1Init
  BY <1>2 DEF Sie1Init, Strong, Alone, Working, Told, Unsettled, None
<1>3. CASE ReadMailbox \/ BusReset \/ Presence \/ Inserted
  <2>1. /\ pc' \in Unsettled \/ (pc' = "write" /\ plugged)
        /\ pc \in {"mailbox", "busreset", "presence", "absent", "removed"}
        /\ UNCHANGED <<got, controller, plugged>> /\ events' \in {events, events \cup {"refused"}}
    BY <1>3 DEF ReadMailbox, BusReset, Refuse, Presence, Inserted, Unsettled
  <2> QED BY <2>1 DEF Strong, Told, Unsettled
<1>4. CASE WriteList \/ Resend \/ Done \/ NotDone \/ StartStray \/ RetryWait \/ ReadLow \/ ReadHigh
           \/ StillPresent
  BY <1>4 DEF WriteList, Resend, Done, Following, NotDone, StartStray, RetryWait, AfterRetry, ReadLow, ReadHigh,
              StillPresent, Strong, Told, Unsettled
<1>5. CASE StartList \/ Answered
  BY <1>5 DEF StartList, Answered, Strong, Told, Unsettled
<1>6. CASE ReadMessage
  BY <1>6 DEF ReadMessage, Strong, Alone, Told, Unsettled
<1>7. CASE ClearMessage
  BY <1>7 DEF ClearMessage, Unread, Strong, Alone, Told, Unsettled, None
<1>8. CASE RetryRead \/ RetryClear
  BY <1>8 DEF RetryRead, RetryClear, AfterRetry, Unread, Strong, Alone, Working, Told, Unsettled, None
<1> QED BY <1>1, <1>2, <1>3, <1>4, <1>5, <1>6, <1>7, <1>8 DEF Driver

(* The controller has a list to tell of only while the driver has no done   *)
(* message of it, and of the port only when a keyboard comes or goes.       *)
LEMMA ExternalTold ==
  ASSUME Strong, Controller \/ RunNak \/ RunOdd \/ Fail \/ Unplug \/ Plug \/ Press
  PROVE  Told'
<1> USE DEF driver, memory, controller, port, device
<1> SUFFICES ASSUME events' \cap {"removed", "stale"} = {} PROVE Told'
  BY DEF Told
<1>1. list \in 1 .. Polling
  BY DEF Strong, IInv, TypeOK, ControllerOK
<1>2. CASE RunSetup \/ RunData \/ RunStatus \/ RunReport \/ RunNak \/ RunOdd \/ Fail
  <2>1. Known /\ UNCHANGED <<driver, plugged>> /\ events \subseteq events' /\ ("lost" \in events' => "lost" \in events)
        /\ ("came" \in events' => "came" \in events)
    BY <1>2 DEF RunSetup, RunData, RunStatus, RunReport, RunNak, RunOdd, Fail, Replies, Speaks
  <2>2. td # 0
    BY <1>1, <2>1, PlaceNext
  <2>3. Tell \/ UNCHANGED <<msg, flag>>
    BY <1>2 DEF RunSetup, RunData, RunStatus, RunReport, RunNak, RunOdd, Fail, Proceed
  <2>4. CASE Tell
    BY <2>1, <2>2, <2>4 DEF Tell, Strong, Alone, Told, Unsettled
  <2>5. CASE UNCHANGED <<msg, flag>>
    BY <2>1, <2>2, <2>5 DEF Strong, Alone, Told, Unsettled
  <2> QED BY <2>3, <2>4, <2>5
<1>3. CASE Wander
  BY <1>3 DEF Wander, Tell, Strong, Alone, Told, Unsettled
<1>4. CASE Unplug
  BY <1>4 DEF Unplug, Notice
<1>5. CASE Plug
  BY <1>5 DEF Plug, Notice, Unread, Strong, Alone, Told, Unsettled, Working
<1>6. CASE Press \/ Acknowledge
  <2>1. /\ UNCHANGED <<driver, controller, plugged>>
        /\ \A e \in {"removed", "stale", "lost", "came"} : e \in events' <=> e \in events
    BY <1>6 DEF Press, Acknowledge
  <2> QED BY <2>1 DEF Strong, Told, Unsettled
<1> QED BY <1>2, <1>3, <1>4, <1>5, <1>6 DEF Controller

----------------------------------------------------------------------------

LEMMA NextStrong == Strong /\ [Next]_vars => Strong'
<1> SUFFICES ASSUME Strong, [Next]_vars PROVE Strong'
  OBVIOUS
<1>1. IInv' /\ IInv /\ Alone
  BY NextInvariant DEF Strong
<1>2. CASE Driver
  BY <1>1, <1>2, DriverAlone, DriverHolds, DriverClosed, DriverTold DEF Strong
<1>3. CASE Controller \/ RunNak \/ RunOdd \/ Fail \/ Unplug \/ Plug \/ Press
  BY <1>1, <1>3, ExternalAlone, ExternalHolds, ExternalClosed, ExternalTold DEF Strong
<1>4. CASE UNCHANGED vars
  BY <1>1, <1>4 DEF vars, driver, memory, controller, port, device, Strong, Alone, Closed, Told, ListsHold,
                    Known, Current
<1> QED BY <1>2, <1>3, <1>4 DEF Next

LEMMA AlwaysStrong == Spec => []Strong
BY InitStrong, NextStrong, PTL DEF Spec

(* The lists of usb.c hold together in the controller's hands: each         *)
(* descriptor leads to one of the list, the data bits are the keyboard's,   *)
(* and no data is put over a descriptor, until a done message is taken for  *)
(* another list's (usb.c:29-496).                                          *)
THEOREM ListsHoldTogether == Spec => []ListsHold
<1>1. Strong => ListsHold
  BY DEF Strong
<1> QED BY <1>1, AlwaysStrong, PTL

(* A keyboard that is polled has its address, whatever failed on the way,   *)
(* unless it was pulled; and it is configured, unless a request was not     *)
(* closed or a done message was taken for another list's (main.c:177-470).  *)
THEOREM PolledWhenReady == Spec => []Ready
<1>1. Strong => Ready
  <2> SUFFICES ASSUME Strong, step = Polling, "removed" \notin events
               PROVE  address = 2 /\ (events \cap {"late", "stale"} = {} => configured)
    BY DEF Ready
  <2>1. 2 \in heard
    BY DEF Strong, IInv, Ordered, Polling
  <2>2. address = 2
    BY <2>1 DEF Strong, IInv, Addressed, SetAddress
  <2>3. events \cap {"late", "stale"} = {} => configured
    BY DEF Strong, Closed, Polling, SetConfig
  <2> QED BY <2>2, <2>3
<1> QED BY <1>1, AlwaysStrong, PTL

(* No done message is lost between the driver's read and its clearing       *)
(* (usb.c:541-553) unless a keyboard came or went, and UsbGetRetryCnt finds  *)
(* none to wait after (usb.c:565-571), unless a list was started twice.     *)
THEOREM DoneMessagesKept == Spec => []MessagesKept
<1>1. Strong => MessagesKept
  <2> SUFFICES ASSUME Strong, "stale" \notin events PROVE MessagesKept
    BY DEF MessagesKept
  <2>1. "lost" \in events => events \cap {"removed", "came"} # {}
    BY DEF Strong, Told
  <2> QED BY <2>1 DEF MessagesKept, Strong, Alone
<1> QED BY <1>1, AlwaysStrong, PTL

(* The two halves of the key codes are of one report, although main.c reads *)
(* them one after the other (main.c:529-539), unless a list was started     *)
(* while the message of the last was still to be read.                     *)
THEOREM ReportsUntorn == Spec => Untorn
<1>1. Strong /\ [Next]_vars => [code' # code => code' \in Reports \cup {Blank} \/ "stale" \in events]_vars
  <2> SUFFICES ASSUME Strong, Next, code' # code, "stale" \notin events
               PROVE  code' \in Reports \cup {Blank}
    OBVIOUS
  <2> USE DEF driver, memory, controller, port, device
  <2>1. CASE ReadHigh
    <3>1. code' = <<buf[1], buf[2]>>
      BY <2>1 DEF ReadHigh, Strong, Alone
    <3>2. buf \in Reports \cup {Blank}
      BY DEF Strong, IInv, TypeOK, DriverOK, ControllerOK, KeyboardOK
    <3>3. ASSUME NEW b \in Reports PROVE b = <<b[1], b[2]>>
      <4>1. b \in Seq({0, 1}) /\ Len(b) = 2
        BY <3>3, KeyboardAssumption
      <4> QED BY <4>1
    <3>4. Blank = <<Blank[1], Blank[2]>>
      BY DEF Blank
    <3> QED BY <3>1, <3>2, <3>3, <3>4
  <2>2. CASE Driver /\ ~ReadHigh
    BY <2>2 DEF Driver, UsbSoftReset, Sie1Init, ReadMailbox, BusReset, Presence, Inserted, WriteList, StartList,
                Answered, Resend, ReadMessage, ClearMessage, Done, NotDone, StartStray, RetryRead,
                RetryClear, RetryWait, ReadLow, StillPresent
  <2>3. CASE Controller \/ RunNak \/ RunOdd \/ Fail \/ Unplug \/ Plug \/ Press
    BY <2>3 DEF Controller, RunSetup, RunData, RunStatus, RunReport, RunNak, RunOdd, Fail, Wander,
                Acknowledge, Unplug, Plug, Press
  <2> QED BY <2>1, <2>2, <2>3 DEF Next
<1> QED BY <1>1, AlwaysStrong, PTL DEF Spec, Untorn
=============================================================================
