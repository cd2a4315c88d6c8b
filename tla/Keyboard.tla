------------------------------ MODULE Keyboard ------------------------------
(***************************************************************************)
(* The keyboard driver of main.c and usb.c, the USB controller it talks to *)
(* through a memory, a message register and a flag, and the keyboard.      *)
(* Driver actions are steps of main.c between two accesses that another    *)
(* party may come between; controller and keyboard are external and are    *)
(* modelled from what the driver's loops and tests allow for.              *)
(***************************************************************************)
EXTENDS TransferList, FiniteSets

CONSTANTS Reports,      \* what the keyboard may report, as pairs of words
          NoKeys,       \* the report with no key down
          Leftover,     \* a word of an old transfer list
          MaxResends,   \* a list is answered before it is written so often again
          MaxMishaps    \* no fault is added to so many mishaps of an attempt

None == "none"          \* no message
Endpoint == 98          \* place of what main.c:343-349 has the controller run
Astray == 99            \* place of anything else that is no TD of the list
Unreset == 128          \* no address: the keyboard waits for a bus reset

ASSUME KeyboardAssumption ==
  /\ NoKeys \in Reports /\ Reports \subseteq Seq({0, 1})
  /\ \A r \in Reports : Len(r) = 2
  /\ Leftover \notin {0, 1}
  /\ MaxResends \in Nat /\ MaxMishaps \in Nat

VARIABLES pc, step, resends,  \* place in main.c, request in Lists, resends of it
          got, low, code,     \* message read; first key word read; keycode register
          toggle,             \* polls so far, 0 even and 1 odd
          list, ctl,          \* the list in memory; control byte of its first TD
          td, msg, flag,      \* place of the current TD, 0 for none, SIE1 message and its flag
          buf,                \* the words at 0x51e and 0x520
          mailbox,            \* what the controller says of a command
          plugged, address, bit, heard, configured, \* keyboard, reset and addressed
          keys, fresh, turn,  \* its report, whether it is still to be fetched, its data bit
          events              \* what went wrong since the last soft reset

driver     == <<pc, step, resends, got, low, code, toggle>>
memory     == <<list, ctl, buf>>
controller == <<td, msg, flag>>
port       == <<plugged, mailbox>>
device     == <<address, bit, heard, configured, keys, fresh, turn>>
vars == <<driver, memory, controller, port, device, events>>

Places == {"reset", "init", "mailbox", "busreset", "presence", "absent", "poll", "write",
           "start", "flag", "read", "clear", "check", "endpoint", "retry", "retryclear",
           "retrywait", "low", "high", "present", "removed"}

Mishaps == {"refused",   \* the controller did not acknowledge a command
            "removed",   \* the keyboard was pulled
            "came",      \* one was plugged in, and no list has been answered yet
            "late",      \* a TD after the first of a list was not done
            "stale",     \* a done message is, or will be, of another list than the driver takes it for
            "blocked",   \* the first TD of a list was not done
            "lost",      \* a done message was cleared or overwritten before it was read
            "dropped"}   \* the last report was thrown away for its data bit

Blank == <<Leftover, Leftover>>

Init ==
  /\ pc = "reset" /\ step = 1 /\ resends = 0 /\ got = None /\ low = 0 /\ code = <<0, 0>>
  /\ toggle = 0 /\ mailbox = "empty"
  /\ list = 1 /\ ctl = "other" /\ buf = Blank
  /\ td = 0 /\ msg = None /\ flag = FALSE
  /\ plugged \in BOOLEAN
  /\ address = Unreset /\ bit = 0 /\ heard = {} /\ configured = FALSE
  /\ keys = NoKeys /\ fresh = FALSE /\ turn = 0 /\ events = {}

----------------------------------------------------------------------------
(* main.c and usb.c *)

UsbSoftReset ==
  /\ pc = "reset" /\ pc' = "init" /\ step' = 1 /\ resends' = 0
  /\ td' = 0 /\ msg' = None /\ flag' = FALSE /\ events' = {}
  /\ UNCHANGED <<got, low, code, toggle, memory, port, device>>

Refuse == pc' = "reset" /\ events' = events \cup {"refused"}

Sie1Init ==
  /\ pc = "init" /\ pc' = "mailbox" /\ mailbox' = "command" /\ msg' = None
  /\ UNCHANGED <<step, resends, got, low, code, toggle, memory, td, flag, plugged, device, events>>

\* Any bit of the status ends the wait, a message of the controller's too.
ReadMailbox ==
  /\ pc = "mailbox" /\ (flag \/ mailbox # "command") /\ mailbox' = "empty"
  /\ \/ mailbox = "ack" /\ pc' = "busreset" /\ UNCHANGED events
     \/ mailbox # "ack" /\ Refuse
  /\ UNCHANGED <<step, resends, got, low, code, toggle, memory, controller, plugged, device>>

\* This command's answer is not waited for.
BusReset ==
  /\ pc = "busreset"
  /\ (pc' = "presence" /\ UNCHANGED events) \/ Refuse
  /\ address' = IF plugged THEN 0 ELSE Unreset
  /\ heard' = {} /\ configured' = FALSE /\ keys' = NoKeys /\ fresh' = FALSE /\ turn' = 0
  /\ UNCHANGED <<step, resends, got, low, code, toggle, memory, controller, port, bit>>

\* A keyboard that is found during the five tries is not reset any more.
Presence ==
  /\ pc = "presence" /\ pc' = IF plugged THEN "write" ELSE "absent"
  /\ UNCHANGED <<step, resends, got, low, code, toggle, memory, controller, port, device, events>>

Inserted ==
  /\ pc \in {"absent", "removed"} /\ plugged /\ pc' = "reset"
  /\ UNCHANGED <<step, resends, got, low, code, toggle, memory, controller, port, device, events>>

\* Mutant: every poll has the same data bit.
WriteListUntoggled ==
  /\ pc \in {"write", "poll"} /\ pc' = "start"
  /\ list' = step /\ ctl' = "active"
  /\ buf' = IF step = Polling THEN buf ELSE Blank
  /\ UNCHANGED <<step, resends, got, low, code, toggle, controller, port, device, events>>

\* Every list but the poll's reaches over the words of the report.  A new poll has the other
\* data bit, one that is written again has the same.
WriteList ==
  /\ pc \in {"write", "poll"} /\ pc' = "start"
  /\ toggle' = IF pc = "poll" THEN 1 - toggle ELSE toggle
  /\ list' = step /\ ctl' = "active"
  /\ buf' = IF step = Polling THEN buf ELSE Blank
  /\ UNCHANGED <<step, resends, got, low, code, controller, port, device, events>>

StartList ==
  /\ pc = "start" /\ pc' = "flag" /\ td' = 1
  /\ events' = events \cup (IF msg = "done" THEN {"stale"} ELSE {})
  /\ UNCHANGED <<step, resends, got, low, code, toggle, memory, msg, flag, port, device>>

\* Mutant: the message is read without waiting for its flag.
AnsweredAtOnce ==
  /\ pc = "flag" /\ pc' = "read"
  /\ UNCHANGED <<step, resends, got, low, code, toggle, memory, controller, port, device, events>>

Answered ==
  /\ pc = "flag" /\ flag /\ pc' = "read"
  /\ UNCHANGED <<step, resends, got, low, code, toggle, memory, controller, port, device, events>>

Resend ==
  /\ pc = "flag" /\ ~flag /\ pc' = "write"
  /\ td = 0 \/ resends < MaxResends
  /\ resends' = IF resends < MaxResends THEN resends + 1 ELSE resends
  /\ UNCHANGED <<step, got, low, code, toggle, memory, controller, port, device, events>>

\* UsbWaitTDListDone: the message is read, which lowers the flag, and then cleared.
\* got and low are forgotten when they have been used.
ReadMessage ==
  /\ pc = "read" /\ pc' = "clear" /\ got' = msg /\ flag' = FALSE
  /\ UNCHANGED <<step, resends, low, code, toggle, memory, td, msg, port, device, events>>

\* A done message that came after the last read is lost.
Unread == IF flag /\ msg = "done" THEN {"lost"} ELSE {}

\* Mutant: the control byte is tested after a poll as well.
ClearMessageChecked ==
  /\ pc = "clear" /\ got' = None /\ msg' = None
  /\ events' = (events \cup Unread) \ (IF got = "done" THEN {"came"} ELSE {})
  /\ pc' = IF got # "done" THEN "read" ELSE "check"
  /\ UNCHANGED <<step, resends, low, code, toggle, memory, td, flag, port, device>>

ClearMessage ==
  /\ pc = "clear" /\ got' = None /\ msg' = None
  /\ events' = (events \cup Unread) \ (IF got = "done" THEN {"came"} ELSE {})
  /\ pc' = IF got # "done" THEN "read" ELSE IF step = Polling THEN "low" ELSE "check"
  /\ UNCHANGED <<step, resends, low, code, toggle, memory, td, flag, port, device>>

\* The descriptor of the keyboard's endpoint follows the fifth request, the polls the last.
Following ==
  IF step = ConfigDesc2 THEN "endpoint" ELSE IF step + 1 = Polling THEN "poll" ELSE "write"

\* Mutant: the control byte is not tested.
DoneUntested ==
  /\ pc = "check"
  /\ step' = step + 1 /\ resends' = 0
  /\ pc' = Following
  /\ UNCHANGED <<got, low, code, toggle, memory, controller, port, device, events>>

Done ==
  /\ pc = "check" /\ ctl = "ok"
  /\ step' = step + 1 /\ resends' = 0
  /\ pc' = Following
  /\ UNCHANGED <<got, low, code, toggle, memory, controller, port, device, events>>

NotDone ==
  /\ pc = "check" /\ ctl # "ok" /\ pc' = "retry"
  /\ UNCHANGED <<step, resends, got, low, code, toggle, memory, controller, port, device, events>>

StartStray ==
  /\ pc = "endpoint" /\ pc' = "write" /\ td' = Endpoint
  /\ UNCHANGED <<step, resends, got, low, code, toggle, memory, msg, flag, port, device, events>>

\* Mutant: the first request does not start over.
AfterRetryChecked == "check"

\* UsbGetRetryCnt, and what its caller does next: only the first request starts over.
AfterRetry == IF step = 1 THEN "reset" ELSE "check"

RetryRead ==
  /\ pc = "retry" /\ flag' = FALSE
  /\ pc' = IF msg = "done" THEN "retryclear" ELSE AfterRetry
  /\ UNCHANGED <<step, resends, got, low, code, toggle, memory, td, msg, port, device, events>>

RetryClear ==
  /\ pc = "retryclear" /\ pc' = "retrywait" /\ msg' = None /\ events' = events \cup Unread
  /\ UNCHANGED <<step, resends, got, low, code, toggle, memory, td, flag, port, device>>

RetryWait ==
  /\ pc = "retrywait" /\ flag /\ pc' = AfterRetry
  /\ UNCHANGED <<step, resends, got, low, code, toggle, memory, controller, port, device, events>>

\* Mutant: the next poll is started before the second half is read.
ReadLowStarting ==
  /\ pc = "low" /\ pc' = "high" /\ low' = buf[1] /\ td' = 1
  /\ UNCHANGED <<step, resends, got, code, toggle, memory, msg, flag, port, device, events>>

ReadLow ==
  /\ pc = "low" /\ pc' = "high" /\ low' = buf[1]
  /\ UNCHANGED <<step, resends, got, code, toggle, memory, controller, port, device, events>>

ReadHigh ==
  /\ pc = "high" /\ pc' = "present" /\ code' = <<low, buf[2]>> /\ low' = 0
  /\ UNCHANGED <<step, resends, got, toggle, memory, controller, port, device, events>>

StillPresent ==
  /\ pc = "present" /\ resends' = 0
  /\ pc' = IF plugged THEN "poll" ELSE "removed"
  /\ UNCHANGED <<step, got, low, code, toggle, memory, controller, port, device, events>>

Driver ==
  \/ UsbSoftReset \/ Sie1Init \/ ReadMailbox \/ BusReset
  \/ Presence \/ Inserted \/ WriteList \/ StartList \/ Answered \/ Resend
  \/ ReadMessage \/ ClearMessage \/ Done \/ NotDone \/ StartStray
  \/ RetryRead \/ RetryClear \/ RetryWait \/ ReadLow \/ ReadHigh \/ StillPresent

----------------------------------------------------------------------------
(* The controller: external, a TD at a time, a message at the end of a list *)

Known == td \in DOMAIN Lists[list]
Current == Lists[list][td]

\* The data bit that the host expects; the poll's is the toggle's.
Data == IF Current.pid = Report THEN 1 - toggle ELSE Current.data

\* The place in the list of the TD at an address; 0 ends the list.
Place(a) ==
  IF a = 0 THEN 0
  ELSE IF \E i \in DOMAIN Lists[list] : Lists[list][i].at = a
       THEN CHOOSE i \in DOMAIN Lists[list] : Lists[list][i].at = a
       ELSE Astray

\* The addressed keyboard answers.
Speaks ==
  /\ Known /\ plugged /\ Current.device = address
  /\ Current.pid = Report => configured

\* It has no data to send, or sends them with the data bit that the host expects.
Replies ==
  /\ Speaks
  /\ Current.len > 0 /\ Current.pid = In => Data = bit
  /\ Current.pid = Report /\ fresh => Data = turn

\* Bounds the faults of controller and keyboard, not the driver's own mishaps.
MayFail == Cardinality(events \ {"came", "dropped"}) < MaxMishaps

Acknowledge ==
  /\ mailbox = "command" /\ mailbox' \in {"ack", "other"}
  /\ UNCHANGED <<driver, memory, controller, plugged, device, events>>

Tell == msg' = "done" /\ flag' = TRUE

Proceed ==
  /\ td' = Place(Current.next)
  /\ IF Current.next = 0 THEN Tell ELSE UNCHANGED <<msg, flag>>

RunSetup ==
  /\ Replies /\ Current.pid = Setup /\ Proceed
  /\ heard' = heard \cup {list} /\ bit' = 1
  /\ \/ ctl' = "ok" /\ UNCHANGED events
     \/ MayFail /\ ctl' = "other" /\ events' = events \cup {"blocked"}
  /\ UNCHANGED <<driver, list, buf, port, address, configured, keys, fresh, turn>>

RunData ==
  /\ Replies /\ Current.pid = In /\ Current.len > 0 /\ Proceed
  /\ bit' = 1 - bit
  /\ UNCHANGED <<driver, memory, port, address, heard, configured, keys, fresh, turn, events>>

\* A keyboard acts on a request when it is closed.
Acts ==
  \/ list = SetAddress /\ address' = 2 /\ UNCHANGED <<configured, keys, fresh, turn>>
  \/ list = SetConfig /\ configured' = TRUE /\ keys' = NoKeys /\ fresh' = FALSE /\ turn' = 0
     /\ UNCHANGED address
  \/ list \notin {SetAddress, SetConfig} /\ UNCHANGED <<address, configured, keys, fresh, turn>>

RunStatus ==
  /\ Replies /\ Current.pid \in {In, Out} /\ Current.len = 0 /\ Proceed /\ Acts
  /\ UNCHANGED <<driver, memory, port, bit, heard, events>>

RunReport ==
  /\ Replies /\ Current.pid = Report /\ fresh /\ Proceed
  /\ buf' = keys /\ fresh' = FALSE /\ turn' = 1 - turn /\ ctl' = "ok"
  /\ UNCHANGED <<driver, list, port, address, bit, heard, configured, keys, events>>

\* Nothing new to report: the list may end without data, or stay.
RunNak ==
  /\ Replies /\ Current.pid = Report /\ ~fresh /\ Proceed /\ ctl' = "other"
  /\ UNCHANGED <<driver, list, buf, port, device, events>>

\* A report with the other data bit that is acknowledged all the same is taken as it is, or thrown
\* away for one that was sent twice, and then the poll may go on.
RunOdd ==
  /\ Speaks /\ Current.pid = Report /\ fresh /\ Data # turn
  /\ fresh' = FALSE /\ turn' = 1 - turn
  /\ \/ Proceed /\ ctl' = "other" /\ buf' = keys /\ UNCHANGED events
     \/ Proceed /\ ctl' = "other" /\ events' = events \cup {"dropped"} /\ UNCHANGED buf
     \/ ctl' = "active" /\ events' = events \cup {"dropped"} /\ UNCHANGED <<buf, controller>>
  /\ UNCHANGED <<driver, list, port, address, bit, heard, configured, keys>>

\* A TD that is not answered, or is answered and not acknowledged, ends the list.
Fail ==
  /\ Known /\ (Replies => MayFail)
  /\ td' = 0 /\ Tell
  /\ IF td = 1
     THEN /\ ctl' = "other" /\ UNCHANGED device
          /\ events' = events \cup (IF list = Polling THEN {} ELSE {"blocked"})
     ELSE /\ events' = events \cup {"late"} /\ UNCHANGED <<ctl, bit, heard>>
          /\ IF Replies /\ Current.next = 0 THEN Acts \/ UNCHANGED device ELSE UNCHANGED device
  /\ UNCHANGED <<driver, list, buf, port>>

\* At an address where no TD of the list lies there is what older lists left.
Wander ==
  /\ td # 0 /\ ~Known /\ td' = 0
  /\ \/ Tell /\ events' = events \cup {"stale"}
     \/ UNCHANGED <<msg, flag, events>>
  /\ UNCHANGED <<driver, memory, port, device>>

----------------------------------------------------------------------------
(* The keyboard: external *)

\* The controller may tell of it, in the place of a message that is still there.
Notice(e) ==
  \/ msg' = "change" /\ flag' = TRUE /\ events' = events \cup e \cup Unread
  \/ UNCHANGED <<msg, flag>> /\ events' = events \cup e

Unplug ==
  /\ plugged /\ MayFail /\ plugged' = FALSE /\ Notice({"removed"})
  /\ address' = Unreset /\ bit' = 0 /\ heard' = {} /\ configured' = FALSE
  /\ keys' = NoKeys /\ fresh' = FALSE /\ turn' = 0
  /\ UNCHANGED <<driver, memory, td, mailbox>>

Plug ==
  /\ ~plugged /\ plugged' = TRUE /\ Notice({"came"})
  /\ UNCHANGED <<driver, memory, td, mailbox, device>>

\* What is pressed before the polling loop is what the first poll finds.
Press ==
  /\ configured /\ step = Polling /\ keys' \in Reports \ {keys} /\ fresh' = TRUE
  /\ events' = events \ {"dropped"}
  /\ UNCHANGED <<driver, memory, controller, port, address, bit, heard, configured, turn>>

Controller ==
  Acknowledge \/ RunSetup \/ RunData \/ RunStatus \/ RunReport \/ Wander \/ (~Replies /\ Fail)

Next == Driver \/ Controller \/ RunNak \/ RunOdd \/ Fail \/ Unplug \/ Plug \/ Press

Spec == Init /\ [][Next]_vars

\* The program and the controller do not stop, and reports are not lost for ever.
Fairness == WF_vars(Driver) /\ WF_vars(Controller) /\ SF_vars(RunReport)

LiveSpec == Spec /\ Fairness

----------------------------------------------------------------------------

DriverOK ==
  /\ pc \in Places /\ step \in 1 .. Polling /\ resends \in 0 .. MaxResends
  /\ got \in {None, "done", "change"} /\ low \in {0, 1, Leftover}
  /\ code \in {0, 1, Leftover} \X {0, 1, Leftover} /\ toggle \in {0, 1}

ControllerOK ==
  /\ list \in 1 .. Polling /\ ctl \in {"active", "ok", "other"}
  /\ buf \in Reports \cup {Blank}
  /\ td \in Nat /\ msg \in {None, "done", "change"} /\ flag \in BOOLEAN
  /\ mailbox \in {"empty", "command", "ack", "other"}

KeyboardOK ==
  /\ plugged \in BOOLEAN /\ address \in {0, 2, Unreset} /\ bit \in {0, 1}
  /\ heard \subseteq 1 .. Polling - 1 /\ configured \in BOOLEAN
  /\ keys \in Reports /\ fresh \in BOOLEAN /\ turn \in {0, 1}

TypeOK == DriverOK /\ ControllerOK /\ KeyboardOK /\ events \subseteq Mishaps

\* While the keyboard stays plugged in, the driver leaves a request behind only when
\* the keyboard has received it, even if the done message it acted on was an older one
\* (main.c:177-463: each step tests the control byte of the list it has just written).
Ordered == "removed" \notin events => 1 .. step - 1 \subseteq heard

\* The inductive invariant of Ordered: from the writing of a list on, a control byte that says
\* ok is the answer to the request in it.
Written == {"start", "flag", "read", "clear", "check", "retry", "retryclear", "retrywait",
            "low", "high", "present"}

Answering ==
  /\ pc \in {"init", "mailbox", "busreset"} => step = 1
  /\ pc \in {"check", "retry", "retryclear", "retrywait"} => step < Polling
  /\ pc \in Written => list = step
  /\ pc \in Written /\ ctl = "ok" /\ list < Polling /\ "removed" \notin events => list \in heard

\* The second request and those after it are sent to the address that the first one gives.
Addressed == heard \ {SetAddress} # {} => address = 2

IInv == TypeOK /\ Answering /\ Ordered /\ Addressed

\* The keyboard that the driver polls has its address, whatever failed before, unless it was pulled; and
\* it is configured, unless a TD after the first failed (main.c:223 and the like read only the first one's
\* control byte) or a done message of another list was taken for an answer.
Ready ==
  step = Polling /\ "removed" \notin events =>
    /\ address = 2
    /\ events \cap {"late", "stale"} = {} => configured

\* As long as the controller works on the list of the current request, the lists of usb.c hold together: each TD
\* leads to a TD, the data bits are those of a control transfer, and no data is put over a TD.
ListsHold ==
  td \notin {0, Endpoint} /\ "stale" \notin events =>
    /\ Known
    /\ Current.pid = In /\ Current.len > 0 /\ "removed" \notin events => Current.data = bit
    /\ \A i \in DOMAIN Lists[list] :
         \/ Lists[list][i].at + TDSize <= Current.base
         \/ Current.base + Current.len <= Lists[list][i].at

\* The inductive invariant of the two, and of MessagesKept and Untorn below.  As long as no done message was taken for another
\* list's, one list runs at a time, and only at these places; a list that is written again is the one that runs.
Working == {"write", "start", "flag", "read", "clear"}

Alone ==
  /\ got # None => pc = "clear"
  /\ "stale" \notin events =>
       /\ td # 0 => pc \in Working /\ msg # "done" /\ got # "done"
       /\ msg = "done" => pc \in Working
       /\ td = Endpoint => pc = "write" \/ (pc = "start" /\ ctl = "active")
       /\ td \notin {0, Endpoint} /\ pc = "write" => list = step
       /\ pc = "high" => low = buf[1]
       /\ pc \notin {"retryclear", "retrywait"}

\* A list that has ended with its control byte at ok was closed, and the keyboard has acted on it.
Closed ==
  events \cap {"removed", "late", "stale"} = {} =>
    /\ step > SetAddress => address = 2
    /\ step > SetConfig => configured
    /\ pc \in Written /\ ctl = "ok" /\ td = 0 =>
         (list = SetAddress => address = 2) /\ (list = SetConfig => configured)

\* While no keyboard comes or goes, the driver reads and clears a done message and nothing else;
\* when it has lost one, it waits for the next with no list running.
Unsettled == {"reset", "init", "mailbox", "busreset", "presence", "absent"}

Told ==
  events \cap {"removed", "stale"} = {} =>
    /\ pc \notin Unsettled => plugged
    /\ pc = "clear" /\ got = "done" => ~flag
    /\ "lost" \in events => pc \in {"read", "clear"} /\ td = 0 /\ msg # "done" /\ got # "done"
    /\ "came" \notin events =>
         /\ "lost" \notin events /\ msg \in {None, "done"}
         /\ flag => msg = "done"
         /\ pc = "read" => msg = "done"
         /\ pc = "clear" => got = "done"

Strong == IInv /\ Alone /\ Closed /\ Told /\ ListsHold

\* The driver loses no done message between its read and its clearing (usb.c:541-553) but in a list during
\* which the keyboard was pulled, or the first list of one that was plugged in after the soft reset; and
\* UsbGetRetryCnt finds none to wait after (usb.c:565-571); unless a list was started twice.
MessagesKept ==
  "stale" \notin events =>
    /\ pc \notin {"retryclear", "retrywait"}
    /\ "lost" \in events => events \cap {"removed", "came"} # {}

\* The register shows a report of the keyboard, not a mixture of two (main.c:529-539 reads it
\* in two halves), or what was in memory before the first; except after a list was started twice.
Untorn ==
  [][code' # code => code' \in Reports \cup {Blank} \/ "stale" \in events]_vars

\* A keyboard that stays plugged in is enumerated, after however many attempts that failed, once nothing more
\* goes wrong. A driver may be stuck for ever only by a done message that it lost or took for another's, or by a
\* request after the first that failed (main.c:179-463, usb.c:543-584).
Stuck == events \cap {"stale", "lost"} # {} \/ (step > 1 /\ "blocked" \in events)

Enumerates ==
  <>[]plugged /\ <>[][events' \subseteq events]_events => <>[](step = Polling \/ Stuck)

\* A release of all keys that the keyboard has to report reaches the register (main.c:469-539), also when
\* polls without data have put the driver's data bit out of step with the keyboard's; unless the keyboard is
\* pressed again or pulled, the driver is stuck, or the controller threw the report away for its data bit.
Served == step = Polling /\ configured /\ events \cap {"blocked", "lost", "dropped"} = {}

Released ==
  Served /\ keys = NoKeys /\ fresh ~> code = NoKeys \/ keys # NoKeys \/ ~Served

\* A request that was not processed is sent again, or the driver starts over (main.c:210).
SentAgain ==
  pc = "check" /\ ctl # "ok" /\ step > 1 /\ events = {"blocked"} ~> pc \in {"write", "reset"}
=============================================================================
