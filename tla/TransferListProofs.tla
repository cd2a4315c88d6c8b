------------------------- MODULE TransferListProofs -------------------------
(***************************************************************************)
(* What holds of every list of transfer descriptors that usb.c and main.c   *)
(* write: facts about their constants, which the proofs about the driver   *)
(* rest on.                                                                *)
(***************************************************************************)
EXTENDS TransferList, TLAPS

(* Each descriptor leads to one of the same list, or ends it: the closing   *)
(* packet and the report do, and nothing else.                             *)
Linked(l) ==
  \A i \in DOMAIN l :
    /\ i \in Nat \ {0} /\ i <= 10
    /\ l[i].pid \in {Setup, In, Out, Report}
    /\ l[i].next = 0 <=> (l[i].pid # Setup /\ l[i].len = 0) \/ l[i].pid = Report
    /\ l[i].next # 0 => \E j \in DOMAIN l : l[j].at = l[i].next

(* The data bits are those of a control transfer: the data stage starts     *)
(* with 1 and alternates, and a setup packet or a report comes first.       *)
Alternating(l) ==
  \A i, j \in DOMAIN l :
    l[i].next # 0 /\ l[j].at = l[i].next /\ l[j].pid = In /\ l[j].len > 0 =>
      l[j].data = IF l[i].pid = Setup THEN 1 ELSE 1 - l[i].data

(* No data is put over a descriptor.                                        *)
Apart(l) ==
  \A i, j \in DOMAIN l :
    \/ l[i].at + TDSize <= l[j].base
    \/ l[j].base + l[j].len <= l[i].at

First(l) == 1 \in DOMAIN l /\ l[1].pid \in {Setup, Report}

Sound(l) == Linked(l) /\ Alternating(l) /\ Apart(l) /\ First(l)

(* Each list by itself: a claim about numbers.                              *)
LEMMA EachSound ==
  /\ Sound(UsbSetAddress)
  /\ Sound(UsbGetDeviceDesc1)
  /\ Sound(UsbGetDeviceDesc2)
  /\ Sound(UsbGetConfigDesc1)
  /\ Sound(UsbGetConfigDesc2)
  /\ Sound(UsbSetConfig)
  /\ Sound(UsbClassRequest)
  /\ Sound(UsbGetHidDesc)
  /\ Sound(UsbGetReportDesc)
  /\ Sound(PollReport)
<1> USE DEF Linked, Alternating, Apart, First, Request, Status, InData, TD, TDSize, Setup, In, Out, Report
<1>1. Sound(UsbSetAddress)
  BY DEF Sound, UsbSetAddress
<1>2. Sound(UsbGetDeviceDesc1)
  BY DEF Sound, UsbGetDeviceDesc1
<1>3. Sound(UsbGetDeviceDesc2)
  BY DEF Sound, UsbGetDeviceDesc2
<1>4. Sound(UsbGetConfigDesc1)
  BY DEF Sound, UsbGetConfigDesc1
<1>5. Sound(UsbGetConfigDesc2)
  BY DEF Sound, UsbGetConfigDesc2
<1>6. Sound(UsbSetConfig)
  BY DEF Sound, UsbSetConfig
<1>7. Sound(UsbClassRequest)
  BY DEF Sound, UsbClassRequest
<1>8. Sound(UsbGetHidDesc)
  BY DEF Sound, UsbGetHidDesc
<1>9. Sound(UsbGetReportDesc)
  BY DEF Sound, UsbGetReportDesc
<1>10. Sound(PollReport)
  BY DEF Sound, PollReport
<1> QED BY <1>1, <1>2, <1>3, <1>4, <1>5, <1>6, <1>7, <1>8, <1>9, <1>10

(* All lists in the order in which main.c goes through them.               *)
LEMMA ListsSound ==
  ASSUME NEW l \in 1 .. Polling
  PROVE  Sound(Lists[l])
<1>1. Lists[l] \in {UsbSetAddress, UsbGetDeviceDesc1, UsbGetDeviceDesc2, UsbGetConfigDesc1,
                    UsbGetConfigDesc2, UsbSetConfig, UsbClassRequest, UsbGetHidDesc,
                    UsbGetReportDesc, PollReport}
  BY DEF Lists, Polling
<1> QED BY <1>1, EachSound

(* No list of the enumeration has the descriptor of the poll.               *)
NoPoll(l) == \A i \in DOMAIN l : i \in Nat /\ l[i].pid # Report

LEMMA EnumerationLists ==
  /\ NoPoll(UsbSetAddress) /\ NoPoll(UsbGetDeviceDesc1) /\ NoPoll(UsbGetDeviceDesc2)
  /\ NoPoll(UsbGetConfigDesc1) /\ NoPoll(UsbGetConfigDesc2) /\ NoPoll(UsbSetConfig)
  /\ NoPoll(UsbClassRequest) /\ NoPoll(UsbGetHidDesc) /\ NoPoll(UsbGetReportDesc)
<1> USE DEF NoPoll, Request, Status, InData, TD, Setup, In, Out, Report
<1>1. NoPoll(UsbSetAddress)
  BY DEF UsbSetAddress
<1>2. NoPoll(UsbGetDeviceDesc1)
  BY DEF UsbGetDeviceDesc1
<1>3. NoPoll(UsbGetDeviceDesc2)
  BY DEF UsbGetDeviceDesc2
<1>4. NoPoll(UsbGetConfigDesc1)
  BY DEF UsbGetConfigDesc1
<1>5. NoPoll(UsbGetConfigDesc2)
  BY DEF UsbGetConfigDesc2
<1>6. NoPoll(UsbSetConfig)
  BY DEF UsbSetConfig
<1>7. NoPoll(UsbClassRequest)
  BY DEF UsbClassRequest
<1>8. NoPoll(UsbGetHidDesc)
  BY DEF UsbGetHidDesc
<1>9. NoPoll(UsbGetReportDesc)
  BY DEF UsbGetReportDesc
<1> HIDE DEF NoPoll
<1> QED BY <1>1, <1>2, <1>3, <1>4, <1>5, <1>6, <1>7, <1>8, <1>9

(* The last list is the poll, and a setup packet or a report tells which    *)
(* list it belongs to.                                                      *)
LEMMA ListKinds ==
  ASSUME NEW l \in 1 .. Polling, NEW i \in DOMAIN Lists[l]
  PROVE  /\ i \in Nat
         /\ Lists[l][i].pid = Setup => l < Polling
         /\ Lists[l][i].pid = Report => l = Polling
<1>1. CASE l = Polling
  <2>1. Lists[l] = PollReport
    BY <1>1 DEF Lists, Polling
  <2> QED BY <1>1, <2>1 DEF PollReport, TD, Setup, Report, Polling
<1>2. CASE l # Polling
  <2>1. NoPoll(Lists[l])
    <3>1. Lists[l] \in {UsbSetAddress, UsbGetDeviceDesc1, UsbGetDeviceDesc2, UsbGetConfigDesc1,
                        UsbGetConfigDesc2, UsbSetConfig, UsbClassRequest, UsbGetHidDesc,
                        UsbGetReportDesc}
      BY <1>2 DEF Lists, Polling
    <3> QED BY <3>1, EnumerationLists
  <2> QED BY <1>2, <2>1 DEF NoPoll, Polling
<1> QED BY <1>1, <1>2

(* All lists but the first are for the keyboard at address 2.               *)
ToTwo(l) == \A i \in DOMAIN l : l[i].device = 2

LEMMA LaterLists ==
  /\ ToTwo(UsbGetDeviceDesc1) /\ ToTwo(UsbGetDeviceDesc2) /\ ToTwo(UsbGetConfigDesc1)
  /\ ToTwo(UsbGetConfigDesc2) /\ ToTwo(UsbSetConfig) /\ ToTwo(UsbClassRequest)
  /\ ToTwo(UsbGetHidDesc) /\ ToTwo(UsbGetReportDesc) /\ ToTwo(PollReport)
<1> USE DEF ToTwo, Request, Status, InData, TD
<1>1. ToTwo(UsbGetDeviceDesc1)
  BY DEF UsbGetDeviceDesc1
<1>2. ToTwo(UsbGetDeviceDesc2)
  BY DEF UsbGetDeviceDesc2
<1>3. ToTwo(UsbGetConfigDesc1)
  BY DEF UsbGetConfigDesc1
<1>4. ToTwo(UsbGetConfigDesc2)
  BY DEF UsbGetConfigDesc2
<1>5. ToTwo(UsbSetConfig)
  BY DEF UsbSetConfig
<1>6. ToTwo(UsbClassRequest)
  BY DEF UsbClassRequest
<1>7. ToTwo(UsbGetHidDesc)
  BY DEF UsbGetHidDesc
<1>8. ToTwo(UsbGetReportDesc)
  BY DEF UsbGetReportDesc
<1>9. ToTwo(PollReport)
  BY DEF PollReport
<1> HIDE DEF ToTwo
<1> QED BY <1>1, <1>2, <1>3, <1>4, <1>5, <1>6, <1>7, <1>8, <1>9

LEMMA LaterAddress ==
  ASSUME NEW l \in 1 .. Polling, l # SetAddress, NEW i \in DOMAIN Lists[l]
  PROVE  Lists[l][i].device = 2
<1>1. Lists[l] \in {UsbGetDeviceDesc1, UsbGetDeviceDesc2, UsbGetConfigDesc1, UsbGetConfigDesc2,
                    UsbSetConfig, UsbClassRequest, UsbGetHidDesc, UsbGetReportDesc, PollReport}
  BY DEF Lists, Polling, SetAddress
<1>2. ToTwo(Lists[l])
  BY <1>1, LaterLists
<1> QED BY <1>2 DEF ToTwo
=============================================================================
