---------------------------- MODULE TransferList ----------------------------
(***************************************************************************)
(* The lists of transfer descriptors that usb.c and main.c write into the  *)
(* memory of the USB controller, one request of the enumeration each, and  *)
(* the single descriptor of the polling loop.  A descriptor lies at an     *)
(* address, moves len bytes from or to base, and points to the next one.    *)
(***************************************************************************)
EXTENDS Naturals, Sequences

Setup  == "setup"    \* 0xD0: the eight bytes of a request
In     == "in"       \* 0x90: data, or the closing packet, from the device
Out    == "out"      \* 0x10: the closing packet to the device
Report == "report"   \* 0x91: endpoint 1

TDSize == 12
TD(at, base, len, pid, device, data, next) ==
  [at |-> at, base |-> base, len |-> len, pid |-> pid, device |-> device, data |-> data, next |-> next]

\* The first descriptor of every request; its eight bytes follow it.
Request(device) == TD(\h0500, \h050C, 8, Setup, device, 0, \h0514)

Status(at, pid, device) == TD(at, 0, 0, pid, device, 1, 0)

InData(at, base, len, data, next) == TD(at, base, len, In, 2, data, next)

UsbSetAddress == <<Request(0), Status(\h0514, In, 0)>>

UsbGetDeviceDesc1 ==
  <<Request(2), InData(\h0514, \h052C, 8, 1, \h0520), Status(\h0520, Out, 2)>>

\* Mutant: the third packet has the second one's data bit.
UsbGetDeviceDesc2Untoggled ==
  <<Request(2),
    InData(\h0514, \h0544, 8, 1, \h0520), InData(\h0520, \h054C, 8, 0, \h052C),
    InData(\h052C, \h0554, 2, 0, \h0538), Status(\h0538, Out, 2)>>

UsbGetDeviceDesc2 ==
  <<Request(2),
    InData(\h0514, \h0544, 8, 1, \h0520), InData(\h0520, \h054C, 8, 0, \h052C),
    InData(\h052C, \h0554, 2, 1, \h0538), Status(\h0538, Out, 2)>>

UsbGetConfigDesc1 ==
  <<Request(2),
    InData(\h0514, \h0544, 8, 1, \h0520), InData(\h0520, \h054C, 1, 0, \h052C),
    Status(\h052C, Out, 2)>>

UsbGetConfigDesc2 ==
  <<Request(2),
    InData(\h0514, \h055C, 8, 1, \h0520), InData(\h0520, \h0564, 8, 0, \h052C),
    InData(\h052C, \h056C, 8, 1, \h0538), InData(\h0538, \h0574, 8, 0, \h0544),
    InData(\h0544, \h057C, 2, 1, \h0550), Status(\h0550, Out, 2)>>

\* Mutant: no status stage.
UsbSetConfigUnclosed == <<TD(\h0500, \h050C, 8, Setup, 2, 0, 0)>>

UsbSetConfig == <<Request(2), Status(\h0514, In, 2)>>

UsbClassRequest == <<Request(2), Status(\h0514, In, 2)>>

UsbGetHidDesc ==
  <<Request(2), InData(\h0514, \h0544, 8, 1, \h0520), Status(\h0520, Out, 2)>>

UsbGetReportDesc ==
  <<Request(2),
    InData(\h0514, \h0580, 8, 1, \h0520), InData(\h0520, \h0588, 8, 0, \h052C),
    InData(\h052C, \h0590, 8, 1, \h0538), InData(\h0538, \h0598, 8, 0, \h0544),
    InData(\h0544, \h05A0, 8, 1, \h0550), InData(\h0550, \h05A8, 8, 0, \h055C),
    InData(\h055C, \h05B0, 8, 1, \h0568), InData(\h0568, \h05B8, 3, 0, \h0574),
    Status(\h0574, Out, 2)>>

\* The polling loop's descriptor, as the first poll has it; its data bit is the toggle's (Keyboard.Data).
PollReport == <<TD(\h0500, \h051C, 8, Report, 2, 0, 0)>>

\* The order in which main.c goes through them.
Lists ==
  <<UsbSetAddress, UsbGetDeviceDesc1, UsbGetDeviceDesc2, UsbGetConfigDesc1, UsbGetConfigDesc2,
    UsbSetConfig, UsbClassRequest, UsbGetHidDesc, UsbGetReportDesc, PollReport>>

SetAddress  == 1   \* places in Lists
ConfigDesc2 == 5
SetConfig   == 6
Polling     == 10
=============================================================================
