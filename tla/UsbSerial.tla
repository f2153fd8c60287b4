------------------------------ MODULE UsbSerial ------------------------------
(***************************************************************************)
(* The debugging output over USB: Helpers.c, with the tables and the       *)
(* callback of Descriptors.c, for a program that calls setUpUsbSerial()    *)
(* and then writes now and then. Of LUFA, which is not in the repository,  *)
(* it has what these files rely on; the host enumerates the device, opens  *)
(* the port and reads.                                                     *)
(*                                                                         *)
(* LUFAConfig.h selects INTERRUPT_CONTROL_ENDPOINT: the requests of the    *)
(* host are served by an interrupt, between any two steps of the program.  *)
(* The bytes that are written are numbered.                                *)
(***************************************************************************)
EXTENDS Integers, Sequences

CONSTANTS
  CDC_TXRX_EPSIZE,  \* bytes in the bank of a data endpoint: 16
  Encodings,        \* line encodings that the host asks for
  Sizes,            \* sizes of what the program writes
  MaxBytes,         \* bound: bytes written
  MaxRequests       \* bound: resets of the bus, and further line encodings

\* LineEncoding as CDC has it: stop 0, 1, 2 for 1, 1.5, 2 stop bits; parity 0
\* for none, 1 odd, 2 even, 3 mark, 4 space.
LineEncoding ==
  [baud : Nat, stop : 0 .. 2, parity : 0 .. 4, bits : {0, 5, 6, 7, 8, 16}]

ASSUME UsbSerialAssumption ==
  /\ CDC_TXRX_EPSIZE \in Nat \ {0}
  /\ Encodings \subseteq LineEncoding /\ \A e \in Encodings : e.baud # 0
  /\ Sizes \subseteq Nat
  /\ MaxBytes \in Nat /\ MaxRequests \in Nat

Unset == [baud |-> 0, stop |-> 0, parity |-> 0, bits |-> 0]

VARIABLES
  pc,                             \* where the program is
  wdrf, wdt,                      \* WDRF; the watchdog is on
  iflag,                          \* interrupts are enabled
  usb,                            \* USB_DeviceState
  endpoints,                      \* the endpoints that are configured
  encoding,                       \* State.LineEncoding
  asks,                           \* descriptors the host has yet to read
  requests,                       \* what MaxRequests bounds
  isr,                            \* store LineEncodingChanged is at, 0: none
  UCSR1A, UCSR1B, UCSR1C, UBRR1,  \* the USART
  rxc,                            \* it has received a byte
  next, left,                     \* the next byte to write, and how many
  bank, sending,                  \* the bank of the data IN endpoint
  last                            \* history: the last byte the host has read

chip   == <<wdrf, wdt, iflag>>
device == <<usb, endpoints, encoding>>
host   == <<asks, requests, last>>
usart  == <<UCSR1A, UCSR1B, UCSR1C, UBRR1, rxc>>
text   == <<next, left>>
fifo   == <<bank, sending>>
vars   == <<pc, chip, device, host, isr, usart, text, fifo>>

-----------------------------------------------------------------------------
(***************************************************************************)
(* Tables.                                                                 *)
(***************************************************************************)

Endpoint(dir, number, size) == [dir |-> dir, number |-> number, size |-> size]

CDC_NOTIFICATION == Endpoint("in", 2, 8)
CDC_TX           == Endpoint("in", 3, CDC_TXRX_EPSIZE)
CDC_RX           == Endpoint("out", 4, CDC_TXRX_EPSIZE)

VirtualSerial_CDC_Interface ==
  [control |-> 0, endpoints |-> {CDC_TX, CDC_RX, CDC_NOTIFICATION}]

\* A descriptor is what it says of other descriptors, "refs", and of the
\* device. The serial number has the index USE_INTERNAL_SERIAL, which the
\* library itself answers.
String(n) == <<"String", n>>
USE_INTERNAL_SERIAL == 220

DeviceDescriptor ==
  [refs |-> {String(0), String(1), String(2), String(USE_INTERNAL_SERIAL),
             <<"Configuration", 0>>},
   configurations |-> 1]

\* No string belongs to the configuration or to an interface.
ConfigurationDescriptor ==
  [refs |-> {}, number |-> 1,
   master |-> 0, slave |-> 1,
   in0 |-> {CDC_NOTIFICATION}, in1 |-> {CDC_RX, CDC_TX}]

StringDescriptor == [refs |-> {}]

\* Mutant: the product string is forgotten.
DescriptorWithoutProduct(q) ==
  CASE q[1] = "Device"                  -> {DeviceDescriptor}
    [] q[1] = "Configuration"           -> {ConfigurationDescriptor}
    [] q \in {String(0), String(1)}     -> {StringDescriptor}
    [] OTHER                            -> {}

\* The descriptor of that type and number, if there is one. The number counts
\* for strings only: the language, the manufacturer and the product.
CALLBACK_USB_GetDescriptor(q) ==
  CASE q[1] = "Device"                           -> {DeviceDescriptor}
    [] q[1] = "Configuration"                    -> {ConfigurationDescriptor}
    [] q \in {String(n) : n \in {0, 1, 2}}       -> {StringDescriptor}
    [] OTHER                                     -> {}

Reply(q) ==
  IF q = String(USE_INTERNAL_SERIAL) THEN {StringDescriptor}
                                     ELSE CALLBACK_USB_GetDescriptor(q)

\* Mutant: eight data bits are seven.
MaskShort(e) ==
  (CASE e.parity = 1 -> {"UPM11", "UPM10"} [] e.parity = 2 -> {"UPM11"} [] OTHER -> {})
  \cup (IF e.stop = 2 THEN {"USBS1"} ELSE {})
  \cup (CASE e.bits = 6 -> {"UCSZ10"} [] e.bits \in {7, 8} -> {"UCSZ11"} [] OTHER -> {})

\* The bits of UCSR1C for a line encoding.
ConfigMask(e) ==
  (CASE e.parity = 1 -> {"UPM11", "UPM10"} [] e.parity = 2 -> {"UPM11"} [] OTHER -> {})
  \cup (IF e.stop = 2 THEN {"USBS1"} ELSE {})
  \cup (CASE e.bits = 6 -> {"UCSZ10"}
          [] e.bits = 7 -> {"UCSZ11"}
          [] e.bits = 8 -> {"UCSZ11", "UCSZ10"}
          [] OTHER -> {})

-----------------------------------------------------------------------------
(***************************************************************************)
(* The host, and the interrupts that serve it.                             *)
(***************************************************************************)

\* The receiver of the USART calls for its interrupt, which is taken before
\* the next instruction.
Pending == iflag /\ rxc /\ "RXCIE1" \in UCSR1B

\* The interrupt of the control endpoint can run.
Served == iflag /\ isr = 0 /\ ~Pending

\* The host reads a descriptor, and asks for those that it names. A request
\* that the device does not serve is repeated.
GetDescriptor ==
  /\ Served
  /\ usb = "attached"
  /\ \E q \in asks :
       /\ Reply(q) # {}
       /\ asks' = (asks \ {q}) \cup UNION {d.refs : d \in Reply(q)}
  /\ UNCHANGED <<pc, chip, device, requests, last, isr, usart, text, fifo>>

\* CDC_Device_ConfigureEndpoints clears the state of the interface.
EVENT_USB_Device_ConfigurationChanged ==
  /\ usb' = "configured"
  /\ endpoints' = VirtualSerial_CDC_Interface.endpoints
  /\ encoding' = Unset
  /\ bank' = <<>>
  /\ sending' = FALSE

SetConfiguration ==
  /\ Served
  /\ usb = "attached"
  /\ asks = {}
  /\ ConfigurationDescriptor.number <= DeviceDescriptor.configurations
  /\ EVENT_USB_Device_ConfigurationChanged
  /\ UNCHANGED <<pc, chip, host, isr, usart, text>>

\* A request for the interface is passed on to the class driver, which takes
\* it if it is for the control interface.
EVENT_USB_Device_ControlRequest(interface, e) ==
  /\ interface = VirtualSerial_CDC_Interface.control
  /\ encoding' = e
  /\ isr' = 1

\* The host opens the port, or changes its settings.
SetLineEncoding(e) ==
  /\ Served
  /\ usb = "configured"
  /\ requests' = IF encoding = Unset THEN requests ELSE requests + 1
  /\ requests' <= MaxRequests
  /\ EVENT_USB_Device_ControlRequest(ConfigurationDescriptor.master, e)
  /\ UNCHANGED <<pc, chip, usb, endpoints, asks, last, usart, text, fifo>>

\* Mutant: the USART is not turned off.
ChangeRunning ==
  /\ isr # 0
  /\ ~Pending
  /\ isr' = (isr + 1) % 8
  /\ UCSR1B' = IF isr = 7 THEN {"RXCIE1", "TXEN1", "RXEN1"} ELSE UCSR1B
  /\ UCSR1A' = CASE isr = 2 -> {} [] isr = 6 -> {"U2X1"} [] OTHER -> UCSR1A
  /\ UCSR1C' = CASE isr = 3 -> {} [] isr = 5 -> ConfigMask(encoding) [] OTHER -> UCSR1C
  /\ UBRR1'  = IF isr = 4 THEN encoding.baud ELSE UBRR1
  /\ rxc' = rxc
  /\ UNCHANGED <<pc, chip, device, host, text, fifo>>

\* The seven stores to the USART; UBRR1 stands for the rate it gives. Turning
\* the receiver off forgets a byte received. The library serves the request
\* with interrupts on.
EVENT_CDC_Device_LineEncodingChanged ==
  /\ isr # 0
  /\ ~Pending
  /\ isr' = (isr + 1) % 8
  /\ UCSR1B' = CASE isr = 1 -> {} [] isr = 7 -> {"RXCIE1", "TXEN1", "RXEN1"} [] OTHER -> UCSR1B
  /\ UCSR1A' = CASE isr = 2 -> {} [] isr = 6 -> {"U2X1"} [] OTHER -> UCSR1A
  /\ UCSR1C' = CASE isr = 3 -> {} [] isr = 5 -> ConfigMask(encoding) [] OTHER -> UCSR1C
  /\ UBRR1'  = IF isr = 4 THEN encoding.baud ELSE UBRR1
  /\ rxc' = (rxc /\ isr # 1)
  /\ UNCHANGED <<pc, chip, device, host, text, fifo>>

\* The host resets the bus, or the cable is plugged in again.
BusReset ==
  /\ iflag
  /\ usb # "off"
  /\ requests < MaxRequests
  /\ requests' = requests + 1
  /\ usb' = "attached"
  /\ endpoints' = {}
  /\ asks' = {<<"Device", 0>>}
  /\ bank' = <<>>
  /\ sending' = FALSE
  /\ UNCHANGED <<pc, chip, encoding, last, isr, usart, text>>

\* The host reads a packet from the endpoint that the descriptor names.
HostReads ==
  /\ sending
  /\ endpoints \cap ConfigurationDescriptor.in1 \cap {e \in endpoints : e.dir = "in"} # {}
  /\ sending' = FALSE
  /\ bank' = <<>>
  /\ last' = IF bank = <<>> THEN last ELSE bank[Len(bank)]
  /\ UNCHANGED <<pc, chip, device, asks, requests, isr, usart, text>>

\* A byte, or noise, arrives at the pin RXD1.
StrayByte ==
  /\ "RXEN1" \in UCSR1B
  /\ ~rxc
  /\ rxc' = TRUE
  /\ UNCHANGED <<pc, chip, device, host, isr, UCSR1A, UCSR1B, UCSR1C, UBRR1, text, fifo>>

\* No file has a handler for the interrupt that RXCIE1 enables: it jumps to
\* address 0, and the program starts over with its registers as they are. The
\* byte is not read, and so stays received.
BadInterrupt ==
  /\ Pending
  /\ pc' = "mcusr"
  /\ isr' = 0
  /\ iflag' = FALSE
  /\ usb' = "off"
  /\ encoding' = Unset
  /\ left' = 0
  /\ UNCHANGED <<wdrf, wdt, endpoints, host, usart, next, fifo>>

-----------------------------------------------------------------------------
(***************************************************************************)
(* The program.                                                            *)
(***************************************************************************)

\* A step of the program, when no interrupt is being served.
Step(from, to) ==
  /\ isr = 0
  /\ ~Pending
  /\ pc = from
  /\ pc' = to

\* Mutant: WDRF is left set.
KeepWDRF ==
  /\ Step("mcusr", "wdt")
  /\ UNCHANGED <<chip, device, host, isr, usart, text, fifo>>

ClearWDRF ==
  /\ Step("mcusr", "wdt")
  /\ wdrf' = FALSE
  /\ UNCHANGED <<wdt, iflag, device, host, isr, usart, text, fifo>>

\* The hardware keeps the watchdog on while WDRF is set.
wdt_disable ==
  /\ Step("wdt", "usb")
  /\ wdt' = wdrf
  /\ UNCHANGED <<wdrf, iflag, device, host, isr, usart, text, fifo>>

\* The device appears on the bus. (The prescaler and wdt_reset() have no
\* effect here.)
USB_Init ==
  /\ Step("usb", "sei")
  /\ usb' = "attached"
  /\ endpoints' = {}
  /\ asks' = {<<"Device", 0>>}
  /\ bank' = <<>>
  /\ sending' = FALSE
  /\ UNCHANGED <<chip, encoding, requests, last, isr, usart, text>>

\* The stream is created after that, which nothing but the program uses.
sei ==
  /\ Step("sei", "ready")
  /\ iflag' = TRUE
  /\ UNCHANGED <<wdrf, wdt, device, host, isr, usart, text, fifo>>

\* Mutant: the last byte is forgotten.
WriteOneLess(n) ==
  /\ Step("ready", "put")
  /\ next + n <= MaxBytes + 1
  /\ left' = n - 1
  /\ UNCHANGED <<chip, device, host, isr, usart, next, fifo>>

\* usbWriteString, debug, and debugSized, which differ in how they know the
\* number of bytes.
Write(n) ==
  /\ Step("ready", "put")
  /\ next + n <= MaxBytes + 1
  /\ left' = n
  /\ UNCHANGED <<chip, device, host, isr, usart, next, fifo>>

Open == usb = "configured" /\ encoding.baud # 0

\* Mutant: the pointer is not advanced.
AdvanceNot == next' = next /\ left' = left - 1

\* Mutant: a byte that was not taken is tried again.
AdvanceIfTaken ==
  IF bank' # bank THEN next' = next + 1 /\ left' = left - 1 ELSE UNCHANGED text

\* The next byte of the text, whether this one was taken or not.
Advance == next' = next + 1 /\ left' = left - 1

\* CDC_Device_SendByte: nothing is sent to a port that is not open.
PutNothing ==
  /\ left > 0 /\ ~Open
  /\ Step("put", "put")
  /\ UNCHANGED fifo
  /\ Advance
  /\ UNCHANGED <<chip, device, host, isr, usart>>

PutByte ==
  /\ left > 0 /\ Open
  /\ ~sending /\ Len(bank) < CDC_TXRX_EPSIZE
  /\ Step("put", "put")
  /\ bank' = Append(bank, next)
  /\ sending' = sending
  /\ Advance
  /\ UNCHANGED <<chip, device, host, isr, usart>>

\* A full bank is handed over, and then waited for, as one under way is.
PutFull ==
  /\ left > 0 /\ Open
  /\ sending \/ Len(bank) = CDC_TXRX_EPSIZE
  /\ Step("put", "wait")
  /\ sending' = TRUE
  /\ UNCHANGED <<chip, device, host, isr, usart, text, bank>>

\* The host has read the bank, or not within the time-out.
WaitUntilReady ==
  /\ Step("wait", "put")
  /\ \/ usb = "configured" /\ ~sending /\ bank' = Append(bank, next)
     \/ (usb # "configured" \/ sending) /\ bank' = bank
  /\ sending' = sending
  /\ Advance
  /\ UNCHANGED <<chip, device, host, isr, usart>>

\* The end of the text; avr-libc's fflush does nothing.
EndOfText ==
  /\ left = 0
  /\ Step("put", "task")
  /\ UNCHANGED <<chip, device, host, isr, usart, text, fifo>>

\* The program calls periodicUsbTask.
Periodic ==
  /\ Step("ready", "task")
  /\ UNCHANGED <<chip, device, host, isr, usart, text, fifo>>

\* Mutant: only USB_USBTask is called.
TaskWithoutFlush ==
  /\ Step("task", "ready")
  /\ UNCHANGED <<chip, device, host, isr, usart, text, fifo>>

\* CDC_Device_USBTask hands a bank over that has bytes in it. USB_USBTask has
\* nothing to do, since the requests are served by the interrupt.
periodicUsbTask ==
  LET flush == Open /\ ~sending /\ bank # <<>>
  IN  /\ Step("task", IF flush /\ Len(bank) = CDC_TXRX_EPSIZE THEN "zlp" ELSE "ready")
      /\ sending' = (sending \/ flush)
      /\ UNCHANGED <<chip, device, host, isr, usart, text, bank>>

\* A full packet is followed by an empty one, when the host has read it.
EmptyPacket ==
  /\ Step("zlp", "ready")
  /\ \/ usb = "configured" /\ ~sending /\ sending' = TRUE
     \/ (usb # "configured" \/ sending) /\ sending' = sending
  /\ UNCHANGED <<chip, device, host, isr, usart, text, bank>>

-----------------------------------------------------------------------------
\* Power-up, or a reset by the watchdog.
Init ==
  /\ pc = "mcusr"
  /\ wdrf \in BOOLEAN
  /\ wdt = wdrf
  /\ iflag = FALSE
  /\ usb = "off"
  /\ endpoints = {}
  /\ encoding = Unset
  /\ asks = {<<"Device", 0>>}
  /\ requests = 0
  /\ isr = 0
  /\ UCSR1A = {} /\ UCSR1B = {} /\ UCSR1C = {"UCSZ11", "UCSZ10"} /\ UBRR1 = 0
  /\ rxc = FALSE
  /\ next = 1
  /\ left = 0
  /\ bank = <<>>
  /\ sending = FALSE
  /\ last = 0

setUpUsbSerial == ClearWDRF \/ wdt_disable \/ USB_Init \/ sei

\* The steps of a call that the program has begun.
Call ==
  PutNothing \/ PutByte \/ PutFull \/ WaitUntilReady \/ EndOfText
    \/ periodicUsbTask \/ EmptyPacket

Host == GetDescriptor \/ SetConfiguration \/ \E e \in Encodings : SetLineEncoding(e)

Next ==
  \/ setUpUsbSerial
  \/ \E n \in Sizes : Write(n)
  \/ Periodic
  \/ Call
  \/ Host
  \/ EVENT_CDC_Device_LineEncodingChanged
  \/ BusReset
  \/ HostReads
  \/ StrayByte
  \/ BadInterrupt

Spec == Init /\ [][Next]_vars

\* The CPU does not stop. The program need not write, but it calls
\* periodicUsbTask() again and again, as Helpers.h demands.
FairSpec ==
  /\ Spec
  /\ WF_vars(setUpUsbSerial)
  /\ WF_vars(Periodic)
  /\ WF_vars(Call)
  /\ WF_vars(EVENT_CDC_Device_LineEncodingChanged)
  /\ WF_vars(BadInterrupt)

\* The host enumerates the device, opens the port and reads.
HostListens == WF_vars(~Open /\ Host) /\ WF_vars(HostReads)

-----------------------------------------------------------------------------
\* The stream is a pipe: a byte that is written while the port is open and the
\* host has read what it was sent goes into the bank, and what is in the bank
\* gets to the host whole, unless the connection is lost, to a reset of the
\* bus, a new configuration or a program that starts over.
Stream == INSTANCE Pipe WITH
  Size <- CDC_TXRX_EPSIZE, open <- Open, inside <- bank, due <- sending

ImplementsPipe == Stream!Spec

-----------------------------------------------------------------------------
\* Every variable has its type.
TypeOK ==
  /\ pc \in {"mcusr", "wdt", "usb", "sei", "ready", "put", "wait", "task", "zlp"}
  /\ wdrf \in BOOLEAN /\ wdt \in BOOLEAN /\ iflag \in BOOLEAN
  /\ usb \in {"off", "attached", "configured"}
  /\ endpoints \in {{}, VirtualSerial_CDC_Interface.endpoints}
  /\ encoding \in Encodings \cup {Unset}
  /\ asks \subseteq DeviceDescriptor.refs \cup {<<"Device", 0>>}
  /\ requests \in 0 .. MaxRequests
  /\ isr \in 0 .. 7
  /\ UCSR1A \subseteq {"U2X1"}
  /\ UCSR1B \subseteq {"RXCIE1", "TXEN1", "RXEN1"}
  /\ UCSR1C \subseteq {"UPM11", "UPM10", "USBS1", "UCSZ11", "UCSZ10"}
  /\ UBRR1 \in Nat
  /\ rxc \in BOOLEAN
  /\ next \in Nat /\ left \in Nat /\ last \in Nat
  /\ bank \in Seq(Nat) /\ Len(bank) <= CDC_TXRX_EPSIZE
  /\ sending \in BOOLEAN

\* The program never runs with a watchdog that a reset has left on: once
\* interrupts are enabled, it is off.
WatchdogOff == iflag => ~wdt

\* The host reads the bytes in the order of the text and none twice, though
\* some may be lost: to a port that is not open, a time-out, or a reset.
InOrder ==
  \A j \in 1 .. Len(bank) :
    /\ last < bank[j] /\ bank[j] < next
    /\ j > 1 => bank[j - 1] < bank[j]

\* The USART can do this encoding: 1 or 2 stop bits, no, odd or even parity.
Supported(e) == e.stop # 1 /\ e.parity \in 0 .. 2 /\ e.bits \in 5 .. 8

\* What the bits of UCSR1C mean, as the data sheet has it.
Meaning(bits) ==
  [stop |-> IF "USBS1" \in bits THEN 2 ELSE 0,
   parity |-> IF "UPM11" \notin bits THEN 0 ELSE IF "UPM10" \in bits THEN 1 ELSE 2,
   bits |-> 5 + (IF "UCSZ10" \in bits THEN 1 ELSE 0) + (IF "UCSZ11" \in bits THEN 2 ELSE 0)]

\* Between two requests the USART has the settings that the host asked for
\* last, in all its registers, also when a request follows another or a reset
\* of the bus comes in between.
UsartAsRequested ==
  isr = 0 /\ Supported(encoding) =>
    /\ Meaning(UCSR1C) = [stop |-> encoding.stop, parity |-> encoding.parity,
                          bits |-> encoding.bits]
    /\ UBRR1 = encoding.baud
    /\ UCSR1A = {"U2X1"}

\* "Must turn off USART before reconfiguring it": its settings change only
\* while neither receiver nor transmitter is on.
OffWhileChanged ==
  [][UNCHANGED <<UCSR1A, UCSR1C, UBRR1>> \/ UCSR1B = {}]_vars

\* Bytes in the bank get to the host, unless the bus is reset or the program
\* starts over: also those that were written while the bank before was still
\* under way, and those that came after a reset that the wait did not notice.
WrittenArrives ==
  HostListens => \A k \in 1 .. MaxBytes :
    (\E j \in 1 .. Len(bank) : bank[j] = k) ~> (last >= k \/ usb # "configured")

\* A call ends, even if the host stops reading, unless the program starts over.
CallsEnd == pc \in {"put", "wait", "task", "zlp"} ~> (pc = "ready" \/ rxc)

\* The host can open the port: every descriptor it learns of is served, and
\* the interface that it finds takes the request. A byte at RXD1 alone may
\* prevent that.
PortOpens == HostListens => <>[](Open \/ rxc)

\* "We use the LUFA library to send debugging messages to a virtual serial
\* port": the port is open when a host that listens has ceased to reset the bus.
DebuggingWorks == HostListens => <>[]Open
=============================================================================
