--------------------------- MODULE UsbSerialProofs ---------------------------
(***************************************************************************)
(* Proofs about module UsbSerial: what is written comes in order, and the  *)
(* USART is changed only while it is off, and is then as requested.        *)
(*                                                                         *)
(* Most steps leave most of the state alone. The frame lemmas say which    *)
(* ones do not; the proofs of the invariants then go through those.        *)
(***************************************************************************)
EXTENDS UsbSerial, TLAPS

\* The places of the program after setUpUsbSerial().
Late == {"ready", "put", "wait", "task", "zlp"}

\* Who changes the watchdog or the interrupt flag.
LEMMA ChipFrame ==
  [Next]_vars =>
     \/ UNCHANGED chip /\ (pc' = pc \/ (pc \in Late /\ pc' \in Late))
     \/ ClearWDRF \/ wdt_disable \/ USB_Init \/ sei \/ BadInterrupt
<1> SUFFICES ASSUME Next \/ UNCHANGED vars
             PROVE
                      \/ UNCHANGED chip /\ (pc' = pc \/ (pc \in Late /\ pc' \in Late))
                      \/ ClearWDRF \/ wdt_disable \/ USB_Init \/ sei \/ BadInterrupt
  BY Zenon
<1>1. CASE setUpUsbSerial
  BY <1>1, Zenon DEF setUpUsbSerial
<1>2. CASE \E n \in Sizes : Write(n)
  BY <1>2, SMT DEF Late, Write, Step, chip, device, host, usart, fifo
<1>3. CASE Periodic
  BY <1>3, SMT DEF Late, Periodic, Step, chip, device, host, usart, text, fifo
<1>4. CASE Call
  BY <1>4, SMT DEF Late, Call, PutNothing, Step, Advance, chip, device, host, usart,
       fifo, PutByte, PutFull, text, WaitUntilReady, EndOfText, periodicUsbTask,
       EmptyPacket
<1>5. CASE Host
  BY <1>5, Zenon DEF Host, GetDescriptor, chip, device, usart, text, fifo,
       SetConfiguration, EVENT_USB_Device_ConfigurationChanged, host,
       SetLineEncoding, EVENT_USB_Device_ControlRequest
<1>6. CASE EVENT_CDC_Device_LineEncodingChanged
  BY <1>6, Zenon DEF EVENT_CDC_Device_LineEncodingChanged, chip, device, host, text,
       fifo
<1>7. CASE BusReset \/ HostReads
  BY <1>7, Zenon DEF BusReset, chip, usart, text, HostReads, device
<1>8. CASE StrayByte \/ BadInterrupt
  BY <1>8, Zenon DEF StrayByte, chip, device, host, text, fifo
<1>9. CASE UNCHANGED vars
  BY <1>9, Zenon DEF vars, chip, device, host, usart, text, fifo
<1> QED
  BY <1>1, <1>2, <1>3, <1>4, <1>5, <1>6, <1>7, <1>8, <1>9, Zenon DEF Next

\* Who changes the USART, or what it is set to.
LEMMA UsartFrame ==
  [Next]_vars =>
     \/ UNCHANGED <<isr, encoding, usart>>
     \/ SetConfiguration \/ EVENT_CDC_Device_LineEncodingChanged
     \/ StrayByte \/ BadInterrupt
     \/ \E e \in Encodings : SetLineEncoding(e)
<1> SUFFICES ASSUME Next \/ UNCHANGED vars
             PROVE
                      \/ UNCHANGED <<isr, encoding, usart>>
                      \/ SetConfiguration \/ EVENT_CDC_Device_LineEncodingChanged
                      \/ StrayByte \/ BadInterrupt
                      \/ \E e \in Encodings : SetLineEncoding(e)
  BY Zenon
<1>1. CASE setUpUsbSerial
  BY <1>1, Zenon DEF setUpUsbSerial, ClearWDRF, Step, device, host, usart, text,
       fifo, wdt_disable, USB_Init, chip, sei
<1>2. CASE \E n \in Sizes : Write(n)
  BY <1>2, Zenon DEF Write, Step, chip, device, host, usart, fifo
<1>3. CASE Periodic
  BY <1>3, Zenon DEF Periodic, Step, chip, device, host, usart, text, fifo
<1>4. CASE Call
  BY <1>4, Zenon DEF Call, PutNothing, Step, Advance, chip, device, host, usart,
       fifo, PutByte, PutFull, text, WaitUntilReady, EndOfText, periodicUsbTask,
       EmptyPacket
<1>5. CASE Host
  BY <1>5, Zenon DEF Host, GetDescriptor, chip, device, usart, text, fifo
<1>6. CASE EVENT_CDC_Device_LineEncodingChanged
  BY <1>6, Zenon
<1>7. CASE BusReset \/ HostReads
  BY <1>7, Zenon DEF BusReset, chip, usart, text, HostReads, device
<1>8. CASE StrayByte \/ BadInterrupt
  BY <1>8, Zenon
<1>9. CASE UNCHANGED vars
  BY <1>9, Zenon DEF vars, chip, device, host, usart, text, fifo
<1> QED
  BY <1>1, <1>2, <1>3, <1>4, <1>5, <1>6, <1>7, <1>8, <1>9, Zenon DEF Next

\* Who changes what the host sees.
LEMMA HostFrame ==
  [Next]_vars =>
     \/ UNCHANGED <<usb, endpoints, asks, requests>>
     \/ USB_Init \/ GetDescriptor \/ SetConfiguration \/ BusReset
     \/ BadInterrupt
     \/ \E e \in Encodings : SetLineEncoding(e)
<1> SUFFICES ASSUME Next \/ UNCHANGED vars
             PROVE
                      \/ UNCHANGED <<usb, endpoints, asks, requests>>
                      \/ USB_Init \/ GetDescriptor \/ SetConfiguration \/ BusReset
                      \/ BadInterrupt
                      \/ \E e \in Encodings : SetLineEncoding(e)
  BY Zenon
<1>1. CASE setUpUsbSerial
  BY <1>1, Zenon DEF setUpUsbSerial, ClearWDRF, Step, device, host, usart, text,
       fifo, wdt_disable, sei
<1>2. CASE \E n \in Sizes : Write(n)
  BY <1>2, Zenon DEF Write, Step, chip, device, host, usart, fifo
<1>3. CASE Periodic
  BY <1>3, Zenon DEF Periodic, Step, chip, device, host, usart, text, fifo
<1>4. CASE Call
  BY <1>4, Zenon DEF Call, PutNothing, Step, Advance, chip, device, host, usart,
       fifo, PutByte, PutFull, text, WaitUntilReady, EndOfText, periodicUsbTask,
       EmptyPacket
<1>5. CASE Host
  BY <1>5, Zenon DEF Host
<1>6. CASE EVENT_CDC_Device_LineEncodingChanged
  BY <1>6, Zenon DEF EVENT_CDC_Device_LineEncodingChanged, chip, device, host, text,
       fifo
<1>7. CASE BusReset \/ HostReads
  BY <1>7, Zenon DEF HostReads, chip, device, usart, text
<1>8. CASE StrayByte \/ BadInterrupt
  BY <1>8, Zenon DEF StrayByte, chip, device, host, text, fifo
<1>9. CASE UNCHANGED vars
  BY <1>9, Zenon DEF vars, chip, device, host, usart, text, fifo
<1> QED
  BY <1>1, <1>2, <1>3, <1>4, <1>5, <1>6, <1>7, <1>8, <1>9, Zenon DEF Next

\* Who moves bytes.
LEMMA TextFrame ==
  [Next]_vars =>
     \/ UNCHANGED <<text, fifo, last>> /\ (pc' = "wait" => pc = "wait")
     \/ USB_Init \/ PutNothing \/ PutByte \/ PutFull \/ WaitUntilReady
     \/ periodicUsbTask \/ EmptyPacket \/ SetConfiguration \/ BusReset
     \/ HostReads \/ BadInterrupt
     \/ \E n \in Sizes : Write(n)
<1> SUFFICES ASSUME Next \/ UNCHANGED vars
             PROVE
                      \/ UNCHANGED <<text, fifo, last>> /\ (pc' = "wait" => pc = "wait")
                      \/ USB_Init \/ PutNothing \/ PutByte \/ PutFull \/ WaitUntilReady
                      \/ periodicUsbTask \/ EmptyPacket \/ SetConfiguration \/ BusReset
                      \/ HostReads \/ BadInterrupt
                      \/ \E n \in Sizes : Write(n)
  BY Zenon
<1>1. CASE setUpUsbSerial
  BY <1>1, Zenon DEF setUpUsbSerial, ClearWDRF, Step, device, host, usart, text,
       fifo, wdt_disable, sei
<1>2. CASE \E n \in Sizes : Write(n)
  BY <1>2, Zenon
<1>3. CASE Periodic
  BY <1>3, Zenon DEF Periodic, Step, chip, device, host, usart, text, fifo
<1>4. CASE Call
  BY <1>4, Zenon DEF Call, EndOfText, Step, chip, device, host, usart, text, fifo
<1>5. CASE Host
  BY <1>5, Zenon DEF Host, GetDescriptor, chip, device, usart, text, fifo,
       SetLineEncoding, EVENT_USB_Device_ControlRequest
<1>6. CASE EVENT_CDC_Device_LineEncodingChanged
  BY <1>6, Zenon DEF EVENT_CDC_Device_LineEncodingChanged, chip, device, host, text,
       fifo
<1>7. CASE BusReset \/ HostReads
  BY <1>7, Zenon
<1>8. CASE StrayByte \/ BadInterrupt
  BY <1>8, Zenon DEF StrayByte, chip, device, host, text, fifo
<1>9. CASE UNCHANGED vars
  BY <1>9, Zenon DEF vars, chip, device, host, usart, text, fifo
<1> QED
  BY <1>1, <1>2, <1>3, <1>4, <1>5, <1>6, <1>7, <1>8, <1>9, Zenon DEF Next

-----------------------------------------------------------------------------
\* The watchdog is off from wdt_disable() on, and interrupts come on later.
WatchInv ==
  /\ pc = "wdt" => ~wdrf
  /\ pc \notin {"mcusr", "wdt"} => ~wdt
  /\ iflag => pc \in Late

LEMMA WatchStep == WatchInv /\ [Next]_vars => WatchInv'
<1> SUFFICES ASSUME WatchInv, [Next]_vars
             PROVE  WatchInv'
  BY Zenon
<1>1. CASE UNCHANGED chip /\ (pc' = pc \/ (pc \in Late /\ pc' \in Late))
  BY <1>1 DEF WatchInv, Late, chip
<1>2. CASE ClearWDRF
  BY <1>2 DEF ClearWDRF, Step, device, host, usart, text, fifo, WatchInv, Late, chip
<1>3. CASE wdt_disable
  BY <1>3 DEF wdt_disable, Step, device, host, usart, text, fifo, WatchInv, Late,
       chip
<1>4. CASE USB_Init
  BY <1>4 DEF USB_Init, Step, chip, usart, text, WatchInv, Late, chip
<1>5. CASE sei
  BY <1>5 DEF sei, Step, device, host, usart, text, fifo, WatchInv, Late, chip
<1>6. CASE BadInterrupt
  BY <1>6 DEF BadInterrupt, host, usart, fifo, WatchInv, Late, chip
<1> QED
  BY <1>1, <1>2, <1>3, <1>4, <1>5, <1>6, ChipFrame, Zenon

\* Interrupts are enabled only after the watchdog has been disabled, and WDRF
\* cleared before that: no reset cuts the program off.
THEOREM NoWatchdog == Spec => []WatchdogOff
<1>1. Init => WatchInv
  BY DEF Init, WatchInv
<1>2. WatchInv /\ [Next]_vars => WatchInv'
  BY WatchStep
<1>3. WatchInv => WatchdogOff
  BY DEF WatchInv, WatchdogOff, Late
<1> QED
  BY <1>1, <1>2, <1>3, PTL DEF Spec

-----------------------------------------------------------------------------
\* The USART is off between the first store and the last.
OffInv == isr \in 0 .. 7 /\ (isr \in 2 .. 7 => UCSR1B = {})

\* What has been stored by then is what was requested.
DoneInv ==
  encoding # Unset =>
    /\ isr \notin 1 .. 4 => UBRR1 = encoding.baud
    /\ isr \notin 1 .. 5 => UCSR1C = ConfigMask(encoding)
    /\ isr \notin 1 .. 6 => UCSR1A = {"U2X1"}

\* The encoding is one the host may ask for, or none.
EncodingTyped == encoding \in Encodings \cup {Unset}

LEMMA OffStep == OffInv /\ [Next]_vars => OffInv'
<1> SUFFICES ASSUME OffInv, [Next]_vars
             PROVE  OffInv'
  BY Zenon
<1>1. CASE UNCHANGED <<isr, encoding, usart>>
  BY <1>1 DEF OffInv, usart
<1>2. CASE SetConfiguration
  BY <1>2 DEF SetConfiguration, EVENT_USB_Device_ConfigurationChanged, chip, host,
       usart, text, OffInv, usart
<1>3. CASE EVENT_CDC_Device_LineEncodingChanged
  BY <1>3 DEF EVENT_CDC_Device_LineEncodingChanged, chip, device, host, text, fifo,
       OffInv, usart
<1>4. CASE StrayByte
  BY <1>4 DEF StrayByte, chip, device, host, text, fifo, OffInv, usart
<1>5. CASE BadInterrupt
  BY <1>5 DEF BadInterrupt, host, usart, fifo, OffInv, usart
<1>6. ASSUME NEW e \in Encodings, SetLineEncoding(e)  PROVE OffInv'
  BY <1>6 DEF SetLineEncoding, EVENT_USB_Device_ControlRequest, chip, usart, text,
       fifo, OffInv, usart
<1> QED
  BY <1>1, <1>2, <1>3, <1>4, <1>5, <1>6, UsartFrame, Zenon

LEMMA DoneStep == OffInv /\ DoneInv /\ [Next]_vars => DoneInv'
<1> SUFFICES ASSUME OffInv /\ DoneInv, [Next]_vars
             PROVE  DoneInv'
  BY Zenon
<1>1. CASE UNCHANGED <<isr, encoding, usart>>
  BY <1>1 DEF DoneInv, OffInv, usart
<1>2. CASE SetConfiguration
  BY <1>2 DEF SetConfiguration, EVENT_USB_Device_ConfigurationChanged, chip, host,
       usart, text, DoneInv, OffInv, usart
<1>3. CASE EVENT_CDC_Device_LineEncodingChanged
  BY <1>3 DEF EVENT_CDC_Device_LineEncodingChanged, chip, device, host, text, fifo,
       DoneInv, OffInv, usart
<1>4. CASE StrayByte
  BY <1>4 DEF StrayByte, chip, device, host, text, fifo, DoneInv, OffInv, usart
<1>5. CASE BadInterrupt
  BY <1>5 DEF BadInterrupt, host, usart, fifo, DoneInv, OffInv, usart
<1>6. ASSUME NEW e \in Encodings, SetLineEncoding(e)  PROVE DoneInv'
  BY <1>6 DEF SetLineEncoding, EVENT_USB_Device_ControlRequest, chip, usart, text,
       fifo, DoneInv, OffInv, usart
<1> QED
  BY <1>1, <1>2, <1>3, <1>4, <1>5, <1>6, UsartFrame, Zenon

LEMMA EncodingStep == EncodingTyped /\ [Next]_vars => EncodingTyped'
<1> SUFFICES ASSUME EncodingTyped, [Next]_vars
             PROVE  EncodingTyped'
  BY Zenon
<1>1. CASE UNCHANGED <<isr, encoding, usart>>
  BY <1>1 DEF EncodingTyped
<1>2. CASE SetConfiguration
  BY <1>2 DEF SetConfiguration, EVENT_USB_Device_ConfigurationChanged, chip, host,
       usart, text, EncodingTyped
<1>3. CASE EVENT_CDC_Device_LineEncodingChanged
  BY <1>3 DEF EVENT_CDC_Device_LineEncodingChanged, chip, device, host, text, fifo,
       EncodingTyped
<1>4. CASE StrayByte
  BY <1>4 DEF StrayByte, chip, device, host, text, fifo, EncodingTyped
<1>5. CASE BadInterrupt
  BY <1>5 DEF BadInterrupt, host, usart, fifo, EncodingTyped
<1>6. ASSUME NEW e \in Encodings, SetLineEncoding(e)  PROVE EncodingTyped'
  BY <1>6 DEF SetLineEncoding, EVENT_USB_Device_ControlRequest, chip, usart, text,
       fifo, EncodingTyped
<1> QED
  BY <1>1, <1>2, <1>3, <1>4, <1>5, <1>6, UsartFrame, Zenon

LEMMA OffChange ==
  OffInv /\ [Next]_vars => UNCHANGED <<UCSR1A, UCSR1C, UBRR1>> \/ UCSR1B = {}
<1> SUFFICES ASSUME OffInv, [Next]_vars
             PROVE  UNCHANGED <<UCSR1A, UCSR1C, UBRR1>> \/ UCSR1B = {}
  BY Zenon
<1>1. CASE UNCHANGED <<isr, encoding, usart>>
  BY <1>1 DEF OffInv, usart
<1>2. CASE SetConfiguration
  BY <1>2 DEF SetConfiguration, EVENT_USB_Device_ConfigurationChanged, chip, host,
       usart, text, OffInv, usart
<1>3. CASE EVENT_CDC_Device_LineEncodingChanged
  BY <1>3 DEF EVENT_CDC_Device_LineEncodingChanged, chip, device, host, text, fifo,
       OffInv, usart
<1>4. CASE StrayByte
  BY <1>4 DEF StrayByte, chip, device, host, text, fifo, OffInv, usart
<1>5. CASE BadInterrupt
  BY <1>5 DEF BadInterrupt, host, usart, fifo, OffInv, usart
<1>6. ASSUME NEW e \in Encodings, SetLineEncoding(e)  PROVE UNCHANGED <<UCSR1A, UCSR1C, UBRR1>> \/ UCSR1B = {}
  BY <1>6 DEF SetLineEncoding, EVENT_USB_Device_ControlRequest, chip, usart, text,
       fifo, OffInv, usart
<1> QED
  BY <1>1, <1>2, <1>3, <1>4, <1>5, <1>6, UsartFrame, Zenon

\* What the mask says is what was asked for, of all encodings the USART can do.
LEMMA MaskMeans ==
  ASSUME NEW e \in LineEncoding, Supported(e)
  PROVE  Meaning(ConfigMask(e)) = [stop |-> e.stop, parity |-> e.parity, bits |-> e.bits]
<1> DEFINE M == ConfigMask(e)
<1>1. e.stop \in {0, 2} /\ e.parity \in {0, 1, 2} /\ e.bits \in {5, 6, 7, 8}
  BY SMT DEF LineEncoding, Supported
<1>2. "USBS1" \in M <=> e.stop = 2
  BY SMT DEF ConfigMask
<1>3. /\ "UPM11" \in M <=> e.parity \in {1, 2}
      /\ "UPM10" \in M <=> e.parity = 1
  BY SMT DEF ConfigMask
<1>4. /\ "UCSZ10" \in M <=> e.bits \in {6, 8}
      /\ "UCSZ11" \in M <=> e.bits \in {7, 8}
  BY SMT DEF ConfigMask
<1> HIDE DEF M
<1>5. Meaning(M) = [stop |-> e.stop, parity |-> e.parity, bits |-> e.bits]
  BY <1>1, <1>2, <1>3, <1>4, SMT DEF Meaning
<1> QED
  BY <1>5 DEF M

\* Between two requests the settings of the USART are those asked for last.
\* The invariant says which of them are in force at each store.
THEOREM UsartRight == Spec => []UsartAsRequested
<1>1. Init => OffInv /\ DoneInv /\ EncodingTyped
  BY DEF Init, OffInv, DoneInv, EncodingTyped
<1>2. OffInv /\ DoneInv /\ [Next]_vars => OffInv' /\ DoneInv'
  BY OffStep, DoneStep
<1>3. EncodingTyped /\ [Next]_vars => EncodingTyped'
  BY EncodingStep
<1>4. OffInv /\ DoneInv /\ EncodingTyped => UsartAsRequested
  <2> SUFFICES ASSUME DoneInv, EncodingTyped, isr = 0, Supported(encoding)
               PROVE  /\ Meaning(UCSR1C) = [stop |-> encoding.stop, parity |-> encoding.parity,
                                            bits |-> encoding.bits]
                      /\ UBRR1 = encoding.baud
                      /\ UCSR1A = {"U2X1"}
    BY DEF UsartAsRequested
  <2>1. encoding # Unset
    BY SMT DEF Supported, Unset
  <2>2. encoding \in LineEncoding
    BY <2>1, UsbSerialAssumption DEF EncodingTyped
  <2>3. UBRR1 = encoding.baud /\ UCSR1C = ConfigMask(encoding) /\ UCSR1A = {"U2X1"}
    BY <2>1, SMT DEF DoneInv
  <2> QED
    BY <2>2, <2>3, MaskMeans
<1> QED
  BY <1>1, <1>2, <1>3, <1>4, PTL DEF Spec

\* The settings change only while the USART is off.
THEOREM OffFirst == Spec => OffWhileChanged
<1>1. Init => OffInv
  BY DEF Init, OffInv
<1>2. OffInv /\ [Next]_vars => OffInv'
  BY OffStep
<1>3. OffInv /\ [Next]_vars => [UNCHANGED <<UCSR1A, UCSR1C, UBRR1>> \/ UCSR1B = {}]_vars
  BY OffChange
<1> QED
  BY <1>1, <1>2, <1>3, PTL DEF Spec, OffWhileChanged

-----------------------------------------------------------------------------

\* The variables that the order of the bytes depends on. The bank has room
\* for the byte whose writing had to wait.
BankInv ==
  /\ next \in Nat /\ last \in Nat
  /\ bank \in Seq(Nat) /\ Len(bank) <= CDC_TXRX_EPSIZE
  /\ pc = "wait" => sending \/ bank = <<>>

LEMMA BankStep == BankInv /\ [Next]_vars => BankInv'
<1> SUFFICES ASSUME BankInv, [Next]_vars
             PROVE  BankInv'
  BY Zenon
<1>1. CASE UNCHANGED <<text, fifo, last>> /\ (pc' = "wait" => pc = "wait")
  BY <1>1, UsbSerialAssumption DEF BankInv, text, fifo
<1>2. CASE USB_Init
  BY <1>2, UsbSerialAssumption DEF USB_Init, Step, chip, usart, text, BankInv, text,
       fifo
<1>3. CASE PutNothing
  BY <1>3, UsbSerialAssumption DEF PutNothing, Step, Advance, chip, device, host,
       usart, fifo, BankInv, text, fifo
<1>4. CASE PutByte
  BY <1>4, UsbSerialAssumption DEF PutByte, Step, Advance, chip, device, host,
       usart, BankInv, text, fifo
<1>5. CASE PutFull
  BY <1>5, UsbSerialAssumption DEF PutFull, Step, chip, device, host, usart, text,
       BankInv, text, fifo
<1>6. CASE WaitUntilReady
  BY <1>6, UsbSerialAssumption DEF WaitUntilReady, Step, Advance, chip, device,
       host, usart, BankInv, text, fifo
<1>7. CASE periodicUsbTask
  BY <1>7, UsbSerialAssumption DEF periodicUsbTask, Step, chip, device, host, usart,
       text, BankInv, text, fifo
<1>8. CASE EmptyPacket
  BY <1>8, UsbSerialAssumption DEF EmptyPacket, Step, chip, device, host, usart,
       text, BankInv, text, fifo
<1>9. CASE SetConfiguration
  BY <1>9, UsbSerialAssumption DEF SetConfiguration,
       EVENT_USB_Device_ConfigurationChanged, chip, host, usart, text, BankInv,
       text, fifo
<1>10. CASE BusReset
  BY <1>10, UsbSerialAssumption DEF BusReset, chip, usart, text, BankInv, text, fifo
<1>11. CASE HostReads
  BY <1>11, UsbSerialAssumption DEF HostReads, chip, device, usart, text, BankInv,
       text, fifo
<1>12. CASE BadInterrupt
  BY <1>12, UsbSerialAssumption DEF BadInterrupt, host, usart, fifo, BankInv, text,
       fifo
<1>13. ASSUME NEW n \in Sizes, Write(n)  PROVE BankInv'
  BY <1>13, UsbSerialAssumption DEF Write, Step, chip, device, host, usart, fifo,
       BankInv, text, fifo
<1> QED
  BY <1>1, <1>2, <1>3, <1>4, <1>5, <1>6, <1>7, <1>8, <1>9, <1>10, <1>11, <1>12, <1>13, TextFrame, Zenon

\* What is in the bank is in order, after what the host has read and before
\* what comes next.
OrderInv == InOrder /\ last < next

LEMMA OrderStep == BankInv /\ OrderInv /\ [Next]_vars => OrderInv'
<1> SUFFICES ASSUME BankInv /\ OrderInv, [Next]_vars
             PROVE  OrderInv'
  BY Zenon
<1>1. CASE UNCHANGED <<text, fifo, last>> /\ (pc' = "wait" => pc = "wait")
  BY <1>1, UsbSerialAssumption DEF BankInv, OrderInv, InOrder, text, fifo
<1>2. CASE USB_Init
  BY <1>2, UsbSerialAssumption DEF USB_Init, Step, chip, usart, text, BankInv,
       OrderInv, InOrder, text, fifo
<1>3. CASE PutNothing
  BY <1>3, UsbSerialAssumption DEF PutNothing, Step, Advance, chip, device, host,
       usart, fifo, BankInv, OrderInv, InOrder, text, fifo
<1>4. CASE PutByte
  BY <1>4, UsbSerialAssumption DEF PutByte, Step, Advance, chip, device, host,
       usart, BankInv, OrderInv, InOrder, text, fifo
<1>5. CASE PutFull
  BY <1>5, UsbSerialAssumption DEF PutFull, Step, chip, device, host, usart, text,
       BankInv, OrderInv, InOrder, text, fifo
<1>6. CASE WaitUntilReady
  BY <1>6, UsbSerialAssumption DEF WaitUntilReady, Step, Advance, chip, device,
       host, usart, BankInv, OrderInv, InOrder, text, fifo
<1>7. CASE periodicUsbTask
  BY <1>7, UsbSerialAssumption DEF periodicUsbTask, Step, chip, device, host, usart,
       text, BankInv, OrderInv, InOrder, text, fifo
<1>8. CASE EmptyPacket
  BY <1>8, UsbSerialAssumption DEF EmptyPacket, Step, chip, device, host, usart,
       text, BankInv, OrderInv, InOrder, text, fifo
<1>9. CASE SetConfiguration
  BY <1>9, UsbSerialAssumption DEF SetConfiguration,
       EVENT_USB_Device_ConfigurationChanged, chip, host, usart, text, BankInv,
       OrderInv, InOrder, text, fifo
<1>10. CASE BusReset
  BY <1>10, UsbSerialAssumption DEF BusReset, chip, usart, text, BankInv, OrderInv,
       InOrder, text, fifo
<1>11. CASE HostReads
  BY <1>11, UsbSerialAssumption DEF HostReads, chip, device, usart, text, BankInv,
       OrderInv, InOrder, text, fifo
<1>12. CASE BadInterrupt
  BY <1>12, UsbSerialAssumption DEF BadInterrupt, host, usart, fifo, BankInv,
       OrderInv, InOrder, text, fifo
<1>13. ASSUME NEW n \in Sizes, Write(n)  PROVE OrderInv'
  BY <1>13, UsbSerialAssumption DEF Write, Step, chip, device, host, usart, fifo,
       BankInv, OrderInv, InOrder, text, fifo
<1> QED
  BY <1>1, <1>2, <1>3, <1>4, <1>5, <1>6, <1>7, <1>8, <1>9, <1>10, <1>11, <1>12, <1>13, TextFrame, Zenon

\* The host reads the bytes in the order of the text and none twice.
THEOREM InOrderAlways == Spec => []InOrder
<1>1. Init => BankInv /\ OrderInv
  BY UsbSerialAssumption DEF Init, BankInv, OrderInv, InOrder
<1>2. BankInv /\ [Next]_vars => BankInv'
  BY BankStep
<1>3. BankInv /\ OrderInv /\ [Next]_vars => OrderInv'
  BY OrderStep
<1>4. OrderInv => InOrder
  BY DEF OrderInv
<1> QED
  BY <1>1, <1>2, <1>3, <1>4, PTL DEF Spec

-----------------------------------------------------------------------------

\* The type invariant, in parts that are each inductive or nearly so.
ProgramTyped ==
  /\ pc \in {"mcusr", "wdt", "usb", "sei", "ready", "put", "wait", "task", "zlp"}
  /\ wdrf \in BOOLEAN /\ wdt \in BOOLEAN /\ iflag \in BOOLEAN
  /\ isr \in 0 .. 7

HostTyped ==
  /\ usb \in {"off", "attached", "configured"}
  /\ endpoints \in {{}, VirtualSerial_CDC_Interface.endpoints}
  /\ asks \subseteq DeviceDescriptor.refs \cup {<<"Device", 0>>}
  /\ requests \in 0 .. MaxRequests

UsartTyped ==
  /\ UCSR1A \subseteq {"U2X1"}
  /\ UCSR1B \subseteq {"RXCIE1", "TXEN1", "RXEN1"}
  /\ UCSR1C \subseteq {"UPM11", "UPM10", "USBS1", "UCSZ11", "UCSZ10"}
  /\ UBRR1 \in Nat
  /\ rxc \in BOOLEAN

TextTyped ==
  /\ left \in Nat /\ sending \in BOOLEAN
  /\ pc = "wait" => left > 0

LEMMA ProgramStep == ProgramTyped /\ [Next]_vars => ProgramTyped'
<1> SUFFICES ASSUME ProgramTyped, Next \/ UNCHANGED vars
             PROVE  ProgramTyped'
  BY Zenon
<1>1. CASE ClearWDRF
  BY <1>1 DEF ClearWDRF, Step, ProgramTyped, chip, device, host, usart, text, fifo
<1>2. CASE wdt_disable
  BY <1>2 DEF wdt_disable, Step, ProgramTyped, chip, device, host, usart, text, fifo
<1>3. CASE USB_Init
  BY <1>3 DEF USB_Init, Step, ProgramTyped, chip, device, host, usart, text, fifo
<1>4. CASE sei
  BY <1>4 DEF sei, Step, ProgramTyped, chip, device, host, usart, text, fifo
<1>5. CASE Periodic
  BY <1>5 DEF Periodic, Step, ProgramTyped, chip, device, host, usart, text, fifo
<1>6. CASE PutNothing
  BY <1>6 DEF PutNothing, Step, Advance, ProgramTyped, chip, device, host, usart, text, fifo
<1>7. CASE PutByte
  BY <1>7 DEF PutByte, Step, Advance, ProgramTyped, chip, device, host, usart, text, fifo
<1>8. CASE PutFull
  BY <1>8 DEF PutFull, Step, ProgramTyped, chip, device, host, usart, text, fifo
<1>9. CASE WaitUntilReady
  BY <1>9 DEF WaitUntilReady, Step, Advance, ProgramTyped, chip, device, host, usart, text, fifo
<1>10. CASE EndOfText
  BY <1>10 DEF EndOfText, Step, ProgramTyped, chip, device, host, usart, text, fifo
<1>11. CASE periodicUsbTask
  BY <1>11 DEF periodicUsbTask, Step, ProgramTyped, chip, device, host, usart, text, fifo
<1>12. CASE EmptyPacket
  BY <1>12 DEF EmptyPacket, Step, ProgramTyped, chip, device, host, usart, text, fifo
<1>13. CASE GetDescriptor
  BY <1>13 DEF GetDescriptor, Served, ProgramTyped, chip, device, host, usart, text, fifo
<1>14. CASE SetConfiguration
  BY <1>14 DEF SetConfiguration, EVENT_USB_Device_ConfigurationChanged, Served, ProgramTyped, chip, device, host, usart, text, fifo
<1>15. CASE EVENT_CDC_Device_LineEncodingChanged
  BY <1>15 DEF EVENT_CDC_Device_LineEncodingChanged, ProgramTyped, chip, device, host, usart, text, fifo
<1>16. CASE BusReset
  BY <1>16 DEF BusReset, ProgramTyped, chip, device, host, usart, text, fifo
<1>17. CASE HostReads
  BY <1>17 DEF HostReads, ProgramTyped, chip, device, host, usart, text, fifo
<1>18. CASE StrayByte
  BY <1>18 DEF StrayByte, ProgramTyped, chip, device, host, usart, text, fifo
<1>19. CASE BadInterrupt
  <2>1. pc' = "mcusr" /\ isr' = 0 /\ iflag' = FALSE /\ wdrf' = wdrf /\ wdt' = wdt
    BY <1>19, Zenon DEF BadInterrupt
  <2>2. isr' \in 0 .. 7
    BY <2>1, SMT
  <2> QED
    BY <2>1, <2>2, Zenon DEF ProgramTyped
<1>20. ASSUME NEW n \in Sizes, Write(n)
      PROVE  ProgramTyped'
  BY <1>20 DEF Write, Step, ProgramTyped, chip, device, host, usart, text, fifo
<1>21. ASSUME NEW e \in Encodings, SetLineEncoding(e)
      PROVE  ProgramTyped'
  BY <1>21 DEF SetLineEncoding, EVENT_USB_Device_ControlRequest, Served, ProgramTyped, chip, device, host, usart, text, fifo
<1>22. CASE UNCHANGED vars
  BY <1>22 DEF vars, chip, device, host, usart, text, fifo, ProgramTyped
<1> QED
  BY <1>1, <1>2, <1>3, <1>4, <1>5, <1>6, <1>7, <1>8, <1>9, <1>10, <1>11, <1>12, <1>13, <1>14, <1>15, <1>16, <1>17, <1>18, <1>19, <1>20, <1>21, <1>22, Zenon
     DEF Next, setUpUsbSerial, Call, Host

LEMMA HostStep == HostTyped /\ [Next]_vars => HostTyped'
<1> SUFFICES ASSUME HostTyped, [Next]_vars
             PROVE  HostTyped'
  BY Zenon
<1>1. CASE UNCHANGED <<usb, endpoints, asks, requests>>
  BY <1>1, UsbSerialAssumption DEF HostTyped
<1>2. CASE USB_Init
  BY <1>2, UsbSerialAssumption DEF USB_Init, Step, chip, usart, text, HostTyped
<1>3. CASE GetDescriptor
  <2>1. \A q \in asks : UNION {d.refs : d \in Reply(q)} \subseteq DeviceDescriptor.refs
    BY SMT DEF Reply, CALLBACK_USB_GetDescriptor, DeviceDescriptor, ConfigurationDescriptor,
       StringDescriptor, String
  <2>2. asks' \subseteq DeviceDescriptor.refs \cup {<<"Device", 0>>}
    BY <1>3, <2>1, Zenon DEF GetDescriptor, HostTyped
  <2>3. UNCHANGED <<usb, endpoints, requests>>
    BY <1>3 DEF GetDescriptor, device
  <2> QED
    BY <2>2, <2>3, Zenon DEF HostTyped
<1>4. CASE SetConfiguration
  BY <1>4, UsbSerialAssumption DEF SetConfiguration,
       EVENT_USB_Device_ConfigurationChanged, chip, host, usart, text, HostTyped
<1>5. CASE BusReset
  BY <1>5, UsbSerialAssumption DEF BusReset, chip, usart, text, HostTyped
<1>6. CASE BadInterrupt
  BY <1>6, UsbSerialAssumption DEF BadInterrupt, host, usart, fifo, HostTyped
<1>7. ASSUME NEW e \in Encodings, SetLineEncoding(e)  PROVE HostTyped'
  BY <1>7, UsbSerialAssumption DEF SetLineEncoding, EVENT_USB_Device_ControlRequest,
       chip, usart, text, fifo, HostTyped
<1> QED
  BY <1>1, <1>2, <1>3, <1>4, <1>5, <1>6, <1>7, HostFrame, Zenon

LEMMA UsartStep == EncodingTyped /\ UsartTyped /\ [Next]_vars => UsartTyped'
<1> SUFFICES ASSUME EncodingTyped /\ UsartTyped, [Next]_vars
             PROVE  UsartTyped'
  BY Zenon
<1>1. CASE UNCHANGED <<isr, encoding, usart>>
  BY <1>1 DEF UsartTyped, usart
<1>2. CASE SetConfiguration
  BY <1>2 DEF SetConfiguration, EVENT_USB_Device_ConfigurationChanged, chip, host,
       usart, text, UsartTyped, usart
<1>3. CASE EVENT_CDC_Device_LineEncodingChanged
  <2>1. encoding.baud \in Nat
    BY UsbSerialAssumption, SMT DEF EncodingTyped, LineEncoding, Unset
  <2>2. ConfigMask(encoding) \subseteq {"UPM11", "UPM10", "USBS1", "UCSZ11", "UCSZ10"}
    BY SMT DEF ConfigMask
  <2>3. UCSR1A' \in {{}, {"U2X1"}, UCSR1A}
    BY <1>3, SMT DEF EVENT_CDC_Device_LineEncodingChanged
  <2>4. UCSR1B' \in {{}, {"RXCIE1", "TXEN1", "RXEN1"}, UCSR1B}
    BY <1>3, SMT DEF EVENT_CDC_Device_LineEncodingChanged
  <2>5. UCSR1C' \in {{}, ConfigMask(encoding), UCSR1C}
    BY <1>3, SMT DEF EVENT_CDC_Device_LineEncodingChanged
  <2>6. UBRR1' \in Nat
    BY <1>3, <2>1, SMT DEF EVENT_CDC_Device_LineEncodingChanged, UsartTyped
  <2>7. rxc' \in BOOLEAN
    BY <1>3, Zenon DEF EVENT_CDC_Device_LineEncodingChanged, UsartTyped
  <2> QED
    BY <2>2, <2>3, <2>4, <2>5, <2>6, <2>7, Zenon DEF UsartTyped
<1>4. CASE StrayByte
  BY <1>4 DEF StrayByte, chip, device, host, text, fifo, UsartTyped, usart
<1>5. CASE BadInterrupt
  BY <1>5 DEF BadInterrupt, host, usart, fifo, UsartTyped, usart
<1>6. ASSUME NEW e \in Encodings, SetLineEncoding(e)  PROVE UsartTyped'
  BY <1>6 DEF SetLineEncoding, EVENT_USB_Device_ControlRequest, chip, usart, text,
       fifo, UsartTyped, usart
<1> QED
  BY <1>1, <1>2, <1>3, <1>4, <1>5, <1>6, UsartFrame, Zenon

LEMMA TextStep == TextTyped /\ [Next]_vars => TextTyped'
<1> SUFFICES ASSUME TextTyped, [Next]_vars
             PROVE  TextTyped'
  BY Zenon
<1>1. CASE UNCHANGED <<text, fifo, last>> /\ (pc' = "wait" => pc = "wait")
  BY <1>1, UsbSerialAssumption DEF TextTyped, text, fifo
<1>2. CASE USB_Init
  BY <1>2, UsbSerialAssumption DEF USB_Init, Step, chip, usart, text, TextTyped,
       text, fifo
<1>3. CASE PutNothing
  BY <1>3, UsbSerialAssumption DEF PutNothing, Step, Advance, chip, device, host,
       usart, fifo, TextTyped, text, fifo
<1>4. CASE PutByte
  BY <1>4, UsbSerialAssumption DEF PutByte, Step, Advance, chip, device, host,
       usart, TextTyped, text, fifo
<1>5. CASE PutFull
  BY <1>5, UsbSerialAssumption DEF PutFull, Step, chip, device, host, usart, text,
       TextTyped, text, fifo
<1>6. CASE WaitUntilReady
  BY <1>6, UsbSerialAssumption DEF WaitUntilReady, Step, Advance, chip, device,
       host, usart, TextTyped, text, fifo
<1>7. CASE periodicUsbTask
  BY <1>7, UsbSerialAssumption DEF periodicUsbTask, Step, chip, device, host, usart,
       text, TextTyped, text, fifo
<1>8. CASE EmptyPacket
  BY <1>8, UsbSerialAssumption DEF EmptyPacket, Step, chip, device, host, usart,
       text, TextTyped, text, fifo
<1>9. CASE SetConfiguration
  BY <1>9, UsbSerialAssumption DEF SetConfiguration,
       EVENT_USB_Device_ConfigurationChanged, chip, host, usart, text, TextTyped,
       text, fifo
<1>10. CASE BusReset
  BY <1>10, UsbSerialAssumption DEF BusReset, chip, usart, text, TextTyped, text,
       fifo
<1>11. CASE HostReads
  BY <1>11, UsbSerialAssumption DEF HostReads, chip, device, usart, text, TextTyped,
       text, fifo
<1>12. CASE BadInterrupt
  BY <1>12, UsbSerialAssumption DEF BadInterrupt, host, usart, fifo, TextTyped,
       text, fifo
<1>13. ASSUME NEW n \in Sizes, Write(n)  PROVE TextTyped'
  BY <1>13, UsbSerialAssumption DEF Write, Step, chip, device, host, usart, fifo,
       TextTyped, text, fifo
<1> QED
  BY <1>1, <1>2, <1>3, <1>4, <1>5, <1>6, <1>7, <1>8, <1>9, <1>10, <1>11, <1>12, <1>13, TextFrame, Zenon

\* Every variable keeps its type, for all sizes of the bank and all encodings.
THEOREM TypeCorrect == Spec => []TypeOK
<1> DEFINE Inv == BankInv /\ EncodingTyped /\ ProgramTyped /\ HostTyped /\ UsartTyped /\ TextTyped
<1>1. Init => Inv
  <2> SUFFICES ASSUME Init PROVE Inv
    OBVIOUS
  <2>1. BankInv /\ EncodingTyped
    BY UsbSerialAssumption DEF Init, BankInv, EncodingTyped
  <2>4. wdrf \in BOOLEAN /\ wdt \in BOOLEAN /\ iflag \in BOOLEAN
    BY Zenon DEF Init
  <2>5. pc = "mcusr" /\ isr \in 0 .. 7
    BY SMT DEF Init
  <2>6. ProgramTyped
    BY <2>4, <2>5, Zenon DEF ProgramTyped
  <2>2. HostTyped
    BY UsbSerialAssumption DEF Init, HostTyped
  <2>3. UsartTyped /\ TextTyped
    BY DEF Init, UsartTyped, TextTyped
  <2> QED
    BY <2>1, <2>2, <2>3, <2>6
<1>2. Inv /\ [Next]_vars => Inv'
  BY BankStep, EncodingStep, ProgramStep, HostStep, UsartStep, TextStep
<1>3. Inv => TypeOK
  BY DEF TypeOK, BankInv, EncodingTyped, ProgramTyped, HostTyped, UsartTyped, TextTyped
<1> QED
  BY <1>1, <1>2, <1>3, PTL DEF Spec

-----------------------------------------------------------------------------

\* The pipe is open while the port is; it has nothing else of the device.
LEMMA OpenFrame ==
  ASSUME UNCHANGED <<usb, encoding>>
  PROVE  Open' = Open
BY Zenon DEF Open

\* A step that shuts the port cuts the connection.
LEMMA CutShuts ==
  ASSUME ~Open', bank' \in {bank, <<>>}, sending' \in {sending, FALSE}, UNCHANGED <<next, last>>
  PROVE  Stream!Cut
<1>1. Open' = FALSE
  BY Zenon DEF Open
<1> QED
  BY <1>1, Zenon DEF Stream!Cut

\* A step that moves no byte opens the port, shuts it, or leaves it as it is.
LEMMA PortStep ==
  ASSUME EncodingTyped, [Next]_vars, UNCHANGED <<text, fifo, last>>
  PROVE  Stream!Open \/ Stream!Cut \/ UNCHANGED Stream!vars
<1> USE DEF text, fifo
<1>1. UNCHANGED <<usb, encoding>> => UNCHANGED Stream!vars
  BY OpenFrame, Zenon DEF Stream!vars
<1>2. ~Open' => Stream!Cut
  BY CutShuts, Zenon DEF text, fifo
<1>3. ASSUME NEW e \in Encodings, SetLineEncoding(e)
      PROVE  Stream!Open
  <2>1. usb' = "configured" /\ encoding' = e
    BY <1>3, Zenon DEF SetLineEncoding, EVENT_USB_Device_ControlRequest
  <2>2. Open' = TRUE
    BY <2>1, UsbSerialAssumption, Zenon DEF Open
  <2> QED
    BY <2>2, Zenon DEF Stream!Open
<1>4. CASE SetConfiguration
  <2>1. encoding'.baud = 0
    BY <1>4, SMT DEF SetConfiguration, EVENT_USB_Device_ConfigurationChanged, Unset
  <2> QED
    BY <1>2, <2>1, Zenon DEF Open
<1>5. CASE USB_Init \/ BusReset \/ BadInterrupt
  <2>1. usb' # "configured"
    BY <1>5, SMT DEF USB_Init, BusReset, BadInterrupt
  <2> QED
    BY <1>2, <2>1, Zenon DEF Open
<1>6. CASE UNCHANGED <<usb, endpoints, asks, requests>> /\ UNCHANGED <<isr, encoding, usart>>
  BY <1>1, <1>6, Zenon
<1>7. CASE GetDescriptor \/ EVENT_CDC_Device_LineEncodingChanged \/ StrayByte
  BY <1>1, <1>7, Zenon DEF GetDescriptor, EVENT_CDC_Device_LineEncodingChanged, StrayByte, device
<1> QED
  BY <1>3, <1>4, <1>5, <1>6, <1>7, HostFrame, UsartFrame, Zenon

\* Each step is one of the pipe's, or leaves it alone. That the bank has room
\* for the byte that had to wait is what the invariant is needed for.
LEMMA StepAsPipe ==
  BankInv /\ EncodingTyped /\ TextTyped /\ [Next]_vars => [Stream!Next]_Stream!vars
<1> SUFFICES ASSUME BankInv, EncodingTyped, TextTyped, [Next]_vars
             PROVE  Stream!Next \/ UNCHANGED Stream!vars
  BY Zenon
<1>1. CASE UNCHANGED <<text, fifo, last>>
  BY <1>1, PortStep, Zenon DEF Stream!Next
<1>2. CASE USB_Init \/ BusReset
  <2>1. ~Open'
    BY <1>2, SMT DEF USB_Init, BusReset, Open
  <2>2. Stream!Cut
    BY <1>2, <2>1, CutShuts, Zenon DEF USB_Init, BusReset, text
  <2> QED
    BY <2>2, Zenon DEF Stream!Next
<1>3. CASE SetConfiguration
  <2>1. ~Open'
    BY <1>3, SMT DEF SetConfiguration, EVENT_USB_Device_ConfigurationChanged, Open, Unset
  <2>2. Stream!Cut
    BY <1>3, <2>1, CutShuts, Zenon DEF SetConfiguration, EVENT_USB_Device_ConfigurationChanged,
       text, host
  <2> QED
    BY <2>2, Zenon DEF Stream!Next
<1>4. CASE BadInterrupt
  <2>1. ~Open'
    BY <1>4, SMT DEF BadInterrupt, Open
  <2>2. Stream!Cut
    BY <1>4, <2>1, CutShuts, Zenon DEF BadInterrupt, host, fifo
  <2> QED
    BY <2>2, Zenon DEF Stream!Next
<1>5. CASE PutNothing
  <2>1. Open' = Open
    BY <1>5, OpenFrame, Zenon DEF PutNothing, device
  <2>2. Stream!Drop
    BY <1>5, <2>1, Zenon DEF PutNothing, Advance, fifo, host, Stream!Drop
  <2> QED
    BY <2>2, Zenon DEF Stream!Next
<1>6. CASE PutByte
  <2>1. Open' = Open
    BY <1>6, OpenFrame, Zenon DEF PutByte, device
  <2>2. Stream!Put
    BY <1>6, <2>1, Zenon DEF PutByte, Advance, host, Stream!Put
  <2> QED
    BY <2>2, Zenon DEF Stream!Next
<1>7. CASE PutFull
  <2>1. Open' = Open
    BY <1>7, OpenFrame, Zenon DEF PutFull, device
  <2>2. CASE sending
    BY <1>7, <2>1, <2>2, Zenon DEF PutFull, host, text, Stream!vars, TextTyped
  <2>3. CASE ~sending
    BY <1>7, <2>1, <2>3, Zenon DEF PutFull, host, text, Stream!HandOver, Stream!Next
  <2> QED
    BY <2>2, <2>3
<1>8. CASE WaitUntilReady
  <2>1. Open' = Open
    BY <1>8, OpenFrame, Zenon DEF WaitUntilReady, device
  <2>2. UNCHANGED <<sending, last>> /\ next' = next + 1
    BY <1>8, Zenon DEF WaitUntilReady, Advance, host
  <2>3. CASE ~sending /\ bank' = Append(bank, next)
    <3>1. Len(bank) < CDC_TXRX_EPSIZE
      BY <1>8, <2>3, UsbSerialAssumption, SMT DEF WaitUntilReady, Step, BankInv
    <3> QED
      BY <2>1, <2>2, <2>3, <3>1, Zenon DEF Stream!Put, Stream!Next
  <2>4. CASE (usb # "configured" \/ sending) /\ bank' = bank
    BY <2>1, <2>2, <2>4, Zenon DEF Open, Stream!Drop, Stream!Next
  <2> QED
    BY <1>8, <2>3, <2>4, Zenon DEF WaitUntilReady
<1>9. CASE periodicUsbTask \/ EmptyPacket
  <2>1. Open' = Open
    BY <1>9, OpenFrame, Zenon DEF periodicUsbTask, EmptyPacket, device
  <2>2. UNCHANGED <<next, bank, last>>
    BY <1>9, Zenon DEF periodicUsbTask, EmptyPacket, text, host
  <2>3. sending' = sending \/ (~sending /\ sending' = TRUE)
    BY <1>9, Zenon DEF periodicUsbTask, EmptyPacket, TextTyped
  <2> QED
    BY <2>1, <2>2, <2>3, Zenon DEF Stream!vars, Stream!HandOver, Stream!Next
<1>10. CASE HostReads
  <2>1. Open' = Open
    BY <1>10, OpenFrame, Zenon DEF HostReads, device
  <2> QED
    BY <1>10, <2>1, Zenon DEF HostReads, text, Stream!Read, Stream!Next
<1>11. ASSUME NEW n \in Sizes, Write(n)
      PROVE  UNCHANGED Stream!vars
  <2>1. Open' = Open
    BY <1>11, OpenFrame, Zenon DEF Write, device
  <2> QED
    BY <1>11, <2>1, Zenon DEF Write, fifo, host, Stream!vars
<1> QED
  BY <1>1, <1>2, <1>3, <1>4, <1>5, <1>6, <1>7, <1>8, <1>9, <1>10, <1>11, TextFrame, Zenon

\* What the program writes goes through a pipe to the host: the interrupts,
\* the waiting and the packets are not to be told from its steps.
THEOREM UsbIsPipe == Spec => ImplementsPipe
<1> DEFINE Inv == BankInv /\ EncodingTyped /\ TextTyped
<1>1. Init => Inv
  <2>1. Init => BankInv /\ EncodingTyped
    BY UsbSerialAssumption DEF Init, BankInv, EncodingTyped
  <2>2. Init => TextTyped
    <3>1. Init => left \in Nat /\ pc # "wait"
      BY SMT DEF Init
    <3>2. Init => sending \in BOOLEAN
      BY Zenon DEF Init
    <3> QED
      BY <3>1, <3>2, Zenon DEF TextTyped
  <2> QED
    BY <2>1, <2>2
<1>2. Inv /\ [Next]_vars => Inv'
  BY BankStep, EncodingStep, TextStep
<1>3. Init => Stream!Init
  BY SMT DEF Init, Stream!Init, Open
<1>4. Inv /\ [Next]_vars => [Stream!Next]_Stream!vars
  BY StepAsPipe
<1> QED
  BY <1>1, <1>2, <1>3, <1>4, PTL DEF Spec, ImplementsPipe, Stream!Spec

=============================================================================
