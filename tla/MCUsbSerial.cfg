SPECIFICATION FairSpec
CONSTANTS
  CDC_TXRX_EPSIZE = 2
  Encodings <- TwoEncodings
  Sizes = {0, 1, 3}
  MaxBytes = 5
  MaxRequests = 2
INVARIANTS TypeOK WatchdogOff UsartAsRequested
PROPERTIES OffWhileChanged WrittenArrives CallsEnd PortOpens ImplementsPipe
