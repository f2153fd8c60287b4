SPECIFICATION FairSpec
CONSTANTS
  CDC_TXRX_EPSIZE = 2
  Encodings <- OneEncoding
  Sizes = {1}
  MaxBytes = 1
  MaxRequests = 0
PROPERTY DebuggingWorks
