\* The main program and the result callback as callers.
SPECIFICATION Spec
CONSTANTS
  Requests <- SomeBytes
  Places = 2
  Timer = "none"
INVARIANTS
  TypeOK
  BusLegal
  BlockTruth
PROPERTIES
  Transfers
  BlockComesBack
  EveryTransferEnds
