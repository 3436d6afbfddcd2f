SPECIFICATION Spec
CONSTANTS
  Size <- MCSize
  MaxPacketSize = 64
  Requests <- MCRequests
  MaxFaults = 1
INVARIANTS TypeOK DataTrue Served Agree
PROPERTY Answered
