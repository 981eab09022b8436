SPECIFICATION Spec
CONSTANTS
  Devices <- MCDevices
  Conns <- MCConns
  ScopeSets <- MCScopeSets
  MaxGlobal = 2
  MaxPerDevice = 2
  MaxAdmin = 1
  MaxFaults = 1
  Loaded <- MCLoaded
  NoConn = "none"
INVARIANT AuthorityCurrent
INVARIANT AdminAckKept
INVARIANT LeaseIsServed
PROPERTY DisconnectEnds
CHECK_DEADLOCK FALSE
