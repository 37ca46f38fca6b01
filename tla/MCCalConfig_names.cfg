CONSTANTS
  h1 = h1
  h2 = h2
  X = X
  Y = Y
  U1 = U1
  U2 = U2
  Handles = {h1, h2}
  Labels <- Radars
  Environments <- NoConfiguration
  SystemName <- MCSystemName
  SubsystemName <- MCSubsystemName
  NoName = NoName
  Malformed = Malformed
  NotArray = NotArray
  Closed = Closed
SPECIFICATION Spec
INVARIANTS
  DistinctClients
