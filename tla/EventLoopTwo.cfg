\* Two clients compete for four descriptors besides the listener.
CONSTANTS
  Client = {A, B}
  Fd = {L, s1, s2, s3, s4}
  Listener = L
  None = None
  ListenHup = FALSE
  SendFails = TRUE
SPECIFICATION Spec
SYMMETRY Symmetry
INVARIANTS
  TypeOK
  PollMatchesTree
  TreeMatchesClients
  NoDescriptorLeak
  TransfersComplete
  NoStaleLookup
  ResourcesFreed
PROPERTIES
  ClientsIsolated
  ServesConnections
