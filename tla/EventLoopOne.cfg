\* One client, sends succeed: the walk over the poll array is in order.
CONSTANTS
  Client = {A}
  Fd = {L, s1, s2, s3}
  Listener = L
  None = None
  ListenHup = FALSE
  SendFails = FALSE
SPECIFICATION LiveSpec
INVARIANT NoFault
PROPERTIES
  NewEventsOnly
  StopHonoured
