\* An application that starts, stops and restarts servers, with clients that come and
\* go and a handler that comes and goes.
CONSTANTS
  Thread = {t1, t2}
  None = None
  PatientStart = TRUE
  PatientHandler = TRUE
  SendFails = FALSE
  MaxClients = 2
SPECIFICATION LiveSpec
INVARIANTS
  TypeOK
  OneServer
PROPERTIES
  StopIsFinal
  AllGoneFirst
  EventsInOrder
  
