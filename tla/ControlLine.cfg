\* One client at a time waits for each of its replies and sends whole lines.
CONSTANTS
  Slash = Slash  DotDot = DotDot  Space = Space  CR = CR  LF = LF  None = None
  Cwd = Cwd  Cdup = Cdup  Pwd = Pwd  Quit = Quit  Site = Site  Stop = Stop
  a = a  b = b  stor = stor  type = type  chmod = chmod  list = list
  cwd_ = cwd_  cdup_ = cdup_  pwd_ = pwd_  quit_ = quit_  site_ = site_  stop_ = stop_
  stor_ = stor_  type_ = type_  chmod_ = chmod_  list_ = list_
  Tree <- MCTree
  Lower <- MCLower
  Registered <- MCRegistered
  RegisteredSite <- MCRegisteredSite
  Unasked <- MCUnasked
  Request <- MCRequest
  BufSize = 9
  Patient = TRUE
  Whole = TRUE
SPECIFICATION Spec
CHECK_DEADLOCK FALSE
PROPERTIES
  ImplementsShell
  RequestsAnswered
