\* Logging in, and everything that changes names, also during a transfer that
\* does not break off.
CONSTANTS
  Sub = Sub
  f = f
  g = g
  X = X
  Y = Y
  Root = Root
  Dir = {Root, Sub}
  Name = {f}
  Inode = {n1, n2}
  Block = {X, Y}
  Hole = Hole
  First <- TheFile
  Content <- TwoBlocks
  None = None
  Verbs = {"USER", "PASS", "ACCT", "QUIT", "CWD", "CDUP", "MKD", "RMD", "DELE", "RNFR", "RNTO", "RETR", "STOR", "WRITE", "ABOR",
           "ALLO", "PWD", "MODE", "STRU", "TYPE", "SIZE", "MDTM", "CHMOD", "HELP", "NOOP", "SYST", "STAT", "FEAT"}
  MaxRest = 0
  MaxSent = 1
  MaxSize = 2
  ReadErrors = FALSE
  HangUps = FALSE
SPECIFICATION Spec
SYMMETRY Inodes
INVARIANT LoginIsNamed
PROPERTIES
  LoginFirst
  TransfersAnswered
  RetrievedInFull
