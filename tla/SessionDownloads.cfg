\* Downloads and listings of a directory whose files are removed meanwhile.
CONSTANTS
  Sub = Sub
  f = f
  g = g
  X = X
  Y = Y
  Root = Root
  Dir = {Root}
  Name = {f, g}
  Inode = {n1, n2}
  Block = {X, Y}
  Hole = Hole
  First <- TheFile
  Content <- TwoBlocks
  None = None
  Verbs = {"PASS", "REST", "RETR", "STOR", "LIST", "NLST", "PASV", "ABOR", "DELE"}
  MaxRest = 1
  MaxSent = 0
  MaxSize = 2
  ReadErrors = FALSE
  HangUps = TRUE
SPECIFICATION LiveSpec
PROPERTIES
  RetrievedInFull
  ListedInFull
  TransfersEnd
