\* Uploads over and after a file of two blocks, removed and begun again.
CONSTANTS
  Sub = Sub
  f = f
  g = g
  X = X
  Y = Y
  Root = Root
  Dir = {Root}
  Name = {f}
  Inode = {n1, n2}
  Block = {X, Y}
  Hole = Hole
  First <- TheFile
  Content <- TwoBlocks
  None = None
  Verbs = {"PASS", "REST", "STOR", "APPE", "PORT", "ABOR", "DELE"}
  MaxRest = 1
  MaxSent = 2
  MaxSize = 3
  ReadErrors = FALSE
  HangUps = TRUE
SPECIFICATION Spec
SYMMETRY Inodes
INVARIANT TypeOK
PROPERTIES
  NoStrayCompletion
  StoredAsSent
