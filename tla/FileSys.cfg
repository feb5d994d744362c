\* Two clients and two names on each platform, with the trouble it can bear.
CONSTANTS
  A = A  B = B  f = f  g = g  x = x  y = y
  Client = {A, B}
  Path = {f, g}
  Block = {x}
  Hole = Hole
  MaxRest = 2
  MaxLong = 1
  MaxSize = 2
  NewSize = {1}
  Content <- MCContent
  Platform <- Everywhere
  ZeroRdonly <- MCZeroRdonly
  WideSeek <- MCWideSeek
  Trouble <- Borne
SPECIFICATION Spec
SYMMETRY Symmetry
INVARIANTS
  NothingLeft
PROPERTIES
  ImplementsFileStore
