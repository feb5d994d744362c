\* Two callbacks for two events, registered up to three times; a client may go within
\* the callbacks of another.
CONSTANTS
  f = f  g = g
  Callback = {f, g}
  Junk = Junk
  MaxLen = 3
  MaxDepth = 2
  Unregisters = FALSE
SPECIFICATION Spec
PROPERTIES
  EachCalledOnce
