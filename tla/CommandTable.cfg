\* Every order of registering four commands and two SITE commands, again and again.
CONSTANTS
  C = C
  D = D
  Letter = {C, D}
  Longest = 4
  Name <- Names
  SiteName <- SiteNames
  Callback = {F, G}
  End = End
  Nil = Nil
  Null = Null
  None = None
SPECIFICATION Spec
INVARIANT OnlyRegistered
PROPERTIES
  CommandsAreMap
  SiteIsMap
