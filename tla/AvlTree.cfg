\* With seven keys every rotation happens, and moves subtrees as well.
CONSTANTS
  Key <- Seven
  Value = {A, B}
  None = None
  Nil = Nil
SPECIFICATION Spec
INVARIANTS
  Ordered
  Balanced
PROPERTY IsMap
