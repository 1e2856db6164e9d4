SPECIFICATION Spec
CONSTANTS
  Messages = {m1, m2}
  Media = {}
  Users = {u1}
  NoUser = NoUser
  MaxGen = 2
SYMMETRY TabSymmetry
INVARIANTS TypeOK RetainedUntilStored CycleBudget ProgressIsReal
PROPERTIES SecondEmitOnNewerSocket
