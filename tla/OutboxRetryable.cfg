SPECIFICATION Spec
CONSTANTS
  Messages = {m1, m2}
  Media = {}
  Users = {u1}
  NoUser = NoUser
  MaxGen = 3
SYMMETRY TabSymmetry
INVARIANTS FailedIsRetryable
