SPECIFICATION FairSpec
CONSTANTS
  Messages = {p1}
  Media = {p1}
  Users = {u1, u2}
  NoUser = NoUser
  MaxGen = 4
PROPERTIES EmittedInItsSession CyclesEnd
