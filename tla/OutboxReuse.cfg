SPECIFICATION Spec
CONSTANTS
  Messages = {m1}
  Media = {}
  Users = {u1}
  NoUser = NoUser
  MaxGen = 2
PROPERTIES NeverReusesTimedOutSocket
