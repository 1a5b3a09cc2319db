\* Two tabs, two users, three sessions and four acts.
SPECIFICATION Spec
SYMMETRY Symmetry
CONSTANTS
  Users = {u1, u2}
  Tabs = {t1, t2}
  Nil = Nil
  MaxTokens = 3
  MaxActs = 4
  MaxLost = 1
CHECK_DEADLOCK FALSE
INVARIANTS
  UserOwnsToken
  RevokedTokensGoAway
  MenuIsOfTheUser
