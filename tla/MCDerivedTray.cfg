\* Two submissions in the tray, two moves of the officer and one by others.
SPECIFICATION TraySpec
SYMMETRY Symmetry
CONSTANTS
  Nil = Nil
  Submissions = {s1, s2}
  Offices = {a1, a2}
  Mine = a1
  MaxCalls = 2
  MaxOthers = 1
CHECK_DEADLOCK FALSE
INVARIANTS
  AreaWasChosenForIt
  HandledIsNotOffered
