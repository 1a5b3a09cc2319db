\* Two archivos, one group, two calls of the officer, failures or changes by
\* others at most twice.
SPECIFICATION Spec
SYMMETRY Symmetry
CONSTANTS
  Archivos = {a1, a2}
  Groups = {g1}
  Nil = Nil
  NotYet = NotYet
  MaxCalls = 2
  MaxOthers = 2
CHECK_DEADLOCK FALSE
INVARIANTS
  TypeOK
  LinkedKeepTheirFile
  SignaturesAreRecorded
  GroupsHoldWhatWasAdded
