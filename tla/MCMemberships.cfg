\* One user in two areas, and one that can be created; two events, of which others
\* cause one at most.
SPECIFICATION Spec
CONSTANTS
  Nil = Nil
  Users = {u1, u2}
  First = u1
  Areas = {a1, a2}
  Home = a1
  Positions = {jefe, soporte}
  Soporte = soporte
  Held = jefe
  Everyone = everyone
  MaxCalls = 2
  MaxOthers = 1
  MaxEvents = 2
CONSTRAINTS
  OneFetch
  OneUser
  ThreeLoaded
  EnteredToBeSent
CHECK_DEADLOCK FALSE
INVARIANTS
  TypeOK
  ListsAreTrue
  UntouchedSavesKeepThePosition
