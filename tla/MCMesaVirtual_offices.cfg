\* Two citizens and two officers; one request may be cut short.
SPECIFICATION Spec
SYMMETRY Symmetry
CONSTANTS
  Citizens = {c1, c2}
  Officers = {o1, o2}
  Areas = {a1, a2}
  Numbers = {n1}
  Nil = Nil
  DefaultArea = Nil
  MaxRequests = 4
  MaxAborts = 1
INVARIANTS
  TypeOK
  TrackingIdentifies
  StateIsExplained
  RoutedIsSomewhere
  GoneHasNoHistory
  SubmissionsAreTracked
