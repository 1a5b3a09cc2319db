\* A system role and a role that comes and goes, one user, one page.
SPECIFICATION Spec
CONSTANTS
  Nil = Nil
  RoleNames = {admin, clerk}
  SystemRoles = {admin}
  Pages = {tramites}
  Users = {u1}
  MaxCalls = 3
  MaxLost = 1
CHECK_DEADLOCK FALSE
INVARIANTS
  MatrixIsTrue
  OrphansComeFromRaces
  HiddenUntilGranted
