SPECIFICATION Spec
CONSTANTS
  Emails = {root, ann}
  Admin = root
  Clients = {c1, c2}
  NoUser = NoUser
  Nobody = Nobody
  Spellings = {lower, upper}
  Canonical = lower
INVARIANTS
  TypeOK
  ProfilesAreBacked
  ActivationShows
PROPERTIES
  LastAdminIsLostForAReason
  DeactivationSticks
SYMMETRY Symmetric
CHECK_DEADLOCK FALSE
