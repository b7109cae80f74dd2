SPECIFICATION Spec
CONSTANTS
  Registrations = {a1, a2, a3}
  Verifications = {v1, v2}
  Emails = {e1, e2}
SYMMETRY MCSymmetry
INVARIANTS
  TypeOK
  EmailsAreUnique
  LinksWork
  DoomedOwnNothing
CHECK_DEADLOCK FALSE
