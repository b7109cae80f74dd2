SPECIFICATION Spec
CONSTANTS
  Requests = {r1, r2, r3}
  Kinds = {"upload", "edit", "rename", "delete"}
  Users = {owner, guest}
  Owner = owner
SYMMETRY MCSymmetry
INVARIANTS
  TypeOK
  ListedIsCurrent
  DeletedStaysDeleted
  OwnerIsTold
PROPERTIES
  VersionsAreNew
CHECK_DEADLOCK FALSE
