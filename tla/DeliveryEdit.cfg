SPECIFICATION Spec
CONSTANTS
  Requests = {r1, r2}
  Kinds = {"edit"}
  Users = {owner, guest}
  Owner = owner
INVARIANTS
  NoEditIsLost
CHECK_DEADLOCK FALSE
