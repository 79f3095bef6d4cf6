SPECIFICATION Spec
CONSTANTS
  Requests = {r1, r2}
  Addresses = {a1, a2}
  None = None
  MaxChanges = 2
SYMMETRY MCSymmetry
CONSTRAINT OneTopic
INVARIANTS
  FloorNeverAhead
  OnlyCurrentPassword
  AdminInStep
