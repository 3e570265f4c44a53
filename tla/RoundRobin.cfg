SPECIFICATION Spec
CONSTANTS
  Upstream = {u1, u2, u3}
  Request = {r1, r2}
  Name = svc
  Counts = {0, 1, 2}
  Modulus = 8
  None = None
SYMMETRY Symmetric
INVARIANTS
  TypeOK
  NoEmptyDivision
  BoundedWait
PROPERTY ImplementsTable
