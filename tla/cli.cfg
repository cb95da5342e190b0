SPECIFICATION MCSpec
CONSTANTS
  c1 = c1
  c2 = c2
  users = users
  orders = orders
  m1 = m1
  m2 = m2
  s1 = s1
  s2 = s2
  Commands = {c1, c2}
  Arguments <- MCArguments
  Keys = {"GET /a", "GET /b"}
  Ids = {1, 2}
  MaxAttempts = 2
  MaxChanges = 1
  Processes = {c1, c2}
  Names = {users, orders}
  Mounts = {m1, m2}
  Secrets = {s1, s2}
  MaxEdits = 2
  Kind <- MCKind
  Binding <- MCBinding
SYMMETRY MCSymmetry
INVARIANTS
  ExitZeroHolds
  DoctorSound
  AloneSyncSettles
  BindingsResolve
CHECK_DEADLOCK FALSE
