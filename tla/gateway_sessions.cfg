\* One account from one address, two requests in flight, two sessions in all.
CONSTANTS
  Users = {u1}
  Tokens = {t1, t2}
  Slots = {s1, s2}
  None = None
  LoginWindow = 2
  LoginLockout = 2
  LoginMaxFailures = 2
  IdleTtl = 2
  AbsoluteTtl = 3
  BumpGrace = 0
  MaxTime = 3
SPECIFICATION SessionSpec
INVARIANTS
  FailuresBounded
  AbsoluteCap
  IdleCap
  RetiredStaysRetired
SYMMETRY MCSymmetry
