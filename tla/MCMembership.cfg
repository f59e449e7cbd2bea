CONSTANTS
  u1 = u1 u2 = u2 s1 = s1 s2 = s2 s3 = s3 g1 = g1 g2 = g2 None = None
  Users = {u1}
  Groups = {g1, g2}
  Sessions = {s1, s2}
  UserOf <- MCTwoDevices
  MaxJobs = 2
  MaxMsgs = 1
  MaxErrs = 1
SPECIFICATION Spec
CHECK_DEADLOCK FALSE
INVARIANT OutsiderHasNoMail
INVARIANT MembershipTypeOK
INVARIANT ListsAgree
INVARIANT LoginReconciles
