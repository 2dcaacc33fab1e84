CONSTANTS
  s1 = s1  s2 = s2  ann = ann  p = p  q = q  garbage = garbage
  Sessions = {s1, s2}
  Accounts = {ann}
  Passwords = {p, q}
  AccountOf <- OneAccount
  Unreadable = garbage
  FailureLimit = 2
  InitialValues <- NewOrUnreadable
  MaxVersion = 2
  Faults = {"uncertain_write", "read_failure", "hash_failure", "restart"}
CHECK_DEADLOCK FALSE
SPECIFICATION FairSpec
INVARIANTS AccountIsStored UnlockIsEarned
PROPERTIES OverwriteKnowsOld DismissedStaysOut LockedEnds
