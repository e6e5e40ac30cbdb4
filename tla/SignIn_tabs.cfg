SPECIFICATION Spec
CONSTANTS
  t1 = t1
  t2 = t2
  Tabs = {t1, t2}
  Users = {"ann", "bob", "cas"}
  Admins = {"bob"}
  Temporary = {"cas"}
  Slots = {1, 2}
  Forms <- MCForms
  IdleTimeout = 4
  AbsoluteTimeout = 5
  Lag = 1
  MaxTime = 5
  MaxSessions = 2
  MaxCalls = 3
INVARIANTS
  ActiveUserStaysSignedIn
  WritesActForTheUserShown
CHECK_DEADLOCK FALSE
