\* A client that is early, or slow to read, finds the pipe closed.  The same
\* instance refutes DeclinedIsFailure (a declined prompt passes for a change
\* that was made), OnlyNotRestored (a marker that could not be removed outlives
\* the service), OnlyProtectedRemembered (a process id is refused although the
\* service may touch the process) and ForgottenWhenGone (a service that goes
\* after the uninstall has given up on it stays remembered).
SPECIFICATION BridgeSpec
CONSTANTS
  a1 = a1
  a2 = a2
  p1 = p1
  p2 = p2
  Apps = {a1, a2}
  Idle = Idle
  Workloads <- MCWorkloads
  Admins = {a2}
  Pids = {p1, p2}
  RulesOn <- OneRule
  Rights <- MCRights
  NoPid = NoPid
  NoToken = NoToken
  OldToken = OldToken
  MaxOutstanding = 2
CHECK_DEADLOCK FALSE
INVARIANT
  NeverHungUp
