SPECIFICATION Spec
CONSTANTS
  None = None
  Decisions <- SomeDecisions
  Findings <- SomeFindings
  Commands <- SomeCommands
  Pids <- SomePids
  Boot <- SomeBoot
  SelfPid = 5
  ParentPid = 6
  Programs = {"lsass.exe", "tool.exe"}
  Protected = {"lsass.exe"}
  Addresses = {"ip", "ip2"}
  Users = {"u"}
  Accounts = {"u"}
  MaxTasks = 2
  MaxTime = 3
  MaxCrashes = 1
INVARIANT GrantsAreComplete
PROPERTIES NoProtectedKill SuccessMeansDone ScheduledPrivilegesEnd
