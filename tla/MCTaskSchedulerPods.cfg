SPECIFICATION FixedPathSpec
CONSTANTS
  p1 = p1  p2 = p2  report = report
  pid1 = pid1  pid2 = pid2
  Pods = {p1, p2}
  Tasks = {report}
  PidOf <- SamePid
  NoHolder = NoHolder
  NoPod = NoPod
  StartPaths = {"script", "group", "isolated"}
  UsesRedis = TRUE
  RedisFails = {TRUE, FALSE}
  TargetFound = {TRUE, FALSE}
  Prepared = {TRUE, FALSE}
  ScheduleBreaks = {TRUE, FALSE}
  SaveFails = {TRUE, FALSE}
  MayStop = {p1}
  RunNos = {1, 2}
  MaxUserOps = 2
  MaxCrashes = 1
INVARIANT TypeOK
INVARIANT SingleRun
INVARIANT MarkedWhileWorking
PROPERTY RecurringNotCompleted
PROPERTY OnlyUsersActivate
CHECK_DEADLOCK FALSE
